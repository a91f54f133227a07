---------------------------- MODULE ReportsProofs ----------------------------
(***************************************************************************)
(* What the two sides of a test print, for every bound on the blocks, the  *)
(* intervals and the retransmissions of a test, and every limit of the     *)
(* server's rate: the summaries agree, the sums of the same name are of    *)
(* the same direction, retransmissions are the sender's own, the interval  *)
(* reports add up, and the ring of the rate limit is a window of the last  *)
(* intervals.                                                              *)
(***************************************************************************)
EXTENDS Reports, SequenceTheorems, WellFoundedInduction, TLAPS

-----------------------------------------------------------------------------
(* The inductive invariant.  B(p) is one when p holds, as in C.            *)

B(p) == IF p THEN 1 ELSE 0

StreamType ==
    [bytes_sent : Nat, bytes_sent_omit : Nat, bytes_received : Nat,
     sent_this_interval : Nat, received_this_interval : Nat,
     stream_retrans : Int, stream_prev_total_retrans : Nat,
     packet_count : Nat, omitted_packet_count : Nat, cnt_error : Int, omitted_cnt_error : Int,
     peer_packet_count : Nat, peer_omitted_packet_count : Nat]

ResultType ==
    [bytes : Nat, retransmits : Int, errors : Int, omitted_errors : Int,
     packets : Nat, omitted_packets : Nat]

Phases == {"running", "interval", "last", "ended", "sent", "got", "printed", "stopped"}

TestInv == mode \in Modes /\ protocol \in Protocols

CountersInv ==
    /\ stream \in [Sides -> [Streams -> StreamType]]
    /\ worker \in [Sides -> [Streams -> 0 .. 2]]
    /\ taken \in [Sides -> [Streams -> Nat]]
    /\ intervals \in [Sides -> [Streams -> Nat]]
    /\ wire \in [Streams -> Seq(Nat)]
    /\ kernel \in [Streams -> [now : Nat, omitted : Nat]]

(* How far each side is, and what the other one can be doing meanwhile.    *)
PhaseInv ==
    /\ pc \in [Sides -> Phases]
    /\ omitting \in [Sides -> BOOLEAN]
    /\ pc["c"] # "stopped"
    /\ pc["s"] \in {"last", "ended", "got", "sent", "printed"} =>
            pc["c"] \in {"ended", "sent", "got", "printed"}
    /\ pc["s"] \in {"got", "sent", "printed"} => pc["c"] \in {"sent", "got", "printed"}
    /\ pc["c"] \in {"sent", "got", "printed"} => pc["s"] \in {"ended", "got", "sent", "printed"}
    /\ pc["c"] \in {"got", "printed"} => pc["s"] \in {"sent", "printed"}
    /\ pc["c"] = "printed" => pc["s"] = "printed"

Sent(side) == pc[side] \in IF side = "c" THEN {"sent", "got", "printed"} ELSE {"sent", "printed"}
Got(side) == pc[side] \in IF side = "c" THEN {"got", "printed"} ELSE {"got", "sent", "printed"}

(* The counters of a stream at its sender, unless the client has replaced  *)
(* them by the server's: the interval's bytes are among all of them, and   *)
(* the reported ones with them, but for the one block counted in one       *)
(* counter only when the omitted period ended.                             *)
SenderCounts(sp, w, tk, iv, om, p, most) ==
    /\ sp.bytes_sent + B(w = 1) <= most
    /\ sp.sent_this_interval + B(w = 2) <= sp.bytes_sent
    /\ sp.bytes_sent_omit <= sp.bytes_sent
    /\ om => iv = 0
    /\ ~om => iv + sp.sent_this_interval + B(w = 2) <= sp.bytes_sent - sp.bytes_sent_omit + 1
    /\ IF p \in {"interval", "last"} THEN tk <= sp.sent_this_interval ELSE tk = 0

Replaced(i) == protocol = "quic" /\ SenderOf(i) = "c" /\ Got("c")

SenderOK(i) ==
    LET s == SenderOf(i) IN
    /\ ~Replaced(i) =>
        SenderCounts(stream[s][i], worker[s][i], taken[s][i], intervals[s][i], omitting[s],
                     pc[s], MaxBlocks[mode])
    /\ s = "c" /\ pc["c"] \notin {"running", "interval"} => worker["c"][i] = 0

SenderInv == \A i \in Streams : SenderOK(i)

(* The counters of a stream at its receiver: with what is under way, no    *)
(* more than what the sender has written.                                  *)
ReceiverCounts(sp, w, tk, iv, om, p, under_way, written) ==
    /\ sp.bytes_received + under_way - B(w = 2) <= written
    /\ sp.received_this_interval + under_way <= written
    /\ w # 0 => under_way >= 1
    /\ om => iv = 0
    /\ ~om => iv + sp.received_this_interval + B(w = 2) <= sp.bytes_received + 1
    /\ IF p \in {"interval", "last"} THEN tk <= sp.received_this_interval ELSE tk = 0
    /\ sp.bytes_sent_omit = 0

WrittenOf(i) ==
    IF MaySend(i)
    THEN stream[SenderOf(i)][i].bytes_sent + B(worker[SenderOf(i)][i] = 1)
    ELSE MaxBlocks[mode]

ReceiverOK(i) ==
    LET r == Peer(SenderOf(i)) IN
    /\ ReceiverCounts(stream[r][i], worker[r][i], taken[r][i], intervals[r][i], omitting[r],
                      pc[r], Len(wire[i]), WrittenOf(i))
    /\ ~Got(r) => stream[r][i].bytes_sent = 0

ReceiverInv == \A i \in Streams : ReceiverOK(i)

(* What a side has sent is what it has, but for the last block of a worker *)
(* that is still counting.                                                 *)
SentBytes(sp) == sp.bytes_sent - sp.bytes_sent_omit

SentBySender(r, sp, w) ==
    /\ r.bytes <= SentBytes(sp) /\ SentBytes(sp) + B(w = 1) <= r.bytes + 1
    /\ r.packets = sp.packet_count /\ r.omitted_packets = sp.omitted_packet_count

SentByReceiver(r, sp, w) ==
    /\ r.bytes <= sp.bytes_received /\ sp.bytes_received + B(w = 1) <= r.bytes + 1
    /\ OneMore(r.packets, r.errors, sp.packet_count, sp.cnt_error)
    /\ w # 0 => sp.packet_count = r.packets /\ sp.cnt_error = r.errors
    /\ r.omitted_packets = sp.omitted_packet_count /\ r.omitted_errors = sp.omitted_cnt_error

ResultsInv ==
    /\ results = [side \in Sides |-> results[side]]
    /\ \A side \in Sides :
        IF ~Sent(side) THEN results[side] = NoResults
        ELSE /\ results[side] \in [sender_has_retransmits : {-1, 0, 1}, congestion_used : {side},
                                   streams : [Streams -> ResultType]]
             /\ \A i \in Streams : results[side].streams[i].bytes < SizeLimit

SentOK(side, i) ==
    protocol # "quic" /\ Sent(side) =>
        IF Sends(side, i)
        THEN SentBySender(results[side].streams[i], stream[side][i], worker[side][i])
        ELSE SentByReceiver(results[side].streams[i], stream[side][i], worker[side][i])

SentInv == \A side \in Sides, i \in Streams : SentOK(side, i)

(* What a side has taken over is what its peer has sent.                   *)
TakenBySender(r, sp) ==
    /\ sp.bytes_received = r.bytes
    /\ sp.cnt_error = r.errors /\ sp.omitted_cnt_error = r.omitted_errors
    /\ sp.peer_packet_count = r.packets /\ sp.peer_omitted_packet_count = r.omitted_packets

TakenByReceiver(r, sp) ==
    /\ sp.bytes_sent = r.bytes
    /\ sp.stream_retrans = r.retransmits
    /\ sp.peer_packet_count = r.packets /\ sp.peer_omitted_packet_count = r.omitted_packets

GotInv ==
    \A side \in Sides : Got(side) =>
        /\ congestion[side] = Peer(side)
        /\ \A i \in Streams :
            IF Sends(side, i) THEN TakenBySender(results[Peer(side)].streams[i], stream[side][i])
            ELSE TakenByReceiver(results[Peer(side)].streams[i], stream[side][i])

(* Retransmissions: the system of a sender counts them over TCP, or not at *)
(* all, and its peer comes to know which.                                  *)
FlagsInv ==
    /\ has \in [Sides -> {-1, 0, 1}] /\ other \in [Sides -> {-1, 0, 1}]
    /\ congestion = [side \in Sides |-> congestion[side]]
    /\ \A side \in Sides :
        /\ ModeOf(side) # "RECEIVER" => has[side] \in {0, 1} /\ (protocol # "tcp" => has[side] = 0)
        /\ ModeOf(side) = "RECEIVER" /\ Got(side) => has[side] = has[Peer(side)]
        /\ ModeOf(side) = "BIDIRECTIONAL" /\ Got(side) => other[side] = has[Peer(side)]
        /\ ModeOf(side) # "RECEIVER" /\ Sent(side) =>
                results[side].sender_has_retransmits = has[side]

RetransInv ==
    \A i \in Streams : LET s == SenderOf(i) IN
        has[s] = 1 =>
            /\ stream[s][i].stream_retrans = stream[s][i].stream_prev_total_retrans - kernel[i].omitted
            /\ Sent(s) => results[s].streams[i].retransmits = stream[s][i].stream_retrans

(* What is printed of a stream, against the results of its two sides.      *)
PrintedBySender(p, mine, theirs) ==
    /\ p.sent \in mine.bytes .. mine.bytes + 1
    /\ p.received = theirs.bytes
    /\ p.sender_packets = mine.packets - mine.omitted_packets
    /\ p.receiver_packets = theirs.packets - theirs.omitted_packets
    /\ p.lost = theirs.errors - theirs.omitted_errors

PrintedByReceiver(p, mine, theirs) ==
    /\ p.sent = theirs.bytes
    /\ p.received \in mine.bytes .. mine.bytes + 1
    /\ p.sender_packets = theirs.packets - theirs.omitted_packets
    /\ OneMore(mine.packets - mine.omitted_packets, mine.errors - mine.omitted_errors,
               p.receiver_packets, p.lost)

PrintedStream(side, i) == printed[side].streams[i]

PrintedInv ==
    \A side \in Sides, i \in Streams :
        pc[side] = "printed" /\ protocol # "quic" =>
            IF Sends(side, i)
            THEN PrintedBySender(PrintedStream(side, i), results[side].streams[i],
                                 results[Peer(side)].streams[i])
            ELSE PrintedByReceiver(PrintedStream(side, i), results[side].streams[i],
                                   results[Peer(side)].streams[i])

ShownInv ==
    \A side \in Sides, i \in Streams :
        pc[side] = "printed" =>
            PrintedStream(side, i).retransmits =
                IF has[SenderOf(i)] = 1 THEN stream[SenderOf(i)][i].stream_retrans ELSE -1

(* The stream that a sum is about, and the sender of the last round.       *)
SumNames == IF mode = "BIDIRECTIONAL" THEN {"sum", "sum_bidir_reverse"} ELSE {"sum"}
StreamOf(n) ==
    IF mode = "RECEIVER" \/ n = "sum_bidir_reverse" THEN "rev" ELSE "fwd"

SumsInv ==
    /\ printed = [side \in Sides |-> printed[side]]
    /\ \A side \in Sides : pc[side] = "printed" =>
        /\ DOMAIN printed[side].sums = SumNames
        /\ \A n \in SumNames : printed[side].sums[n] = printed[side].streams[StreamOf(n)]
        /\ printed[side].sender_tcp_congestion = IF mode = "SENDER" THEN "c" ELSE "s"

(* The ring holds the traffic of the last intervals, the latest at index.  *)
Slot(k) ==
    LET at == IF k <= ring.index THEN Len(history) - (ring.index - k)
              ELSE Len(history) - (ring.index + RateWindow - k)
    IN  IF at >= 1 THEN history[at] ELSE 0

Window == [j \in 0 .. RateWindow - 1 |->
                IF Len(history) - j >= 1 THEN history[Len(history) - j] ELSE 0]

RingInv ==
    /\ history \in Seq(Nat)
    /\ ring \in [index : 0 .. RateWindow - 1, count : Nat,
                 traffic : [0 .. RateWindow - 1 -> Nat], exceeded : BOOLEAN]
    /\ RateLimit = 0 => ~ring.exceeded
    /\ RateLimit # 0 =>
        /\ ring.count = Len(history)
        /\ \A k \in 0 .. RateWindow - 1 : ring.traffic[k] = Slot(k)
        /\ ring.exceeded <=> (Len(history) >= RateWindow /\ Summed(Window) > RateLimit)
    /\ ring.exceeded <=> pc["s"] = "stopped"

Inv ==
    /\ TestInv /\ CountersInv /\ PhaseInv /\ SenderInv /\ ReceiverInv
    /\ ResultsInv /\ SentInv /\ GotInv /\ FlagsInv /\ RetransInv
    /\ PrintedInv /\ ShownInv /\ SumsInv /\ RingInv

-----------------------------------------------------------------------------
(* Streams, and functions of a side and a stream.                          *)

LEMMA StreamsKnown ==
    ASSUME TestInv
    PROVE  /\ mode \in {"SENDER", "RECEIVER", "BIDIRECTIONAL"}
           /\ Streams = IF mode = "SENDER" THEN {"fwd"}
                        ELSE IF mode = "RECEIVER" THEN {"rev"} ELSE {"fwd", "rev"}
           /\ MaxBlocks[mode] \in Nat /\ MaxBlocks[mode] < SizeLimit
BY ReportsAssumption DEF TestInv, Streams

LEMMA SidesKnown ==
    /\ \A side \in Sides : Peer(side) \in Sides /\ Peer(side) # side /\ Peer(Peer(side)) = side
    /\ \A i : SenderOf(i) \in Sides
    /\ \A i, side : Sends(side, i) <=> side = SenderOf(i)
    /\ \A i : \A side \in Sides : ~Sends(side, i) <=> side = Peer(SenderOf(i))
    /\ \A side \in Sides : side = "c" \/ side = "s"
BY DEF Sides, Peer, SenderOf, Sends

LEMMA SameTest ==
    ASSUME UNCHANGED test
    PROVE  /\ mode' = mode /\ protocol' = protocol /\ omit' = omit
           /\ Streams' = Streams
           /\ \A side : ModeOf(side)' = ModeOf(side)
BY DEF test, Streams, ModeOf

(* Sizes below the limit do not wrap around.                               *)
LEMMA NoWrap ==
    ASSUME NEW n \in Nat, n < SizeLimit
    PROVE  n % SizeLimit = n
<1>1. SizeLimit \in Nat \ {0}
  BY ReportsAssumption
<1>. QED
  BY <1>1

-----------------------------------------------------------------------------
(* The initial states.                                                     *)

LEMMA NewStreamType == NewStream \in StreamType
BY DEF NewStream, StreamType

LEMMA InitCounters ==
    ASSUME Init
    PROVE  TestInv /\ CountersInv /\ PhaseInv
<1>1. TestInv
  BY DEF Init, TestInv
<1>2. stream \in [Sides -> [Streams -> StreamType]]
  BY NewStreamType DEF Init
<1>3. worker \in [Sides -> [Streams -> 0 .. 2]] /\ taken \in [Sides -> [Streams -> Nat]]
      /\ intervals \in [Sides -> [Streams -> Nat]]
  BY DEF Init
<1>4. wire \in [Streams -> Seq(Nat)]
  BY DEF Init
<1>5. kernel \in [Streams -> [now : Nat, omitted : Nat]]
  BY DEF Init
<1>6. PhaseInv
  BY DEF Init, PhaseInv, Phases, Sides
<1>. QED
  BY <1>1, <1>2, <1>3, <1>4, <1>5, <1>6 DEF CountersInv

LEMMA InitSides ==
    ASSUME Init
    PROVE  /\ \A side \in Sides : ~Sent(side) /\ ~Got(side) /\ pc[side] = "running"
           /\ \A side \in Sides, i \in Streams :
                /\ stream[side][i] = NewStream /\ worker[side][i] = 0 /\ taken[side][i] = 0
                /\ intervals[side][i] = 0
           /\ \A i \in Streams : Len(wire[i]) = 0 /\ kernel[i].omitted = 0
BY DEF Init, Sent, Got, Sides

LEMMA InitCounts ==
    ASSUME Init
    PROVE  SenderInv /\ ReceiverInv
<1>1. TestInv
  BY InitCounters
<1>2. ASSUME NEW i \in Streams
      PROVE  SenderCounts(stream[SenderOf(i)][i], worker[SenderOf(i)][i], taken[SenderOf(i)][i],
                          intervals[SenderOf(i)][i], omitting[SenderOf(i)], pc[SenderOf(i)],
                          MaxBlocks[mode])
  BY <1>1, InitSides, SidesKnown, StreamsKnown DEF SenderCounts, B, NewStream
<1>3. ASSUME NEW i \in Streams
      PROVE  /\ ReceiverCounts(stream[Peer(SenderOf(i))][i], worker[Peer(SenderOf(i))][i],
                          taken[Peer(SenderOf(i))][i],
                          intervals[Peer(SenderOf(i))][i], omitting[Peer(SenderOf(i))],
                          pc[Peer(SenderOf(i))], Len(wire[i]), WrittenOf(i))
             /\ stream[Peer(SenderOf(i))][i].bytes_sent = 0
  <2>1. WrittenOf(i) \in Nat
    BY <1>1, InitSides, SidesKnown, StreamsKnown DEF WrittenOf, B, NewStream
  <2>2. Peer(SenderOf(i)) \in Sides
    BY SidesKnown
  <2>3. /\ stream[Peer(SenderOf(i))][i] = NewStream /\ worker[Peer(SenderOf(i))][i] = 0
        /\ taken[Peer(SenderOf(i))][i] = 0 /\ intervals[Peer(SenderOf(i))][i] = 0
        /\ pc[Peer(SenderOf(i))] = "running" /\ Len(wire[i]) = 0
    BY <2>2, InitSides
  <2>. QED
    BY <2>1, <2>3 DEF ReceiverCounts, B, NewStream
<1>4. SenderInv
  BY <1>2, InitSides, SidesKnown DEF SenderInv, SenderOK
<1>. QED
  BY <1>3, <1>4 DEF ReceiverInv, ReceiverOK

LEMMA InitExchange ==
    ASSUME Init
    PROVE  /\ ResultsInv /\ SentInv /\ GotInv /\ FlagsInv /\ RetransInv
           /\ PrintedInv /\ ShownInv /\ SumsInv
<1>1. ResultsInv
  BY InitSides DEF ResultsInv, Init
<1>2. SentInv /\ GotInv /\ PrintedInv /\ ShownInv
  BY InitSides DEF SentInv, SentOK, GotInv, PrintedInv, ShownInv
<1>2a. SumsInv
  BY InitSides DEF SumsInv, Init
<1>3. FlagsInv
  BY InitSides DEF FlagsInv, Init, HasRetransmits
<1>4. RetransInv
  BY InitSides, SidesKnown DEF RetransInv, NewStream
<1>. QED
  BY <1>1, <1>2, <1>2a, <1>3, <1>4

-----------------------------------------------------------------------------
(* The steps of the workers, of the network and of the kernel.  They leave *)
(* alone what the main thread keeps, and of a stream what the worker of    *)
(* that side does not count.                                               *)

WorkerFrame ==
    UNCHANGED <<test, pc, has, other, congestion, omitting, taken, results, intervals,
                ring, history, printed>>

LEMMA WorkerFrameKeeps ==
    ASSUME Inv, WorkerFrame
    PROVE  /\ TestInv' /\ PhaseInv' /\ ResultsInv' /\ FlagsInv' /\ PrintedInv' /\ SumsInv'
           /\ RingInv'
<1>1. /\ pc' = pc /\ has' = has /\ other' = other /\ results' = results /\ ring' = ring
      /\ history' = history /\ printed' = printed /\ omitting' = omitting /\ UNCHANGED test
      /\ congestion' = congestion
  BY DEF WorkerFrame
<1>2. mode' = mode /\ protocol' = protocol /\ Streams' = Streams
  BY <1>1, SameTest
<1>2a. \A side : ModeOf(side)' = ModeOf(side)
  BY <1>1, SameTest
<1>3. TestInv' /\ PhaseInv'
  BY <1>1, <1>2 DEF Inv, TestInv, PhaseInv
<1>4. ResultsInv'
  BY <1>1, <1>2 DEF Inv, ResultsInv, Sent
<1>5. FlagsInv'
  BY <1>1, <1>2, <1>2a DEF Inv, FlagsInv, Sent, Got, Peer
<1>6. PrintedInv'
  BY <1>1, <1>2 DEF Inv, PrintedInv, PrintedStream, Sends, SenderOf, Peer
<1>7. SumsInv'
  BY <1>1, <1>2 DEF Inv, SumsInv, SumNames, StreamOf
<1>8. RingInv'
  BY <1>1 DEF Inv, RingInv, Slot, Window, Summed, PartialSums
<1>. QED
  BY <1>3, <1>4, <1>5, <1>6, <1>7, <1>8

(* What a sending, or a receiving, worker may change of a stream.          *)
SenderMoved(a, b) ==
    /\ b.bytes_sent_omit = a.bytes_sent_omit /\ b.bytes_received = a.bytes_received
    /\ b.stream_retrans = a.stream_retrans
    /\ b.stream_prev_total_retrans = a.stream_prev_total_retrans
    /\ b.omitted_packet_count = a.omitted_packet_count
    /\ b.cnt_error = a.cnt_error /\ b.omitted_cnt_error = a.omitted_cnt_error
    /\ b.peer_packet_count = a.peer_packet_count
    /\ b.peer_omitted_packet_count = a.peer_omitted_packet_count

ReceiverMoved(a, b) ==
    /\ b.bytes_sent = a.bytes_sent /\ b.bytes_sent_omit = a.bytes_sent_omit
    /\ b.stream_retrans = a.stream_retrans
    /\ b.omitted_packet_count = a.omitted_packet_count
    /\ b.omitted_cnt_error = a.omitted_cnt_error
    /\ b.peer_packet_count = a.peer_packet_count
    /\ b.peer_omitted_packet_count = a.peer_omitted_packet_count

Moved ==
    \A i \in Streams :
        /\ SenderMoved(stream[SenderOf(i)][i], stream'[SenderOf(i)][i])
        /\ ReceiverMoved(stream[Peer(SenderOf(i))][i], stream'[Peer(SenderOf(i))][i])

SameOmitted == \A i \in Streams : kernel'[i].omitted = kernel[i].omitted

LEMMA MovedKeeps ==
    ASSUME Inv, WorkerFrame, Moved, SameOmitted
    PROVE  GotInv' /\ RetransInv' /\ ShownInv'
<1>1. /\ pc' = pc /\ results' = results /\ congestion' = congestion /\ printed' = printed
      /\ has' = has /\ UNCHANGED test
  BY DEF WorkerFrame
<1>2. mode' = mode /\ protocol' = protocol /\ Streams' = Streams
  BY <1>1, SameTest
<1>3. GotInv'
  <2>1. SUFFICES ASSUME NEW side \in Sides, Got(side)'
                 PROVE  /\ congestion'[side] = Peer(side)
                        /\ \A i \in Streams :
                            IF Sends(side, i)
                            THEN TakenBySender(results[Peer(side)].streams[i], stream'[side][i])
                            ELSE TakenByReceiver(results[Peer(side)].streams[i], stream'[side][i])
    BY <1>1, <1>2 DEF GotInv, Got, TakenBySender, TakenByReceiver, Sends, Peer, SenderOf
  <2>2. Got(side)
    BY <1>1, <2>1 DEF Got
  <2>3. /\ congestion[side] = Peer(side)
        /\ \A i \in Streams :
            IF Sends(side, i)
            THEN TakenBySender(results[Peer(side)].streams[i], stream[side][i])
            ELSE TakenByReceiver(results[Peer(side)].streams[i], stream[side][i])
    BY <2>2 DEF Inv, GotInv
  <2>4. ASSUME NEW i \in Streams, Sends(side, i)
        PROVE  TakenBySender(results[Peer(side)].streams[i], stream'[side][i])
    BY <2>3, <2>4, SidesKnown DEF Moved, SenderMoved, TakenBySender
  <2>5. ASSUME NEW i \in Streams, ~Sends(side, i)
        PROVE  TakenByReceiver(results[Peer(side)].streams[i], stream'[side][i])
    BY <2>3, <2>5, SidesKnown DEF Moved, ReceiverMoved, TakenByReceiver
  <2>. QED
    BY <1>1, <2>3, <2>4, <2>5
<1>4. RetransInv'
  BY <1>1, <1>2 DEF Inv, RetransInv, Moved, SenderMoved, SameOmitted, Sent, SenderOf
<1>5. ShownInv'
  BY <1>1, <1>2 DEF Inv, ShownInv, Moved, SenderMoved, PrintedStream, SenderOf
<1>. QED
  BY <1>3, <1>4, <1>5

(* A stream that a step leaves alone, at its sender and at its receiver.   *)
SameAt(side, j) == stream'[side][j] = stream[side][j] /\ worker'[side][j] = worker[side][j]

LEMMA SameSender ==
    ASSUME WorkerFrame, NEW j \in Streams, SameAt(SenderOf(j), j), SenderOK(j)
    PROVE  SenderOK(j)'
<1>1. pc' = pc /\ omitting' = omitting /\ taken' = taken /\ intervals' = intervals /\ UNCHANGED test
  BY DEF WorkerFrame
<1>2. mode' = mode /\ protocol' = protocol
  BY <1>1, SameTest
<1>. QED
  BY <1>1, <1>2 DEF SameAt, SenderOK, Replaced, Got, SenderOf

LEMMA SameReceiver ==
    ASSUME WorkerFrame, NEW j \in Streams, SameAt(SenderOf(j), j), SameAt(Peer(SenderOf(j)), j),
           wire'[j] = wire[j], ReceiverOK(j)
    PROVE  ReceiverOK(j)'
<1>1. pc' = pc /\ omitting' = omitting /\ taken' = taken /\ intervals' = intervals /\ UNCHANGED test
  BY DEF WorkerFrame
<1>2. mode' = mode /\ protocol' = protocol
  BY <1>1, SameTest
<1>3. WrittenOf(j)' = WrittenOf(j)
  BY <1>1, <1>2 DEF SameAt, WrittenOf, MaySend, SenderOf, B
<1>. QED
  BY <1>1, <1>2, <1>3 DEF SameAt, ReceiverOK, Got, SenderOf, Peer

LEMMA SameSent ==
    ASSUME WorkerFrame, NEW side \in Sides, NEW j \in Streams, SameAt(side, j), SentOK(side, j)
    PROVE  SentOK(side, j)'
<1>1. pc' = pc /\ results' = results /\ UNCHANGED test
  BY DEF WorkerFrame
<1>2. mode' = mode /\ protocol' = protocol
  BY <1>1, SameTest
<1>. QED
  BY <1>1, <1>2 DEF SameAt, SentOK, Sent, Sends, SenderOf

(* A step that changes stream i at one side only, and its blocks under way. *)
Touches(side, i) ==
    /\ WorkerFrame
    /\ CountersInv'
    /\ \A sd \in Sides, j \in Streams : sd # side \/ j # i => SameAt(sd, j)
    /\ \A j \in Streams : j # i => wire'[j] = wire[j]
    /\ SameOmitted

Becomes(side, i, sp, w, q) ==
    stream'[side][i] = sp /\ worker'[side][i] = w /\ wire'[i] = q

LEMMA Unchanged ==
    ASSUME CountersInv, NEW side \in Sides, NEW i \in Streams
    PROVE  /\ stream = WithStream(side, i, stream[side][i])
           /\ worker = WithWorker(side, i, worker[side][i])
           /\ wire = [wire EXCEPT ![i] = wire[i]]
<1>1. stream = WithStream(side, i, stream[side][i])
  BY DEF CountersInv, WithStream
<1>2. worker = WithWorker(side, i, worker[side][i])
  BY DEF CountersInv, WithWorker
<1>. QED
  BY <1>1, <1>2 DEF CountersInv

LEMMA Touching ==
    ASSUME CountersInv, WorkerFrame, NEW side \in Sides, NEW i \in Streams,
           NEW sp \in StreamType, NEW w \in 0 .. 2, NEW q \in Seq(Nat),
           stream' = WithStream(side, i, sp), worker' = WithWorker(side, i, w),
           wire' = [wire EXCEPT ![i] = q], kernel' = kernel
    PROVE  Touches(side, i) /\ Becomes(side, i, sp, w, q)
<1>1. UNCHANGED test /\ taken' = taken /\ intervals' = intervals
  BY DEF WorkerFrame
<1>2. Streams' = Streams
  BY <1>1, SameTest
<1>3. /\ stream' \in [Sides -> [Streams -> StreamType]]
      /\ \A sd \in Sides, j \in Streams :
            stream'[sd][j] = IF sd = side /\ j = i THEN sp ELSE stream[sd][j]
  <2>1. stream \in [Sides -> [Streams -> StreamType]]
    BY DEF CountersInv
  <2>2. stream' = [stream EXCEPT ![side] = [stream[side] EXCEPT ![i] = sp]]
    BY DEF WithStream
  <2>. QED
    BY <2>1, <2>2
<1>4. /\ worker' \in [Sides -> [Streams -> 0 .. 2]]
      /\ \A sd \in Sides, j \in Streams :
            worker'[sd][j] = IF sd = side /\ j = i THEN w ELSE worker[sd][j]
  <2>1. worker \in [Sides -> [Streams -> 0 .. 2]]
    BY DEF CountersInv
  <2>2. worker' = [worker EXCEPT ![side] = [worker[side] EXCEPT ![i] = w]]
    BY DEF WithWorker
  <2>. QED
    BY <2>1, <2>2
<1>5. wire' \in [Streams -> Seq(Nat)] /\ wire'[i] = q /\ \A j \in Streams : j # i => wire'[j] = wire[j]
  BY DEF CountersInv
<1>6. CountersInv'
  BY <1>1, <1>2, <1>3, <1>4, <1>5 DEF CountersInv
<1>7. Becomes(side, i, sp, w, q)
  BY <1>3, <1>4, <1>5 DEF Becomes
<1>. QED
  BY <1>3, <1>4, <1>5, <1>6, <1>7 DEF Touches, SameAt, SameOmitted

(* Such a step preserves the invariant if it does so for that stream.      *)
MovedAt(side, i) ==
    IF Sends(side, i) THEN SenderMoved(stream[side][i], stream'[side][i])
    ELSE ReceiverMoved(stream[side][i], stream'[side][i])

LEMMA TouchingPreserves ==
    ASSUME Inv, NEW side \in Sides, NEW i \in Streams, Touches(side, i), MovedAt(side, i),
           SenderOK(i)', ReceiverOK(i)', SentOK(side, i)'
    PROVE  Inv'
<1>1. WorkerFrame /\ CountersInv' /\ SameOmitted
  BY DEF Touches
<1>2. Streams' = Streams
  BY <1>1, SameTest DEF WorkerFrame
<1>3. ASSUME NEW sd \in Sides, NEW j \in Streams, sd # side \/ j # i
      PROVE  SameAt(sd, j)
  BY <1>3 DEF Touches
<1>4. Moved
  <2>1. ASSUME NEW j \in Streams
        PROVE  SenderMoved(stream[SenderOf(j)][j], stream'[SenderOf(j)][j])
    <3>1. CASE side = SenderOf(j) /\ j = i
      BY <3>1, SidesKnown DEF MovedAt
    <3>2. CASE ~(side = SenderOf(j) /\ j = i)
      BY <1>3, <3>2, SidesKnown DEF SenderMoved, SameAt
    <3>. QED
      BY <3>1, <3>2
  <2>2. ASSUME NEW j \in Streams
        PROVE  ReceiverMoved(stream[Peer(SenderOf(j))][j], stream'[Peer(SenderOf(j))][j])
    <3>1. CASE side = Peer(SenderOf(j)) /\ j = i
      BY <3>1, SidesKnown DEF MovedAt
    <3>2. CASE ~(side = Peer(SenderOf(j)) /\ j = i)
      BY <1>3, <3>2, SidesKnown DEF ReceiverMoved, SameAt
    <3>. QED
      BY <3>1, <3>2
  <2>. QED
    BY <2>1, <2>2 DEF Moved
<1>5. SenderInv'
  <2>1. ASSUME NEW j \in Streams, j # i
        PROVE  SenderOK(j)'
    <3>1. SameAt(SenderOf(j), j) /\ SenderOK(j)
      BY <1>3, <2>1, SidesKnown DEF Inv, SenderInv
    <3>. QED
      BY <1>1, <3>1, SameSender
  <2>. QED
    BY <1>2, <2>1 DEF SenderInv
<1>6. ReceiverInv'
  <2>1. ASSUME NEW j \in Streams, j # i
        PROVE  ReceiverOK(j)'
    <3>1. SameAt(SenderOf(j), j) /\ SameAt(Peer(SenderOf(j)), j) /\ ReceiverOK(j)
      BY <1>3, <2>1, SidesKnown DEF Inv, ReceiverInv
    <3>2. wire'[j] = wire[j]
      BY <2>1 DEF Touches
    <3>. QED
      BY <1>1, <3>1, <3>2, SameReceiver
  <2>. QED
    BY <1>2, <2>1 DEF ReceiverInv
<1>7. SentInv'
  <2>1. ASSUME NEW sd \in Sides, NEW j \in Streams, sd # side \/ j # i
        PROVE  SentOK(sd, j)'
    <3>1. SameAt(sd, j) /\ SentOK(sd, j)
      BY <1>3, <2>1 DEF Inv, SentInv
    <3>. QED
      BY <1>1, <3>1, SameSent
  <2>. QED
    BY <1>2, <2>1 DEF SentInv
<1>8. /\ TestInv' /\ PhaseInv' /\ ResultsInv' /\ FlagsInv' /\ PrintedInv' /\ SumsInv' /\ RingInv'
  BY <1>1, WorkerFrameKeeps
<1>9. GotInv' /\ RetransInv' /\ ShownInv'
  BY <1>1, <1>4, MovedKeeps
<1>. QED
  BY <1>1, <1>5, <1>6, <1>7, <1>8, <1>9 DEF Inv

(* What the invariant says of stream i, at its sender and its receiver.    *)
LEMMA TypesAt ==
    ASSUME Inv, NEW side \in Sides, NEW i \in Streams
    PROVE  /\ stream[side][i] \in StreamType /\ worker[side][i] \in 0 .. 2
           /\ wire[i] \in Seq(Nat) /\ Len(wire[i]) \in Nat
           /\ taken[side][i] \in Nat /\ intervals[side][i] \in Nat /\ omitting[side] \in BOOLEAN
           /\ pc[side] \in Phases
BY DEF Inv, CountersInv, PhaseInv

LEMMA FrameAt ==
    ASSUME WorkerFrame
    PROVE  /\ pc' = pc /\ taken' = taken /\ intervals' = intervals /\ omitting' = omitting
           /\ results' = results /\ mode' = mode /\ protocol' = protocol /\ Streams' = Streams
BY SameTest DEF WorkerFrame

(* How the counters of one stream move, at its sender ...                  *)
LEMMA SenderWrites ==
    ASSUME NEW a \in StreamType, NEW b \in StreamType, NEW tk \in Nat, NEW iv \in Nat, NEW om, NEW p,
           NEW most \in Nat, SenderCounts(a, 0, tk, iv, om, p, most), a.bytes_sent + 1 <= most,
           b.bytes_sent = a.bytes_sent, b.sent_this_interval = a.sent_this_interval,
           b.bytes_sent_omit = a.bytes_sent_omit
    PROVE  SenderCounts(b, 1, tk, iv, om, p, most)
BY DEF SenderCounts, B, StreamType

LEMMA SenderCountsTotal ==
    ASSUME NEW a \in StreamType, NEW b \in StreamType, NEW tk \in Nat, NEW iv \in Nat, NEW om, NEW p,
           NEW most \in Nat, SenderCounts(a, 1, tk, iv, om, p, most),
           b.bytes_sent = a.bytes_sent + 1, b.sent_this_interval = a.sent_this_interval,
           b.bytes_sent_omit = a.bytes_sent_omit
    PROVE  SenderCounts(b, 2, tk, iv, om, p, most)
BY DEF SenderCounts, B, StreamType

LEMMA SenderCountsInterval ==
    ASSUME NEW a \in StreamType, NEW b \in StreamType, NEW tk \in Nat, NEW iv \in Nat, NEW om, NEW p,
           NEW most \in Nat, SenderCounts(a, 2, tk, iv, om, p, most),
           b.bytes_sent = a.bytes_sent, b.sent_this_interval = a.sent_this_interval + 1,
           b.bytes_sent_omit = a.bytes_sent_omit
    PROVE  SenderCounts(b, 0, tk, iv, om, p, most)
BY DEF SenderCounts, B, StreamType

(* ... and at its receiver: while the sender goes on, when a block is      *)
(* taken from the network, counted in the total, counted in the interval.  *)
LEMMA MoreUnderWay ==
    ASSUME NEW a \in StreamType, NEW w \in 0 .. 2, NEW tk \in Nat, NEW iv \in Nat, NEW om, NEW p,
           NEW u \in Nat, NEW c \in Nat, NEW u1 \in Nat, NEW c1 \in Nat,
           ReceiverCounts(a, w, tk, iv, om, p, u, c), u1 >= u, c1 - u1 >= c - u
    PROVE  ReceiverCounts(a, w, tk, iv, om, p, u1, c1)
BY DEF ReceiverCounts, B, StreamType

LEMMA LessUnderWay ==
    ASSUME NEW a \in StreamType, NEW tk \in Nat, NEW iv \in Nat, NEW om, NEW p,
           NEW u \in Nat, NEW c \in Nat, NEW u1 \in Nat,
           ReceiverCounts(a, 0, tk, iv, om, p, u, c), u1 <= u
    PROVE  ReceiverCounts(a, 0, tk, iv, om, p, u1, c)
BY DEF ReceiverCounts, B, StreamType

LEMMA ReceiverTakes ==
    ASSUME NEW a \in StreamType, NEW tk \in Nat, NEW iv \in Nat, NEW om, NEW p,
           NEW u \in Nat, NEW c \in Nat, ReceiverCounts(a, 0, tk, iv, om, p, u, c), u >= 1
    PROVE  ReceiverCounts(a, 1, tk, iv, om, p, u, c)
BY DEF ReceiverCounts, B, StreamType

LEMMA ReceiverCountsTotal ==
    ASSUME NEW a \in StreamType, NEW b \in StreamType, NEW tk \in Nat, NEW iv \in Nat, NEW om, NEW p,
           NEW u \in Nat, NEW c \in Nat, ReceiverCounts(a, 1, tk, iv, om, p, u, c),
           b.bytes_received = a.bytes_received + 1,
           b.received_this_interval = a.received_this_interval,
           b.bytes_sent_omit = a.bytes_sent_omit
    PROVE  ReceiverCounts(b, 2, tk, iv, om, p, u, c)
BY DEF ReceiverCounts, B, StreamType

LEMMA ReceiverCountsInterval ==
    ASSUME NEW a \in StreamType, NEW b \in StreamType, NEW tk \in Nat, NEW iv \in Nat, NEW om, NEW p,
           NEW u \in Nat, NEW c \in Nat, ReceiverCounts(a, 2, tk, iv, om, p, u, c),
           b.bytes_received = a.bytes_received,
           b.received_this_interval = a.received_this_interval + 1,
           b.bytes_sent_omit = a.bytes_sent_omit
    PROVE  ReceiverCounts(b, 0, tk, iv, om, p, u - 1, c)
BY DEF ReceiverCounts, B, StreamType

(* The sender's bound on what can be under way or received.                *)
LEMMA WrittenBound ==
    ASSUME Inv, NEW i \in Streams
    PROVE  WrittenOf(i) \in Nat /\ WrittenOf(i) <= MaxBlocks[mode]
<1>1. stream[SenderOf(i)][i] \in StreamType
  BY TypesAt, SidesKnown
<1>2. MaxBlocks[mode] \in Nat
  BY StreamsKnown DEF Inv
<1>3. CASE MaySend(i)
  <2>1. ~Replaced(i)
    BY <1>3 DEF MaySend, Replaced, Got
  <2>2. SenderCounts(stream[SenderOf(i)][i], worker[SenderOf(i)][i], taken[SenderOf(i)][i],
                     intervals[SenderOf(i)][i], omitting[SenderOf(i)], pc[SenderOf(i)],
                     MaxBlocks[mode])
    BY <2>1 DEF Inv, SenderInv, SenderOK
  <2>3. stream[SenderOf(i)][i].bytes_sent \in Nat
    BY <1>1 DEF StreamType
  <2>. QED
    BY <1>2, <1>3, <2>2, <2>3 DEF SenderCounts, WrittenOf, B
<1>4. CASE ~MaySend(i)
  BY <1>2, <1>4 DEF WrittenOf
<1>. QED
  BY <1>3, <1>4

-----------------------------------------------------------------------------
(* Write: the sender's counters do not move yet, the block is under way.   *)

LEMMA FieldTypes ==
    ASSUME NEW a \in StreamType, NEW n \in Nat
    PROVE  /\ [a EXCEPT !.packet_count = n] \in StreamType
           /\ [a EXCEPT !.bytes_sent = n] \in StreamType
           /\ [a EXCEPT !.sent_this_interval = n] \in StreamType
           /\ [a EXCEPT !.bytes_received = n] \in StreamType
           /\ [a EXCEPT !.received_this_interval = n] \in StreamType
<1>1. [a EXCEPT !.packet_count = n] \in StreamType
  BY DEF StreamType
<1>2. [a EXCEPT !.bytes_sent = n] \in StreamType
  BY DEF StreamType
<1>3. [a EXCEPT !.sent_this_interval = n] \in StreamType
  BY DEF StreamType
<1>4. [a EXCEPT !.bytes_received = n] \in StreamType
  BY DEF StreamType
<1>5. [a EXCEPT !.received_this_interval = n] \in StreamType
  BY DEF StreamType
<1>. QED
  BY <1>1, <1>2, <1>3, <1>4, <1>5

LEMMA WriteBounded ==
    ASSUME Inv, NEW i \in Streams, Written < MaxBlocks[mode], worker[SenderOf(i)][i] = 0
    PROVE  stream[SenderOf(i)][i].bytes_sent + 1 <= MaxBlocks[mode]
<1>1. ASSUME NEW j \in Streams
      PROVE  stream[SenderOf(j)][j].bytes_sent \in Nat
  <2>1. stream[SenderOf(j)][j] \in StreamType
    BY TypesAt, SidesKnown
  <2>. QED
    BY <2>1 DEF StreamType
<1>2. i \in {"fwd", "rev"} /\ MaxBlocks[mode] \in Nat
  BY StreamsKnown DEF Inv
<1>. QED
  BY <1>1, <1>2 DEF Written

LEMMA WritePreserves ==
    ASSUME Inv, NEW i \in Streams, Write(i)
    PROVE  Inv'
<1> DEFINE S == SenderOf(i)
           R == Peer(SenderOf(i))
           sp == stream[S][i]
           new == IF protocol = "udp" THEN [sp EXCEPT !.packet_count = @ + 1] ELSE sp
           sent == Append(wire[i], sp.bytes_sent + 1)
<1>1. S \in Sides /\ R \in Sides /\ S # R /\ Sends(S, i)
  BY SidesKnown
<1>2. /\ sp \in StreamType /\ stream[R][i] \in StreamType /\ worker[R][i] \in 0 .. 2
      /\ wire[i] \in Seq(Nat) /\ Len(wire[i]) \in Nat
      /\ taken[S][i] \in Nat /\ taken[R][i] \in Nat
      /\ intervals[S][i] \in Nat /\ intervals[R][i] \in Nat
  BY <1>1, TypesAt
<1>3. worker[S][i] = 0 /\ MaySend(i) /\ Written < MaxBlocks[mode] /\ WorkerFrame /\ kernel' = kernel
  BY DEF Write, WorkerFrame
<1>4. sp.bytes_sent \in Nat /\ sp.packet_count \in Nat
  BY <1>2 DEF StreamType
<1>5. sp.bytes_sent + 1 <= MaxBlocks[mode] /\ MaxBlocks[mode] \in Nat
  BY <1>3, WriteBounded, StreamsKnown DEF Inv
<1>6. new \in StreamType /\ new.bytes_sent = sp.bytes_sent
      /\ new.sent_this_interval = sp.sent_this_interval /\ new.bytes_sent_omit = sp.bytes_sent_omit
      /\ SenderMoved(sp, new)
  <2>1. CASE protocol = "udp"
    <3>1. new = [sp EXCEPT !.packet_count = @ + 1]
      BY <2>1
    <3> HIDE DEF new, sp
    <3>2. new \in StreamType
      <4>1. sp.packet_count + 1 \in Nat
        BY <1>4
      <4>. QED
        BY <1>2, <3>1, <4>1, FieldTypes
    <3>3. SenderMoved(sp, new)
      BY <1>2, <3>1 DEF StreamType, SenderMoved
    <3>. QED
      BY <1>2, <3>1, <3>2, <3>3 DEF StreamType
  <2>2. CASE protocol # "udp"
    BY <1>2, <2>2 DEF SenderMoved
  <2>. QED
    BY <2>1, <2>2
<1>7. sent \in Seq(Nat) /\ Len(sent) = Len(wire[i]) + 1
  BY <1>2, <1>4
<1>8. stream' = WithStream(S, i, new)
  <2>1. CASE protocol = "udp"
    BY <2>1 DEF Write
  <2>2. CASE protocol # "udp"
    BY <1>1, <2>2, Unchanged DEF Write, Inv
  <2>. QED
    BY <2>1, <2>2
<1>9. worker' = WithWorker(S, i, 1) /\ wire' = [wire EXCEPT ![i] = sent]
  BY DEF Write
<1> HIDE DEF S, R, new, sent
<1>10. Touches(S, i) /\ Becomes(S, i, new, 1, sent)
  <2>1. CountersInv /\ 1 \in 0 .. 2
    BY DEF Inv
  <2>. QED
    BY <1>1, <1>3, <1>6, <1>7, <1>8, <1>9, <2>1, Touching
<1>11. stream'[S][i] = new /\ worker'[S][i] = 1 /\ wire'[i] = sent /\ SameAt(R, i)
  BY <1>1, <1>10 DEF Touches, Becomes
<1>12. MovedAt(S, i)
  BY <1>1, <1>6, <1>11 DEF MovedAt
<1>13. pc' = pc /\ taken' = taken /\ intervals' = intervals /\ omitting' = omitting
       /\ mode' = mode /\ protocol' = protocol
  BY <1>3, FrameAt
<1>14. SenderOK(i)'
  <2>1. SenderCounts(sp, 0, taken[S][i], intervals[S][i], omitting[S], pc[S], MaxBlocks[mode])
    BY <1>3 DEF Inv, SenderInv, SenderOK, Replaced, Got, MaySend, S
  <2>2. SenderCounts(new, 1, taken[S][i], intervals[S][i], omitting[S], pc[S], MaxBlocks[mode])
    BY <1>2, <1>5, <1>6, <2>1, SenderWrites
  <2>3. S = "c" => pc["c"] \in {"running", "interval"}
    BY <1>3 DEF MaySend, S
  <2>. QED
    BY <1>11, <1>13, <2>2, <2>3 DEF SenderOK, SenderOf, S
<1>15. ReceiverOK(i)'
  <2>1. ReceiverCounts(stream[R][i], worker[R][i], taken[R][i], intervals[R][i], omitting[R],
                       pc[R], Len(wire[i]), WrittenOf(i))
        /\ (~Got(R) => stream[R][i].bytes_sent = 0)
    BY DEF Inv, ReceiverInv, ReceiverOK, R
  <2>2. WrittenOf(i) = sp.bytes_sent
    BY <1>3, <1>4 DEF WrittenOf, B, S
  <2>3. MaySend(i)'
    BY <1>3, <1>13 DEF MaySend, SenderOf
  <2>4. WrittenOf(i)' = sp.bytes_sent + 1
    <3>1. WrittenOf(i)' = stream'[S][i].bytes_sent + 1
      BY <1>11, <2>3 DEF WrittenOf, B, S, SenderOf
    <3>. QED
      BY <1>6, <1>11, <3>1
  <2>5. ReceiverCounts(stream[R][i], worker[R][i], taken[R][i], intervals[R][i], omitting[R],
                       pc[R], Len(sent), sp.bytes_sent + 1)
    <3> DEFINE n == sp.bytes_sent
               u == Len(wire[i])
               u1 == Len(sent)
    <3>0. n \in Nat /\ u \in Nat /\ u1 = u + 1
      BY <1>2, <1>4, <1>7
    <3>1. n + 1 \in Nat /\ u1 \in Nat /\ u1 >= u /\ (n + 1) - u1 >= n - u
      <4> HIDE DEF n, u, u1
      <4>. QED
        BY <3>0
    <3>2. ReceiverCounts(stream[R][i], worker[R][i], taken[R][i], intervals[R][i], omitting[R],
                         pc[R], Len(wire[i]), sp.bytes_sent)
      BY <2>1, <2>2
    <3> HIDE DEF sp
    <3>. QED
      BY <1>2, <1>4, <3>1, <3>2, MoreUnderWay
  <2>. QED
    BY <1>11, <1>13, <2>1, <2>4, <2>5 DEF ReceiverOK, SameAt, SenderOf, Peer, R, Got
<1>16. SentOK(S, i)'
  BY <1>3, <1>13 DEF SentOK, Sent, MaySend, SenderOf, S
<1>. QED
  BY <1>1, <1>10, <1>12, <1>14, <1>15, <1>16, TouchingPreserves

-----------------------------------------------------------------------------
(* CountSent: a block counts in the total, and then in the interval.       *)

SentCounted(sp, w) ==
    IF w = 1 THEN [sp EXCEPT !.bytes_sent = (@ + 1) % SizeLimit]
    ELSE [sp EXCEPT !.sent_this_interval = (@ + 1) % SizeLimit]

LEMMA SentCountedFields ==
    ASSUME NEW a \in StreamType, NEW w \in {1, 2},
           NEW tk, NEW iv, NEW om, NEW p, NEW most \in Nat, most < SizeLimit,
           SenderCounts(a, w, tk, iv, om, p, most)
    PROVE  LET b == SentCounted(a, w) IN
           /\ b \in StreamType /\ SenderMoved(a, b)
           /\ b.bytes_sent = a.bytes_sent + B(w = 1)
           /\ b.sent_this_interval = a.sent_this_interval + B(w = 2)
           /\ b.packet_count = a.packet_count
<1> DEFINE b == SentCounted(a, w)
<1>1. a.bytes_sent \in Nat /\ a.sent_this_interval \in Nat
  BY DEF StreamType
<1>2. CASE w = 1
  <2>1. a.bytes_sent + 1 < SizeLimit /\ a.bytes_sent + 1 \in Nat
    BY <1>1, <1>2, ReportsAssumption DEF SenderCounts, B
  <2>2. (a.bytes_sent + 1) % SizeLimit = a.bytes_sent + 1
    BY <2>1, NoWrap
  <2>3. b = [a EXCEPT !.bytes_sent = a.bytes_sent + 1]
    BY <1>2, <2>2 DEF SentCounted
  <2>4. b \in StreamType
    BY <2>1, <2>3, FieldTypes
  <2> HIDE DEF b
  <2>5. SenderMoved(a, b) /\ b.packet_count = a.packet_count
        /\ b.sent_this_interval = a.sent_this_interval /\ b.bytes_sent = a.bytes_sent + 1
    BY <2>3 DEF SenderMoved, StreamType
  <2>. QED
    BY <1>1, <1>2, <2>4, <2>5 DEF B, b
<1>3. CASE w = 2
  <2>1. a.sent_this_interval + 1 < SizeLimit /\ a.sent_this_interval + 1 \in Nat
    BY <1>1, <1>3, ReportsAssumption DEF SenderCounts, B
  <2>2. (a.sent_this_interval + 1) % SizeLimit = a.sent_this_interval + 1
    BY <2>1, NoWrap
  <2>3. b = [a EXCEPT !.sent_this_interval = a.sent_this_interval + 1]
    BY <1>3, <2>2 DEF SentCounted
  <2>4. b \in StreamType
    BY <2>1, <2>3, FieldTypes
  <2> HIDE DEF b
  <2>5. SenderMoved(a, b) /\ b.packet_count = a.packet_count
        /\ b.sent_this_interval = a.sent_this_interval + 1 /\ b.bytes_sent = a.bytes_sent
    BY <2>3 DEF SenderMoved, StreamType
  <2>. QED
    BY <1>1, <1>3, <2>4, <2>5 DEF B, b
<1>. QED
  BY <1>2, <1>3

LEMMA SentStaysNear ==
    ASSUME NEW r \in ResultType, NEW a \in StreamType, NEW b \in StreamType, NEW w \in {1, 2},
           SenderMoved(a, b), b.bytes_sent = a.bytes_sent + B(w = 1),
           b.packet_count = a.packet_count, SentBySender(r, a, w)
    PROVE  SentBySender(r, b, IF w = 1 THEN 2 ELSE 0)
<1>1. a.bytes_sent \in Nat /\ a.bytes_sent_omit \in Nat /\ r.bytes \in Nat
  BY DEF StreamType, ResultType
<1>. QED
  BY <1>1 DEF SentBySender, SenderMoved, SentBytes, B

LEMMA CountSentPreserves ==
    ASSUME Inv, NEW i \in Streams, CountSent(i)
    PROVE  Inv'
<1> DEFINE S == SenderOf(i)
           R == Peer(SenderOf(i))
           sp == stream[S][i]
           w == worker[S][i]
           new == SentCounted(sp, w)
           w1 == IF w = 1 THEN 2 ELSE 0
<1>1. S \in Sides /\ R \in Sides /\ S # R /\ Sends(S, i)
  BY SidesKnown
<1>2. /\ sp \in StreamType /\ wire[i] \in Seq(Nat) /\ taken[S][i] \in Nat /\ intervals[S][i] \in Nat
  BY <1>1, TypesAt
<1>3. w \in {1, 2} /\ WorkerFrame /\ kernel' = kernel /\ wire' = wire
      /\ worker' = WithWorker(S, i, w1) /\ stream' = WithStream(S, i, new)
  BY DEF CountSent, WorkerFrame, SentCounted
<1>4. MaxBlocks[mode] \in Nat /\ MaxBlocks[mode] < SizeLimit
  BY StreamsKnown DEF Inv
<1>5. SenderCounts(sp, w, taken[S][i], intervals[S][i], omitting[S], pc[S], MaxBlocks[mode])
  <2>1. ~Replaced(i)
    BY <1>3 DEF Inv, SenderInv, SenderOK, Replaced, Got
  <2>. QED
    BY <2>1 DEF Inv, SenderInv, SenderOK
<1> HIDE DEF S, R, w, new, w1
<1>6. /\ new \in StreamType /\ SenderMoved(sp, new)
      /\ new.bytes_sent = sp.bytes_sent + B(w = 1)
      /\ new.sent_this_interval = sp.sent_this_interval + B(w = 2)
      /\ new.packet_count = sp.packet_count
  <2> HIDE DEF sp
  <2>. QED
    BY <1>2, <1>3, <1>4, <1>5, SentCountedFields DEF new
<1>7. w1 \in 0 .. 2 /\ w1 # 1
  BY <1>3 DEF w1
<1>8. wire' = [wire EXCEPT ![i] = wire[i]]
  BY <1>1, <1>3, Unchanged DEF Inv
<1>9. Touches(S, i) /\ Becomes(S, i, new, w1, wire[i])
  <2>1. CountersInv
    BY DEF Inv
  <2>. QED
    BY <1>1, <1>2, <1>3, <1>6, <1>7, <1>8, <2>1, Touching
<1>10. stream'[S][i] = new /\ worker'[S][i] = w1 /\ SameAt(R, i)
  BY <1>1, <1>9 DEF Touches, Becomes
<1>11. MovedAt(S, i)
  BY <1>1, <1>6, <1>10 DEF MovedAt
<1>12. pc' = pc /\ taken' = taken /\ intervals' = intervals /\ omitting' = omitting
       /\ mode' = mode /\ protocol' = protocol /\ results' = results
  BY <1>3, FrameAt
<1>13. SenderOK(i)'
  <2>1. SenderCounts(new, w1, taken[S][i], intervals[S][i], omitting[S], pc[S], MaxBlocks[mode])
    <3>1. new.bytes_sent_omit = sp.bytes_sent_omit /\ sp.bytes_sent \in Nat
          /\ sp.sent_this_interval \in Nat
      BY <1>2, <1>6 DEF SenderMoved, StreamType
    <3>2. CASE w = 1
      <4>1. new.bytes_sent = sp.bytes_sent + 1 /\ new.sent_this_interval = sp.sent_this_interval
            /\ w1 = 2
        BY <1>6, <3>1, <3>2 DEF B, w1
      <4> HIDE DEF sp
      <4>. QED
        BY <1>2, <1>4, <1>5, <1>6, <3>1, <3>2, <4>1, SenderCountsTotal
    <3>3. CASE w = 2
      <4>1. new.bytes_sent = sp.bytes_sent /\ new.sent_this_interval = sp.sent_this_interval + 1
            /\ w1 = 0
        BY <1>6, <3>1, <3>3 DEF B, w1
      <4> HIDE DEF sp
      <4>. QED
        BY <1>2, <1>4, <1>5, <1>6, <3>1, <3>3, <4>1, SenderCountsInterval
    <3>. QED
      BY <1>3, <3>2, <3>3
  <2>2. ~(S = "c" /\ pc["c"] \notin {"running", "interval"})
    BY <1>3 DEF Inv, SenderInv, SenderOK, S, w
  <2>. QED
    BY <1>10, <1>12, <2>1, <2>2 DEF SenderOK, SenderOf, S
<1>14. ReceiverOK(i)'
  <2>1. ReceiverOK(i)
    BY DEF Inv, ReceiverInv
  <2>2. WrittenOf(i)' = WrittenOf(i)
    <3>1. MaySend(i)' <=> MaySend(i)
      BY <1>12 DEF MaySend, SenderOf
    <3>2. MaySend(i) => WrittenOf(i) = sp.bytes_sent + B(w = 1)
      BY DEF WrittenOf, S, w
    <3>3. MaySend(i)' => WrittenOf(i)' = stream'[S][i].bytes_sent + B(worker'[S][i] = 1)
      BY DEF WrittenOf, S, SenderOf, B
    <3>4. B(worker'[S][i] = 1) = 0 /\ sp.bytes_sent + B(w = 1) \in Nat
      <4>1. sp.bytes_sent \in Nat
        BY <1>2 DEF StreamType
      <4>2. B(worker'[S][i] = 1) = 0
        BY <1>7, <1>10 DEF B
      <4> HIDE DEF sp
      <4>. QED
        BY <4>1, <4>2 DEF B
    <3>5. MaySend(i) => WrittenOf(i)' = WrittenOf(i)
      BY <1>6, <1>10, <3>1, <3>2, <3>3, <3>4
    <3>6. ~MaySend(i) => WrittenOf(i)' = WrittenOf(i)
      BY <1>12, <3>1 DEF WrittenOf
    <3>. QED
      BY <3>5, <3>6
  <2>3. wire'[i] = wire[i]
    BY <1>3
  <2>. QED
    BY <1>10, <1>12, <2>1, <2>2, <2>3 DEF ReceiverOK, SameAt, SenderOf, Peer, R, Got
<1>15. SentOK(S, i)'
  <2>1. SUFFICES ASSUME protocol # "quic", Sent(S)
                 PROVE  SentBySender(results[S].streams[i], new, w1)
    BY <1>1, <1>10, <1>12 DEF SentOK, Sent, Sends, SenderOf, S
  <2>2. SentBySender(results[S].streams[i], sp, w)
    BY <1>1, <2>1 DEF Inv, SentInv, SentOK, w
  <2>3. results[S].streams[i] \in ResultType
    BY <1>1, <2>1 DEF Inv, ResultsInv
  <2> HIDE DEF sp
  <2>. QED
    BY <1>2, <1>3, <1>6, <2>2, <2>3, SentStaysNear DEF w1
<1>. QED
  BY <1>1, <1>9, <1>11, <1>13, <1>14, <1>15, TouchingPreserves

-----------------------------------------------------------------------------
(* Read, Lose, Reorder: a block leaves the network, or its place in it, and*)
(* only while the receiver runs does its worker count it.                  *)

LEMMA TailShorter ==
    ASSUME NEW q \in Seq(Nat), q # <<>>
    PROVE  /\ Tail(q) \in Seq(Nat) /\ Len(q) \in Nat /\ Len(q) >= 1 /\ Len(Tail(q)) = Len(q) - 1
           /\ Head(q) \in Nat
OBVIOUS

LEMMA ReceiverTouched ==
    ASSUME Inv, NEW i \in Streams, WorkerFrame, kernel' = kernel, stream' = stream,
           worker[Peer(SenderOf(i))][i] = 0, wire[i] # <<>>,
           NEW left \in Seq(Nat), Len(left) <= Len(wire[i]),
           \/ wire' = wire /\ worker' = WithWorker(Peer(SenderOf(i)), i, 1) /\ ~Sent(Peer(SenderOf(i)))
           \/ wire' = [wire EXCEPT ![i] = left] /\ worker' = WithWorker(Peer(SenderOf(i)), i, 0)
    PROVE  Inv'
<1> DEFINE S == SenderOf(i)
           R == Peer(SenderOf(i))
           sp == stream[R][i]
           w1 == worker'[R][i]
           q == wire'[i]
<1>1. S \in Sides /\ R \in Sides /\ S # R /\ ~Sends(R, i)
  BY SidesKnown
<1>2. /\ sp \in StreamType /\ wire[i] \in Seq(Nat) /\ taken[R][i] \in Nat /\ intervals[R][i] \in Nat
      /\ Len(wire[i]) \in Nat
  BY <1>1, TypesAt
<1>3. Len(wire[i]) >= 1
  BY <1>2, TailShorter
<1>4. stream' = WithStream(R, i, sp)
  BY <1>1, Unchanged DEF Inv
<1>5. Touches(R, i) /\ stream'[R][i] = sp
      /\ ((w1 = 1 /\ q = wire[i] /\ ~Sent(R)) \/ (w1 = 0 /\ q = left))
  <2>1. CASE wire' = wire /\ worker' = WithWorker(R, i, 1) /\ ~Sent(R)
    <3>1. CountersInv /\ 1 \in 0 .. 2 /\ wire' = [wire EXCEPT ![i] = wire[i]]
      BY <1>1, <2>1, Unchanged DEF Inv
    <3> HIDE DEF R, sp
    <3>2. Touches(R, i) /\ Becomes(R, i, sp, 1, wire[i])
      BY <1>1, <1>2, <1>4, <2>1, <3>1, Touching
    <3>. QED
      BY <2>1, <3>2 DEF Becomes
  <2>2. CASE wire' = [wire EXCEPT ![i] = left] /\ worker' = WithWorker(R, i, 0)
    <3>1. CountersInv /\ 0 \in 0 .. 2
      BY DEF Inv
    <3> HIDE DEF R, sp
    <3>2. Touches(R, i) /\ Becomes(R, i, sp, 0, left)
      BY <1>1, <1>2, <1>4, <2>2, <3>1, Touching
    <3>. QED
      BY <3>2 DEF Becomes
  <2>. QED
    BY <2>1, <2>2
<1>6. MovedAt(R, i)
  BY <1>1, <1>5 DEF MovedAt, ReceiverMoved
<1>7. pc' = pc /\ taken' = taken /\ intervals' = intervals /\ omitting' = omitting
      /\ mode' = mode /\ protocol' = protocol /\ results' = results
  BY FrameAt
<1>8. SameAt(S, i)
  BY <1>1, <1>5 DEF Touches
<1>9. SenderOK(i)'
  <2>1. SenderOK(i)
    BY DEF Inv, SenderInv
  <2>. QED
    BY <1>8, <2>1, SameSender
<1>10. ReceiverOK(i)'
  <2>1. /\ ReceiverCounts(sp, 0, taken[R][i], intervals[R][i], omitting[R], pc[R], Len(wire[i]),
                          WrittenOf(i))
        /\ ~Got(R) => sp.bytes_sent = 0
    BY DEF Inv, ReceiverInv, ReceiverOK
  <2>2. WrittenOf(i)' = WrittenOf(i)
    BY <1>7, <1>8 DEF WrittenOf, MaySend, SameAt, SenderOf, B
  <2>3. WrittenOf(i) \in Nat
    BY WrittenBound
  <2>4. ReceiverCounts(sp, w1, taken[R][i], intervals[R][i], omitting[R], pc[R], Len(q), WrittenOf(i))
    <3>1. CASE w1 = 1 /\ q = wire[i]
      <4> HIDE DEF R, sp, w1, q
      <4>. QED
        BY <1>2, <1>3, <2>1, <2>3, <3>1, ReceiverTakes
    <3>2. CASE w1 = 0 /\ q = left
      <4>1. Len(q) \in Nat /\ Len(q) <= Len(wire[i])
        BY <3>2
      <4> HIDE DEF R, sp, w1, q
      <4>. QED
        BY <1>2, <2>1, <2>3, <3>2, <4>1, LessUnderWay
    <3>. QED
      BY <1>5, <3>1, <3>2
  <2>. QED
    BY <1>5, <1>7, <2>1, <2>2, <2>4 DEF ReceiverOK, SenderOf, Peer, Got
<1>11. SentOK(R, i)'
  <2>1. CASE w1 = 1 /\ ~Sent(R)
    BY <1>7, <2>1 DEF SentOK, Sent, SenderOf, Peer
  <2>2. CASE w1 = 0
    BY <1>1, <1>5, <1>7, <2>2 DEF Inv, SentInv, SentOK, Sent, Sends, SenderOf, Peer
  <2>. QED
    BY <1>5, <2>1, <2>2
<1>. QED
  BY <1>1, <1>5, <1>6, <1>9, <1>10, <1>11, TouchingPreserves

LEMMA ReadPreserves ==
    ASSUME Inv, NEW i \in Streams, Read(i)
    PROVE  Inv'
<1>1. WorkerFrame /\ kernel' = kernel /\ stream' = stream /\ worker[Peer(SenderOf(i))][i] = 0
      /\ wire[i] # <<>> /\ wire[i] \in Seq(Nat)
  BY DEF Read, WorkerFrame, counters, Inv, CountersInv
<1>2. TestRunning(Peer(SenderOf(i))) => ~Sent(Peer(SenderOf(i)))
  BY DEF TestRunning, Sent
<1>3. Tail(wire[i]) \in Seq(Nat) /\ Len(Tail(wire[i])) <= Len(wire[i])
  BY <1>1, TailShorter
<1>. QED
  BY <1>1, <1>2, <1>3, ReceiverTouched DEF Read

LEMMA LosePreserves ==
    ASSUME Inv, NEW i \in Streams, Lose(i)
    PROVE  Inv'
<1>1. /\ WorkerFrame /\ kernel' = kernel /\ stream' = stream /\ worker[Peer(SenderOf(i))][i] = 0
      /\ wire[i] # <<>> /\ wire' = [wire EXCEPT ![i] = Tail(wire[i])] /\ worker' = worker
      /\ wire[i] \in Seq(Nat)
  BY DEF Lose, WorkerFrame, counters, Inv, CountersInv
<1>2. worker' = WithWorker(Peer(SenderOf(i)), i, 0)
  BY <1>1, SidesKnown, Unchanged DEF Inv
<1>3. Tail(wire[i]) \in Seq(Nat) /\ Len(Tail(wire[i])) <= Len(wire[i])
  BY <1>1, TailShorter
<1>. QED
  BY <1>1, <1>2, <1>3, ReceiverTouched

LEMMA Swapped ==
    ASSUME NEW q \in Seq(Nat), Len(q) > 1
    PROVE  LET x == <<q[2], q[1]>> \o SubSeq(q, 3, Len(q)) IN x \in Seq(Nat) /\ Len(x) = Len(q)
<1>1. <<q[2], q[1]>> \in Seq(Nat) /\ Len(<<q[2], q[1]>>) = 2
  OBVIOUS
<1> DEFINE rest == SubSeq(q, 3, Len(q))
<1>2. rest \in Seq(Nat) /\ Len(rest) = Len(q) - 2
  <2>1. 3 \in Int /\ Len(q) \in Int
    OBVIOUS
  <2>2. \A k \in 3 .. Len(q) : q[k] \in Nat
    BY <2>1, ElementOfSeq
  <2>3. rest \in Seq(Nat) /\ Len(rest) = IF 3 <= Len(q) THEN Len(q) - 3 + 1 ELSE 0
    BY <2>1, <2>2, SubSeqProperties
  <2> HIDE DEF rest
  <2> DEFINE n == Len(q)
  <2>4. n \in Int /\ n > 1 /\ Len(rest) = IF 3 <= n THEN n - 3 + 1 ELSE 0
    BY <2>1, <2>3
  <2> HIDE DEF n
  <2>5. Len(rest) = n - 2
    BY <2>4
  <2>. QED
    BY <2>3, <2>5 DEF n
<1>. QED
  BY <1>1, <1>2, ConcatProperties

LEMMA ReorderPreserves ==
    ASSUME Inv, NEW i \in Streams, Reorder(i)
    PROVE  Inv'
<1> DEFINE left == <<wire[i][2], wire[i][1]>> \o SubSeq(wire[i], 3, Len(wire[i]))
<1>1. /\ WorkerFrame /\ kernel' = kernel /\ stream' = stream /\ worker[Peer(SenderOf(i))][i] = 0
      /\ Len(wire[i]) > 1 /\ wire' = [wire EXCEPT ![i] = left] /\ worker' = worker
      /\ wire[i] \in Seq(Nat)
  BY DEF Reorder, WorkerFrame, counters, Inv, CountersInv
<1>2. worker' = WithWorker(Peer(SenderOf(i)), i, 0)
  BY <1>1, SidesKnown, Unchanged DEF Inv
<1>3. left \in Seq(Nat) /\ Len(left) <= Len(wire[i]) /\ wire[i] # <<>>
  BY <1>1, Swapped
<1> HIDE DEF left
<1>. QED
  BY <1>1, <1>2, <1>3, ReceiverTouched

(* Retransmit: the kernel counts, nobody has read it yet.                  *)
LEMMA RetransmitPreserves ==
    ASSUME Inv, NEW i \in Streams, Retransmit(i)
    PROVE  Inv'
<1>1. WorkerFrame /\ stream' = stream /\ worker' = worker /\ wire' = wire
      /\ kernel' = [kernel EXCEPT ![i] = [now |-> kernel[i].now + 1, omitted |-> kernel[i].omitted]]
  BY DEF Retransmit, WorkerFrame, counters
<1>2. Streams' = Streams /\ taken' = taken /\ intervals' = intervals
  BY <1>1, FrameAt
<1>3. kernel' \in [Streams -> [now : Nat, omitted : Nat]] /\ SameOmitted
  BY <1>1 DEF Inv, CountersInv, SameOmitted
<1>4. Touches("c", i)
  BY <1>1, <1>2, <1>3 DEF Touches, Inv, CountersInv, SameAt
<1>5. MovedAt("c", i)
  BY <1>1 DEF MovedAt, SenderMoved, ReceiverMoved
<1>6. \A sd \in Sides : SameAt(sd, i)
  BY <1>1 DEF SameAt
<1>7. SenderOK(i) /\ ReceiverOK(i) /\ SentOK("c", i) /\ "c" \in Sides
  BY DEF Inv, SenderInv, ReceiverInv, SentInv, Sides
<1>8. SenderOK(i)' /\ ReceiverOK(i)'
  BY <1>1, <1>6, <1>7, SidesKnown, SameSender, SameReceiver
<1>9. SentOK("c", i)'
  BY <1>1, <1>6, <1>7, SameSent
<1>. QED
  BY <1>4, <1>5, <1>7, <1>8, <1>9, TouchingPreserves

-----------------------------------------------------------------------------
(* CountReceived: a block counts in the total, and then in the interval;   *)
(* a datagram arrives, and those missing before it are lost, or it was     *)
(* counted as lost itself.                                                 *)

LEMMA NumberedFields ==
    ASSUME NEW a \in StreamType, NEW n \in Nat
    PROVE  LET b == Numbered(a, n) IN
           /\ b \in StreamType /\ ReceiverMoved(a, b)
           /\ b.bytes_received = a.bytes_received
           /\ b.received_this_interval = a.received_this_interval
           /\ OneMore(a.packet_count, a.cnt_error, b.packet_count, b.cnt_error)
<1> DEFINE b == Numbered(a, n)
<1>1. a.packet_count \in Nat /\ a.cnt_error \in Int
  BY DEF StreamType
<1>2. CASE protocol = "udp" /\ n > a.packet_count
  <2> DEFINE e == a.cnt_error + n - a.packet_count - 1
  <2>0. ~(n <= a.packet_count)
    BY <1>1, <1>2
  <2>1. b = [a EXCEPT !.packet_count = n, !.cnt_error = e]
    BY <1>2, <2>0 DEF Numbered
  <2>2. e \in Int /\ e - a.cnt_error = n - a.packet_count - 1
    BY <1>1
  <2> HIDE DEF e
  <2>3. b \in StreamType
    BY <2>1, <2>2 DEF StreamType
  <2> HIDE DEF b
  <2>4. /\ ReceiverMoved(a, b) /\ b.bytes_received = a.bytes_received
        /\ b.received_this_interval = a.received_this_interval
        /\ b.packet_count = n /\ b.cnt_error = e
    BY <2>1 DEF ReceiverMoved, StreamType
  <2>5. OneMore(a.packet_count, a.cnt_error, b.packet_count, b.cnt_error)
    BY <1>2, <2>2, <2>4 DEF OneMore
  <2>. QED
    BY <2>3, <2>4, <2>5 DEF b
<1>3. CASE protocol = "udp" /\ n <= a.packet_count /\ a.cnt_error > 0
  <2>0. ~(n > a.packet_count)
    BY <1>1, <1>3
  <2>1. b = [a EXCEPT !.cnt_error = a.cnt_error - 1]
    BY <1>3, <2>0 DEF Numbered
  <2>2. b \in StreamType
    BY <1>1, <2>1 DEF StreamType
  <2> HIDE DEF b
  <2>3. /\ ReceiverMoved(a, b) /\ b.bytes_received = a.bytes_received
        /\ b.received_this_interval = a.received_this_interval
        /\ b.packet_count = a.packet_count /\ b.cnt_error = a.cnt_error - 1
    BY <2>1 DEF ReceiverMoved, StreamType
  <2>. QED
    BY <2>2, <2>3 DEF b, OneMore
<1>4. CASE ~(protocol = "udp" /\ n > a.packet_count)
           /\ ~(protocol = "udp" /\ n <= a.packet_count /\ a.cnt_error > 0)
  <2>1. b = a
    BY <1>4 DEF Numbered
  <2>. QED
    BY <1>1, <2>1 DEF ReceiverMoved, OneMore
<1>. QED
  BY <1>2, <1>3, <1>4

ReceivedCounted(sp, w, n) ==
    IF w = 1 THEN [sp EXCEPT !.bytes_received = (@ + 1) % SizeLimit]
    ELSE Numbered([sp EXCEPT !.received_this_interval = (@ + 1) % SizeLimit], n)

LEMMA ReceivedCountedFields ==
    ASSUME NEW a \in StreamType, NEW w \in {1, 2}, NEW n \in Nat,
           NEW tk, NEW iv, NEW om, NEW p, NEW u \in Nat, NEW c \in Nat, c < SizeLimit,
           ReceiverCounts(a, w, tk, iv, om, p, u, c)
    PROVE  LET b == ReceivedCounted(a, w, n) IN
           /\ b \in StreamType /\ ReceiverMoved(a, b)
           /\ b.bytes_received = a.bytes_received + B(w = 1)
           /\ b.received_this_interval = a.received_this_interval + B(w = 2)
           /\ IF w = 1 THEN b.packet_count = a.packet_count /\ b.cnt_error = a.cnt_error
              ELSE OneMore(a.packet_count, a.cnt_error, b.packet_count, b.cnt_error)
<1> DEFINE b == ReceivedCounted(a, w, n)
<1>1. a.bytes_received \in Nat /\ a.received_this_interval \in Nat /\ a.packet_count \in Nat
      /\ a.cnt_error \in Int
  BY DEF StreamType
<1>2. CASE w = 1
  <2>1. a.bytes_received + 1 < SizeLimit /\ a.bytes_received + 1 \in Nat
    BY <1>1, <1>2, ReportsAssumption DEF ReceiverCounts, B
  <2>2. (a.bytes_received + 1) % SizeLimit = a.bytes_received + 1
    BY <2>1, NoWrap
  <2>3. b = [a EXCEPT !.bytes_received = a.bytes_received + 1]
    BY <1>2, <2>2 DEF ReceivedCounted
  <2>4. b \in StreamType
    BY <2>1, <2>3, FieldTypes
  <2> HIDE DEF b
  <2>5. /\ ReceiverMoved(a, b) /\ b.packet_count = a.packet_count /\ b.cnt_error = a.cnt_error
        /\ b.received_this_interval = a.received_this_interval
        /\ b.bytes_received = a.bytes_received + 1
    BY <2>3 DEF ReceiverMoved, StreamType
  <2>7. B(w = 1) = 1 /\ B(w = 2) = 0
    BY <1>2 DEF B
  <2>. QED
    BY <1>1, <1>2, <2>4, <2>5, <2>7 DEF b
<1>3. CASE w = 2
  <2> DEFINE d == [a EXCEPT !.received_this_interval = a.received_this_interval + 1]
  <2>1. a.received_this_interval + 1 < SizeLimit /\ a.received_this_interval + 1 \in Nat
    BY <1>1, <1>3, ReportsAssumption DEF ReceiverCounts, B
  <2>2. (a.received_this_interval + 1) % SizeLimit = a.received_this_interval + 1
    BY <2>1, NoWrap
  <2>3. b = Numbered(d, n)
    BY <1>3, <2>2 DEF ReceivedCounted
  <2>4. d \in StreamType
    BY <2>1, FieldTypes
  <2>5. /\ ReceiverMoved(a, d) /\ d.packet_count = a.packet_count /\ d.cnt_error = a.cnt_error
        /\ d.received_this_interval = a.received_this_interval + 1
        /\ d.bytes_received = a.bytes_received
    BY DEF ReceiverMoved, StreamType
  <2> HIDE DEF b, d
  <2>6. /\ b \in StreamType /\ ReceiverMoved(d, b)
        /\ b.bytes_received = d.bytes_received
        /\ b.received_this_interval = d.received_this_interval
        /\ OneMore(d.packet_count, d.cnt_error, b.packet_count, b.cnt_error)
    BY <2>3, <2>4, NumberedFields
  <2>7. OneMore(a.packet_count, a.cnt_error, b.packet_count, b.cnt_error)
    BY <2>5, <2>6
  <2>8. ReceiverMoved(a, b)
    BY <2>5, <2>6 DEF ReceiverMoved
  <2>9. B(w = 1) = 0 /\ B(w = 2) = 1
    BY <1>3 DEF B
  <2>. QED
    BY <1>1, <1>3, <2>5, <2>6, <2>7, <2>8, <2>9 DEF b
<1>. QED
  BY <1>2, <1>3

LEMMA ReceivedStaysNear ==
    ASSUME NEW r \in ResultType, NEW a \in StreamType, NEW b \in StreamType, NEW w \in {1, 2},
           ReceiverMoved(a, b), b.bytes_received = a.bytes_received + B(w = 1),
           IF w = 1 THEN b.packet_count = a.packet_count /\ b.cnt_error = a.cnt_error
           ELSE OneMore(a.packet_count, a.cnt_error, b.packet_count, b.cnt_error),
           SentByReceiver(r, a, w)
    PROVE  SentByReceiver(r, b, IF w = 1 THEN 2 ELSE 0)
<1>1. a.bytes_received \in Nat /\ r.bytes \in Nat
  BY DEF StreamType, ResultType
<1>2. a.packet_count = r.packets /\ a.cnt_error = r.errors
  BY DEF SentByReceiver
<1>3. b.omitted_packet_count = a.omitted_packet_count /\ b.omitted_cnt_error = a.omitted_cnt_error
  BY DEF ReceiverMoved
<1>. QED
  BY <1>1, <1>2, <1>3 DEF SentByReceiver, B

LEMMA CountReceivedPreserves ==
    ASSUME Inv, NEW i \in Streams, CountReceived(i)
    PROVE  Inv'
<1> DEFINE S == SenderOf(i)
           R == Peer(SenderOf(i))
           sp == stream[R][i]
           w == worker[R][i]
           n == IF w = 2 THEN Head(wire[i]) ELSE 0
           new == ReceivedCounted(sp, w, n)
           w1 == IF w = 1 THEN 2 ELSE 0
           q == IF w = 2 THEN Tail(wire[i]) ELSE wire[i]
<1>1. S \in Sides /\ R \in Sides /\ S # R /\ ~Sends(R, i)
  BY SidesKnown
<1>2. /\ sp \in StreamType /\ wire[i] \in Seq(Nat) /\ taken[R][i] \in Nat /\ intervals[R][i] \in Nat
      /\ Len(wire[i]) \in Nat
  BY <1>1, TypesAt
<1>3. w \in {1, 2} /\ WorkerFrame /\ kernel' = kernel
      /\ wire' = (IF w = 2 THEN [wire EXCEPT ![i] = Tail(wire[i])] ELSE wire)
      /\ worker' = WithWorker(R, i, w1) /\ stream' = WithStream(R, i, new)
  BY DEF CountReceived, WorkerFrame, ReceivedCounted
<1>4. WrittenOf(i) \in Nat /\ WrittenOf(i) < SizeLimit
  BY WrittenBound, StreamsKnown, ReportsAssumption DEF Inv
<1>5. /\ ReceiverCounts(sp, w, taken[R][i], intervals[R][i], omitting[R], pc[R], Len(wire[i]),
                        WrittenOf(i))
      /\ ~Got(R) => sp.bytes_sent = 0
  BY DEF Inv, ReceiverInv, ReceiverOK
<1>6. wire[i] # <<>>
  <2>1. Len(wire[i]) >= 1
    BY <1>3, <1>5 DEF ReceiverCounts
  <2>. QED
    BY <1>2, <2>1
<1>7. /\ Tail(wire[i]) \in Seq(Nat) /\ Len(Tail(wire[i])) = Len(wire[i]) - 1 /\ Head(wire[i]) \in Nat
  BY <1>2, <1>6, TailShorter
<1>8. n \in Nat /\ q \in Seq(Nat) /\ wire' = [wire EXCEPT ![i] = q]
  <2>1. CASE w = 2
    BY <1>3, <1>7, <2>1
  <2>2. CASE w = 1
    BY <1>1, <1>2, <1>3, <2>2, Unchanged DEF Inv
  <2>. QED
    BY <1>3, <2>1, <2>2
<1> HIDE DEF S, R, w, n, new, w1, q
<1>9. /\ new \in StreamType /\ ReceiverMoved(sp, new)
      /\ new.bytes_received = sp.bytes_received + B(w = 1)
      /\ new.received_this_interval = sp.received_this_interval + B(w = 2)
      /\ IF w = 1 THEN new.packet_count = sp.packet_count /\ new.cnt_error = sp.cnt_error
         ELSE OneMore(sp.packet_count, sp.cnt_error, new.packet_count, new.cnt_error)
  <2> HIDE DEF sp
  <2>. QED
    BY <1>2, <1>3, <1>4, <1>5, <1>8, ReceivedCountedFields DEF new
<1>10. w1 \in 0 .. 2
  BY <1>3 DEF w1
<1>11. Touches(R, i) /\ Becomes(R, i, new, w1, q)
  <2>1. CountersInv
    BY DEF Inv
  <2>. QED
    BY <1>1, <1>3, <1>8, <1>9, <1>10, <2>1, Touching
<1>12. stream'[R][i] = new /\ worker'[R][i] = w1 /\ wire'[i] = q /\ SameAt(S, i)
  BY <1>1, <1>11 DEF Touches, Becomes
<1>13. MovedAt(R, i)
  BY <1>1, <1>9, <1>12 DEF MovedAt
<1>14. pc' = pc /\ taken' = taken /\ intervals' = intervals /\ omitting' = omitting
       /\ mode' = mode /\ protocol' = protocol /\ results' = results
  BY <1>3, FrameAt
<1>15. SenderOK(i)'
  <2>1. SenderOK(i)
    BY DEF Inv, SenderInv
  <2>. QED
    BY <1>3, <1>12, <2>1, SameSender DEF S
<1>16. ReceiverOK(i)'
  <2>1. WrittenOf(i)' = WrittenOf(i)
    BY <1>12, <1>14 DEF WrittenOf, MaySend, SameAt, SenderOf, S, B
  <2>2. ReceiverCounts(new, w1, taken[R][i], intervals[R][i], omitting[R], pc[R], Len(q), WrittenOf(i))
    <3>1. new.bytes_sent_omit = sp.bytes_sent_omit /\ sp.bytes_received \in Nat
          /\ sp.received_this_interval \in Nat
      BY <1>2, <1>9 DEF ReceiverMoved, StreamType
    <3>2. CASE w = 1
      <4>1. new.bytes_received = sp.bytes_received + 1
            /\ new.received_this_interval = sp.received_this_interval /\ w1 = 2 /\ q = wire[i]
        BY <1>9, <3>1, <3>2 DEF B, w1, q
      <4> HIDE DEF sp
      <4>. QED
        BY <1>2, <1>4, <1>5, <1>9, <3>1, <3>2, <4>1, ReceiverCountsTotal
    <3>3. CASE w = 2
      <4>1. new.bytes_received = sp.bytes_received
            /\ new.received_this_interval = sp.received_this_interval + 1 /\ w1 = 0
            /\ Len(q) = Len(wire[i]) - 1
        BY <1>7, <1>9, <3>1, <3>3 DEF B, w1, q
      <4>2. ReceiverCounts(sp, 2, taken[R][i], intervals[R][i], omitting[R], pc[R], Len(wire[i]),
                           WrittenOf(i))
        BY <1>5, <3>3
      <4> HIDE DEF sp
      <4>3. ReceiverCounts(new, 0, taken[R][i], intervals[R][i], omitting[R], pc[R],
                           Len(wire[i]) - 1, WrittenOf(i))
        BY <1>2, <1>4, <1>9, <3>1, <4>1, <4>2, ReceiverCountsInterval
      <4>. QED
        BY <4>1, <4>3
    <3>. QED
      BY <1>3, <3>2, <3>3
  <2>3. new.bytes_sent = sp.bytes_sent
    BY <1>9 DEF ReceiverMoved
  <2>. QED
    BY <1>5, <1>12, <1>14, <2>1, <2>2, <2>3 DEF ReceiverOK, SenderOf, Peer, R, Got
<1>17. SentOK(R, i)'
  <2>1. SUFFICES ASSUME protocol # "quic", Sent(R)
                 PROVE  SentByReceiver(results[R].streams[i], new, w1)
    BY <1>1, <1>12, <1>14 DEF SentOK, Sent, Sends, SenderOf, Peer, R
  <2>2. SentByReceiver(results[R].streams[i], sp, w)
    BY <1>1, <2>1 DEF Inv, SentInv, SentOK, w
  <2>3. results[R].streams[i] \in ResultType
    BY <1>1, <2>1 DEF Inv, ResultsInv
  <2> HIDE DEF sp
  <2>. QED
    BY <1>2, <1>3, <1>9, <2>2, <2>3, ReceivedStaysNear DEF w1
<1>. QED
  BY <1>1, <1>11, <1>13, <1>15, <1>16, <1>17, TouchingPreserves

LEMMA WorkerPreserves ==
    ASSUME Inv, NEW i \in Streams, Worker(i)
    PROVE  Inv'
BY WritePreserves, CountSentPreserves, ReadPreserves, CountReceivedPreserves, LosePreserves,
   ReorderPreserves, RetransmitPreserves DEF Worker

-----------------------------------------------------------------------------
(* The steps of the main thread of a side before the results are exchanged. *)

Busy == {"running", "interval", "last"}

SideSame(side) ==
    /\ pc'[side] = pc[side] /\ omitting'[side] = omitting[side]
    /\ \A i \in Streams :
        /\ SameAt(side, i)
        /\ taken'[side][i] = taken[side][i] /\ intervals'[side][i] = intervals[side][i]

IntervalStep(side) ==
    /\ UNCHANGED <<test, has, other, congestion, wire, results, printed>>
    /\ pc[side] \in Busy /\ pc'[side] \in Busy \cup {"ended", "stopped"}
    /\ SideSame(Peer(side))
    /\ CountersInv' /\ PhaseInv'
    /\ \A i \in Streams :
        /\ MaySend(i)' => MaySend(i)
        /\ stream'[side][i].bytes_sent = stream[side][i].bytes_sent
        /\ MaySend(i)' /\ Sends(side, i) => worker'[side][i] = worker[side][i]

LEMMA IntervalUnchanged ==
    ASSUME NEW side \in Sides, IntervalStep(side)
    PROVE  /\ has' = has /\ other' = other /\ congestion' = congestion /\ wire' = wire
           /\ results' = results /\ printed' = printed /\ mode' = mode /\ protocol' = protocol
           /\ Streams' = Streams /\ UNCHANGED test
<1>1. /\ has' = has /\ other' = other /\ congestion' = congestion /\ wire' = wire
      /\ results' = results /\ printed' = printed /\ UNCHANGED test
  BY DEF IntervalStep
<1>. QED
  BY <1>1, SameTest

LEMMA IntervalPhases ==
    ASSUME Inv, NEW side \in Sides, IntervalStep(side)
    PROVE  \A sd \in Sides : /\ Sent(sd)' <=> Sent(sd)
                             /\ Got(sd)' <=> Got(sd)
                             /\ pc'[sd] = "printed" <=> pc[sd] = "printed"
                             /\ Sent(sd) \/ Got(sd) \/ pc[sd] = "printed" => sd = Peer(side)
<1>1. ~Sent(side) /\ ~Got(side) /\ pc[side] # "printed"
  BY DEF IntervalStep, Busy, Sent, Got
<1>2. ~Sent(side)' /\ ~Got(side)' /\ pc'[side] # "printed"
  BY DEF IntervalStep, Busy, Sent, Got
<1>3. pc'[Peer(side)] = pc[Peer(side)]
  BY DEF IntervalStep, SideSame
<1>4. /\ Sent(Peer(side))' <=> Sent(Peer(side))
      /\ Got(Peer(side))' <=> Got(Peer(side))
  BY <1>3 DEF Sent, Got, Peer
<1>5. \A sd \in Sides : sd = side \/ sd = Peer(side)
  BY SidesKnown DEF Sides, Peer
<1>. QED
  BY <1>1, <1>2, <1>3, <1>4, <1>5

LEMMA IntervalFrames ==
    ASSUME Inv, NEW side \in Sides, IntervalStep(side)
    PROVE  TestInv' /\ ResultsInv' /\ FlagsInv' /\ PrintedInv' /\ SumsInv'
<1>1. /\ has' = has /\ other' = other /\ results' = results /\ printed' = printed /\ mode' = mode
      /\ protocol' = protocol /\ Streams' = Streams /\ congestion' = congestion
  BY IntervalUnchanged
<1>1a. \A sd : ModeOf(sd)' = ModeOf(sd)
  BY IntervalUnchanged, SameTest
<1>2. \A sd \in Sides : /\ Sent(sd)' <=> Sent(sd)
                        /\ Got(sd)' <=> Got(sd)
                        /\ pc'[sd] = "printed" <=> pc[sd] = "printed"
  BY IntervalPhases
<1>3. TestInv'
  BY <1>1 DEF Inv, TestInv
<1>4. ResultsInv'
  BY <1>1, <1>2 DEF Inv, ResultsInv
<1>5. FlagsInv'
  BY <1>1, <1>1a, <1>2, SidesKnown DEF Inv, FlagsInv, Peer
<1>6. PrintedInv'
  BY <1>1, <1>2 DEF Inv, PrintedInv, PrintedStream, Sends, SenderOf, Peer
<1>7. SumsInv'
  BY <1>1, <1>2 DEF Inv, SumsInv, SumNames, StreamOf
<1>. QED
  BY <1>3, <1>4, <1>5, <1>6, <1>7

(* What has been exchanged is of the other side, which the step leaves     *)
(* alone; nothing is printed before both sides have ended.                 *)
LEMMA IntervalExchange ==
    ASSUME Inv, NEW side \in Sides, IntervalStep(side)
    PROVE  SentInv' /\ GotInv' /\ ShownInv'
<1>1. /\ results' = results /\ congestion' = congestion /\ protocol' = protocol /\ Streams' = Streams
  BY IntervalUnchanged
<1>2. \A sd \in Sides : /\ Sent(sd)' <=> Sent(sd)
                        /\ Got(sd)' <=> Got(sd)
                        /\ pc'[sd] = "printed" <=> pc[sd] = "printed"
                        /\ Sent(sd) \/ Got(sd) \/ pc[sd] = "printed" => sd = Peer(side)
  BY IntervalPhases
<1>3. \A i \in Streams : SameAt(Peer(side), i)
  BY DEF IntervalStep, SideSame
<1>4. ASSUME NEW sd \in Sides, NEW i \in Streams
      PROVE  SentOK(sd, i)'
  <2>1. SUFFICES ASSUME protocol # "quic", Sent(sd)
                 PROVE  IF Sends(sd, i)
                        THEN SentBySender(results[sd].streams[i], stream'[sd][i], worker'[sd][i])
                        ELSE SentByReceiver(results[sd].streams[i], stream'[sd][i], worker'[sd][i])
    BY <1>1, <1>2 DEF SentOK, Sends, SenderOf
  <2>2. SameAt(sd, i)
    BY <1>2, <1>3, <2>1
  <2>3. SentOK(sd, i)
    BY DEF Inv, SentInv
  <2>. QED
    BY <2>1, <2>2, <2>3 DEF SameAt, SentOK
<1>5. ASSUME NEW sd \in Sides, Got(sd)'
      PROVE  /\ congestion'[sd] = Peer(sd)
             /\ \A i \in Streams :
                 IF Sends(sd, i) THEN TakenBySender(results[Peer(sd)].streams[i], stream'[sd][i])
                 ELSE TakenByReceiver(results[Peer(sd)].streams[i], stream'[sd][i])
  <2>1. Got(sd) /\ \A i \in Streams : SameAt(sd, i)
    BY <1>2, <1>3, <1>5
  <2>. QED
    BY <1>1, <2>1 DEF Inv, GotInv, SameAt
<1>6. GotInv'
  BY <1>1, <1>5 DEF GotInv, TakenBySender, TakenByReceiver, Sends, SenderOf, Peer
<1>7. SentInv'
  BY <1>1, <1>4 DEF SentInv
<1>8. ASSUME NEW sd \in Sides
      PROVE  pc'[sd] # "printed"
  <2>1. SUFFICES ASSUME pc[sd] = "printed" PROVE FALSE
    BY <1>2
  <2>2. sd = Peer(side) /\ pc[side] \in Busy
    BY <1>2, <2>1 DEF IntervalStep
  <2>. QED
    BY <2>1, <2>2, SidesKnown DEF Inv, PhaseInv, Busy, Peer
<1>9. ShownInv'
  BY <1>8 DEF ShownInv
<1>. QED
  BY <1>6, <1>7, <1>9

LEMMA IntervalWritten ==
    ASSUME Inv, NEW side \in Sides, IntervalStep(side), NEW i \in Streams
    PROVE  WrittenOf(i)' \in Nat /\ WrittenOf(i) <= WrittenOf(i)'
<1>1. WrittenOf(i) \in Nat /\ WrittenOf(i) <= MaxBlocks[mode] /\ MaxBlocks[mode] \in Nat
  BY WrittenBound, StreamsKnown DEF Inv
<1>2. mode' = mode
  BY IntervalUnchanged
<1>3. CASE MaySend(i)'
  <2>1. MaySend(i)
    BY <1>3 DEF IntervalStep
  <2>2. SenderOf(i) = side \/ SenderOf(i) = Peer(side)
    BY SidesKnown DEF Sides, Peer
  <2>3. /\ stream'[SenderOf(i)][i].bytes_sent = stream[SenderOf(i)][i].bytes_sent
        /\ worker'[SenderOf(i)][i] = worker[SenderOf(i)][i]
    BY <1>3, <2>2, SidesKnown DEF IntervalStep, SideSame, SameAt
  <2>4. WrittenOf(i)' = WrittenOf(i)
    BY <1>3, <2>1, <2>3 DEF WrittenOf, SenderOf, B
  <2>. QED
    BY <1>1, <2>4
<1>4. CASE ~MaySend(i)'
  BY <1>1, <1>2, <1>4 DEF WrittenOf
<1>. QED
  BY <1>3, <1>4

(* Such a step preserves the invariant if it does so for the streams of    *)
(* its side.                                                               *)
ReceiverKept(side, i) ==
    /\ ReceiverCounts(stream'[side][i], worker'[side][i], taken'[side][i], intervals'[side][i],
                      omitting'[side], pc'[side], Len(wire[i]), WrittenOf(i))
    /\ stream'[side][i].bytes_sent = 0

LEMMA IntervalPreserves ==
    ASSUME Inv, NEW side \in Sides, IntervalStep(side),
           \A i \in Streams : Sends(side, i) => SenderOK(i)',
           \A i \in Streams : ~Sends(side, i) => ReceiverKept(side, i),
           RetransInv', RingInv'
    PROVE  Inv'
<1>1. mode' = mode /\ protocol' = protocol /\ Streams' = Streams /\ wire' = wire
  BY IntervalUnchanged
<1>2. \A sd \in Sides : Got(sd)' <=> Got(sd)
  BY IntervalPhases
<1>3. CountersInv' /\ PhaseInv' /\ SideSame(Peer(side))
  BY DEF IntervalStep
<1>4. ASSUME NEW i \in Streams, ~Sends(side, i)
      PROVE  SenderOK(i)'
  <2>1. SenderOf(i) = Peer(side)
    BY <1>4, SidesKnown DEF Sides, Peer
  <2>2. SenderOK(i)
    BY DEF Inv, SenderInv
  <2>3. Replaced(i)' <=> Replaced(i)
    BY <1>1, <1>2 DEF Replaced, SenderOf, Sides
  <2>4. /\ pc'[SenderOf(i)] = pc[SenderOf(i)] /\ omitting'[SenderOf(i)] = omitting[SenderOf(i)]
        /\ stream'[SenderOf(i)][i] = stream[SenderOf(i)][i]
        /\ worker'[SenderOf(i)][i] = worker[SenderOf(i)][i]
        /\ taken'[SenderOf(i)][i] = taken[SenderOf(i)][i]
        /\ intervals'[SenderOf(i)][i] = intervals[SenderOf(i)][i]
    BY <1>3, <2>1 DEF SideSame, SameAt
  <2>. QED
    BY <1>1, <2>2, <2>3, <2>4 DEF SenderOK, SenderOf
<1>5. SenderInv'
  BY <1>1, <1>4 DEF SenderInv
<1>6. ASSUME NEW i \in Streams
      PROVE  ReceiverOK(i)'
  <2> DEFINE R == Peer(SenderOf(i))
  <2>1. /\ WrittenOf(i)' \in Nat /\ WrittenOf(i) \in Nat /\ WrittenOf(i)' >= WrittenOf(i)
        /\ Len(wire[i]) \in Nat /\ R \in Sides
    BY IntervalWritten, WrittenBound, TypesAt, SidesKnown
  <2>2. /\ stream'[R][i] \in StreamType /\ worker'[R][i] \in 0 .. 2 /\ taken'[R][i] \in Nat
        /\ intervals'[R][i] \in Nat
    BY <1>1, <1>3, <2>1 DEF CountersInv
  <2>3. /\ ReceiverCounts(stream'[R][i], worker'[R][i], taken'[R][i], intervals'[R][i],
                          omitting'[R], pc'[R], Len(wire[i]), WrittenOf(i))
        /\ ~Got(R)' => stream'[R][i].bytes_sent = 0
    <3>1. CASE side = R
      BY <3>1, SidesKnown DEF ReceiverKept
    <3>2. CASE side # R
      <4>1. R = Peer(side)
        BY <2>1, <3>2 DEF Sides, Peer
      <4>2. /\ pc'[R] = pc[R] /\ omitting'[R] = omitting[R]
            /\ stream'[R][i] = stream[R][i] /\ worker'[R][i] = worker[R][i]
            /\ taken'[R][i] = taken[R][i] /\ intervals'[R][i] = intervals[R][i]
        BY <1>3, <4>1 DEF SideSame, SameAt
      <4>3. ReceiverOK(i)
        BY DEF Inv, ReceiverInv
      <4>4. Got(R)' <=> Got(R)
        BY <1>2, <2>1
      <4>. QED
        BY <4>2, <4>3, <4>4 DEF ReceiverOK
    <3>. QED
      BY <3>1, <3>2
  <2>4. ReceiverCounts(stream'[R][i], worker'[R][i], taken'[R][i], intervals'[R][i],
                       omitting'[R], pc'[R], Len(wire[i]), WrittenOf(i)')
    <3>1. WrittenOf(i)' - Len(wire[i]) >= WrittenOf(i) - Len(wire[i]) /\ Len(wire[i]) >= Len(wire[i])
      BY <2>1
    <3> HIDE DEF R
    <3>. QED
      BY <2>1, <2>2, <2>3, <3>1, MoreUnderWay
  <2>. QED
    BY <1>1, <2>3, <2>4 DEF ReceiverOK, SenderOf, Peer
<1>7. ReceiverInv'
  BY <1>1, <1>6 DEF ReceiverInv
<1>8. TestInv' /\ ResultsInv' /\ FlagsInv' /\ PrintedInv' /\ SumsInv'
  BY IntervalFrames
<1>9. SentInv' /\ GotInv' /\ ShownInv'
  BY IntervalExchange
<1>. QED
  BY <1>3, <1>5, <1>7, <1>8, <1>9 DEF Inv

-----------------------------------------------------------------------------
(* How the main thread moves the counters of one stream: it reads the      *)
(* interval's bytes, it cancels the worker, it clears the interval, it     *)
(* relieves the stream of the omitted period.                              *)

LEMMA SenderReads ==
    ASSUME NEW a \in StreamType, NEW w \in 0 .. 2, NEW tk \in Nat, NEW iv \in Nat, NEW om, NEW p,
           NEW q, NEW most \in Nat, SenderCounts(a, w, tk, iv, om, p, most)
    PROVE  /\ q \in {"interval", "last"} => SenderCounts(a, w, a.sent_this_interval, iv, om, q, most)
           /\ q \in {"interval", "last"} => SenderCounts(a, 0, a.sent_this_interval, iv, om, q, most)
BY DEF SenderCounts, B, StreamType

Reported(iv, tk, om, iv1) == iv1 = IF om THEN 0 ELSE iv + tk

LEMMA SenderClears ==
    ASSUME NEW a \in StreamType, NEW b \in StreamType, NEW w \in 0 .. 2, NEW tk \in Nat,
           NEW iv \in Nat, NEW om, NEW p \in {"interval", "last"}, NEW q, NEW iv1 \in Nat,
           NEW most \in Nat, SenderCounts(a, w, tk, iv, om, p, most), q \notin {"interval", "last"},
           Reported(iv, tk, om, iv1),
           b.bytes_sent = a.bytes_sent, b.bytes_sent_omit = a.bytes_sent_omit,
           b.sent_this_interval = 0
    PROVE  SenderCounts(b, w, 0, iv1, om, q, most)
BY DEF SenderCounts, B, StreamType, Reported

LEMMA SenderRelieved ==
    ASSUME NEW a \in StreamType, NEW b \in StreamType, NEW w \in 0 .. 2, NEW tk \in Nat,
           NEW iv \in Nat, NEW p, NEW most \in Nat, SenderCounts(a, w, tk, iv, TRUE, p, most),
           p = "running", b.bytes_sent = a.bytes_sent, b.bytes_sent_omit = a.bytes_sent,
           b.sent_this_interval = 0
    PROVE  SenderCounts(b, w, tk, iv, FALSE, p, most)
BY DEF SenderCounts, B, StreamType

LEMMA ReceiverReads ==
    ASSUME NEW a \in StreamType, NEW w \in 0 .. 2, NEW tk \in Nat, NEW iv \in Nat, NEW om, NEW p,
           NEW q, NEW u \in Nat, NEW c \in Nat, ReceiverCounts(a, w, tk, iv, om, p, u, c)
    PROVE  q \in {"interval", "last"} =>
                ReceiverCounts(a, w, a.received_this_interval, iv, om, q, u, c)
BY DEF ReceiverCounts, B, StreamType

LEMMA ReceiverClears ==
    ASSUME NEW a \in StreamType, NEW b \in StreamType, NEW w \in 0 .. 2, NEW tk \in Nat,
           NEW iv \in Nat, NEW om, NEW p \in {"interval", "last"}, NEW q, NEW iv1 \in Nat,
           NEW u \in Nat, NEW c \in Nat, Reported(iv, tk, om, iv1),
           ReceiverCounts(a, w, tk, iv, om, p, u, c), q \notin {"interval", "last"},
           b.bytes_received = a.bytes_received, b.bytes_sent_omit = a.bytes_sent_omit,
           b.received_this_interval = 0
    PROVE  ReceiverCounts(b, w, 0, iv1, om, q, u, c)
BY DEF ReceiverCounts, B, StreamType, Reported

LEMMA ReceiverRelieved ==
    ASSUME NEW a \in StreamType, NEW b \in StreamType, NEW w \in 0 .. 2, NEW tk \in Nat,
           NEW iv \in Nat, NEW p, NEW u \in Nat, NEW c \in Nat,
           ReceiverCounts(a, w, tk, iv, TRUE, p, u, c), p = "running",
           b.bytes_received = 0, b.bytes_sent_omit = 0, b.received_this_interval = 0
    PROVE  ReceiverCounts(b, w, tk, iv, FALSE, p, u, c)
BY DEF ReceiverCounts, B, StreamType

(* The invariant at a side that has not exchanged results.                 *)
LEMMA BusySender ==
    ASSUME Inv, NEW side \in Sides, NEW i \in Streams, pc[side] \in Busy, Sends(side, i)
    PROVE  /\ SenderOf(i) = side
           /\ SenderCounts(stream[side][i], worker[side][i], taken[side][i], intervals[side][i],
                           omitting[side], pc[side], MaxBlocks[mode])
<1>1. SenderOf(i) = side
  BY SidesKnown
<1>2. ~Replaced(i)
  BY <1>1 DEF Replaced, Got, Busy
<1>. QED
  BY <1>1, <1>2 DEF Inv, SenderInv, SenderOK

LEMMA BusyReceiver ==
    ASSUME Inv, NEW side \in Sides, NEW i \in Streams, pc[side] \in Busy, ~Sends(side, i)
    PROVE  /\ Peer(SenderOf(i)) = side
           /\ ReceiverCounts(stream[side][i], worker[side][i], taken[side][i], intervals[side][i],
                             omitting[side], pc[side], Len(wire[i]), WrittenOf(i))
           /\ stream[side][i].bytes_sent = 0
<1>1. Peer(SenderOf(i)) = side
  BY SidesKnown
<1>2. ~Got(side)
  BY DEF Got, Busy
<1>. QED
  BY <1>1, <1>2 DEF Inv, ReceiverInv, ReceiverOK

(* The sender of a stream counts retransmissions over TCP only.            *)
LEMMA SendersCount ==
    ASSUME Inv, NEW side \in Sides, NEW i \in Streams, Sends(side, i)
    PROVE  /\ ModeOf(side) # "RECEIVER"
           /\ has[side] \in {0, 1} /\ (has[side] = 1 => protocol = "tcp")
<1>1. ModeOf(side) # "RECEIVER"
  BY StreamsKnown DEF Inv, ModeOf, Sends, SenderOf, Sides
<1>. QED
  BY <1>1 DEF Inv, FlagsInv

LEMMA RetransFrame ==
    ASSUME Inv, NEW side \in Sides, IntervalStep(side), stream' = stream, kernel' = kernel
    PROVE  RetransInv'
<1>1. results' = results /\ has' = has /\ Streams' = Streams
  BY IntervalUnchanged
<1>2. \A sd \in Sides : Sent(sd)' <=> Sent(sd)
  BY IntervalPhases
<1>3. \A i : Sent(SenderOf(i))' <=> Sent(SenderOf(i))
  BY <1>2, SidesKnown
<1>. QED
  BY <1>1, <1>3 DEF Inv, RetransInv, SenderOf, Sent

LEMMA RingFrame ==
    ASSUME Inv, NEW side \in Sides, IntervalStep(side), ring' = ring, history' = history,
           side = "s" => pc'["s"] # "stopped"
    PROVE  RingInv'
<1>1. pc'["s"] = "stopped" <=> pc["s"] = "stopped"
  <2>1. CASE side = "s"
    BY <2>1 DEF IntervalStep, Busy
  <2>2. CASE side = "c"
    BY <2>2 DEF IntervalStep, SideSame, Peer
  <2>. QED
    BY <2>1, <2>2 DEF Sides
<1>. QED
  BY <1>1 DEF Inv, RingInv, Slot, Window, Summed, PartialSums

(* StartInterval, ClientEnds, ServerEnds: the bytes of the interval are     *)
(* read.                                                                   *)
Cancelled(side) ==
    worker' = [worker EXCEPT ![side] = [i \in Streams |->
                IF Sends(side, i) THEN 0 ELSE worker[side][i]]]

LEMMA ReadingPreserves ==
    ASSUME Inv, NEW side \in Sides, NEW p \in {"interval", "last"}, pc[side] = "running",
           pc' = [pc EXCEPT ![side] = p], ReadInterval(side),
           \/ worker' = worker /\ (p = "last" => side = "s" /\ pc["c"] = "ended")
           \/ Cancelled(side) /\ p = "last" /\ side = "c",
           UNCHANGED <<test, counters, omitting, wire, kernel, results, intervals,
                       ring, history, printed>>
    PROVE  Inv'
<1>1. /\ UNCHANGED test /\ stream' = stream /\ has' = has /\ other' = other
      /\ congestion' = congestion /\ omitting' = omitting /\ wire' = wire /\ kernel' = kernel
      /\ results' = results /\ intervals' = intervals /\ ring' = ring /\ history' = history
      /\ printed' = printed
  BY DEF counters
<1>2. mode' = mode /\ protocol' = protocol /\ Streams' = Streams
  BY <1>1, SameTest
<1>3. Peer(side) \in Sides /\ Peer(side) # side
  BY SidesKnown
<1>4. /\ stream \in [Sides -> [Streams -> StreamType]] /\ worker \in [Sides -> [Streams -> 0 .. 2]]
      /\ taken \in [Sides -> [Streams -> Nat]] /\ pc \in [Sides -> Phases]
  BY DEF Inv, CountersInv, PhaseInv
<1>5. pc'[side] = p /\ pc'[Peer(side)] = pc[Peer(side)]
  BY <1>3, <1>4
<1>6. /\ taken' \in [Sides -> [Streams -> Nat]]
      /\ \A i \in Streams : taken'[side][i] = ThisInterval(side, i)
                            /\ taken'[Peer(side)][i] = taken[Peer(side)][i]
  <2>1. \A i \in Streams : ThisInterval(side, i) \in Nat
    <3>1. ASSUME NEW i \in Streams
          PROVE  ThisInterval(side, i) \in Nat
      <4>1. stream[side][i] \in StreamType
        BY <1>4
      <4>. QED
        BY <4>1 DEF ThisInterval, StreamType
    <3>. QED
      BY <3>1
  <2>2. [i \in Streams |-> ThisInterval(side, i)] \in [Streams -> Nat]
    BY <2>1
  <2>. QED
    BY <1>3, <1>4, <2>2 DEF ReadInterval
<1>7. /\ worker' \in [Sides -> [Streams -> 0 .. 2]]
      /\ \A i \in Streams :
            /\ worker'[Peer(side)][i] = worker[Peer(side)][i]
            /\ \/ worker'[side][i] = worker[side][i]
                  /\ (p = "last" /\ Sends(side, i) => side = "s")
               \/ worker'[side][i] = 0 /\ Sends(side, i) /\ p = "last" /\ side = "c"
  <2>1. CASE worker' = worker /\ (p = "last" => side = "s" /\ pc["c"] = "ended")
    BY <1>4, <2>1
  <2>2. CASE Cancelled(side) /\ p = "last" /\ side = "c"
    BY <1>3, <1>4, <2>2 DEF Cancelled
  <2>. QED
    BY <2>1, <2>2
<1>8. CountersInv'
  BY <1>1, <1>2, <1>6, <1>7 DEF Inv, CountersInv
<1>9. PhaseInv'
  <2>1. pc' \in [Sides -> Phases]
    BY <1>4 DEF Phases
  <2>2. p = "last" /\ side = "s" => pc["c"] = "ended"
    OBVIOUS
  <2>3. CASE side = "c"
    BY <1>1, <1>5, <2>1, <2>3 DEF Inv, PhaseInv, Peer
  <2>4. CASE side = "s"
    BY <1>1, <1>5, <2>1, <2>2, <2>4 DEF Inv, PhaseInv, Peer
  <2>. QED
    BY <2>3, <2>4 DEF Sides
<1>10. ASSUME NEW i \in Streams, MaySend(i)'
       PROVE  MaySend(i) /\ (Sends(side, i) => worker'[side][i] = worker[side][i])
  <2>1. CASE Sends(side, i)
    BY <1>2, <1>5, <1>7, <1>10, <2>1, SidesKnown DEF MaySend, SenderOf
  <2>2. CASE ~Sends(side, i)
    <3>1. SenderOf(i) = Peer(side)
      BY <2>2, SidesKnown DEF Sides, Peer
    <3>2. pc'[SenderOf(i)] = pc[SenderOf(i)]
      BY <1>5, <3>1
    <3>. QED
      BY <1>2, <1>10, <2>2, <3>2 DEF MaySend, SenderOf
  <2>. QED
    BY <2>1, <2>2
<1>11. IntervalStep(side)
  <2>1. SideSame(Peer(side))
    BY <1>1, <1>5, <1>6, <1>7 DEF SideSame, SameAt
  <2>2. pc[side] \in Busy /\ pc'[side] \in Busy \cup {"ended", "stopped"}
    BY <1>5 DEF Busy
  <2>. QED
    BY <1>1, <1>8, <1>9, <1>10, <2>1, <2>2 DEF IntervalStep
<1>12. ASSUME NEW i \in Streams, Sends(side, i)
       PROVE  SenderOK(i)'
  <2>1. /\ SenderOf(i) = side
        /\ SenderCounts(stream[side][i], worker[side][i], taken[side][i], intervals[side][i],
                        omitting[side], pc[side], MaxBlocks[mode])
    BY <1>12, BusySender DEF Busy
  <2>2. /\ stream[side][i] \in StreamType /\ worker[side][i] \in 0 .. 2 /\ taken[side][i] \in Nat
        /\ intervals[side][i] \in Nat /\ MaxBlocks[mode] \in Nat
    BY TypesAt, StreamsKnown DEF Inv
  <2>3. taken'[side][i] = stream[side][i].sent_this_interval
    BY <1>6, <1>12 DEF ThisInterval
  <2>4. /\ SenderCounts(stream[side][i], worker[side][i], stream[side][i].sent_this_interval,
                        intervals[side][i], omitting[side], p, MaxBlocks[mode])
        /\ SenderCounts(stream[side][i], 0, stream[side][i].sent_this_interval,
                        intervals[side][i], omitting[side], p, MaxBlocks[mode])
    BY <2>1, <2>2, SenderReads
  <2>5. SenderCounts(stream'[side][i], worker'[side][i], taken'[side][i],
                     intervals'[side][i], omitting'[side], pc'[side], MaxBlocks'[mode'])
    BY <1>1, <1>2, <1>5, <1>7, <2>3, <2>4
  <2>6. side = "c" /\ pc'["c"] \notin {"running", "interval"} => worker'["c"][i] = 0
    BY <1>5, <1>7, <1>12
  <2>. QED
    BY <2>1, <2>5, <2>6 DEF SenderOK, SenderOf
<1>13. ASSUME NEW i \in Streams, ~Sends(side, i)
       PROVE  ReceiverKept(side, i)
  <2>1. /\ ReceiverCounts(stream[side][i], worker[side][i], taken[side][i], intervals[side][i],
                          omitting[side], pc[side], Len(wire[i]), WrittenOf(i))
        /\ stream[side][i].bytes_sent = 0
    BY <1>13, BusyReceiver DEF Busy
  <2>2. /\ stream[side][i] \in StreamType /\ worker[side][i] \in 0 .. 2 /\ taken[side][i] \in Nat
        /\ intervals[side][i] \in Nat /\ Len(wire[i]) \in Nat /\ WrittenOf(i) \in Nat
    BY TypesAt, WrittenBound
  <2>3. taken'[side][i] = stream[side][i].received_this_interval
    BY <1>6, <1>13 DEF ThisInterval
  <2>4. ReceiverCounts(stream[side][i], worker[side][i], stream[side][i].received_this_interval,
                       intervals[side][i], omitting[side], p, Len(wire[i]), WrittenOf(i))
    BY <2>1, <2>2, ReceiverReads
  <2>5. worker'[side][i] = worker[side][i]
    BY <1>7, <1>13
  <2>. QED
    BY <1>1, <1>5, <2>1, <2>3, <2>4, <2>5 DEF ReceiverKept
<1>14. RetransInv'
  BY <1>1, <1>11, RetransFrame
<1>15. RingInv'
  <2>1. side = "s" => pc'["s"] # "stopped"
    BY <1>5
  <2>. QED
    BY <1>1, <1>11, <2>1, RingFrame
<1>. QED
  BY <1>11, <1>12, <1>13, <1>14, <1>15, IntervalPreserves

LEMMA StartIntervalPreserves ==
    ASSUME Inv, NEW side \in Sides, StartInterval(side)
    PROVE  Inv'
BY ReadingPreserves DEF StartInterval

LEMMA ClientEndsPreserves ==
    ASSUME Inv, ClientEnds
    PROVE  Inv'
<1>1. Cancelled("c")
  BY DEF ClientEnds, Cancelled
<1>. QED
  BY <1>1, ReadingPreserves DEF ClientEnds, Sides

LEMMA ServerEndsPreserves ==
    ASSUME Inv, ServerEnds
    PROVE  Inv'
BY ReadingPreserves DEF ServerEnds, Sides

-----------------------------------------------------------------------------
(* EndInterval, LastInterval: the interval is cleared.                     *)

ClearedOf(a, b) ==
    /\ b.bytes_sent = a.bytes_sent /\ b.bytes_sent_omit = a.bytes_sent_omit
    /\ b.bytes_received = a.bytes_received
    /\ b.sent_this_interval = 0 /\ b.received_this_interval = 0
    /\ b.stream_retrans - b.stream_prev_total_retrans = a.stream_retrans - a.stream_prev_total_retrans

LEMMA AfterStatsFields ==
    ASSUME Inv, NEW side \in Sides, NEW i \in Streams
    PROVE  AfterStats(side, i) \in StreamType /\ ClearedOf(stream[side][i], AfterStats(side, i))
<1> DEFINE sp == stream[side][i]
           total == IF protocol = "tcp" /\ has[side] = 1 THEN save_tcpinfo(side, i)
                    ELSE sp.stream_prev_total_retrans
           retrans == sp.stream_retrans + total - sp.stream_prev_total_retrans
           b == AfterStats(side, i)
<1>1. sp \in StreamType
  BY TypesAt
<1>2. sp.stream_prev_total_retrans \in Nat /\ sp.stream_retrans \in Int
  BY <1>1 DEF StreamType
<1>3. total \in Nat
  BY <1>2 DEF save_tcpinfo, Inv, CountersInv
<1>4. b = [sp EXCEPT !.sent_this_interval = 0, !.received_this_interval = 0,
                     !.stream_retrans = retrans, !.stream_prev_total_retrans = total]
  BY DEF AfterStats
<1>5. retrans \in Int /\ retrans - total = sp.stream_retrans - sp.stream_prev_total_retrans
  <2> HIDE DEF total
  <2>. QED
    BY <1>2, <1>3
<1> HIDE DEF sp, total, retrans, b
<1>6. b \in StreamType
  BY <1>1, <1>3, <1>4, <1>5 DEF StreamType
<1>7. /\ b.bytes_sent = sp.bytes_sent /\ b.bytes_sent_omit = sp.bytes_sent_omit
      /\ b.bytes_received = sp.bytes_received
      /\ b.sent_this_interval = 0 /\ b.received_this_interval = 0
      /\ b.stream_retrans = retrans /\ b.stream_prev_total_retrans = total
  BY <1>1, <1>4 DEF StreamType
<1>8. ClearedOf(sp, b)
  BY <1>5, <1>7 DEF ClearedOf
<1>. QED
  BY <1>6, <1>8 DEF sp, b

LEMMA ClearingPreserves ==
    ASSUME Inv, NEW side \in Sides, NEW p, pc' = [pc EXCEPT ![side] = p], ClearInterval(side),
           \/ pc[side] = "interval" /\ (p = "running" \/ (p = "stopped" /\ side = "s"))
           \/ pc[side] = "last" /\ p = "ended",
           UNCHANGED <<test, has, other, congestion, omitting, worker, wire, kernel, results,
                       printed>>,
           RingInv'
    PROVE  Inv'
<1>1. /\ UNCHANGED test /\ has' = has /\ other' = other /\ worker' = worker
      /\ congestion' = congestion /\ omitting' = omitting /\ wire' = wire /\ kernel' = kernel
      /\ results' = results /\ printed' = printed
  OBVIOUS
<1>2. mode' = mode /\ protocol' = protocol /\ Streams' = Streams
  BY <1>1, SameTest
<1>3. Peer(side) \in Sides /\ Peer(side) # side
  BY SidesKnown
<1>4. /\ stream \in [Sides -> [Streams -> StreamType]] /\ worker \in [Sides -> [Streams -> 0 .. 2]]
      /\ taken \in [Sides -> [Streams -> Nat]] /\ intervals \in [Sides -> [Streams -> Nat]]
      /\ pc \in [Sides -> Phases]
  BY DEF Inv, CountersInv, PhaseInv
<1>5. pc'[side] = p /\ pc'[Peer(side)] = pc[Peer(side)]
  BY <1>3, <1>4
<1>6. /\ taken' \in [Sides -> [Streams -> Nat]]
      /\ \A i \in Streams : taken'[side][i] = 0 /\ taken'[Peer(side)][i] = taken[Peer(side)][i]
  BY <1>3, <1>4 DEF ClearInterval
<1>7. /\ intervals' \in [Sides -> [Streams -> Nat]]
      /\ \A i \in Streams :
            /\ intervals'[side][i] = IF omitting[side] THEN 0 ELSE intervals[side][i] + taken[side][i]
            /\ intervals'[Peer(side)][i] = intervals[Peer(side)][i]
  <2>1. [i \in Streams |-> IF omitting[side] THEN 0 ELSE intervals[side][i] + taken[side][i]]
            \in [Streams -> Nat]
    BY <1>4
  <2>. QED
    BY <1>3, <1>4, <2>1 DEF ClearInterval
<1>8. /\ stream' \in [Sides -> [Streams -> StreamType]]
      /\ \A i \in Streams :
            /\ stream'[side][i] = AfterStats(side, i)
            /\ stream'[Peer(side)][i] = stream[Peer(side)][i]
  <2>1. [i \in Streams |-> AfterStats(side, i)] \in [Streams -> StreamType]
    BY AfterStatsFields
  <2>. QED
    BY <1>3, <1>4, <2>1 DEF ClearInterval
<1>9. \A i \in Streams : ClearedOf(stream[side][i], stream'[side][i])
  BY <1>8, AfterStatsFields
<1>10. CountersInv'
  BY <1>1, <1>2, <1>6, <1>7, <1>8 DEF Inv, CountersInv
<1>11. PhaseInv'
  <2>1. pc' \in [Sides -> Phases]
    BY <1>4 DEF Phases
  <2>3. CASE side = "c"
    BY <1>1, <1>5, <2>1, <2>3 DEF Inv, PhaseInv, Peer
  <2>4. CASE side = "s"
    BY <1>1, <1>5, <2>1, <2>4 DEF Inv, PhaseInv, Peer
  <2>. QED
    BY <2>3, <2>4 DEF Sides
<1>12. ASSUME NEW i \in Streams, MaySend(i)'
       PROVE  MaySend(i)
  <2>1. CASE Sends(side, i)
    BY <1>2, <1>5, <1>12, <2>1, SidesKnown DEF MaySend, SenderOf
  <2>2. CASE ~Sends(side, i)
    <3>1. SenderOf(i) = Peer(side)
      BY <2>2, SidesKnown DEF Sides, Peer
    <3>2. pc'[SenderOf(i)] = pc[SenderOf(i)]
      BY <1>5, <3>1
    <3>. QED
      BY <1>2, <1>12, <2>2, <3>2 DEF MaySend, SenderOf
  <2>. QED
    BY <2>1, <2>2
<1>13. pc[side] \in Busy /\ pc'[side] \in Busy \cup {"ended", "stopped"}
  BY <1>5 DEF Busy
<1>14. IntervalStep(side)
  <2>1. SideSame(Peer(side))
    BY <1>1, <1>5, <1>6, <1>7, <1>8 DEF SideSame, SameAt
  <2>2. \A i \in Streams : stream'[side][i].bytes_sent = stream[side][i].bytes_sent
    BY <1>9 DEF ClearedOf
  <2>. QED
    BY <1>1, <1>10, <1>11, <1>12, <1>13, <2>1, <2>2 DEF IntervalStep
<1>15. pc[side] \in {"interval", "last"} /\ p \notin {"interval", "last"}
  OBVIOUS
<1>16. ASSUME NEW i \in Streams, Sends(side, i)
       PROVE  SenderOK(i)'
  <2>1. /\ SenderOf(i) = side
        /\ SenderCounts(stream[side][i], worker[side][i], taken[side][i], intervals[side][i],
                        omitting[side], pc[side], MaxBlocks[mode])
    BY <1>13, <1>16, BusySender
  <2>2. /\ stream[side][i] \in StreamType /\ worker[side][i] \in 0 .. 2 /\ taken[side][i] \in Nat
        /\ intervals[side][i] \in Nat /\ MaxBlocks[mode] \in Nat /\ stream'[side][i] \in StreamType
    BY <1>8, TypesAt, StreamsKnown DEF Inv
  <2>3. /\ stream'[side][i].bytes_sent = stream[side][i].bytes_sent
        /\ stream'[side][i].bytes_sent_omit = stream[side][i].bytes_sent_omit
        /\ stream'[side][i].sent_this_interval = 0
    BY <1>9 DEF ClearedOf
  <2>3a. intervals'[side][i] \in Nat
         /\ Reported(intervals[side][i], taken[side][i], omitting[side], intervals'[side][i])
    BY <1>7 DEF Reported
  <2>4. SenderCounts(stream'[side][i], worker[side][i], 0, intervals'[side][i],
                     omitting[side], p, MaxBlocks[mode])
    <3> DEFINE a == stream[side][i]
               b == stream'[side][i]
               most == MaxBlocks[mode]
    <3>1. /\ a \in StreamType /\ b \in StreamType /\ most \in Nat
          /\ SenderCounts(a, worker[side][i], taken[side][i], intervals[side][i], omitting[side],
                          pc[side], most)
          /\ b.bytes_sent = a.bytes_sent /\ b.bytes_sent_omit = a.bytes_sent_omit
          /\ b.sent_this_interval = 0
      BY <2>1, <2>2, <2>3
    <3> HIDE DEF a, b, most
    <3>2. SenderCounts(b, worker[side][i], 0, intervals'[side][i], omitting[side], p, most)
      BY <1>15, <2>2, <2>3a, <3>1, SenderClears
    <3>. QED
      BY <3>2 DEF b, most
  <2>5. SenderCounts(stream'[side][i], worker'[side][i], taken'[side][i],
                     intervals'[side][i], omitting'[side], pc'[side], MaxBlocks'[mode'])
    BY <1>1, <1>2, <1>5, <1>6, <1>7, <2>4
  <2>6. side = "c" /\ pc'["c"] \notin {"running", "interval"} => worker'["c"][i] = 0
    <3>1. SUFFICES ASSUME side = "c", p = "ended" PROVE worker["c"][i] = 0
      BY <1>1, <1>5
    <3>2. pc["c"] = "last"
      BY <3>1
    <3>3. SenderOK(i)
      BY DEF Inv, SenderInv
    <3>. QED
      BY <2>1, <3>1, <3>2, <3>3 DEF SenderOK
  <2>. QED
    BY <2>1, <2>5, <2>6 DEF SenderOK, SenderOf
<1>17. ASSUME NEW i \in Streams, ~Sends(side, i)
       PROVE  ReceiverKept(side, i)
  <2>1. /\ ReceiverCounts(stream[side][i], worker[side][i], taken[side][i], intervals[side][i],
                          omitting[side], pc[side], Len(wire[i]), WrittenOf(i))
        /\ stream[side][i].bytes_sent = 0
    BY <1>13, <1>17, BusyReceiver
  <2>2. /\ stream[side][i] \in StreamType /\ worker[side][i] \in 0 .. 2 /\ taken[side][i] \in Nat
        /\ intervals[side][i] \in Nat /\ Len(wire[i]) \in Nat /\ WrittenOf(i) \in Nat
        /\ stream'[side][i] \in StreamType
    BY <1>8, TypesAt, WrittenBound
  <2>3. /\ stream'[side][i].bytes_received = stream[side][i].bytes_received
        /\ stream'[side][i].bytes_sent_omit = stream[side][i].bytes_sent_omit
        /\ stream'[side][i].received_this_interval = 0
        /\ stream'[side][i].bytes_sent = stream[side][i].bytes_sent
    BY <1>9 DEF ClearedOf
  <2>3a. intervals'[side][i] \in Nat
         /\ Reported(intervals[side][i], taken[side][i], omitting[side], intervals'[side][i])
    BY <1>7 DEF Reported
  <2>4. ReceiverCounts(stream'[side][i], worker[side][i], 0, intervals'[side][i],
                       omitting[side], p, Len(wire[i]), WrittenOf(i))
    BY <1>15, <2>1, <2>2, <2>3, <2>3a, ReceiverClears
  <2>. QED
    BY <1>1, <1>5, <1>6, <1>7, <2>1, <2>3, <2>4 DEF ReceiverKept
<1>18. RetransInv'
  <2>1. \A sd \in Sides : (Sent(sd)' <=> Sent(sd)) /\ (Sent(sd) => sd = Peer(side))
    BY <1>14, IntervalPhases
  <2>2. ASSUME NEW i \in Streams, has[SenderOf(i)] = 1
        PROVE  /\ stream'[SenderOf(i)][i].stream_retrans =
                    stream'[SenderOf(i)][i].stream_prev_total_retrans - kernel'[i].omitted
               /\ Sent(SenderOf(i))' =>
                    results'[SenderOf(i)].streams[i].retransmits =
                        stream'[SenderOf(i)][i].stream_retrans
    <3>1. /\ stream[SenderOf(i)][i].stream_retrans =
                stream[SenderOf(i)][i].stream_prev_total_retrans - kernel[i].omitted
          /\ Sent(SenderOf(i)) =>
                results[SenderOf(i)].streams[i].retransmits = stream[SenderOf(i)][i].stream_retrans
      BY <2>2 DEF Inv, RetransInv
    <3>2. CASE SenderOf(i) = side
      <4> DEFINE a == stream[side][i]
                 b == stream'[side][i]
      <4>1. /\ a.stream_retrans \in Int /\ a.stream_prev_total_retrans \in Int
            /\ b.stream_retrans \in Int /\ b.stream_prev_total_retrans \in Int
        BY <1>4, <1>8 DEF StreamType
      <4>2. b.stream_retrans - b.stream_prev_total_retrans =
                a.stream_retrans - a.stream_prev_total_retrans
        BY <1>9 DEF ClearedOf
      <4>3. kernel[i].omitted \in Int
        BY DEF Inv, CountersInv
      <4>4. a.stream_retrans = a.stream_prev_total_retrans - kernel[i].omitted
        BY <3>1, <3>2
      <4> HIDE DEF a, b
      <4>5. b.stream_retrans = b.stream_prev_total_retrans - kernel[i].omitted
        BY <4>1, <4>2, <4>3, <4>4
      <4>. QED
        BY <1>1, <1>3, <2>1, <3>2, <4>5 DEF b
    <3>3. CASE SenderOf(i) # side
      <4>1. SenderOf(i) = Peer(side)
        BY <3>3, SidesKnown DEF Sides, Peer
      <4>. QED
        BY <1>1, <1>3, <1>8, <2>1, <3>1, <4>1
    <3>. QED
      BY <3>2, <3>3
  <2>3. has' = has
    BY IntervalUnchanged
  <2>. QED
    BY <1>2, <2>2, <2>3 DEF RetransInv, SenderOf, Sent
<1>. QED
  BY <1>14, <1>16, <1>17, <1>18, IntervalPreserves

LEMMA LastIntervalPreserves ==
    ASSUME Inv, NEW side \in Sides, LastInterval(side)
    PROVE  Inv'
<1>1. RingInv'
  <2>1. pc \in [Sides -> Phases]
    BY DEF Inv, PhaseInv
  <2>2. pc'["s"] = "stopped" <=> pc["s"] = "stopped"
    BY <2>1 DEF LastInterval, Sides
  <2>3. ring' = ring /\ history' = history
    BY DEF LastInterval
  <2>. QED
    BY <2>2, <2>3 DEF Inv, RingInv, Slot, Window, Summed, PartialSums
<1>2. /\ pc[side] = "last" /\ pc' = [pc EXCEPT ![side] = "ended"] /\ ClearInterval(side)
      /\ UNCHANGED <<test, has, other, congestion, omitting, worker, wire, kernel, results, printed>>
  BY DEF LastInterval
<1>. QED
  BY <1>1, <1>2, ClearingPreserves

-----------------------------------------------------------------------------
(* iperf_reset_stats: the omitted period ends.                             *)

LEMMA RetransTypes ==
    ASSUME NEW a \in StreamType, NEW n \in Int, NEW t \in Nat
    PROVE  [a EXCEPT !.stream_retrans = n, !.stream_prev_total_retrans = t] \in StreamType
<1> DEFINE b == [a EXCEPT !.stream_retrans = n]
<1>1. b \in StreamType
  BY DEF StreamType
<1>2. [b EXCEPT !.stream_prev_total_retrans = t] \in StreamType
  <2> HIDE DEF b
  <2>. QED
    BY <1>1 DEF StreamType
<1>. QED
  BY <1>2

LEMMA RelievedType ==
    ASSUME NEW a \in StreamType, NEW n \in Nat, NEW e \in Int, NEW m \in Nat, NEW t \in Nat
    PROVE  [a EXCEPT !.omitted_packet_count = n, !.omitted_cnt_error = e,
                     !.bytes_sent_omit = m, !.bytes_received = 0,
                     !.sent_this_interval = 0, !.received_this_interval = 0,
                     !.stream_retrans = 0, !.stream_prev_total_retrans = t] \in StreamType
<1> DEFINE b == [a EXCEPT !.omitted_packet_count = n, !.omitted_cnt_error = e,
                          !.bytes_sent_omit = m]
           c == [b EXCEPT !.bytes_received = 0, !.sent_this_interval = 0,
                          !.received_this_interval = 0]
           d == [c EXCEPT !.stream_retrans = 0, !.stream_prev_total_retrans = t]
<1>1. b \in StreamType
  BY DEF StreamType
<1>2. c \in StreamType
  <2> HIDE DEF b
  <2>. QED
    BY <1>1 DEF StreamType
<1>3. d \in StreamType
  <2> HIDE DEF c
  <2>1. 0 \in Int
    OBVIOUS
  <2>. QED
    BY <1>2, <2>1, RetransTypes
<1>. QED
  BY <1>3

LEMMA RelievedFields ==
    ASSUME Inv, NEW side \in Sides, NEW i \in Streams
    PROVE  LET sp == stream[side][i]
               b == Relieved(side, i)
           IN  /\ b \in StreamType
               /\ b.bytes_sent = sp.bytes_sent /\ b.bytes_sent_omit = sp.bytes_sent
               /\ b.bytes_received = 0 /\ b.sent_this_interval = 0 /\ b.received_this_interval = 0
               /\ b.stream_retrans = 0
               /\ has[side] = 1 /\ Sends(side, i) => b.stream_prev_total_retrans = kernel[i].now
<1> DEFINE sp == stream[side][i]
           total == IF has[side] = 1 THEN save_tcpinfo(side, i) ELSE sp.stream_prev_total_retrans
           b == Relieved(side, i)
<1>1. sp \in StreamType
  BY TypesAt
<1>2. /\ sp.packet_count \in Nat /\ sp.cnt_error \in Int /\ sp.bytes_sent \in Nat
      /\ sp.stream_prev_total_retrans \in Nat
  BY <1>1 DEF StreamType
<1>3. total \in Nat /\ (has[side] = 1 /\ Sends(side, i) => total = kernel[i].now)
  BY <1>2 DEF save_tcpinfo, Inv, CountersInv
<1>4. b = [sp EXCEPT !.omitted_packet_count = sp.packet_count, !.omitted_cnt_error = sp.cnt_error,
                     !.bytes_sent_omit = sp.bytes_sent, !.bytes_received = 0,
                     !.sent_this_interval = 0, !.received_this_interval = 0,
                     !.stream_retrans = 0, !.stream_prev_total_retrans = total]
  BY DEF Relieved
<1> HIDE DEF sp, total, b
<1>5. b \in StreamType
  BY <1>1, <1>2, <1>3, <1>4, RelievedType
<1>6. /\ b.bytes_sent = sp.bytes_sent /\ b.bytes_sent_omit = sp.bytes_sent
      /\ b.bytes_received = 0 /\ b.sent_this_interval = 0 /\ b.received_this_interval = 0
      /\ b.stream_retrans = 0 /\ b.stream_prev_total_retrans = total
  BY <1>1, <1>4 DEF StreamType
<1>. QED
  BY <1>3, <1>5, <1>6 DEF sp, b

LEMMA ResetPreserves ==
    ASSUME Inv, NEW side \in Sides, iperf_reset_stats(side)
    PROVE  Inv'
<1>1. /\ UNCHANGED test /\ has' = has /\ other' = other /\ worker' = worker /\ pc' = pc
      /\ congestion' = congestion /\ taken' = taken /\ wire' = wire /\ intervals' = intervals
      /\ results' = results /\ printed' = printed /\ ring' = ring /\ history' = history
      /\ pc[side] = "running" /\ omitting' = [omitting EXCEPT ![side] = FALSE]
  BY DEF iperf_reset_stats
<1>1a. omitting[side] = TRUE
  <2>1. omitting[side] \in BOOLEAN /\ omitting[side]
    BY DEF iperf_reset_stats, Inv, PhaseInv
  <2>. QED
    BY <2>1
<1>2. mode' = mode /\ protocol' = protocol /\ Streams' = Streams
  BY <1>1, SameTest
<1>3. Peer(side) \in Sides /\ Peer(side) # side
  BY SidesKnown
<1>4. stream \in [Sides -> [Streams -> StreamType]] /\ omitting \in [Sides -> BOOLEAN]
      /\ kernel \in [Streams -> [now : Nat, omitted : Nat]]
  BY DEF Inv, CountersInv, PhaseInv
<1>5. /\ omitting' \in [Sides -> BOOLEAN] /\ omitting'[side] = FALSE
      /\ omitting'[Peer(side)] = omitting[Peer(side)]
  BY <1>1, <1>3, <1>4
<1>6. /\ stream' \in [Sides -> [Streams -> StreamType]]
      /\ \A i \in Streams :
            /\ stream'[side][i] = Relieved(side, i)
            /\ stream'[Peer(side)][i] = stream[Peer(side)][i]
  <2>1. [i \in Streams |-> Relieved(side, i)] \in [Streams -> StreamType]
    BY RelievedFields
  <2>2. stream' = [stream EXCEPT ![side] = [i \in Streams |-> Relieved(side, i)]]
    BY DEF iperf_reset_stats
  <2>. QED
    BY <1>3, <1>4, <2>1, <2>2
<1>7. /\ kernel' \in [Streams -> [now : Nat, omitted : Nat]]
      /\ \A i \in Streams : kernel'[i].omitted = IF Sends(side, i) THEN kernel[i].now
                                                 ELSE kernel[i].omitted
  <2>1. kernel' = [i \in Streams |-> IF Sends(side, i)
                                     THEN [now |-> kernel[i].now, omitted |-> kernel[i].now]
                                     ELSE kernel[i]]
    BY DEF iperf_reset_stats
  <2>. QED
    BY <1>4, <2>1
<1>8. CountersInv'
  BY <1>1, <1>2, <1>6, <1>7 DEF Inv, CountersInv
<1>9. PhaseInv'
  BY <1>1, <1>5 DEF Inv, PhaseInv
<1>10. IntervalStep(side)
  <2>1. SideSame(Peer(side))
    BY <1>1, <1>5, <1>6 DEF SideSame, SameAt
  <2>2. \A i \in Streams : stream'[side][i].bytes_sent = stream[side][i].bytes_sent
    BY <1>6, RelievedFields
  <2>3. \A i \in Streams : MaySend(i)' => MaySend(i)
    BY <1>1, <1>2 DEF MaySend, SenderOf
  <2>. QED
    BY <1>1, <1>8, <1>9, <2>1, <2>2, <2>3 DEF IntervalStep, Busy
<1>11. ASSUME NEW i \in Streams, Sends(side, i)
       PROVE  SenderOK(i)'
  <2> DEFINE a == stream[side][i]
             b == stream'[side][i]
             most == MaxBlocks[mode]
  <2>1. /\ SenderOf(i) = side
        /\ SenderCounts(a, worker[side][i], taken[side][i], intervals[side][i], TRUE, pc[side], most)
    BY <1>1, <1>1a, <1>11, BusySender DEF Busy
  <2>2. /\ a \in StreamType /\ worker[side][i] \in 0 .. 2 /\ taken[side][i] \in Nat
        /\ intervals[side][i] \in Nat /\ most \in Nat /\ b \in StreamType
    BY <1>6, TypesAt, StreamsKnown DEF Inv
  <2>3. b.bytes_sent = a.bytes_sent /\ b.bytes_sent_omit = a.bytes_sent /\ b.sent_this_interval = 0
    BY <1>6, RelievedFields
  <2> HIDE DEF a, b, most
  <2>4. SenderCounts(b, worker[side][i], taken[side][i], intervals[side][i], FALSE, pc[side], most)
    BY <1>1, <2>1, <2>2, <2>3, SenderRelieved
  <2>5. SenderCounts(stream'[side][i], worker'[side][i], taken'[side][i], intervals'[side][i],
                     omitting'[side], pc'[side], MaxBlocks'[mode'])
    BY <1>1, <1>2, <1>5, <2>4 DEF b, most
  <2>6. side = "c" => pc'["c"] = "running"
    BY <1>1
  <2>. QED
    BY <2>1, <2>5, <2>6 DEF SenderOK, SenderOf
<1>12. ASSUME NEW i \in Streams, ~Sends(side, i)
       PROVE  ReceiverKept(side, i)
  <2> DEFINE a == stream[side][i]
             b == stream'[side][i]
  <2>1. /\ ReceiverCounts(a, worker[side][i], taken[side][i], intervals[side][i], TRUE, pc[side],
                          Len(wire[i]), WrittenOf(i))
        /\ a.bytes_sent = 0
    BY <1>1, <1>1a, <1>12, BusyReceiver DEF Busy
  <2>2. /\ a \in StreamType /\ worker[side][i] \in 0 .. 2 /\ taken[side][i] \in Nat
        /\ intervals[side][i] \in Nat /\ Len(wire[i]) \in Nat /\ WrittenOf(i) \in Nat
        /\ b \in StreamType
    BY <1>6, TypesAt, WrittenBound
  <2>3. /\ b.bytes_received = 0 /\ b.received_this_interval = 0 /\ b.bytes_sent = a.bytes_sent
        /\ b.bytes_sent_omit = a.bytes_sent
    BY <1>6, RelievedFields
  <2> HIDE DEF a, b
  <2>4. ReceiverCounts(b, worker[side][i], taken[side][i], intervals[side][i], FALSE, pc[side],
                       Len(wire[i]), WrittenOf(i))
    BY <1>1, <2>1, <2>2, <2>3, ReceiverRelieved
  <2>. QED
    BY <1>1, <1>5, <2>1, <2>3, <2>4 DEF ReceiverKept, b
<1>13. RetransInv'
  <2>1. \A sd \in Sides : (Sent(sd)' <=> Sent(sd)) /\ (Sent(sd) => sd = Peer(side))
    BY <1>10, IntervalPhases
  <2>2. ASSUME NEW i \in Streams, has[SenderOf(i)] = 1
        PROVE  /\ stream'[SenderOf(i)][i].stream_retrans =
                    stream'[SenderOf(i)][i].stream_prev_total_retrans - kernel'[i].omitted
               /\ Sent(SenderOf(i))' =>
                    results'[SenderOf(i)].streams[i].retransmits =
                        stream'[SenderOf(i)][i].stream_retrans
    <3>1. CASE SenderOf(i) = side
      <4>1. Sends(side, i) /\ has[side] = 1
        BY <2>2, <3>1, SidesKnown
      <4>2. stream'[side][i].stream_retrans = 0
            /\ stream'[side][i].stream_prev_total_retrans = kernel[i].now
        BY <1>6, <4>1, RelievedFields
      <4>3. kernel'[i].omitted = kernel[i].now /\ kernel[i].now \in Nat
        BY <1>4, <1>7, <4>1
      <4>. QED
        BY <1>3, <2>1, <3>1, <4>2, <4>3
    <3>2. CASE SenderOf(i) # side
      <4>1. SenderOf(i) = Peer(side) /\ ~Sends(side, i)
        BY <3>2, SidesKnown DEF Sides, Peer
      <4>2. /\ stream[SenderOf(i)][i].stream_retrans =
                stream[SenderOf(i)][i].stream_prev_total_retrans - kernel[i].omitted
            /\ Sent(SenderOf(i)) =>
                results[SenderOf(i)].streams[i].retransmits = stream[SenderOf(i)][i].stream_retrans
        BY <2>2 DEF Inv, RetransInv
      <4>. QED
        BY <1>1, <1>3, <1>6, <1>7, <2>1, <4>1, <4>2
    <3>. QED
      BY <3>1, <3>2
  <2>3. has' = has
    BY <1>10, IntervalUnchanged
  <2>. QED
    BY <1>2, <2>2, <2>3 DEF RetransInv, SenderOf, Sent
<1>14. RingInv'
  <2>1. side = "s" => pc'["s"] # "stopped"
    BY <1>1
  <2>. QED
    BY <1>1, <1>10, <2>1, RingFrame
<1>. QED
  BY <1>10, <1>11, <1>12, <1>13, <1>14, IntervalPreserves

-----------------------------------------------------------------------------
(* The steps of the exchange of results, and the summary.                  *)

SenderKept(a, b) ==
    /\ b.bytes_sent = a.bytes_sent /\ b.sent_this_interval = a.sent_this_interval
    /\ b.bytes_sent_omit = a.bytes_sent_omit

ReceivedKept(a, b) ==
    /\ b.bytes_received = a.bytes_received
    /\ b.received_this_interval = a.received_this_interval
    /\ b.bytes_sent_omit = a.bytes_sent_omit

ExchangeStep(side) ==
    /\ UNCHANGED <<test, omitting, taken, worker, wire, kernel, intervals, ring, history>>
    /\ pc[side] \in {"ended", "sent", "got"} /\ pc'[side] \in {"sent", "got", "printed"}
    /\ pc'[Peer(side)] = pc[Peer(side)]
    /\ (Got(side) => Got(side)') /\ (Sent(side) => Sent(side)')
    /\ CountersInv' /\ PhaseInv'
    /\ \A i \in Streams :
        /\ stream'[Peer(side)][i] = stream[Peer(side)][i]
        /\ Sends(side, i) => Replaced(i)' \/ SenderKept(stream[side][i], stream'[side][i])
        /\ ~Sends(side, i) =>
            /\ ReceivedKept(stream[side][i], stream'[side][i])
            /\ Got(side)' \/ stream'[side][i].bytes_sent = stream[side][i].bytes_sent

LEMMA SenderStays ==
    ASSUME NEW a \in StreamType, NEW b \in StreamType, NEW w, NEW tk, NEW iv, NEW om, NEW p, NEW q,
           NEW most, SenderCounts(a, w, tk, iv, om, p, most), SenderKept(a, b),
           p \in {"interval", "last"} <=> q \in {"interval", "last"}
    PROVE  SenderCounts(b, w, tk, iv, om, q, most)
BY DEF SenderCounts, SenderKept

LEMMA ReceiverStays ==
    ASSUME NEW a \in StreamType, NEW b \in StreamType, NEW w, NEW tk, NEW iv, NEW om, NEW p, NEW q,
           NEW u, NEW c, ReceiverCounts(a, w, tk, iv, om, p, u, c), ReceivedKept(a, b),
           p \in {"interval", "last"} <=> q \in {"interval", "last"}
    PROVE  ReceiverCounts(b, w, tk, iv, om, q, u, c)
BY DEF ReceiverCounts, ReceivedKept

LEMMA ExchangeUnchanged ==
    ASSUME NEW side \in Sides, ExchangeStep(side)
    PROVE  /\ omitting' = omitting /\ taken' = taken /\ worker' = worker /\ wire' = wire
           /\ kernel' = kernel /\ intervals' = intervals /\ ring' = ring /\ history' = history
           /\ mode' = mode /\ protocol' = protocol /\ Streams' = Streams
           /\ UNCHANGED test /\ \A sd : ModeOf(sd)' = ModeOf(sd)
<1>1. /\ omitting' = omitting /\ taken' = taken /\ worker' = worker /\ wire' = wire
      /\ kernel' = kernel /\ intervals' = intervals /\ ring' = ring /\ history' = history
      /\ UNCHANGED test
  BY DEF ExchangeStep
<1>. QED
  BY <1>1, SameTest

LEMMA ExchangeCounts ==
    ASSUME Inv, NEW side \in Sides, ExchangeStep(side)
    PROVE  TestInv' /\ CountersInv' /\ PhaseInv' /\ SenderInv' /\ ReceiverInv' /\ RingInv'
<1>1. /\ omitting' = omitting /\ taken' = taken /\ worker' = worker /\ wire' = wire
      /\ intervals' = intervals /\ ring' = ring /\ history' = history
      /\ mode' = mode /\ protocol' = protocol /\ Streams' = Streams
  BY ExchangeUnchanged
<1>2. \A sd \in Sides : sd = side \/ sd = Peer(side)
  BY SidesKnown DEF Sides, Peer
<1>3. \A sd \in Sides :
        /\ Got(sd) => Got(sd)'
        /\ pc[sd] \in {"interval", "last"} <=> pc'[sd] \in {"interval", "last"}
        /\ pc[sd] \in {"running", "interval"} <=> pc'[sd] \in {"running", "interval"}
        /\ pc[sd] = "stopped" <=> pc'[sd] = "stopped"
  <2>1. Got(Peer(side)) => Got(Peer(side))'
    BY DEF ExchangeStep, Got, Peer
  <2>. QED
    BY <1>2, <2>1 DEF ExchangeStep
<1>4. /\ \A sd \in Sides, i \in Streams :
            stream[sd][i] \in StreamType /\ stream'[sd][i] \in StreamType
      /\ CountersInv' /\ PhaseInv'
  BY <1>1, TypesAt DEF ExchangeStep, CountersInv
<1>5. TestInv'
  BY <1>1 DEF Inv, TestInv
<1>6. RingInv'
  <2>1. pc["s"] = "stopped" <=> pc'["s"] = "stopped"
    BY <1>3 DEF Sides
  <2>. QED
    BY <1>1, <2>1 DEF Inv, RingInv, Slot, Window, Summed, PartialSums
<1>7. ASSUME NEW i \in Streams
      PROVE  SenderOK(i)'
  <2> DEFINE S == SenderOf(i)
  <2>1. S \in Sides /\ (Sends(side, i) <=> S = side)
    BY SidesKnown
  <2>2. Replaced(i) => Replaced(i)'
    BY <1>1, <1>3 DEF Replaced, SenderOf, Sides
  <2>3. SenderOK(i)
    BY DEF Inv, SenderInv
  <2>4. Replaced(i)' \/ SenderKept(stream[S][i], stream'[S][i])
    <3>1. CASE S = side
      BY <2>1, <3>1 DEF ExchangeStep
    <3>2. CASE S = Peer(side)
      <4>1. stream'[S][i] = stream[S][i]
        BY <3>2 DEF ExchangeStep
      <4>. QED
        BY <4>1 DEF SenderKept
    <3>. QED
      BY <1>2, <2>1, <3>1, <3>2
  <2>5. ~Replaced(i)' =>
            SenderCounts(stream'[S][i], worker[S][i], taken[S][i], intervals[S][i], omitting[S],
                         pc'[S], MaxBlocks[mode])
    <3>1. SUFFICES ASSUME ~Replaced(i)'
                   PROVE  SenderCounts(stream'[S][i], worker[S][i], taken[S][i], intervals[S][i],
                                       omitting[S], pc'[S], MaxBlocks[mode])
      OBVIOUS
    <3>2. SenderCounts(stream[S][i], worker[S][i], taken[S][i], intervals[S][i], omitting[S],
                       pc[S], MaxBlocks[mode])
      BY <2>2, <2>3, <3>1 DEF SenderOK
    <3>3. /\ SenderKept(stream[S][i], stream'[S][i])
          /\ stream[S][i] \in StreamType /\ stream'[S][i] \in StreamType
          /\ pc[S] \in {"interval", "last"} <=> pc'[S] \in {"interval", "last"}
      BY <1>3, <1>4, <2>1, <2>4, <3>1
    <3> HIDE DEF S
    <3>. QED
      BY <3>2, <3>3, SenderStays
  <2>6. S = "c" /\ pc'["c"] \notin {"running", "interval"} => worker["c"][i] = 0
    BY <1>3, <2>1, <2>3 DEF SenderOK
  <2>. QED
    BY <1>1, <2>5, <2>6 DEF SenderOK, SenderOf
<1>8. ASSUME NEW i \in Streams
      PROVE  ReceiverOK(i)'
  <2> DEFINE S == SenderOf(i)
             R == Peer(SenderOf(i))
  <2>1. S \in Sides /\ R \in Sides /\ (~Sends(side, i) <=> R = side) /\ (Sends(side, i) <=> S = side)
    BY SidesKnown
  <2>2. /\ ReceiverCounts(stream[R][i], worker[R][i], taken[R][i], intervals[R][i], omitting[R],
                          pc[R], Len(wire[i]), WrittenOf(i))
        /\ ~Got(R) => stream[R][i].bytes_sent = 0
    BY DEF Inv, ReceiverInv, ReceiverOK
  <2>3. /\ ReceivedKept(stream[R][i], stream'[R][i])
        /\ Got(R)' \/ stream'[R][i].bytes_sent = stream[R][i].bytes_sent
    <3>1. CASE R = side
      BY <2>1, <3>1 DEF ExchangeStep
    <3>2. CASE R = Peer(side)
      <4>1. stream'[R][i] = stream[R][i]
        BY <3>2 DEF ExchangeStep
      <4>. QED
        BY <4>1 DEF ReceivedKept
    <3>. QED
      BY <1>2, <2>1, <3>1, <3>2
  <2>4. WrittenOf(i) \in Nat /\ WrittenOf(i)' \in Nat /\ WrittenOf(i)' >= WrittenOf(i)
        /\ Len(wire[i]) \in Nat
    <3>1. WrittenOf(i) \in Nat /\ WrittenOf(i) <= MaxBlocks[mode] /\ MaxBlocks[mode] \in Nat
          /\ Len(wire[i]) \in Nat
      BY <2>1, WrittenBound, StreamsKnown, TypesAt DEF Inv
    <3>2. CASE MaySend(i)'
      <4>1. MaySend(i) /\ ~Replaced(i)'
        <5>1. CASE S = side
          BY <1>1, <3>2, <5>1 DEF ExchangeStep, MaySend, SenderOf, Replaced
        <5>2. CASE S = Peer(side)
          <6>1. pc'[S] = pc[S]
            BY <5>2 DEF ExchangeStep
          <6>2. MaySend(i)
            BY <1>1, <3>2, <6>1 DEF MaySend, SenderOf
          <6>3. ~Replaced(i)'
            BY <1>1, <3>2, <6>1 DEF MaySend, SenderOf, Replaced, Got
          <6>. QED
            BY <6>2, <6>3
        <5>. QED
          BY <1>2, <2>1, <5>1, <5>2
      <4>2. stream'[S][i].bytes_sent = stream[S][i].bytes_sent
        <5>1. CASE S = side
          BY <2>1, <4>1, <5>1 DEF ExchangeStep, SenderKept
        <5>2. CASE S = Peer(side)
          BY <5>2 DEF ExchangeStep
        <5>. QED
          BY <1>2, <2>1, <5>1, <5>2
      <4>3. WrittenOf(i)' = WrittenOf(i)
        BY <1>1, <3>2, <4>1, <4>2 DEF WrittenOf, SenderOf, B
      <4>. QED
        BY <3>1, <4>3
    <3>3. CASE ~MaySend(i)'
      BY <1>1, <3>1, <3>3 DEF WrittenOf
    <3>. QED
      BY <3>2, <3>3
  <2>5. /\ stream[R][i] \in StreamType /\ stream'[R][i] \in StreamType
        /\ pc[R] \in {"interval", "last"} <=> pc'[R] \in {"interval", "last"}
    BY <1>3, <1>4, <2>1
  <2>6. worker[R][i] \in 0 .. 2 /\ taken[R][i] \in Nat /\ intervals[R][i] \in Nat
    BY <2>1, TypesAt
  <2>7. ReceiverCounts(stream'[R][i], worker[R][i], taken[R][i], intervals[R][i], omitting[R],
                       pc'[R], Len(wire[i]), WrittenOf(i)')
    <3> HIDE DEF R
    <3>1. ReceiverCounts(stream'[R][i], worker[R][i], taken[R][i], intervals[R][i], omitting[R],
                         pc'[R], Len(wire[i]), WrittenOf(i))
      BY <2>2, <2>3, <2>5, ReceiverStays
    <3>2. WrittenOf(i)' - Len(wire[i]) >= WrittenOf(i) - Len(wire[i]) /\ Len(wire[i]) >= Len(wire[i])
      BY <2>4
    <3>. QED
      BY <2>4, <2>5, <2>6, <3>1, <3>2, MoreUnderWay
  <2>8. ~Got(R)' => stream'[R][i].bytes_sent = 0
    BY <1>3, <2>1, <2>2, <2>3
  <2>. QED
    BY <1>1, <2>7, <2>8 DEF ReceiverOK, SenderOf, Peer
<1>9. SenderInv' /\ ReceiverInv'
  BY <1>1, <1>7, <1>8 DEF SenderInv, ReceiverInv
<1>. QED
  BY <1>4, <1>5, <1>6, <1>9

-----------------------------------------------------------------------------
(* send_results: a side sends what it has, while its workers may still     *)
(* count their last block.                                                 *)

LEMMA ReceivedBelow ==
    ASSUME NEW a \in StreamType, NEW w, NEW tk, NEW iv, NEW om, NEW p, NEW u \in Nat, NEW c \in Nat,
           ReceiverCounts(a, w, tk, iv, om, p, u, c)
    PROVE  a.bytes_received \in Nat /\ a.bytes_received <= c
<1>1. a.bytes_received \in Nat
  BY DEF StreamType
<1>. QED
  BY <1>1 DEF ReceiverCounts, B

LEMMA SentBelow ==
    ASSUME NEW a \in StreamType, NEW w, NEW tk, NEW iv, NEW om, NEW p, NEW c \in Nat, c < SizeLimit,
           SenderCounts(a, w, tk, iv, om, p, c)
    PROVE  SentBytes(a) \in Nat /\ SentBytes(a) < SizeLimit /\ SentBytes(a) % SizeLimit = SentBytes(a)
<1>1. a.bytes_sent \in Nat /\ a.bytes_sent_omit \in Nat
  BY DEF StreamType
<1>2. SizeLimit \in Nat
  BY ReportsAssumption
<1>3. SentBytes(a) \in Nat /\ SentBytes(a) < SizeLimit
  BY <1>1, <1>2 DEF SenderCounts, B, SentBytes
<1>. QED
  BY <1>3, NoWrap

LEMMA StreamResultsFields ==
    ASSUME Inv, NEW side \in Sides, NEW i \in Streams
    PROVE  /\ StreamResults(side, i) \in ResultType
           /\ StreamResults(side, i).bytes < SizeLimit
<1> DEFINE sp == stream[side][i]
           r == StreamResults(side, i)
           bytes == IF Sends(side, i) THEN (sp.bytes_sent - sp.bytes_sent_omit) % SizeLimit
                    ELSE sp.bytes_received
           retransmits == IF Sends(side, i) /\ has[side] # 0 THEN sp.stream_retrans ELSE -1
<1>1. sp \in StreamType
  BY TypesAt
<1>2. /\ sp.bytes_sent \in Nat /\ sp.bytes_sent_omit \in Nat /\ sp.bytes_received \in Nat
      /\ sp.stream_retrans \in Int /\ sp.cnt_error \in Int /\ sp.omitted_cnt_error \in Int
      /\ sp.packet_count \in Nat /\ sp.omitted_packet_count \in Nat
  BY <1>1 DEF StreamType
<1>3. bytes \in Nat /\ bytes < SizeLimit
  <2>1. SizeLimit \in Nat \ {0}
    BY ReportsAssumption
  <2>2. CASE Sends(side, i)
    <3>1. sp.bytes_sent - sp.bytes_sent_omit \in Int
      BY <1>2
    <3> DEFINE d == sp.bytes_sent - sp.bytes_sent_omit
    <3>2. d % SizeLimit \in 0 .. SizeLimit - 1
      <4> HIDE DEF d
      <4>1. d \in Int
        BY <3>1 DEF d
      <4>. QED
        BY <2>1, <4>1
    <3>. QED
      BY <2>1, <2>2, <3>2
  <2>3. CASE ~Sends(side, i)
    <3>1. side = Peer(SenderOf(i)) /\ ReceiverOK(i)
      BY <2>3, SidesKnown DEF Inv, ReceiverInv
    <3>2. ReceiverCounts(sp, worker[side][i], taken[side][i], intervals[side][i], omitting[side],
                         pc[side], Len(wire[i]), WrittenOf(i))
      BY <3>1 DEF ReceiverOK
    <3>3. WrittenOf(i) \in Nat /\ Len(wire[i]) \in Nat /\ WrittenOf(i) <= MaxBlocks[mode]
          /\ MaxBlocks[mode] \in Nat /\ MaxBlocks[mode] < SizeLimit
      BY WrittenBound, TypesAt, StreamsKnown DEF Inv
    <3>4. sp.bytes_received <= WrittenOf(i)
      BY <1>1, <3>2, <3>3, ReceivedBelow
    <3>. QED
      BY <1>2, <2>1, <2>3, <3>3, <3>4
  <2>. QED
    BY <2>2, <2>3
<1>4. retransmits \in Int
  BY <1>2
<1>5. r = [bytes |-> bytes, retransmits |-> retransmits,
           errors |-> sp.cnt_error, omitted_errors |-> sp.omitted_cnt_error,
           packets |-> sp.packet_count, omitted_packets |-> sp.omitted_packet_count]
  BY DEF StreamResults
<1> HIDE DEF r, bytes, retransmits, sp
<1>6. r \in ResultType /\ r.bytes < SizeLimit
  BY <1>2, <1>3, <1>4, <1>5 DEF ResultType
<1>. QED
  BY <1>6 DEF r

LEMMA StreamResultsSent ==
    ASSUME Inv, NEW side \in Sides, NEW i \in Streams, protocol # "quic"
    PROVE  IF Sends(side, i)
           THEN SentBySender(StreamResults(side, i), stream[side][i], worker[side][i])
           ELSE SentByReceiver(StreamResults(side, i), stream[side][i], worker[side][i])
<1> DEFINE sp == stream[side][i]
           r == StreamResults(side, i)
<1>1. sp \in StreamType
  BY TypesAt
<1>2. CASE Sends(side, i)
  <2>1. SenderOf(i) = side /\ ~Replaced(i)
    BY <1>2, SidesKnown DEF Replaced
  <2>2. SenderCounts(sp, worker[side][i], taken[side][i], intervals[side][i], omitting[side],
                     pc[side], MaxBlocks[mode])
    BY <2>1 DEF Inv, SenderInv, SenderOK
  <2>3. MaxBlocks[mode] \in Nat /\ MaxBlocks[mode] < SizeLimit
    BY StreamsKnown DEF Inv
  <2>4. SentBytes(sp) \in Nat /\ SentBytes(sp) % SizeLimit = SentBytes(sp)
    BY <1>1, <2>2, <2>3, SentBelow
  <2>5. /\ r.bytes = SentBytes(sp) % SizeLimit /\ r.packets = sp.packet_count
        /\ r.omitted_packets = sp.omitted_packet_count
    BY <1>2 DEF StreamResults, SentBytes
  <2> HIDE DEF r, sp
  <2>6. SentBySender(r, sp, worker[side][i])
    BY <2>4, <2>5 DEF SentBySender, B
  <2>. QED
    BY <1>2, <2>6 DEF r, sp
<1>3. CASE ~Sends(side, i)
  <2>1. /\ r.bytes = sp.bytes_received /\ r.packets = sp.packet_count /\ r.errors = sp.cnt_error
        /\ r.omitted_packets = sp.omitted_packet_count /\ r.omitted_errors = sp.omitted_cnt_error
    BY <1>3 DEF StreamResults
  <2>2. sp.bytes_received \in Nat /\ sp.packet_count \in Nat /\ sp.cnt_error \in Int
    BY <1>1 DEF StreamType
  <2> HIDE DEF r, sp
  <2>3. OneMore(r.packets, r.errors, sp.packet_count, sp.cnt_error)
    BY <2>1, <2>2 DEF OneMore
  <2>4. SentByReceiver(r, sp, worker[side][i])
    BY <2>1, <2>2, <2>3 DEF SentByReceiver, B
  <2>. QED
    BY <1>3, <2>4 DEF r, sp
<1>. QED
  BY <1>2, <1>3

LEMMA SendPreserves ==
    ASSUME Inv, NEW side \in Sides, send_results(side)
    PROVE  Inv'
<1> DEFINE new == [sender_has_retransmits |-> IF ModeOf(side) = "RECEIVER" THEN -1 ELSE has[side],
                   congestion_used |-> side,
                   streams |-> [i \in Streams |-> StreamResults(side, i)]]
           other_side == Peer(side)
<1>1. /\ UNCHANGED test /\ stream' = stream /\ has' = has /\ other' = other /\ worker' = worker
      /\ congestion' = congestion /\ omitting' = omitting /\ taken' = taken /\ wire' = wire
      /\ kernel' = kernel /\ intervals' = intervals /\ ring' = ring /\ history' = history
      /\ printed' = printed
  BY DEF send_results, counters
<1>2. /\ pc[side] = IF side = "c" THEN "ended" ELSE "got"
      /\ side = "c" => pc["s"] = "ended"
      /\ pc' = [pc EXCEPT ![side] = "sent"]
      /\ results' = [results EXCEPT ![side] = new]
  BY DEF send_results
<1>3. mode' = mode /\ protocol' = protocol /\ Streams' = Streams
  BY <1>1, SameTest
<1>4. \A sd : ModeOf(sd)' = ModeOf(sd)
  BY <1>1, SameTest
<1>5. Peer(side) \in Sides /\ Peer(side) # side /\ \A sd \in Sides : sd = side \/ sd = Peer(side)
  BY SidesKnown DEF Sides, Peer
<1>6. pc \in [Sides -> Phases]
  BY DEF Inv, PhaseInv
<1>7. pc'[side] = "sent" /\ pc'[Peer(side)] = pc[Peer(side)]
  BY <1>2, <1>5, <1>6
<1>8. PhaseInv'
  <2>1. pc' \in [Sides -> Phases]
    BY <1>2, <1>6 DEF Phases
  <2>2. CASE side = "c"
    BY <1>1, <1>2, <1>7, <2>1, <2>2 DEF Inv, PhaseInv, Peer
  <2>3. CASE side = "s"
    BY <1>1, <1>2, <1>7, <2>1, <2>3 DEF Inv, PhaseInv, Peer
  <2>. QED
    BY <2>2, <2>3 DEF Sides
<1>9. CountersInv'
  BY <1>1, <1>3 DEF Inv, CountersInv
<1>10. /\ Sent(side)' /\ ~Sent(side) /\ (Got(side)' <=> Got(side))
       /\ (Sent(Peer(side))' <=> Sent(Peer(side))) /\ (Got(Peer(side))' <=> Got(Peer(side)))
       /\ ~Got(Peer(side))
       /\ \A sd \in Sides : pc'[sd] # "printed"
  <2>1. CASE side = "c"
    BY <1>2, <1>5, <1>7, <2>1 DEF Sent, Got, Peer, Inv, PhaseInv
  <2>2. CASE side = "s"
    BY <1>2, <1>5, <1>7, <2>2 DEF Sent, Got, Peer, Inv, PhaseInv
  <2>. QED
    BY <2>1, <2>2 DEF Sides
<1>11. ExchangeStep(side)
  <2>1. pc[side] \in {"ended", "sent", "got"} /\ pc'[side] \in {"sent", "got", "printed"}
    BY <1>2, <1>7
  <2>2. \A i \in Streams : SenderKept(stream[side][i], stream'[side][i])
                           /\ ReceivedKept(stream[side][i], stream'[side][i])
    BY <1>1 DEF SenderKept, ReceivedKept
  <2>. QED
    BY <1>1, <1>7, <1>8, <1>9, <1>10, <2>1, <2>2 DEF ExchangeStep
<1>12. TestInv' /\ CountersInv' /\ PhaseInv' /\ SenderInv' /\ ReceiverInv' /\ RingInv'
  BY <1>11, ExchangeCounts
<1>13. results'[side] = new /\ results'[Peer(side)] = results[Peer(side)]
  <2>1. DOMAIN results = Sides
    BY DEF Inv, ResultsInv
  <2>. QED
    BY <1>2, <1>5, <2>1
<1>14. /\ new.sender_has_retransmits = (IF ModeOf(side) = "RECEIVER" THEN -1 ELSE has[side])
       /\ new.congestion_used = side
       /\ \A i \in Streams : new.streams[i] = StreamResults(side, i)
       /\ new \in [sender_has_retransmits : {-1, 0, 1}, congestion_used : {side},
                   streams : [Streams -> ResultType]]
  <2>1. [i \in Streams |-> StreamResults(side, i)] \in [Streams -> ResultType]
    BY StreamResultsFields
  <2>2. (IF ModeOf(side) = "RECEIVER" THEN -1 ELSE has[side]) \in {-1, 0, 1}
    BY DEF Inv, FlagsInv
  <2>. QED
    BY <2>1, <2>2
<1> HIDE DEF new
<1>15. ResultsInv'
  <2>1. ASSUME NEW sd \in Sides
        PROVE  IF ~Sent(sd)' THEN results'[sd] = NoResults
               ELSE /\ results'[sd] \in [sender_has_retransmits : {-1, 0, 1}, congestion_used : {sd},
                                         streams : [Streams -> ResultType]]
                    /\ \A i \in Streams : results'[sd].streams[i].bytes < SizeLimit
    <3>1. CASE sd = side
      BY <1>10, <1>13, <1>14, <3>1, StreamResultsFields
    <3>2. CASE sd = Peer(side)
      BY <1>10, <1>13, <3>2 DEF Inv, ResultsInv
    <3>. QED
      BY <1>5, <3>1, <3>2
  <2>2. results' = [sd \in Sides |-> results'[sd]]
    BY <1>2 DEF Inv, ResultsInv
  <2>. QED
    BY <1>3, <2>1, <2>2 DEF ResultsInv
<1>16. SentInv'
  <2>1. ASSUME NEW sd \in Sides, NEW i \in Streams
        PROVE  SentOK(sd, i)'
    <3>1. SUFFICES ASSUME protocol # "quic", Sent(sd)'
                   PROVE  IF Sends(sd, i)
                          THEN SentBySender(results'[sd].streams[i], stream[sd][i], worker[sd][i])
                          ELSE SentByReceiver(results'[sd].streams[i], stream[sd][i], worker[sd][i])
      BY <1>1, <1>3 DEF SentOK, Sends, SenderOf
    <3>2. CASE sd = side
      BY <1>13, <1>14, <3>1, <3>2, StreamResultsSent
    <3>3. CASE sd = Peer(side)
      BY <1>10, <1>13, <3>1, <3>3 DEF Inv, SentInv, SentOK
    <3>. QED
      BY <1>5, <3>2, <3>3
  <2>. QED
    BY <1>3, <2>1 DEF SentInv
<1>17. GotInv'
  <2>1. ASSUME NEW sd \in Sides, Got(sd)'
        PROVE  /\ congestion[sd] = Peer(sd)
               /\ \A i \in Streams :
                   IF Sends(sd, i) THEN TakenBySender(results'[Peer(sd)].streams[i], stream[sd][i])
                   ELSE TakenByReceiver(results'[Peer(sd)].streams[i], stream[sd][i])
    <3>1. sd = side /\ Got(side)
      BY <1>5, <1>10, <2>1
    <3>. QED
      BY <1>13, <3>1 DEF Inv, GotInv
  <2>. QED
    BY <1>1, <1>3, <2>1 DEF GotInv, TakenBySender, TakenByReceiver, Sends, SenderOf, Peer
<1>18. FlagsInv'
  <2>1. ASSUME NEW sd \in Sides
        PROVE  /\ ModeOf(sd) = "RECEIVER" /\ Got(sd)' => has[sd] = has[Peer(sd)]
               /\ ModeOf(sd) = "BIDIRECTIONAL" /\ Got(sd)' => other[sd] = has[Peer(sd)]
               /\ ModeOf(sd) # "RECEIVER" /\ Sent(sd)' =>
                    results'[sd].sender_has_retransmits = has[sd]
    <3>1. Got(sd)' <=> Got(sd)
      BY <1>5, <1>10
    <3>2. /\ ModeOf(sd) = "RECEIVER" /\ Got(sd) => has[sd] = has[Peer(sd)]
          /\ ModeOf(sd) = "BIDIRECTIONAL" /\ Got(sd) => other[sd] = has[Peer(sd)]
          /\ ModeOf(sd) # "RECEIVER" /\ Sent(sd) => results[sd].sender_has_retransmits = has[sd]
      BY DEF Inv, FlagsInv
    <3>3. CASE sd = side
      BY <1>13, <1>14, <3>1, <3>2, <3>3
    <3>4. CASE sd = Peer(side)
      BY <1>10, <1>13, <3>1, <3>2, <3>4
    <3>. QED
      BY <1>5, <3>3, <3>4
  <2>. QED
    BY <1>1, <1>3, <1>4, <2>1 DEF Inv, FlagsInv, Peer
<1>19. RetransInv'
  <2>1. ASSUME NEW i \in Streams, has[SenderOf(i)] = 1
        PROVE  /\ stream[SenderOf(i)][i].stream_retrans =
                    stream[SenderOf(i)][i].stream_prev_total_retrans - kernel[i].omitted
               /\ Sent(SenderOf(i))' =>
                    results'[SenderOf(i)].streams[i].retransmits =
                        stream[SenderOf(i)][i].stream_retrans
    <3>1. /\ stream[SenderOf(i)][i].stream_retrans =
                stream[SenderOf(i)][i].stream_prev_total_retrans - kernel[i].omitted
          /\ Sent(SenderOf(i)) =>
                results[SenderOf(i)].streams[i].retransmits = stream[SenderOf(i)][i].stream_retrans
      BY <2>1 DEF Inv, RetransInv
    <3>2. CASE SenderOf(i) = side
      <4>1. Sends(side, i) /\ has[side] = 1
        BY <2>1, <3>2, SidesKnown
      <4>2. StreamResults(side, i).retransmits = stream[side][i].stream_retrans
        BY <4>1 DEF StreamResults
      <4>. QED
        BY <1>13, <1>14, <3>1, <3>2, <4>2
    <3>3. CASE SenderOf(i) = Peer(side)
      BY <1>10, <1>13, <3>1, <3>3
    <3>. QED
      BY <1>5, <3>2, <3>3, SidesKnown
  <2>. QED
    BY <1>1, <1>3, <2>1 DEF RetransInv, SenderOf, Sent
<1>20. PrintedInv' /\ ShownInv' /\ SumsInv'
  BY <1>1, <1>10 DEF Inv, PrintedInv, ShownInv, SumsInv
<1>. QED
  BY <1>12, <1>15, <1>16, <1>17, <1>18, <1>19, <1>20 DEF Inv

-----------------------------------------------------------------------------
(* get_results: a side takes over what its peer knows.                     *)

LEMMA TakenType ==
    ASSUME NEW a \in StreamType, NEW r \in ResultType, NEW n \in Nat
    PROVE  /\ [a EXCEPT !.cnt_error = r.errors, !.omitted_cnt_error = r.omitted_errors,
                        !.peer_packet_count = r.packets,
                        !.peer_omitted_packet_count = r.omitted_packets,
                        !.bytes_received = r.bytes, !.bytes_sent = n] \in StreamType
           /\ [a EXCEPT !.peer_packet_count = r.packets,
                        !.peer_omitted_packet_count = r.omitted_packets,
                        !.bytes_sent = r.bytes, !.stream_retrans = r.retransmits] \in StreamType
<1>1. /\ r.errors \in Int /\ r.omitted_errors \in Int /\ r.packets \in Nat
      /\ r.omitted_packets \in Nat /\ r.bytes \in Nat /\ r.retransmits \in Int
  BY DEF ResultType
<1> DEFINE b == [a EXCEPT !.cnt_error = r.errors, !.omitted_cnt_error = r.omitted_errors]
           c == [b EXCEPT !.peer_packet_count = r.packets,
                          !.peer_omitted_packet_count = r.omitted_packets]
           d == [c EXCEPT !.bytes_received = r.bytes, !.bytes_sent = n]
           e == [a EXCEPT !.peer_packet_count = r.packets,
                          !.peer_omitted_packet_count = r.omitted_packets]
           f == [e EXCEPT !.bytes_sent = r.bytes, !.stream_retrans = r.retransmits]
<1>2. b \in StreamType
  BY <1>1 DEF StreamType
<1>3. c \in StreamType
  <2> HIDE DEF b
  <2>. QED
    BY <1>1, <1>2 DEF StreamType
<1>4. d \in StreamType
  <2> HIDE DEF c
  <2>. QED
    BY <1>1, <1>3 DEF StreamType
<1>5. e \in StreamType
  BY <1>1 DEF StreamType
<1>6. f \in StreamType
  <2> HIDE DEF e
  <2>. QED
    BY <1>1, <1>5 DEF StreamType
<1>. QED
  BY <1>4, <1>6

(* What stays of a stream when its results are taken over.                 *)
SenderTook(a, b) ==
    /\ b.bytes_sent_omit = a.bytes_sent_omit /\ b.sent_this_interval = a.sent_this_interval
    /\ b.packet_count = a.packet_count /\ b.omitted_packet_count = a.omitted_packet_count
    /\ b.stream_retrans = a.stream_retrans
    /\ b.stream_prev_total_retrans = a.stream_prev_total_retrans

ReceiverTook(a, b) ==
    /\ b.bytes_sent_omit = a.bytes_sent_omit /\ b.bytes_received = a.bytes_received
    /\ b.received_this_interval = a.received_this_interval
    /\ b.packet_count = a.packet_count /\ b.omitted_packet_count = a.omitted_packet_count
    /\ b.cnt_error = a.cnt_error /\ b.omitted_cnt_error = a.omitted_cnt_error

LEMMA WithResultsFields ==
    ASSUME Inv, NEW side \in Sides, NEW i \in Streams, NEW r \in ResultType
    PROVE  LET a == stream[side][i]
               b == WithResults(side, i, r)
           IN  /\ b \in StreamType
               /\ Sends(side, i) =>
                    /\ SenderTook(a, b) /\ TakenBySender(r, b)
                    /\ ~(protocol = "quic" /\ side = "c") => b.bytes_sent = a.bytes_sent
               /\ ~Sends(side, i) => ReceiverTook(a, b) /\ TakenByReceiver(r, b)
<1> DEFINE a == stream[side][i]
           b == WithResults(side, i, r)
           n == IF protocol = "quic" /\ side = "c" THEN r.bytes ELSE a.bytes_sent
<1>1. a \in StreamType
  BY TypesAt
<1>2. n \in Nat
  BY <1>1 DEF StreamType, ResultType
<1>3. CASE Sends(side, i)
  <2>1. b = [a EXCEPT !.cnt_error = r.errors, !.omitted_cnt_error = r.omitted_errors,
                      !.peer_packet_count = r.packets,
                      !.peer_omitted_packet_count = r.omitted_packets,
                      !.bytes_received = r.bytes, !.bytes_sent = n]
    BY <1>3 DEF WithResults
  <2>2. ~(protocol = "quic" /\ side = "c") => n = a.bytes_sent
    OBVIOUS
  <2> HIDE DEF a, b, n
  <2>3. b \in StreamType
    BY <1>1, <1>2, <2>1, TakenType
  <2>4. SenderTook(a, b)
    BY <1>1, <2>1 DEF StreamType, SenderTook
  <2>5. TakenBySender(r, b) /\ b.bytes_sent = n
    BY <1>1, <2>1 DEF StreamType, TakenBySender
  <2>. QED
    BY <1>3, <2>2, <2>3, <2>4, <2>5 DEF a, b
<1>4. CASE ~Sends(side, i)
  <2>1. b = [a EXCEPT !.peer_packet_count = r.packets,
                      !.peer_omitted_packet_count = r.omitted_packets,
                      !.bytes_sent = r.bytes, !.stream_retrans = r.retransmits]
    BY <1>4 DEF WithResults
  <2> HIDE DEF a, b
  <2>2. b \in StreamType
    BY <1>1, <1>2, <2>1, TakenType
  <2>3. ReceiverTook(a, b)
    BY <1>1, <2>1 DEF StreamType, ReceiverTook
  <2>4. TakenByReceiver(r, b)
    BY <1>1, <2>1 DEF StreamType, TakenByReceiver
  <2>. QED
    BY <1>4, <2>2, <2>3, <2>4 DEF a, b
<1>. QED
  BY <1>3, <1>4

LEMMA GetPreserves ==
    ASSUME Inv, NEW side \in Sides, get_results(side)
    PROVE  Inv'
<1> DEFINE r == results[Peer(side)]
<1>1. /\ UNCHANGED test /\ worker' = worker /\ omitting' = omitting /\ taken' = taken
      /\ wire' = wire /\ kernel' = kernel /\ intervals' = intervals /\ ring' = ring
      /\ history' = history /\ printed' = printed /\ results' = results
  BY DEF get_results
<1>2. /\ pc[side] = IF side = "c" THEN "sent" ELSE "ended"
      /\ r # NoResults
      /\ pc' = [pc EXCEPT ![side] = "got"]
      /\ stream' = [stream EXCEPT ![side] = [i \in Streams |-> WithResults(side, i, r.streams[i])]]
      /\ has' = [has EXCEPT ![side] = IF ModeOf(side) = "RECEIVER"
                                      THEN r.sender_has_retransmits ELSE has[side]]
      /\ other' = [other EXCEPT ![side] = IF ModeOf(side) = "BIDIRECTIONAL"
                                          THEN r.sender_has_retransmits ELSE other[side]]
      /\ congestion' = [congestion EXCEPT ![side] = r.congestion_used]
  BY DEF get_results
<1>3. mode' = mode /\ protocol' = protocol /\ Streams' = Streams
  BY <1>1, SameTest
<1>4. \A sd : ModeOf(sd)' = ModeOf(sd)
  BY <1>1, SameTest
<1>5. Peer(side) \in Sides /\ Peer(side) # side /\ \A sd \in Sides : sd = side \/ sd = Peer(side)
  BY SidesKnown DEF Sides, Peer
<1>6. pc \in [Sides -> Phases] /\ stream \in [Sides -> [Streams -> StreamType]]
      /\ has \in [Sides -> {-1, 0, 1}] /\ other \in [Sides -> {-1, 0, 1}]
  BY DEF Inv, PhaseInv, CountersInv, FlagsInv
<1>7. /\ Sent(Peer(side))
      /\ r \in [sender_has_retransmits : {-1, 0, 1}, congestion_used : {Peer(side)},
                streams : [Streams -> ResultType]]
  BY <1>2, <1>5 DEF Inv, ResultsInv
<1>8. /\ r.sender_has_retransmits \in {-1, 0, 1} /\ r.congestion_used = Peer(side)
      /\ \A i \in Streams : r.streams[i] \in ResultType
  BY <1>7
<1> HIDE DEF r
<1>9. pc'[side] = "got" /\ pc'[Peer(side)] = pc[Peer(side)]
  BY <1>2, <1>5, <1>6
<1>10. PhaseInv'
  <2>1. pc' \in [Sides -> Phases]
    BY <1>2, <1>6 DEF Phases
  <2>2. CASE side = "c"
    BY <1>1, <1>2, <1>7, <1>9, <2>1, <2>2 DEF Inv, PhaseInv, Peer, Sent
  <2>3. CASE side = "s"
    BY <1>1, <1>2, <1>7, <1>9, <2>1, <2>3 DEF Inv, PhaseInv, Peer, Sent
  <2>. QED
    BY <2>2, <2>3 DEF Sides
<1>11. /\ stream' \in [Sides -> [Streams -> StreamType]]
       /\ \A i \in Streams : /\ stream'[side][i] = WithResults(side, i, r.streams[i])
                             /\ stream'[Peer(side)][i] = stream[Peer(side)][i]
  <2>1. [i \in Streams |-> WithResults(side, i, r.streams[i])] \in [Streams -> StreamType]
    BY <1>8, WithResultsFields
  <2>. QED
    BY <1>2, <1>5, <1>6, <2>1
<1>12. CountersInv'
  BY <1>1, <1>3, <1>11 DEF Inv, CountersInv
<1>13. /\ Got(side)' /\ ~Got(side) /\ (Sent(side)' <=> Sent(side))
       /\ (Sent(Peer(side))' <=> Sent(Peer(side))) /\ (Got(Peer(side))' <=> Got(Peer(side)))
       /\ pc'[side] # "printed" /\ pc'[Peer(side)] = pc[Peer(side)]
       /\ (side = "s" => pc[Peer(side)] # "printed")
  <2>1. CASE side = "c"
    BY <1>2, <1>5, <1>9, <2>1 DEF Sent, Got, Peer, Inv, PhaseInv
  <2>2. CASE side = "s"
    BY <1>2, <1>5, <1>9, <2>2 DEF Sent, Got, Peer, Inv, PhaseInv
  <2>. QED
    BY <2>1, <2>2 DEF Sides
<1>14. ASSUME NEW i \in Streams, Sends(side, i)
       PROVE  /\ SenderTook(stream[side][i], stream'[side][i])
              /\ TakenBySender(r.streams[i], stream'[side][i])
              /\ ~(protocol = "quic" /\ side = "c") =>
                    stream'[side][i].bytes_sent = stream[side][i].bytes_sent
  BY <1>8, <1>11, <1>14, WithResultsFields
<1>15. ASSUME NEW i \in Streams, ~Sends(side, i)
       PROVE  /\ ReceiverTook(stream[side][i], stream'[side][i])
              /\ TakenByReceiver(r.streams[i], stream'[side][i])
  BY <1>8, <1>11, <1>15, WithResultsFields
<1>16. ExchangeStep(side)
  <2>1. pc[side] \in {"ended", "sent", "got"} /\ pc'[side] \in {"sent", "got", "printed"}
    BY <1>2, <1>9
  <2>2. ASSUME NEW i \in Streams, Sends(side, i)
        PROVE  Replaced(i)' \/ SenderKept(stream[side][i], stream'[side][i])
    <3>1. CASE protocol = "quic" /\ side = "c"
      BY <1>3, <1>13, <2>2, <3>1, SidesKnown DEF Replaced, SenderOf
    <3>2. CASE ~(protocol = "quic" /\ side = "c")
      BY <1>14, <2>2, <3>2 DEF SenderTook, SenderKept
    <3>. QED
      BY <3>1, <3>2
  <2>3. \A i \in Streams : ~Sends(side, i) => ReceivedKept(stream[side][i], stream'[side][i])
    BY <1>15 DEF ReceiverTook, ReceivedKept
  <2>. QED
    BY <1>1, <1>10, <1>11, <1>12, <1>13, <2>1, <2>2, <2>3 DEF ExchangeStep
<1>17. TestInv' /\ CountersInv' /\ PhaseInv' /\ SenderInv' /\ ReceiverInv' /\ RingInv'
  BY <1>16, ExchangeCounts
<1>18. ResultsInv'
  <2>1. \A sd \in Sides : Sent(sd)' <=> Sent(sd)
    BY <1>5, <1>13
  <2>. QED
    BY <1>1, <1>3, <2>1 DEF Inv, ResultsInv
<1>19. SentInv'
  <2>1. ASSUME NEW sd \in Sides, NEW i \in Streams
        PROVE  SentOK(sd, i)'
    <3>1. SUFFICES ASSUME protocol # "quic", Sent(sd)'
                   PROVE  IF Sends(sd, i)
                          THEN SentBySender(results[sd].streams[i], stream'[sd][i], worker[sd][i])
                          ELSE SentByReceiver(results[sd].streams[i], stream'[sd][i], worker[sd][i])
      BY <1>1, <1>3 DEF SentOK, Sends, SenderOf
    <3>2. Sent(sd) /\ SentOK(sd, i)
      BY <1>5, <1>13, <3>1 DEF Inv, SentInv
    <3>3. CASE sd = side /\ Sends(side, i)
      <4>1. SentBySender(results[sd].streams[i], stream[sd][i], worker[sd][i])
        BY <3>1, <3>2, <3>3 DEF SentOK
      <4>. QED
        BY <1>14, <3>1, <3>3, <4>1 DEF SenderTook, SentBySender, SentBytes
    <3>4. CASE sd = side /\ ~Sends(side, i)
      <4>1. SentByReceiver(results[sd].streams[i], stream[sd][i], worker[sd][i])
        BY <3>1, <3>2, <3>4 DEF SentOK
      <4>. QED
        BY <1>15, <3>1, <3>4, <4>1 DEF ReceiverTook, SentByReceiver
    <3>5. CASE sd = Peer(side)
      BY <1>11, <3>1, <3>2, <3>5 DEF SentOK
    <3>. QED
      BY <1>5, <3>3, <3>4, <3>5
  <2>. QED
    BY <1>3, <2>1 DEF SentInv
<1>20. GotInv'
  <2>1. ASSUME NEW sd \in Sides, Got(sd)'
        PROVE  /\ congestion'[sd] = Peer(sd)
               /\ \A i \in Streams :
                   IF Sends(sd, i) THEN TakenBySender(results[Peer(sd)].streams[i], stream'[sd][i])
                   ELSE TakenByReceiver(results[Peer(sd)].streams[i], stream'[sd][i])
    <3>1. CASE sd = side
      <4>1. congestion'[side] = Peer(side)
        <5>1. congestion = [x \in Sides |-> congestion[x]]
          BY DEF Inv, FlagsInv
        <5>. QED
          BY <1>2, <1>8, <5>1
      <4>. QED
        BY <1>14, <1>15, <3>1, <4>1 DEF r
    <3>2. CASE sd = Peer(side)
      <4>1. Got(sd) /\ congestion'[sd] = congestion[sd]
        <5>1. congestion = [x \in Sides |-> congestion[x]]
          BY DEF Inv, FlagsInv
        <5>. QED
          BY <1>2, <1>5, <1>13, <2>1, <3>2, <5>1
      <4>. QED
        BY <1>11, <3>2, <4>1 DEF Inv, GotInv
    <3>. QED
      BY <1>5, <3>1, <3>2
  <2>. QED
    BY <1>1, <1>3, <2>1 DEF GotInv, TakenBySender, TakenByReceiver, Sends, SenderOf, Peer
<1>21. FlagsInv'
  <2>1. /\ has' \in [Sides -> {-1, 0, 1}] /\ other' \in [Sides -> {-1, 0, 1}]
        /\ congestion' = [x \in Sides |-> congestion'[x]]
    BY <1>2, <1>6, <1>8 DEF Inv, FlagsInv
  <2>2. /\ has'[Peer(side)] = has[Peer(side)] /\ other'[Peer(side)] = other[Peer(side)]
        /\ has'[side] = (IF ModeOf(side) = "RECEIVER" THEN r.sender_has_retransmits ELSE has[side])
        /\ other'[side] = (IF ModeOf(side) = "BIDIRECTIONAL" THEN r.sender_has_retransmits
                           ELSE other[side])
    BY <1>2, <1>5, <1>6
  <2>3. ModeOf(side) \in {"RECEIVER", "BIDIRECTIONAL"} =>
            r.sender_has_retransmits = has[Peer(side)]
    <3>1. ModeOf(side) \in {"RECEIVER", "BIDIRECTIONAL"} => ModeOf(Peer(side)) # "RECEIVER"
      BY StreamsKnown DEF Inv, ModeOf, Peer, Sides
    <3>. QED
      BY <1>5, <1>7, <3>1 DEF Inv, FlagsInv, r
  <2>4. ASSUME NEW sd \in Sides
        PROVE  /\ ModeOf(sd) # "RECEIVER" =>
                    has'[sd] \in {0, 1} /\ (protocol # "tcp" => has'[sd] = 0)
               /\ ModeOf(sd) = "RECEIVER" /\ Got(sd)' => has'[sd] = has'[Peer(sd)]
               /\ ModeOf(sd) = "BIDIRECTIONAL" /\ Got(sd)' => other'[sd] = has'[Peer(sd)]
               /\ ModeOf(sd) # "RECEIVER" /\ Sent(sd)' =>
                    results[sd].sender_has_retransmits = has'[sd]
    <3>1. /\ ModeOf(sd) # "RECEIVER" => has[sd] \in {0, 1} /\ (protocol # "tcp" => has[sd] = 0)
          /\ ModeOf(sd) = "RECEIVER" /\ Got(sd) => has[sd] = has[Peer(sd)]
          /\ ModeOf(sd) = "BIDIRECTIONAL" /\ Got(sd) => other[sd] = has[Peer(sd)]
          /\ ModeOf(sd) # "RECEIVER" /\ Sent(sd) => results[sd].sender_has_retransmits = has[sd]
      BY DEF Inv, FlagsInv
    <3>2. CASE sd = side
      BY <1>13, <2>2, <2>3, <3>1, <3>2
    <3>3. CASE sd = Peer(side)
      <4>1. Peer(sd) = side
        BY <3>3, SidesKnown
      <4>2. ModeOf(sd) \in {"RECEIVER", "BIDIRECTIONAL"} => has'[side] = has[side]
        <5>1. ModeOf(sd) \in {"RECEIVER", "BIDIRECTIONAL"} => ModeOf(side) # "RECEIVER"
          BY <4>1, StreamsKnown DEF Inv, ModeOf, Peer, Sides
        <5>. QED
          BY <2>2, <5>1
      <4>. QED
        BY <1>13, <2>2, <3>1, <3>3, <4>1, <4>2
    <3>. QED
      BY <1>5, <3>2, <3>3
  <2>. QED
    BY <1>1, <1>3, <1>4, <2>1, <2>4 DEF FlagsInv, Peer
<1>22. \A i \in Streams :
            /\ stream'[SenderOf(i)][i].stream_retrans = stream[SenderOf(i)][i].stream_retrans
            /\ stream'[SenderOf(i)][i].stream_prev_total_retrans =
                    stream[SenderOf(i)][i].stream_prev_total_retrans
  <2>1. ASSUME NEW i \in Streams
        PROVE  /\ stream'[SenderOf(i)][i].stream_retrans = stream[SenderOf(i)][i].stream_retrans
               /\ stream'[SenderOf(i)][i].stream_prev_total_retrans =
                    stream[SenderOf(i)][i].stream_prev_total_retrans
    <3>1. CASE SenderOf(i) = side
      BY <1>14, <3>1, SidesKnown DEF SenderTook
    <3>2. CASE SenderOf(i) = Peer(side)
      BY <1>11, <3>2
    <3>. QED
      BY <1>5, <3>1, <3>2, SidesKnown
  <2>. QED
    BY <2>1
<1>22a. \A i \in Streams : has'[SenderOf(i)] = has[SenderOf(i)]
  <2>1. ASSUME NEW i \in Streams
        PROVE  has'[SenderOf(i)] = has[SenderOf(i)]
    <3>1. CASE SenderOf(i) = side
      <4>1. ModeOf(side) # "RECEIVER"
        BY <3>1, SidesKnown, SendersCount
      <4>. QED
        BY <1>2, <1>6, <3>1, <4>1
    <3>2. CASE SenderOf(i) = Peer(side)
      BY <1>2, <1>5, <1>6, <3>2
    <3>. QED
      BY <1>5, <3>1, <3>2, SidesKnown
  <2>. QED
    BY <2>1
<1>23. RetransInv'
  <2>1. \A i : Sent(SenderOf(i))' <=> Sent(SenderOf(i))
    BY <1>5, <1>13, SidesKnown
  <2>. QED
    BY <1>1, <1>3, <1>22, <1>22a, <2>1 DEF Inv, RetransInv, SenderOf, Sent
<1>24. \A sd \in Sides : pc'[sd] = "printed" => pc[sd] = "printed"
  BY <1>5, <1>13
<1>25. PrintedInv'
  BY <1>1, <1>3, <1>24 DEF Inv, PrintedInv, PrintedStream, Sends, SenderOf, Peer
<1>26. ShownInv'
  BY <1>1, <1>3, <1>22, <1>22a, <1>24 DEF Inv, ShownInv, PrintedStream, SenderOf
<1>27. SumsInv'
  BY <1>1, <1>3, <1>24 DEF Inv, SumsInv, SumNames, StreamOf
<1>. QED
  BY <1>17, <1>18, <1>19, <1>20, <1>21, <1>23, <1>25, <1>26, <1>27 DEF Inv

-----------------------------------------------------------------------------
(* iperf_print_results: the summary.                                       *)

RoundSet(side) == {Rounds(side)[k] : k \in DOMAIN Rounds(side)}

LEMMA RoundsKnown ==
    ASSUME TestInv, NEW side \in Sides
    PROVE  /\ mode = "BIDIRECTIONAL" =>
                /\ RoundSet(side) = {TRUE, FALSE}
                /\ Rounds(side)[Len(Rounds(side))] = (side = "s")
           /\ mode = "SENDER" =>
                /\ RoundSet(side) = {side = "c"}
                /\ Rounds(side)[Len(Rounds(side))] = (side = "c")
           /\ mode = "RECEIVER" =>
                /\ RoundSet(side) = {side = "s"}
                /\ Rounds(side)[Len(Rounds(side))] = (side = "s")
<1>1. CASE mode = "BIDIRECTIONAL"
  <2>1. Rounds(side) = IF side = "c" THEN <<TRUE, FALSE>> ELSE <<FALSE, TRUE>>
    BY <1>1 DEF Rounds, ModeOf
  <2>2. CASE side = "c"
    <3>1. Rounds(side) = <<TRUE, FALSE>>
      BY <2>1, <2>2
    <3>2. /\ DOMAIN Rounds(side) = {1, 2} /\ Len(Rounds(side)) = 2
          /\ Rounds(side)[1] = TRUE /\ Rounds(side)[2] = FALSE
      BY <3>1
    <3>. QED
      BY <1>1, <2>2, <3>2 DEF RoundSet
  <2>3. CASE side = "s"
    <3>1. Rounds(side) = <<FALSE, TRUE>>
      BY <2>1, <2>3
    <3>2. /\ DOMAIN Rounds(side) = {1, 2} /\ Len(Rounds(side)) = 2
          /\ Rounds(side)[1] = FALSE /\ Rounds(side)[2] = TRUE
      BY <3>1
    <3>. QED
      BY <1>1, <2>3, <3>2 DEF RoundSet
  <2>. QED
    BY <2>2, <2>3 DEF Sides
<1>2. CASE mode # "BIDIRECTIONAL"
  <2>1. Rounds(side) = <<ModeOf(side) = "SENDER">>
    BY <1>2 DEF Rounds, ModeOf
  <2>2. /\ DOMAIN Rounds(side) = {1} /\ Len(Rounds(side)) = 1
        /\ Rounds(side)[1] = (ModeOf(side) = "SENDER")
    BY <2>1
  <2>3. RoundSet(side) = {ModeOf(side) = "SENDER"}
    BY <2>2 DEF RoundSet
  <2>4. /\ mode = "SENDER" => (ModeOf(side) = "SENDER") = (side = "c")
        /\ mode = "RECEIVER" => (ModeOf(side) = "SENDER") = (side = "s")
    BY <1>2 DEF ModeOf, Sides
  <2>. QED
    BY <1>2, <2>2, <2>3, <2>4
<1>. QED
  BY <1>1, <1>2

LEMMA StreamsOfRounds ==
    ASSUME TestInv, NEW side \in Sides, NEW d \in RoundSet(side)
    PROVE  /\ d \in BOOLEAN
           /\ SumName(side, d) \in SumNames
           /\ StreamOfRound(side, d) = StreamOf(SumName(side, d))
<1>1. mode \in {"SENDER", "RECEIVER", "BIDIRECTIONAL"}
  BY StreamsKnown
<1>2. Streams = IF mode = "SENDER" THEN {"fwd"} ELSE IF mode = "RECEIVER" THEN {"rev"}
                ELSE {"fwd", "rev"}
  BY StreamsKnown
<1>3. d \in BOOLEAN
  <2>1. \/ RoundSet(side) = {TRUE, FALSE}
        \/ RoundSet(side) = {side = "c"}
        \/ RoundSet(side) = {side = "s"}
    BY <1>1, RoundsKnown
  <2>. QED
    BY <2>1, Zenon
<1>4. CASE mode = "BIDIRECTIONAL"
  <2>1. SumName(side, d) = IF (side = "c") # d THEN "sum_bidir_reverse" ELSE "sum"
    BY <1>4 DEF SumName, ModeOf
  <2>2. \E i \in Streams : Sends(side, i) = d
    BY <1>2, <1>3, <1>4 DEF Sends, SenderOf, Sides
  <2>3. StreamOfRound(side, d) \in Streams /\ Sends(side, StreamOfRound(side, d)) = d
    BY <2>2 DEF StreamOfRound
  <2>4. StreamOfRound(side, d) = IF (side = "c") # d THEN "rev" ELSE "fwd"
    <3>1. StreamOfRound(side, d) \in {"fwd", "rev"}
      BY <1>2, <1>4, <2>3
    <3>. QED
      BY <1>3, <2>3, <3>1 DEF Sends, SenderOf, Sides
  <2>. QED
    BY <1>3, <1>4, <2>1, <2>4 DEF SumNames, StreamOf
<1>5. CASE mode # "BIDIRECTIONAL"
  <2>1. SumName(side, d) = "sum"
    BY <1>5 DEF SumName, ModeOf
  <2>2. d = IF mode = "SENDER" THEN side = "c" ELSE side = "s"
    <3>1. CASE mode = "SENDER"
      <4>1. RoundSet(side) = {side = "c"}
        BY <3>1, RoundsKnown
      <4>2. d = (side = "c")
        BY <4>1, Zenon
      <4>. QED
        BY <3>1, <4>2
    <3>2. CASE mode = "RECEIVER"
      <4>1. RoundSet(side) = {side = "s"}
        BY <3>2, RoundsKnown
      <4>2. d = (side = "s")
        BY <4>1, Zenon
      <4>. QED
        BY <3>2, <4>2
    <3>. QED
      BY <1>1, <1>5, <3>1, <3>2
  <2>3. \E i \in Streams : Sends(side, i) = d
    BY <1>1, <1>2, <1>5, <2>2 DEF Sends, SenderOf, Sides
  <2>4. StreamOfRound(side, d) \in Streams
    BY <2>3 DEF StreamOfRound
  <2>. QED
    BY <1>1, <1>2, <1>3, <1>5, <2>1, <2>4 DEF SumNames, StreamOf
<1>. QED
  BY <1>4, <1>5

LEMMA RoundSumsKnown ==
    ASSUME TestInv, NEW side \in Sides
    PROVE  /\ DOMAIN RoundSums(side) = SumNames
           /\ \A n \in SumNames : /\ StreamOf(n) \in Streams
                                  /\ RoundSums(side)[n] = StreamSummary(side, StreamOf(n))
<1> DEFINE named(n) == CHOOSE d \in RoundSet(side) : SumName(side, d) = n
<1>1. RoundSums(side) = [n \in {SumName(side, d) : d \in RoundSet(side)} |->
                            StreamSummary(side, StreamOfRound(side, named(n)))]
  BY DEF RoundSums, RoundSet
<1>2. {SumName(side, d) : d \in RoundSet(side)} = SumNames
  <2>1. \A d \in RoundSet(side) : SumName(side, d) \in SumNames
    BY StreamsOfRounds
  <2>2. ASSUME NEW n \in SumNames
        PROVE  \E d \in RoundSet(side) : SumName(side, d) = n
    <3>1. mode \in {"SENDER", "RECEIVER", "BIDIRECTIONAL"}
      BY StreamsKnown
    <3>2. CASE mode = "BIDIRECTIONAL"
      <4>1. RoundSet(side) = {TRUE, FALSE}
        BY <3>2, RoundsKnown
      <4>2. \A d \in BOOLEAN : SumName(side, d) =
                IF (side = "c") # d THEN "sum_bidir_reverse" ELSE "sum"
        BY <3>2 DEF SumName, ModeOf
      <4>3. SumName(side, side = "c") = "sum" /\ SumName(side, side # "c") = "sum_bidir_reverse"
        BY <4>2
      <4>4. (side = "c") \in RoundSet(side) /\ (side # "c") \in RoundSet(side)
        BY <4>1
      <4>. QED
        BY <3>2, <4>3, <4>4 DEF SumNames
    <3>3. CASE mode # "BIDIRECTIONAL"
      <4>1. \E d : d \in RoundSet(side)
        BY <3>1, <3>3, RoundsKnown
      <4>. QED
        BY <2>1, <3>3, <4>1 DEF SumNames
    <3>. QED
      BY <3>2, <3>3
  <2>. QED
    BY <2>1, <2>2
<1>3. ASSUME NEW n \in SumNames
      PROVE  StreamOfRound(side, named(n)) = StreamOf(n)
  <2>1. \E d \in RoundSet(side) : SumName(side, d) = n
    BY <1>2
  <2>2. named(n) \in RoundSet(side) /\ SumName(side, named(n)) = n
    BY <2>1
  <2> HIDE DEF named
  <2>. QED
    BY <2>2, StreamsOfRounds
<1>4. \A n \in SumNames : StreamOf(n) \in Streams
  BY StreamsKnown DEF SumNames, StreamOf
<1> HIDE DEF named
<1>. QED
  BY <1>1, <1>2, <1>3, <1>4

LEMMA CongestionKnown ==
    ASSUME TestInv, NEW side \in Sides, congestion[side] = Peer(side)
    PROVE  SenderCongestion(side) = IF mode = "SENDER" THEN "c" ELSE "s"
<1>1. mode \in {"SENDER", "RECEIVER", "BIDIRECTIONAL"}
  BY StreamsKnown
<1>2. Rounds(side)[Len(Rounds(side))] = IF mode = "SENDER" THEN side = "c" ELSE side = "s"
  BY <1>1, RoundsKnown
<1>. QED
  BY <1>1, <1>2 DEF SenderCongestion, Peer, Sides

LEMMA SummaryFields ==
    ASSUME NEW side, NEW i
    PROVE  LET sp == stream[side][i]
               p == StreamSummary(side, i)
           IN  /\ p.sent = (IF Sends(side, i) THEN SentBytes(sp) % SizeLimit
                            ELSE SentShown(side, SentBytes(sp) % SizeLimit, sp.bytes_received))
               /\ p.received = sp.bytes_received
               /\ p.retransmits = (IF protocol # "udp" /\ RoundRetransmits(side, Sends(side, i)) # 0
                                   THEN sp.stream_retrans ELSE -1)
               /\ p.lost = sp.cnt_error - sp.omitted_cnt_error
               /\ p.sender_packets =
                    (IF Sends(side, i) THEN sp.packet_count - sp.omitted_packet_count
                     ELSE sp.peer_packet_count - sp.peer_omitted_packet_count)
               /\ p.receiver_packets =
                    (IF Sends(side, i) THEN sp.peer_packet_count - sp.peer_omitted_packet_count
                     ELSE sp.packet_count - sp.omitted_packet_count)
BY DEF StreamSummary, SentBytes

LEMMA SummaryBySender ==
    ASSUME Inv, NEW side \in Sides, NEW i \in Streams, protocol # "quic", Sends(side, i),
           Sent(side), Got(side), Sent(Peer(side))
    PROVE  PrintedBySender(StreamSummary(side, i), results[side].streams[i],
                           results[Peer(side)].streams[i])
<1> DEFINE sp == stream[side][i]
           p == StreamSummary(side, i)
           mine == results[side].streams[i]
           theirs == results[Peer(side)].streams[i]
<1>1. sp \in StreamType /\ mine \in ResultType /\ theirs \in ResultType
  BY TypesAt, SidesKnown DEF Inv, ResultsInv
<1>2. /\ p.sent = SentBytes(sp) % SizeLimit /\ p.received = sp.bytes_received
      /\ p.lost = sp.cnt_error - sp.omitted_cnt_error
      /\ p.sender_packets = sp.packet_count - sp.omitted_packet_count
      /\ p.receiver_packets = sp.peer_packet_count - sp.peer_omitted_packet_count
  BY SummaryFields
<1>3. SentBytes(sp) % SizeLimit = SentBytes(sp) /\ SentBytes(sp) \in Nat
  <2>1. SenderOf(i) = side /\ ~Replaced(i)
    BY SidesKnown DEF Replaced
  <2>2. SenderCounts(sp, worker[side][i], taken[side][i], intervals[side][i], omitting[side],
                     pc[side], MaxBlocks[mode])
    BY <2>1 DEF Inv, SenderInv, SenderOK
  <2>3. MaxBlocks[mode] \in Nat /\ MaxBlocks[mode] < SizeLimit
    BY StreamsKnown DEF Inv
  <2>. QED
    BY <1>1, <2>2, <2>3, SentBelow
<1>4. SentBySender(mine, sp, worker[side][i])
  BY DEF Inv, SentInv, SentOK
<1>5. TakenBySender(theirs, sp)
  BY DEF Inv, GotInv
<1>6. /\ mine.bytes \in Nat /\ theirs.packets \in Int /\ theirs.omitted_packets \in Int
      /\ theirs.errors \in Int /\ theirs.omitted_errors \in Int
  BY <1>1 DEF ResultType
<1> HIDE DEF sp, p, mine, theirs
<1>7. p.sent \in mine.bytes .. mine.bytes + 1
  BY <1>2, <1>3, <1>4, <1>6 DEF SentBySender, B
<1>8. p.sender_packets = mine.packets - mine.omitted_packets /\ p.received = theirs.bytes
  BY <1>2, <1>4, <1>5 DEF SentBySender, TakenBySender
<1>9. /\ p.receiver_packets = theirs.packets - theirs.omitted_packets
      /\ p.lost = theirs.errors - theirs.omitted_errors
  BY <1>2, <1>5 DEF TakenBySender
<1>11. PrintedBySender(p, mine, theirs)
  BY <1>7, <1>8, <1>9 DEF PrintedBySender
<1>. QED
  BY <1>11 DEF p, mine, theirs

LEMMA SummaryByReceiver ==
    ASSUME Inv, NEW side \in Sides, NEW i \in Streams, protocol # "quic", ~Sends(side, i),
           Sent(side), Got(side), Sent(Peer(side))
    PROVE  PrintedByReceiver(StreamSummary(side, i), results[side].streams[i],
                             results[Peer(side)].streams[i])
<1> DEFINE sp == stream[side][i]
           p == StreamSummary(side, i)
           mine == results[side].streams[i]
           theirs == results[Peer(side)].streams[i]
<1>1. sp \in StreamType /\ mine \in ResultType /\ theirs \in ResultType
      /\ theirs.bytes < SizeLimit
  BY TypesAt, SidesKnown DEF Inv, ResultsInv
<1>2. /\ p.sent = SentShown(side, SentBytes(sp) % SizeLimit, sp.bytes_received)
      /\ p.received = sp.bytes_received
      /\ p.lost = sp.cnt_error - sp.omitted_cnt_error
      /\ p.sender_packets = sp.peer_packet_count - sp.peer_omitted_packet_count
      /\ p.receiver_packets = sp.packet_count - sp.omitted_packet_count
  BY SummaryFields
<1>3. sp.bytes_sent_omit = 0
  <2>1. Peer(SenderOf(i)) = side /\ ReceiverOK(i)
    BY SidesKnown DEF Inv, ReceiverInv
  <2>. QED
    BY <2>1 DEF ReceiverOK, ReceiverCounts
<1>4. SentByReceiver(mine, sp, worker[side][i])
  BY DEF Inv, SentInv, SentOK
<1>5. TakenByReceiver(theirs, sp)
  BY DEF Inv, GotInv
<1>6. /\ mine.bytes \in Nat /\ mine.packets \in Int /\ mine.omitted_packets \in Int
      /\ mine.errors \in Int /\ mine.omitted_errors \in Int /\ theirs.bytes \in Nat
  BY <1>1 DEF ResultType
<1>7. sp.bytes_received \in Nat /\ sp.packet_count \in Int /\ sp.cnt_error \in Int
  BY <1>1 DEF StreamType
<1> HIDE DEF sp, p, mine, theirs
<1>8. p.sent = theirs.bytes
  <2>1. SentBytes(sp) = theirs.bytes
    BY <1>3, <1>5, <1>6 DEF SentBytes, TakenByReceiver
  <2>2. theirs.bytes % SizeLimit = theirs.bytes
    BY <1>1, <1>6, NoWrap
  <2>. QED
    BY <1>2, <2>1, <2>2 DEF SentShown
<1>9. p.received \in mine.bytes .. mine.bytes + 1
  BY <1>2, <1>4, <1>6, <1>7 DEF SentByReceiver, B
<1>10. p.sender_packets = theirs.packets - theirs.omitted_packets
  BY <1>2, <1>5 DEF TakenByReceiver
<1>11. OneMore(mine.packets - mine.omitted_packets, mine.errors - mine.omitted_errors,
               p.receiver_packets, p.lost)
  <2>1. /\ OneMore(mine.packets, mine.errors, sp.packet_count, sp.cnt_error)
        /\ mine.omitted_packets = sp.omitted_packet_count
        /\ mine.omitted_errors = sp.omitted_cnt_error
    BY <1>4 DEF SentByReceiver
  <2>2. p.receiver_packets = sp.packet_count - mine.omitted_packets
        /\ p.lost = sp.cnt_error - mine.omitted_errors
    BY <1>2, <2>1
  <2>. QED
    BY <1>6, <1>7, <2>1, <2>2 DEF OneMore
<1>12. PrintedByReceiver(p, mine, theirs)
  BY <1>8, <1>9, <1>10, <1>11 DEF PrintedByReceiver
<1>. QED
  BY <1>12 DEF p, mine, theirs

(* The round of a stream goes by the flag of the stream's sender.          *)
LEMMA SummaryRetransmits ==
    ASSUME Inv, NEW side \in Sides, NEW i \in Streams, Got(side), Sent(Peer(side))
    PROVE  StreamSummary(side, i).retransmits =
                IF has[SenderOf(i)] = 1 THEN stream[SenderOf(i)][i].stream_retrans ELSE -1
<1>1. StreamSummary(side, i).retransmits =
            (IF protocol # "udp" /\ RoundRetransmits(side, Sends(side, i)) # 0
             THEN stream[side][i].stream_retrans ELSE -1)
  BY SummaryFields
<1>2. has[SenderOf(i)] \in {0, 1} /\ (has[SenderOf(i)] = 1 => protocol = "tcp")
  BY SendersCount, SidesKnown
<1>3. RoundRetransmits(side, Sends(side, i)) = has[SenderOf(i)]
  <2>1. CASE Sends(side, i)
    BY <2>1, SidesKnown DEF RoundRetransmits
  <2>2. CASE ~Sends(side, i)
    <3>1. SenderOf(i) = Peer(side)
      BY <2>2, SidesKnown DEF Sides, Peer
    <3>2. ModeOf(side) \in {"RECEIVER", "BIDIRECTIONAL"}
      BY <2>2, StreamsKnown DEF Inv, ModeOf, Sends, SenderOf, Sides
    <3>. QED
      BY <2>2, <3>1, <3>2 DEF Inv, FlagsInv, RoundRetransmits
  <2>. QED
    BY <2>1, <2>2
<1>4. CASE has[SenderOf(i)] = 1
  <2>1. StreamSummary(side, i).retransmits = stream[side][i].stream_retrans
    BY <1>1, <1>2, <1>3, <1>4
  <2>2. CASE Sends(side, i)
    BY <1>4, <2>1, <2>2, SidesKnown
  <2>3. CASE ~Sends(side, i)
    <3>1. SenderOf(i) = Peer(side)
      BY <2>3, SidesKnown DEF Sides, Peer
    <3>2. stream[side][i].stream_retrans = results[Peer(side)].streams[i].retransmits
      BY <2>3 DEF Inv, GotInv, TakenByReceiver
    <3>3. results[Peer(side)].streams[i].retransmits = stream[SenderOf(i)][i].stream_retrans
      BY <1>4, <3>1 DEF Inv, RetransInv
    <3>. QED
      BY <1>4, <2>1, <3>2, <3>3
  <2>. QED
    BY <2>2, <2>3
<1>5. CASE has[SenderOf(i)] = 0
  BY <1>1, <1>3, <1>5
<1>. QED
  BY <1>2, <1>4, <1>5

LEMMA PrintPreserves ==
    ASSUME Inv, NEW side \in Sides, iperf_print_results(side)
    PROVE  Inv'
<1> DEFINE new == [streams |-> [i \in Streams |-> StreamSummary(side, i)],
                   sums |-> RoundSums(side),
                   sender_tcp_congestion |-> SenderCongestion(side)]
<1>1. /\ UNCHANGED test /\ stream' = stream /\ has' = has /\ other' = other /\ worker' = worker
      /\ congestion' = congestion /\ omitting' = omitting /\ taken' = taken /\ wire' = wire
      /\ kernel' = kernel /\ intervals' = intervals /\ ring' = ring /\ history' = history
      /\ results' = results
  BY DEF iperf_print_results, counters
<1>2. /\ IF side = "s" THEN pc["s"] = "sent" ELSE pc["c"] = "got" /\ pc["s"] = "printed"
      /\ pc' = [pc EXCEPT ![side] = "printed"]
      /\ printed' = [printed EXCEPT ![side] = new]
  BY DEF iperf_print_results
<1>3. mode' = mode /\ protocol' = protocol /\ Streams' = Streams
  BY <1>1, SameTest
<1>4. \A sd : ModeOf(sd)' = ModeOf(sd)
  BY <1>1, SameTest
<1>5. Peer(side) \in Sides /\ Peer(side) # side /\ \A sd \in Sides : sd = side \/ sd = Peer(side)
  BY SidesKnown DEF Sides, Peer
<1>6. pc \in [Sides -> Phases] /\ printed = [sd \in Sides |-> printed[sd]]
  BY DEF Inv, PhaseInv, SumsInv
<1>7. pc'[side] = "printed" /\ pc'[Peer(side)] = pc[Peer(side)]
  BY <1>2, <1>5, <1>6
<1>8. PhaseInv'
  <2>1. pc' \in [Sides -> Phases]
    BY <1>2, <1>6 DEF Phases
  <2>2. CASE side = "c"
    BY <1>1, <1>2, <1>7, <2>1, <2>2 DEF Inv, PhaseInv, Peer
  <2>3. CASE side = "s"
    BY <1>1, <1>2, <1>7, <2>1, <2>3 DEF Inv, PhaseInv, Peer
  <2>. QED
    BY <2>2, <2>3 DEF Sides
<1>9. CountersInv'
  BY <1>1, <1>3 DEF Inv, CountersInv
<1>10. /\ Sent(side)' /\ Sent(side) /\ Got(side)' /\ Got(side) /\ Sent(Peer(side))
       /\ (Sent(Peer(side))' <=> Sent(Peer(side))) /\ (Got(Peer(side))' <=> Got(Peer(side)))
       /\ pc[side] \in {"ended", "sent", "got"}
  <2>1. CASE side = "c"
    BY <1>2, <1>5, <1>7, <2>1 DEF Sent, Got, Peer, Inv, PhaseInv
  <2>2. CASE side = "s"
    BY <1>2, <1>5, <1>7, <2>2 DEF Sent, Got, Peer, Inv, PhaseInv
  <2>. QED
    BY <2>1, <2>2 DEF Sides
<1>11. \A sd \in Sides : (Sent(sd)' <=> Sent(sd)) /\ (Got(sd)' <=> Got(sd))
  BY <1>5, <1>10
<1>12. ExchangeStep(side)
  <2>1. \A i \in Streams : SenderKept(stream[side][i], stream'[side][i])
                           /\ ReceivedKept(stream[side][i], stream'[side][i])
    BY <1>1 DEF SenderKept, ReceivedKept
  <2>. QED
    BY <1>1, <1>7, <1>8, <1>9, <1>10, <2>1 DEF ExchangeStep
<1>13. TestInv' /\ CountersInv' /\ PhaseInv' /\ SenderInv' /\ ReceiverInv' /\ RingInv'
  BY <1>12, ExchangeCounts
<1>14. /\ printed'[side] = new /\ printed'[Peer(side)] = printed[Peer(side)]
       /\ printed' = [sd \in Sides |-> printed'[sd]]
  BY <1>2, <1>5, <1>6
<1>15. ResultsInv'
  BY <1>1, <1>3, <1>11 DEF Inv, ResultsInv
<1>16. SentInv'
  BY <1>1, <1>3, <1>11 DEF Inv, SentInv, SentOK, Sends, SenderOf
<1>17. GotInv'
  BY <1>1, <1>3, <1>11 DEF Inv, GotInv, Sends, SenderOf, Peer, TakenBySender, TakenByReceiver
<1>18. FlagsInv'
  BY <1>1, <1>3, <1>4, <1>11 DEF Inv, FlagsInv, Peer
<1>19. RetransInv'
  <2>1. \A i : Sent(SenderOf(i))' <=> Sent(SenderOf(i))
    BY <1>11, SidesKnown
  <2>. QED
    BY <1>1, <1>3, <2>1 DEF Inv, RetransInv, SenderOf, Sent
<1>20. /\ \A i \in Streams : new.streams[i] = StreamSummary(side, i)
       /\ new.sums = RoundSums(side) /\ new.sender_tcp_congestion = SenderCongestion(side)
  OBVIOUS
<1> HIDE DEF new
<1>21. ASSUME NEW sd \in Sides, NEW i \in Streams, pc'[sd] = "printed", protocol # "quic"
       PROVE  IF Sends(sd, i)
              THEN PrintedBySender(printed'[sd].streams[i], results[sd].streams[i],
                                   results[Peer(sd)].streams[i])
              ELSE PrintedByReceiver(printed'[sd].streams[i], results[sd].streams[i],
                                     results[Peer(sd)].streams[i])
  <2>1. CASE sd = side
    BY <1>10, <1>14, <1>20, <1>21, <2>1, SummaryBySender, SummaryByReceiver
  <2>2. CASE sd = Peer(side)
    BY <1>7, <1>14, <1>21, <2>2 DEF Inv, PrintedInv, PrintedStream
  <2>. QED
    BY <1>5, <2>1, <2>2
<1>22. PrintedInv'
  BY <1>1, <1>3, <1>21 DEF PrintedInv, PrintedStream, Sends, SenderOf, Peer
<1>23. ASSUME NEW sd \in Sides, NEW i \in Streams, pc'[sd] = "printed"
       PROVE  printed'[sd].streams[i].retransmits =
                    IF has[SenderOf(i)] = 1 THEN stream[SenderOf(i)][i].stream_retrans ELSE -1
  <2>1. CASE sd = side
    BY <1>10, <1>14, <1>20, <2>1, SummaryRetransmits
  <2>2. CASE sd = Peer(side)
    BY <1>7, <1>14, <1>23, <2>2 DEF Inv, ShownInv, PrintedStream
  <2>. QED
    BY <1>5, <2>1, <2>2
<1>24. ShownInv'
  BY <1>1, <1>3, <1>23 DEF ShownInv, PrintedStream, SenderOf
<1>25. ASSUME NEW sd \in Sides, pc'[sd] = "printed"
       PROVE  /\ DOMAIN printed'[sd].sums = SumNames
              /\ \A n \in SumNames : printed'[sd].sums[n] = printed'[sd].streams[StreamOf(n)]
              /\ printed'[sd].sender_tcp_congestion = IF mode = "SENDER" THEN "c" ELSE "s"
  <2>1. CASE sd = side
    <3>1. TestInv /\ congestion[side] = Peer(side)
      BY <1>10 DEF Inv, GotInv
    <3>2. /\ DOMAIN RoundSums(side) = SumNames
          /\ \A n \in SumNames : /\ StreamOf(n) \in Streams
                                 /\ RoundSums(side)[n] = StreamSummary(side, StreamOf(n))
      BY <3>1, RoundSumsKnown
    <3>3. SenderCongestion(side) = IF mode = "SENDER" THEN "c" ELSE "s"
      BY <3>1, CongestionKnown
    <3>. QED
      BY <1>14, <1>20, <2>1, <3>2, <3>3
  <2>2. CASE sd = Peer(side)
    BY <1>7, <1>14, <1>25, <2>2 DEF Inv, SumsInv
  <2>. QED
    BY <1>5, <2>1, <2>2
<1>26. SumsInv'
  BY <1>3, <1>14, <1>25 DEF SumsInv, SumNames, StreamOf
<1>. QED
  BY <1>13, <1>15, <1>16, <1>17, <1>18, <1>19, <1>22, <1>24, <1>26 DEF Inv

-----------------------------------------------------------------------------
(* The ring of the rate limit.  Induction over an interval of numbers, for *)
(* a set instead of a predicate.                                           *)

LEMMA Upwards ==
    ASSUME NEW S, NEW a \in Nat, NEW b \in Nat, a \in S,
           \A k \in a + 1 .. b : k - 1 \in S => k \in S
    PROVE  \A k \in a .. b : k \in S
<1> DEFINE U == {k \in a .. b : k \notin S}
<1> DEFINE less == OpToRel(<, Nat)
<1>1. SUFFICES ASSUME U # {} PROVE FALSE
  OBVIOUS
<1>2. U \subseteq Nat
  OBVIOUS
<1>3. IsWellFoundedOn(less, Nat)
  BY NatLessThanWellFounded
<1>4. PICK m \in U : \A n \in U : <<n, m>> \notin less
  <2> HIDE DEF less, U
  <2>. QED
    BY <1>1, <1>2, <1>3, WFMin
<1>5. m \in a .. b /\ m \notin S
  OBVIOUS
<1>6. m # a /\ m \in a + 1 .. b
  BY <1>5
<1>7. m - 1 \in U
  BY <1>5, <1>6
<1>8. <<m - 1, m>> \in less
  BY <1>5, <1>6, <1>7 DEF OpToRel
<1>. QED
  BY <1>4, <1>7, <1>8

(* The partial sums are what their definition says.                        *)
SumsUpTo(f, traffic, n) ==
    f = [k \in 0 .. n |-> IF k = 0 THEN 0 ELSE f[k - 1] + traffic[k - 1]]

LEMMA OneMoreSum ==
    ASSUME NEW traffic, NEW k \in Nat, k # 0, NEW f, SumsUpTo(f, traffic, k - 1)
    PROVE  \E g : SumsUpTo(g, traffic, k)
<1> DEFINE g == [j \in 0 .. k |-> IF j = k THEN f[k - 1] + traffic[k - 1] ELSE f[j]]
<1>1. ASSUME NEW j \in 0 .. k
      PROVE  g[j] = IF j = 0 THEN 0 ELSE g[j - 1] + traffic[j - 1]
  <2>1. CASE j = k
    BY <2>1
  <2>2. CASE j # k
    <3>1. j \in 0 .. k - 1 /\ (j # 0 => j - 1 \in 0 .. k - 1 /\ j - 1 # k)
      BY <2>2
    <3>2. f[j] = IF j = 0 THEN 0 ELSE f[j - 1] + traffic[j - 1]
      BY <3>1 DEF SumsUpTo
    <3>. QED
      BY <2>2, <3>1, <3>2
  <2>. QED
    BY <2>1, <2>2
<1>2. g = [j \in 0 .. k |-> g[j]]
  OBVIOUS
<1> HIDE DEF g
<1>3. g = [j \in 0 .. k |-> IF j = 0 THEN 0 ELSE g[j - 1] + traffic[j - 1]]
  BY <1>1, <1>2
<1>. QED
  BY <1>3 DEF SumsUpTo

LEMMA SumsExist ==
    ASSUME NEW traffic
    PROVE  \E f : SumsUpTo(f, traffic, RateWindow)
<1> DEFINE S == {k \in 0 .. RateWindow : \E f : SumsUpTo(f, traffic, k)}
<1>1. RateWindow \in Nat /\ 0 \in 0 .. RateWindow
  BY ReportsAssumption
<1>2. 0 \in S
  <2> DEFINE f == [k \in 0 .. 0 |-> 0]
  <2>1. f = [k \in 0 .. 0 |-> IF k = 0 THEN 0 ELSE f[k - 1] + traffic[k - 1]]
    OBVIOUS
  <2> HIDE DEF f
  <2>2. SumsUpTo(f, traffic, 0)
    BY <2>1 DEF SumsUpTo
  <2>. QED
    BY <1>1, <2>2
<1>3. ASSUME NEW k \in 0 + 1 .. RateWindow, k - 1 \in S
      PROVE  k \in S
  <2>1. PICK f : SumsUpTo(f, traffic, k - 1)
    BY <1>3
  <2>2. k \in Nat /\ k # 0 /\ k \in 0 .. RateWindow
    BY <1>1
  <2>3. \E g : SumsUpTo(g, traffic, k)
    BY <2>1, <2>2, OneMoreSum
  <2>. QED
    BY <2>2, <2>3
<1>4. RateWindow \in S
  <2> HIDE DEF S
  <2>1. \A k \in 0 .. RateWindow : k \in S
    BY <1>1, <1>2, <1>3, Upwards
  <2>. QED
    BY <1>1, <2>1
<1>. QED
  BY <1>4

LEMMA SumsUnfold ==
    ASSUME NEW traffic
    PROVE  /\ PartialSums(traffic)[0] = 0
           /\ \A k \in 1 .. RateWindow :
                PartialSums(traffic)[k] = PartialSums(traffic)[k - 1] + traffic[k - 1]
<1> DEFINE P == PartialSums(traffic)
<1>1. SumsUpTo(P, traffic, RateWindow)
  BY SumsExist DEF PartialSums, SumsUpTo
<1> HIDE DEF P
<1>2. RateWindow \in Nat
  BY ReportsAssumption
<1>3. P[0] = 0 /\ \A k \in 1 .. RateWindow : P[k] = P[k - 1] + traffic[k - 1]
  BY <1>1, <1>2 DEF SumsUpTo
<1>. QED
  BY <1>3 DEF P

LEMMA SumsAreNumbers ==
    ASSUME NEW traffic \in [0 .. RateWindow - 1 -> Nat]
    PROVE  \A k \in 0 .. RateWindow : PartialSums(traffic)[k] \in Nat
<1> DEFINE P == PartialSums(traffic)
<1> DEFINE S == {k \in 0 .. RateWindow : P[k] \in Nat}
<1>1. RateWindow \in Nat /\ 0 \in 0 .. RateWindow
  BY ReportsAssumption
<1>2. P[0] = 0 /\ \A k \in 1 .. RateWindow : P[k] = P[k - 1] + traffic[k - 1]
  BY SumsUnfold
<1> HIDE DEF P
<1>3. 0 \in S
  BY <1>1, <1>2
<1>4. ASSUME NEW k \in 0 + 1 .. RateWindow, k - 1 \in S
      PROVE  k \in S
  <2>1. k \in 1 .. RateWindow /\ k \in 0 .. RateWindow /\ k - 1 \in 0 .. RateWindow - 1
    BY <1>1
  <2>2. P[k - 1] \in Nat /\ traffic[k - 1] \in Nat
    BY <1>4, <2>1
  <2>. QED
    BY <1>2, <2>1, <2>2
<1>5. \A k \in 0 .. RateWindow : k \in S
  <2> HIDE DEF S
  <2>. QED
    BY <1>1, <1>3, <1>4, Upwards
<1>. QED
  BY <1>5 DEF P

(* Turning the ring does not change its sum: a is b, read backwards from   *)
(* index, and on from the end.                                             *)
LEMMA TurnedSum ==
    ASSUME NEW a \in [0 .. RateWindow - 1 -> Nat], NEW b \in [0 .. RateWindow - 1 -> Nat],
           NEW index \in 0 .. RateWindow - 1,
           \A k \in 0 .. RateWindow - 1 :
                a[k] = IF k <= index THEN b[index - k] ELSE b[index + RateWindow - k]
    PROVE  Summed(a) = Summed(b)
<1> DEFINE P == PartialSums(a)
<1> DEFINE Q == PartialSums(b)
<1>1. RateWindow \in Nat /\ index \in Nat /\ index + 1 <= RateWindow
  BY ReportsAssumption
<1>2. P[0] = 0 /\ \A k \in 1 .. RateWindow : P[k] = P[k - 1] + a[k - 1]
  BY SumsUnfold
<1>3. Q[0] = 0 /\ \A k \in 1 .. RateWindow : Q[k] = Q[k - 1] + b[k - 1]
  BY SumsUnfold
<1>4. \A k \in 0 .. RateWindow : P[k] \in Nat /\ Q[k] \in Nat
  BY SumsAreNumbers
<1> HIDE DEF P, Q
<1>5. \A k \in 0 .. index + 1 : P[k] = Q[index + 1] - Q[index + 1 - k]
  <2> DEFINE S == {k \in 0 .. index + 1 : P[k] = Q[index + 1] - Q[index + 1 - k]}
  <2>1. 0 \in S
    BY <1>1, <1>2, <1>4
  <2>2. ASSUME NEW k \in 0 + 1 .. index + 1, k - 1 \in S
        PROVE  k \in S
    <3>1. /\ k \in 1 .. RateWindow /\ k \in 0 .. index + 1 /\ k - 1 \in 0 .. RateWindow - 1
          /\ k - 1 <= index /\ index + 2 - k \in 1 .. RateWindow
          /\ index + 2 - k - 1 = index + 1 - k /\ index + 1 - (k - 1) = index + 2 - k
          /\ index - (k - 1) = index + 1 - k /\ index + 1 - k \in 0 .. RateWindow - 1
      BY <1>1
    <3>2. P[k] = P[k - 1] + a[k - 1] /\ Q[index + 2 - k] = Q[index + 1 - k] + b[index + 1 - k]
      BY <1>2, <1>3, <3>1
    <3>3. a[k - 1] = b[index + 1 - k]
      BY <3>1
    <3>4. P[k - 1] = Q[index + 1] - Q[index + 2 - k]
      BY <2>2, <3>1
    <3>5. /\ Q[index + 1] \in Nat /\ Q[index + 1 - k] \in Nat /\ Q[index + 2 - k] \in Nat
          /\ b[index + 1 - k] \in Nat
      BY <1>1, <1>4, <3>1
    <3>6. P[k] = Q[index + 1] - Q[index + 1 - k]
      BY <3>2, <3>3, <3>4, <3>5
    <3>. QED
      BY <3>1, <3>6
  <2>3. \A k \in 0 .. index + 1 : k \in S
    <3> HIDE DEF S
    <3>1. index + 1 \in Nat /\ 0 \in Nat
      BY <1>1
    <3>. QED
      BY <2>1, <2>2, <3>1, Upwards
  <2>. QED
    BY <2>3
<1>6. P[index + 1] = Q[index + 1]
  BY <1>1, <1>3, <1>4, <1>5
<1>7. \A k \in index + 1 .. RateWindow :
        P[k] = Q[index + 1] + Q[RateWindow] - Q[index + 1 + RateWindow - k]
  <2> DEFINE S == {k \in index + 1 .. RateWindow :
                    P[k] = Q[index + 1] + Q[RateWindow] - Q[index + 1 + RateWindow - k]}
  <2>1. index + 1 \in S
    <3>1. index + 1 + RateWindow - (index + 1) = RateWindow
      BY <1>1
    <3>. QED
      BY <1>1, <1>4, <1>6, <3>1
  <2>2. ASSUME NEW k \in (index + 1) + 1 .. RateWindow, k - 1 \in S
        PROVE  k \in S
    <3> DEFINE j == index + 1 + RateWindow - k
    <3>1. /\ k \in 1 .. RateWindow /\ k \in index + 1 .. RateWindow /\ k - 1 \in 0 .. RateWindow - 1
          /\ ~(k - 1 <= index) /\ j + 1 \in 1 .. RateWindow /\ j \in 0 .. RateWindow - 1
          /\ (j + 1) - 1 = j /\ index + 1 + RateWindow - (k - 1) = j + 1
          /\ index + RateWindow - (k - 1) = j /\ j \in 0 .. RateWindow
      BY <1>1
    <3>1a. index + 1 + RateWindow - k = j
      OBVIOUS
    <3> HIDE DEF j
    <3>2. P[k] = P[k - 1] + a[k - 1] /\ Q[j + 1] = Q[j] + b[j]
      BY <1>2, <1>3, <3>1
    <3>3. a[k - 1] = b[j]
      BY <3>1
    <3>4. P[k - 1] = Q[index + 1] + Q[RateWindow] - Q[j + 1]
      BY <2>2, <3>1
    <3>5. Q[index + 1] \in Nat /\ Q[RateWindow] \in Nat /\ Q[j] \in Nat /\ Q[j + 1] \in Nat
          /\ b[j] \in Nat
      BY <1>1, <1>4, <3>1
    <3>6. P[k] = Q[index + 1] + Q[RateWindow] - Q[j]
      BY <3>2, <3>3, <3>4, <3>5
    <3>. QED
      BY <3>1, <3>1a, <3>6
  <2>3. \A k \in index + 1 .. RateWindow : k \in S
    <3> HIDE DEF S
    <3>1. index + 1 \in Nat
      BY <1>1
    <3>. QED
      BY <1>1, <2>1, <2>2, <3>1, Upwards
  <2>. QED
    BY <2>3
<1>8. P[RateWindow] = Q[RateWindow]
  <2>1. index + 1 + RateWindow - RateWindow = index + 1 /\ RateWindow \in index + 1 .. RateWindow
    BY <1>1
  <2>2. P[RateWindow] = Q[index + 1] + Q[RateWindow] - Q[index + 1]
    BY <1>7, <2>1
  <2>. QED
    BY <1>1, <1>4, <2>2
<1>. QED
  BY <1>8 DEF Summed, P, Q

(* The ring and the window of the last intervals, as constants.            *)
SlotOf(k, index, h) ==
    LET at == IF k <= index THEN Len(h) - (index - k) ELSE Len(h) - (index + RateWindow - k)
    IN  IF at >= 1 THEN h[at] ELSE 0

WindowOf(h) == [j \in 0 .. RateWindow - 1 |-> IF Len(h) - j >= 1 THEN h[Len(h) - j] ELSE 0]

LEMMA RingIsWindow ==
    ASSUME NEW h \in Seq(Nat), NEW index \in 0 .. RateWindow - 1,
           NEW traffic \in [0 .. RateWindow - 1 -> Nat],
           \A k \in 0 .. RateWindow - 1 : traffic[k] = SlotOf(k, index, h)
    PROVE  Summed(traffic) = Summed(WindowOf(h))
<1>1. RateWindow \in Nat \ {0} /\ index \in Nat /\ index + 1 <= RateWindow /\ Len(h) \in Nat
  BY ReportsAssumption
<1>2. ASSUME NEW j \in 0 .. RateWindow - 1
      PROVE  /\ WindowOf(h)[j] = (IF Len(h) - j >= 1 THEN h[Len(h) - j] ELSE 0)
             /\ WindowOf(h)[j] \in Nat
  BY <1>1 DEF WindowOf
<1>3. WindowOf(h) \in [0 .. RateWindow - 1 -> Nat]
  <2>1. WindowOf(h) = [j \in 0 .. RateWindow - 1 |-> WindowOf(h)[j]]
    BY DEF WindowOf
  <2>. QED
    BY <1>2, <2>1
<1>4. ASSUME NEW k \in 0 .. RateWindow - 1
      PROVE  traffic[k] = IF k <= index THEN WindowOf(h)[index - k]
                          ELSE WindowOf(h)[index + RateWindow - k]
  <2>1. CASE k <= index
    <3>1. index - k \in 0 .. RateWindow - 1
      BY <1>1, <2>1
    <3>. QED
      BY <1>2, <2>1, <3>1 DEF SlotOf
  <2>2. CASE ~(k <= index)
    <3>1. index + RateWindow - k \in 0 .. RateWindow - 1
      BY <1>1, <2>2
    <3>. QED
      BY <1>2, <2>2, <3>1 DEF SlotOf
  <2>. QED
    BY <2>1, <2>2
<1>. QED
  BY <1>3, <1>4, TurnedSum

TurnedAt(traffic, next, n) == [traffic EXCEPT ![next] = n]

LEMMA RingTurns ==
    ASSUME NEW h \in Seq(Nat), NEW n \in Nat, NEW index \in 0 .. RateWindow - 1,
           NEW next \in 0 .. RateWindow - 1,
           (index + 1 = RateWindow /\ next = 0) \/ next = index + 1,
           NEW traffic \in [0 .. RateWindow - 1 -> Nat],
           \A k \in 0 .. RateWindow - 1 : traffic[k] = SlotOf(k, index, h)
    PROVE  /\ TurnedAt(traffic, next, n) \in [0 .. RateWindow - 1 -> Nat]
           /\ \A k \in 0 .. RateWindow - 1 :
                TurnedAt(traffic, next, n)[k] = SlotOf(k, next, Append(h, n))
<1>1. RateWindow \in Nat \ {0} /\ index \in Nat /\ index + 1 <= RateWindow /\ Len(h) \in Nat
  BY ReportsAssumption
<1>2. /\ Append(h, n) \in Seq(Nat) /\ Len(Append(h, n)) = Len(h) + 1
      /\ \A i \in 1 .. Len(h) : Append(h, n)[i] = h[i]
      /\ Append(h, n)[Len(h) + 1] = n
  BY AppendProperties
<1>3. next \in 0 .. RateWindow - 1 /\ next \in Nat
  BY <1>1
<1>4. ASSUME NEW k \in 0 .. RateWindow - 1, k # next
      PROVE  SlotOf(k, next, Append(h, n)) = SlotOf(k, index, h)
  <2> DEFINE at == IF k <= index THEN Len(h) - (index - k) ELSE Len(h) - (index + RateWindow - k)
  <2> DEFINE ah == Append(h, n)
  <2>1. at = IF k <= next THEN Len(h) + 1 - (next - k) ELSE Len(h) + 1 - (next + RateWindow - k)
    <3>1. CASE index + 1 = RateWindow /\ next = 0
      <4>1. index = RateWindow - 1 /\ next = 0 /\ k <= index /\ ~(k <= next)
        BY <1>1, <1>4, <3>1
      <4>. QED
        BY <1>1, <4>1
    <3>2. CASE next = index + 1
      <4>1. next = index + 1
        BY <3>2
      <4>2. CASE k <= index
        <5>1. k <= next
          BY <1>1, <4>1, <4>2
        <5>2. Len(h) - (index - k) = Len(h) + 1 - (next - k)
          BY <1>1, <1>4, <4>1
        <5>. QED
          BY <4>2, <5>1, <5>2
      <4>3. CASE ~(k <= index)
        <5>1. ~(k <= next)
          BY <1>1, <1>4, <4>1, <4>3
        <5>2. Len(h) - (index + RateWindow - k) = Len(h) + 1 - (next + RateWindow - k)
          BY <1>1, <1>4, <4>1
        <5>. QED
          BY <4>3, <5>1, <5>2
      <4>. QED
        BY <4>2, <4>3
    <3>. QED
      BY <3>1, <3>2
  <2>2. at \in Int /\ at <= Len(h)
    BY <1>1
  <2>3. SlotOf(k, index, h) = IF at >= 1 THEN h[at] ELSE 0
    BY DEF SlotOf
  <2>4. SlotOf(k, next, ah) = LET x == IF k <= next THEN Len(ah) - (next - k)
                                        ELSE Len(ah) - (next + RateWindow - k)
                              IN  IF x >= 1 THEN ah[x] ELSE 0
    BY DEF SlotOf
  <2>5. SlotOf(k, next, ah) = IF at >= 1 THEN ah[at] ELSE 0
    <3> HIDE DEF at, ah
    <3> DEFINE x == IF k <= next THEN Len(ah) - (next - k) ELSE Len(ah) - (next + RateWindow - k)
    <3>1. Len(ah) = Len(h) + 1
      BY <1>2 DEF ah
    <3>2. x = at
      <4>1. CASE k <= next
        BY <2>1, <3>1, <4>1
      <4>2. CASE ~(k <= next)
        <5>1. x = Len(ah) - (next + RateWindow - k)
          BY <4>2
        <5>2. at = Len(h) + 1 - (next + RateWindow - k)
          BY <2>1, <4>2
        <5> HIDE DEF x
        <5>. QED
          BY <1>1, <1>3, <3>1, <5>1, <5>2
      <4>. QED
        BY <4>1, <4>2
    <3>3. SlotOf(k, next, ah) = IF x >= 1 THEN ah[x] ELSE 0
      BY <2>4
    <3> HIDE DEF x
    <3>. QED
      BY <3>2, <3>3
  <2>6. at >= 1 => ah[at] = h[at]
    <3> HIDE DEF at
    <3>. QED
      BY <1>1, <1>2, <2>2
  <2> HIDE DEF at
  <2>. QED
    BY <2>3, <2>5, <2>6
<1>5. SlotOf(next, next, Append(h, n)) = n
  BY <1>1, <1>2, <1>3 DEF SlotOf
<1>. QED
  BY <1>3, <1>4, <1>5 DEF TurnedAt

LEMMA InitRing ==
    ASSUME Init
    PROVE  RingInv
<1>1. RateWindow \in Nat \ {0} /\ RateLimit \in Nat
  BY ReportsAssumption
<1>2. history \in Seq(Nat) /\ Len(history) = 0
  BY DEF Init
<1>3. /\ ring.index = 0 /\ ring.count = 0 /\ ring.exceeded = FALSE
      /\ \A k \in 0 .. RateWindow - 1 : ring.traffic[k] = 0
  BY DEF Init
<1>4. ring \in [index : 0 .. RateWindow - 1, count : Nat,
                traffic : [0 .. RateWindow - 1 -> Nat], exceeded : BOOLEAN]
  <2>1. 0 \in 0 .. RateWindow - 1
    BY <1>1
  <2>. QED
    BY <2>1 DEF Init
<1>5. \A k \in 0 .. RateWindow - 1 : Slot(k) = 0
  BY <1>1, <1>2, <1>3 DEF Slot
<1>6. pc["s"] = "running"
  BY InitSides DEF Sides
<1>. QED
  BY <1>1, <1>2, <1>3, <1>4, <1>5, <1>6 DEF RingInv

LEMMA InitInv ==
    ASSUME Init
    PROVE  Inv
BY InitCounters, InitCounts, InitExchange, InitRing DEF Inv

-----------------------------------------------------------------------------
(* EndInterval: iperf_check_total_rate judges the interval.                *)

LEMMA TrafficIsNumber ==
    ASSUME Inv, NEW side \in Sides
    PROVE  Traffic(side) \in Nat
<1>1. taken \in [Sides -> [Streams -> Nat]]
  BY DEF Inv, CountersInv
<1>2. \A i \in Streams : taken[side][i] \in Nat
  BY <1>1
<1>. QED
  BY <1>2 DEF Traffic

LEMMA RateChecked ==
    ASSUME Inv, NEW n \in Nat, ~ring.exceeded, RateLimit # 0,
           ring' = iperf_check_total_rate(n), history' = Append(history, n)
    PROVE  /\ ring' \in [index : 0 .. RateWindow - 1, count : Nat,
                         traffic : [0 .. RateWindow - 1 -> Nat], exceeded : BOOLEAN]
           /\ ring'.count = Len(history')
           /\ \A k \in 0 .. RateWindow - 1 : ring'.traffic[k] = SlotOf(k, ring'.index, history')
           /\ ring'.exceeded <=> (Len(history') >= RateWindow /\ Summed(ring'.traffic) > RateLimit)
<1> DEFINE next == IF ring.index + 1 >= RateWindow THEN 0 ELSE ring.index + 1
<1> DEFINE traffic == [ring.traffic EXCEPT ![next] = n]
<1> DEFINE over == ring.count + 1 >= RateWindow /\ Summed(traffic) > RateLimit
<1>1. RateWindow \in Nat \ {0}
  BY ReportsAssumption
<1>2. /\ history \in Seq(Nat)
      /\ ring \in [index : 0 .. RateWindow - 1, count : Nat,
                   traffic : [0 .. RateWindow - 1 -> Nat], exceeded : BOOLEAN]
      /\ ring.count = Len(history)
      /\ \A k \in 0 .. RateWindow - 1 : ring.traffic[k] = SlotOf(k, ring.index, history)
  BY DEF Inv, RingInv, Slot, SlotOf
<1>3. ring' = [index |-> next, count |-> ring.count + 1, traffic |-> traffic,
               exceeded |-> ring.exceeded \/ over]
  BY DEF iperf_check_total_rate
<1>4. ring.index \in 0 .. RateWindow - 1 /\ ring.traffic \in [0 .. RateWindow - 1 -> Nat]
      /\ ring.count \in Nat
  BY <1>2
<1>5. next \in 0 .. RateWindow - 1 /\ ((ring.index + 1 = RateWindow /\ next = 0) \/ next = ring.index + 1)
  BY <1>1, <1>4
<1> HIDE DEF next
<1>6. /\ traffic \in [0 .. RateWindow - 1 -> Nat]
      /\ \A k \in 0 .. RateWindow - 1 : traffic[k] = SlotOf(k, next, Append(history, n))
  <2> DEFINE tr == ring.traffic
  <2> DEFINE index == ring.index
  <2>1. history \in Seq(Nat) /\ index \in 0 .. RateWindow - 1 /\ tr \in [0 .. RateWindow - 1 -> Nat]
    BY <1>2, <1>4
  <2>2. (index + 1 = RateWindow /\ next = 0) \/ next = index + 1
    BY <1>5
  <2>3. \A k \in 0 .. RateWindow - 1 : tr[k] = SlotOf(k, index, history)
    BY <1>2
  <2>4. traffic = TurnedAt(tr, next, n) /\ next \in 0 .. RateWindow - 1
    BY <1>5 DEF TurnedAt
  <2> HIDE DEF tr, index, over, traffic
  <2>5. /\ TurnedAt(tr, next, n) \in [0 .. RateWindow - 1 -> Nat]
        /\ \A k \in 0 .. RateWindow - 1 :
                TurnedAt(tr, next, n)[k] = SlotOf(k, next, Append(history, n))
    BY <2>1, <2>2, <2>3, <2>4, RingTurns
  <2>. QED
    BY <2>4, <2>5
<1>7. Len(Append(history, n)) = Len(history) + 1
  BY <1>2, AppendProperties
<1> HIDE DEF traffic
<1>8. ring.exceeded \/ over <=> over
  OBVIOUS
<1>9. over \in BOOLEAN
  OBVIOUS
<1>10. over <=> (Len(history') >= RateWindow /\ Summed(traffic) > RateLimit)
  BY <1>2, <1>7
<1> HIDE DEF over
<1>11. (ring.exceeded \/ over) \in BOOLEAN
  BY Zenon
<1>12. /\ ring'.index = next /\ ring'.count = ring.count + 1 /\ ring'.traffic = traffic
       /\ ring'.exceeded = (ring.exceeded \/ over)
  BY <1>3
<1>13. ring' \in [index : 0 .. RateWindow - 1, count : Nat,
                  traffic : [0 .. RateWindow - 1 -> Nat], exceeded : BOOLEAN]
  <2> DEFINE e == ring.exceeded \/ over
  <2>1. e \in BOOLEAN /\ ring' = [index |-> next, count |-> ring.count + 1, traffic |-> traffic,
                                  exceeded |-> e]
    BY <1>3, <1>11
  <2> HIDE DEF e
  <2>. QED
    BY <1>4, <1>5, <1>6, <2>1
<1>14. ring'.exceeded <=> over
  BY <1>8, <1>12, Zenon
<1>. QED
  BY <1>2, <1>6, <1>7, <1>10, <1>12, <1>13, <1>14

LEMMA EndIntervalRing ==
    ASSUME Inv, NEW side \in Sides, EndInterval(side)
    PROVE  RingInv'
<1>1. pc \in [Sides -> Phases] /\ pc[side] = "interval"
      /\ pc' = [pc EXCEPT ![side] = IF side = "s" /\ ring'.exceeded THEN "stopped" ELSE "running"]
  BY DEF Inv, PhaseInv, EndInterval
<1>2. CASE side = "c"
  <2>1. pc'["s"] = "stopped" <=> pc["s"] = "stopped"
    BY <1>1, <1>2 DEF Sides
  <2>2. ring' = ring /\ history' = history
    BY <1>2 DEF EndInterval
  <2>. QED
    BY <2>1, <2>2 DEF Inv, RingInv, Slot, Window, Summed, PartialSums
<1>3. CASE side = "s"
  <2> DEFINE n == Traffic("s")
  <2>1. n \in Nat
    BY <1>3, TrafficIsNumber
  <2>2. ring' = iperf_check_total_rate(n) /\ history' = Append(history, n)
    BY <1>3 DEF EndInterval
  <2> HIDE DEF n
  <2>3. ~ring.exceeded
    BY <1>1, <1>3 DEF Inv, RingInv
  <2>4. pc'["s"] = IF ring'.exceeded THEN "stopped" ELSE "running"
    BY <1>1, <1>3 DEF Sides
  <2>5. ring'.exceeded <=> pc'["s"] = "stopped"
    BY <2>4
  <2>6. history \in Seq(Nat)
    BY DEF Inv, RingInv
  <2>7. history' \in Seq(Nat)
    BY <2>1, <2>2, <2>6, AppendProperties
  <2>8. CASE RateLimit = 0
    <3>1. ring' = ring
      BY <2>2, <2>8 DEF iperf_check_total_rate
    <3>. QED
      BY <2>3, <2>5, <2>7, <2>8, <3>1 DEF Inv, RingInv
  <2>9. CASE RateLimit # 0
    <3>1. /\ ring' \in [index : 0 .. RateWindow - 1, count : Nat,
                         traffic : [0 .. RateWindow - 1 -> Nat], exceeded : BOOLEAN]
          /\ ring'.count = Len(history')
          /\ \A k \in 0 .. RateWindow - 1 : ring'.traffic[k] = SlotOf(k, ring'.index, history')
          /\ ring'.exceeded <=> (Len(history') >= RateWindow /\ Summed(ring'.traffic) > RateLimit)
      BY <2>1, <2>2, <2>3, <2>9, RateChecked
    <3>2. ring'.index \in 0 .. RateWindow - 1 /\ ring'.traffic \in [0 .. RateWindow - 1 -> Nat]
      BY <3>1
    <3>3. Summed(ring'.traffic) = Summed(WindowOf(history'))
      BY <2>7, <3>1, <3>2, RingIsWindow
    <3>4. ring'.exceeded <=> (Len(history') >= RateWindow /\ Summed(WindowOf(history')) > RateLimit)
      BY <3>1, <3>3
    <3>5. Summed(Window)' = Summed(WindowOf(history'))
      BY DEF Window, WindowOf, Summed, PartialSums
    <3>6. \A k \in 0 .. RateWindow - 1 : ring'.traffic[k] = Slot(k)'
      BY <3>1 DEF Slot, SlotOf
    <3>7. (ring.exceeded <=> (Len(history) >= RateWindow /\ Summed(Window) > RateLimit))'
      BY <3>4, <3>5
    <3>. QED
      BY <2>5, <2>7, <2>9, <3>1, <3>6, <3>7 DEF RingInv
  <2>. QED
    BY <2>8, <2>9
<1>. QED
  BY <1>2, <1>3 DEF Sides

LEMMA EndIntervalPreserves ==
    ASSUME Inv, NEW side \in Sides, EndInterval(side)
    PROVE  Inv'
<1>1. RingInv'
  BY EndIntervalRing
<1>2. /\ pc[side] = "interval" /\ ClearInterval(side)
      /\ UNCHANGED <<test, has, other, congestion, omitting, worker, wire, kernel, results, printed>>
  BY DEF EndInterval
<1>3. CASE side = "s" /\ ring'.exceeded
  <2>1. pc' = [pc EXCEPT ![side] = "stopped"]
    BY <1>3 DEF EndInterval
  <2>. QED
    BY <1>1, <1>2, <1>3, <2>1, ClearingPreserves
<1>4. CASE ~(side = "s" /\ ring'.exceeded)
  <2>1. pc' = [pc EXCEPT ![side] = "running"]
    BY <1>4 DEF EndInterval
  <2>2. \/ pc[side] = "interval" /\ ("running" = "running" \/ ("running" = "stopped" /\ side = "s"))
        \/ pc[side] = "last" /\ "running" = "ended"
    BY <1>2
  <2>. QED
    BY <1>1, <1>2, <2>1, <2>2, ClearingPreserves
<1>. QED
  BY <1>3, <1>4

-----------------------------------------------------------------------------
(* Every step.                                                             *)

LEMMA StandingStill ==
    ASSUME Inv, UNCHANGED test, pc' = pc, stream' = stream, has' = has, other' = other,
           congestion' = congestion, omitting' = omitting, taken' = taken, worker' = worker,
           wire' = wire, kernel' = kernel, results' = results, intervals' = intervals,
           ring' = ring, history' = history, printed' = printed
    PROVE  Inv'
<1>1. WorkerFrame
  BY DEF WorkerFrame
<1>2. mode' = mode /\ protocol' = protocol /\ Streams' = Streams
  BY SameTest
<1>3. CountersInv'
  BY <1>2 DEF Inv, CountersInv
<1>4. SenderInv'
  <2>1. \A j \in Streams : SenderOK(j)'
    BY <1>1, SameSender DEF Inv, SenderInv, SameAt
  <2>. QED
    BY <1>2, <2>1 DEF SenderInv
<1>5. ReceiverInv'
  <2>1. \A j \in Streams : ReceiverOK(j)'
    BY <1>1, SameReceiver DEF Inv, ReceiverInv, SameAt
  <2>. QED
    BY <1>2, <2>1 DEF ReceiverInv
<1>6. SentInv'
  <2>1. \A side \in Sides, j \in Streams : SentOK(side, j)'
    BY <1>1, SameSent DEF Inv, SentInv, SameAt
  <2>. QED
    BY <1>2, <2>1 DEF SentInv
<1>7. GotInv'
  BY <1>2 DEF Inv, GotInv, Got, Peer, Sends, SenderOf
<1>8. RetransInv'
  BY <1>2 DEF Inv, RetransInv, Sent, SenderOf
<1>9. ShownInv'
  BY <1>2 DEF Inv, ShownInv, PrintedStream, SenderOf
<1>. QED
  BY <1>1, <1>3, <1>4, <1>5, <1>6, <1>7, <1>8, <1>9, WorkerFrameKeeps DEF Inv

LEMMA NextPreserves ==
    ASSUME Inv, [Next]_vars
    PROVE  Inv'
<1>1. CASE UNCHANGED vars
  <2>1. /\ UNCHANGED test /\ pc' = pc /\ stream' = stream /\ has' = has /\ other' = other
        /\ congestion' = congestion /\ omitting' = omitting /\ taken' = taken
        /\ worker' = worker /\ wire' = wire /\ kernel' = kernel /\ results' = results
        /\ intervals' = intervals /\ ring' = ring /\ history' = history /\ printed' = printed
    BY <1>1 DEF vars, counters
  <2>. QED
    BY <2>1, StandingStill
<1>2. CASE \E i \in Streams : Worker(i)
  BY <1>2, WorkerPreserves
<1>3. ASSUME NEW side \in Sides, Main(side)
      PROVE  Inv'
  <2>1. CASE StartInterval(side)
    BY <2>1, StartIntervalPreserves
  <2>2. CASE EndInterval(side)
    BY <2>2, EndIntervalPreserves
  <2>3. CASE iperf_reset_stats(side)
    BY <2>3, ResetPreserves
  <2>4. CASE LastInterval(side)
    BY <2>4, LastIntervalPreserves
  <2>5. CASE send_results(side)
    BY <2>5, SendPreserves
  <2>6. CASE get_results(side)
    BY <2>6, GetPreserves
  <2>7. CASE iperf_print_results(side)
    BY <2>7, PrintPreserves
  <2>. QED
    BY <1>3, <2>1, <2>2, <2>3, <2>4, <2>5, <2>6, <2>7 DEF Main
<1>4. CASE ClientEnds
  BY <1>4, ClientEndsPreserves
<1>5. CASE ServerEnds
  BY <1>5, ServerEndsPreserves
<1>. QED
  BY <1>1, <1>2, <1>3, <1>4, <1>5 DEF Next

(* The inductive invariant holds in every state of a test.                 *)
THEOREM ReportsInvariant == Spec => []Inv
<1>1. Init => Inv
  BY InitInv
<1>2. Inv /\ [Next]_vars => Inv'
  BY NextPreserves
<1>. QED
  BY <1>1, <1>2, PTL DEF Spec

-----------------------------------------------------------------------------
(* What the invariant says of the reports.                                 *)

LEMMA InvType == ASSUME Inv PROVE TypeOK
<1>1. /\ pc \in [Sides -> Phases] /\ omitting \in [Sides -> BOOLEAN]
      /\ has \in [Sides -> {-1, 0, 1}] /\ other \in [Sides -> {-1, 0, 1}]
      /\ worker \in [Sides -> [Streams -> 0 .. 2]] /\ intervals \in [Sides -> [Streams -> Nat]]
  BY DEF Inv, CountersInv, PhaseInv, FlagsInv
<1>2. \A side \in Sides : omitting[side] \in BOOLEAN
  BY <1>1, Zenon
<1>3. ASSUME NEW side \in Sides
      PROVE  /\ pc[side] \in Phases /\ has[side] \in {-1, 0, 1} /\ other[side] \in {-1, 0, 1}
             /\ \A i \in Streams : worker[side][i] \in 0 .. 2 /\ intervals[side][i] \in Nat
  BY <1>1
<1>. QED
  BY <1>2, <1>3 DEF TypeOK, Phases

(* What the two sides print is each within a block, and one datagram with  *)
(* what it does to the losses, of what they sent each other.               *)
LEMMA PrintedNear ==
    ASSUME NEW c, NEW s, NEW mine \in ResultType, NEW theirs \in ResultType,
           PrintedBySender(c, mine, theirs), PrintedByReceiver(s, theirs, mine)
    PROVE  /\ Near(c.sent, s.sent) /\ Near(s.sent, c.sent)
           /\ Near(c.received, s.received) /\ Near(s.received, c.received)
           /\ Near(c.sender_packets, s.sender_packets) /\ Near(s.sender_packets, c.sender_packets)
           /\ OneMore(c.receiver_packets, c.lost, s.receiver_packets, s.lost)
<1>1. /\ mine.bytes \in Int /\ mine.packets \in Int /\ mine.omitted_packets \in Int
      /\ theirs.bytes \in Int /\ theirs.packets \in Int /\ theirs.omitted_packets \in Int
      /\ theirs.errors \in Int /\ theirs.omitted_errors \in Int
  BY DEF ResultType
<1>2. Near(c.sent, s.sent) /\ Near(s.sent, c.sent)
  <2> DEFINE x == c.sent
             y == s.sent
  <2>1. x \in mine.bytes .. mine.bytes + 1 /\ y = mine.bytes
    BY DEF PrintedBySender, PrintedByReceiver
  <2> HIDE DEF x, y
  <2>2. Near(x, y) /\ Near(y, x)
    BY <1>1, <2>1 DEF Near
  <2>. QED
    BY <2>2 DEF x, y
<1>3. Near(c.received, s.received) /\ Near(s.received, c.received)
  BY <1>1 DEF PrintedBySender, PrintedByReceiver, Near
<1>4. Near(c.sender_packets, s.sender_packets) /\ Near(s.sender_packets, c.sender_packets)
  BY <1>1 DEF PrintedBySender, PrintedByReceiver, Near
<1>5. OneMore(c.receiver_packets, c.lost, s.receiver_packets, s.lost)
  BY DEF PrintedBySender, PrintedByReceiver
<1>. QED
  BY <1>2, <1>3, <1>4, <1>5

LEMMA InvAgrees == ASSUME Inv PROVE ReportsAgree
<1>1. SUFFICES ASSUME pc["c"] = "printed", protocol # "quic"
               PROVE  /\ \A i \in Streams :
                            LET sender == printed[SenderOf(i)].streams[i]
                                receiver == printed[Peer(SenderOf(i))].streams[i]
                            IN  /\ Near(sender.sent, receiver.sent)
                                /\ Near(sender.received, receiver.received)
                                /\ Near(sender.sender_packets, receiver.sender_packets)
                                /\ OneMore(sender.receiver_packets, sender.lost,
                                           receiver.receiver_packets, receiver.lost)
                      /\ printed["c"].sender_tcp_congestion = printed["s"].sender_tcp_congestion
  BY InvType DEF ReportsAgree
<1>2. pc["s"] = "printed" /\ "c" \in Sides /\ "s" \in Sides
  BY <1>1 DEF Inv, PhaseInv, Sides
<1>3. \A side \in Sides : pc[side] = "printed" /\ Sent(side)
  BY <1>1, <1>2 DEF Sent, Sides
<1>4. printed["c"].sender_tcp_congestion = printed["s"].sender_tcp_congestion
  BY <1>1, <1>2 DEF Inv, SumsInv
<1>5. ASSUME NEW i \in Streams
      PROVE  LET sender == printed[SenderOf(i)].streams[i]
                 receiver == printed[Peer(SenderOf(i))].streams[i]
             IN  /\ Near(sender.sent, receiver.sent) /\ Near(sender.received, receiver.received)
                 /\ Near(sender.sender_packets, receiver.sender_packets)
                 /\ OneMore(sender.receiver_packets, sender.lost,
                            receiver.receiver_packets, receiver.lost)
  <2> DEFINE S == SenderOf(i)
             R == Peer(SenderOf(i))
             sender == printed[S].streams[i]
             receiver == printed[R].streams[i]
             mine == results[S].streams[i]
             theirs == results[R].streams[i]
  <2>1. S \in Sides /\ R \in Sides /\ Sends(S, i) /\ ~Sends(R, i) /\ Peer(S) = R /\ Peer(R) = S
    BY SidesKnown
  <2> HIDE DEF S, R
  <2>2. mine \in ResultType /\ theirs \in ResultType
    BY <1>3, <2>1 DEF Inv, ResultsInv
  <2>3. PrintedBySender(sender, mine, theirs)
    BY <1>1, <1>3, <2>1 DEF Inv, PrintedInv, PrintedStream
  <2>4. PrintedByReceiver(receiver, theirs, mine)
    BY <1>1, <1>3, <2>1 DEF Inv, PrintedInv, PrintedStream
  <2> HIDE DEF sender, receiver, mine, theirs
  <2>5. /\ Near(sender.sent, receiver.sent) /\ Near(sender.received, receiver.received)
        /\ Near(sender.sender_packets, receiver.sender_packets)
        /\ OneMore(sender.receiver_packets, sender.lost, receiver.receiver_packets, receiver.lost)
    BY <2>2, <2>3, <2>4, PrintedNear
  <2>. QED
    BY <2>5 DEF sender, receiver, S, R
<1>. QED
  BY <1>4, <1>5

(* The two sides print the same of a stream, but for the last block of a   *)
(* worker that was still counting when the results were exchanged, whatever*)
(* the workers, the network and the timers of the two sides did before.  A *)
(* last datagram that the receiver counts too late (iperf_udp_recv, beside *)
(* send_results and iperf_print_results) brings the whole gap before it as *)
(* lost to the receiver's line only, or takes one loss from it.            *)
THEOREM ReportsAgreeAlways == Spec => []ReportsAgree
<1>1. Inv => ReportsAgree
  BY InvAgrees
<1>. QED
  BY <1>1, ReportsInvariant, PTL

LEMMA InvCompatible == ASSUME Inv PROVE SumsCompatible
<1>1. SUFFICES ASSUME pc["c"] = "printed"
               PROVE  /\ DOMAIN printed["c"].sums = DOMAIN printed["s"].sums
                      /\ \A n \in DOMAIN printed["c"].sums : \E i \in Streams :
                            /\ printed["c"].sums[n] = printed["c"].streams[i]
                            /\ printed["s"].sums[n] = printed["s"].streams[i]
  BY DEF SumsCompatible
<1>2. pc["s"] = "printed" /\ "c" \in Sides /\ "s" \in Sides
  BY <1>1 DEF Inv, PhaseInv, Sides
<1>3. /\ DOMAIN printed["c"].sums = SumNames /\ DOMAIN printed["s"].sums = SumNames
      /\ \A n \in SumNames : /\ printed["c"].sums[n] = printed["c"].streams[StreamOf(n)]
                             /\ printed["s"].sums[n] = printed["s"].streams[StreamOf(n)]
  BY <1>1, <1>2 DEF Inv, SumsInv
<1>4. TestInv
  BY DEF Inv
<1>5. \A n \in SumNames : StreamOf(n) \in Streams
  BY <1>4, StreamsKnown DEF SumNames, StreamOf
<1>. QED
  BY <1>3, <1>5

(* The sums of the two sides' reports under one name are of the streams    *)
(* of one direction (the names of the sums in iperf_print_results).        *)
THEOREM SumsCompatibleAlways == Spec => []SumsCompatible
<1>1. Inv => SumsCompatible
  BY InvCompatible
<1>. QED
  BY <1>1, ReportsInvariant, PTL

LEMMA InvAttributed == ASSUME Inv PROVE RetransmitsAttributed
<1>1. SUFFICES ASSUME pc["c"] = "printed", NEW i \in Streams, NEW side \in Sides
               PROVE  IF protocol = "tcp" /\ has[SenderOf(i)] = 1
                      THEN LET sp == stream[SenderOf(i)][i] IN
                           /\ printed[side].streams[i].retransmits = sp.stream_retrans
                           /\ sp.stream_retrans = sp.stream_prev_total_retrans - kernel[i].omitted
                      ELSE printed[side].streams[i].retransmits = -1
  BY DEF RetransmitsAttributed
<1>2. pc[side] = "printed"
  BY <1>1 DEF Inv, PhaseInv, Sides
<1>3. printed[side].streams[i].retransmits =
            IF has[SenderOf(i)] = 1 THEN stream[SenderOf(i)][i].stream_retrans ELSE -1
  BY <1>2 DEF Inv, ShownInv, PrintedStream
<1>4. has[SenderOf(i)] = 1 => stream[SenderOf(i)][i].stream_retrans =
            stream[SenderOf(i)][i].stream_prev_total_retrans - kernel[i].omitted
  BY DEF Inv, RetransInv
<1>5. has[SenderOf(i)] = 1 => protocol = "tcp"
  BY SidesKnown, SendersCount
<1>. QED
  BY <1>3, <1>4, <1>5

(* Both sides show the retransmissions that the sender's kernel counted    *)
(* from the end of the omitted period to the sender's last interval, where *)
(* the sender's own build counts them and nowhere else, whatever the other *)
(* side's build does (sender_has_retransmits and                           *)
(* other_side_has_retransmits).                                            *)
THEOREM RetransmitsAttributedAlways == Spec => []RetransmitsAttributed
<1>1. Inv => RetransmitsAttributed
  BY InvAttributed
<1>. QED
  BY <1>1, ReportsInvariant, PTL

LEMMA InvAddsUp == ASSUME Inv PROVE IntervalsAddUp
<1>1. SUFFICES ASSUME NEW side \in Sides, NEW i \in Streams,
                      pc[side] \in {"running", "interval", "last", "ended"}
               PROVE  intervals[side][i] <= Own(side, i) + 1
  BY DEF IntervalsAddUp
<1>2. /\ stream[side][i] \in StreamType /\ intervals[side][i] \in Nat
      /\ worker[side][i] \in 0 .. 2 /\ omitting \in [Sides -> BOOLEAN]
  BY DEF Inv, CountersInv, PhaseInv
<1>3. omitting[side] \in BOOLEAN
  BY <1>2, Zenon
<1>4. /\ stream[side][i].bytes_sent \in Nat /\ stream[side][i].bytes_sent_omit \in Nat
      /\ stream[side][i].bytes_received \in Nat /\ stream[side][i].sent_this_interval \in Nat
      /\ stream[side][i].received_this_interval \in Nat
  BY <1>2 DEF StreamType
<1>5. CASE Sends(side, i)
  <2>1. SenderOf(i) = side /\ ~Replaced(i)
    BY <1>1, <1>5 DEF Sends, Replaced, Got
  <2>2. SenderCounts(stream[side][i], worker[side][i], taken[side][i], intervals[side][i],
                     omitting[side], pc[side], MaxBlocks[mode])
    BY <2>1 DEF Inv, SenderInv, SenderOK
  <2> DEFINE sp == stream[side][i]
             x == B(worker[side][i] = 2)
  <2>3. /\ sp.bytes_sent_omit <= sp.bytes_sent
        /\ omitting[side] => intervals[side][i] = 0
        /\ ~omitting[side] => intervals[side][i] + sp.sent_this_interval + x
                                    <= sp.bytes_sent - sp.bytes_sent_omit + 1
    BY <2>2 DEF SenderCounts
  <2>4. x \in {0, 1} /\ Own(side, i) = sp.bytes_sent - sp.bytes_sent_omit
    BY <1>5 DEF B, Own
  <2> HIDE DEF x
  <2>5. CASE omitting[side]
    BY <1>2, <1>4, <2>3, <2>4, <2>5
  <2>6. CASE ~omitting[side]
    BY <1>2, <1>4, <2>3, <2>4, <2>6
  <2>. QED
    BY <2>5, <2>6
<1>6. CASE ~Sends(side, i)
  <2>1. Peer(SenderOf(i)) = side
    BY <1>6, SidesKnown
  <2>2. ReceiverCounts(stream[side][i], worker[side][i], taken[side][i], intervals[side][i],
                       omitting[side], pc[side], Len(wire[i]), WrittenOf(i))
    BY <2>1 DEF Inv, ReceiverInv, ReceiverOK
  <2> DEFINE sp == stream[side][i]
             x == B(worker[side][i] = 2)
  <2>3. /\ omitting[side] => intervals[side][i] = 0
        /\ ~omitting[side] => intervals[side][i] + sp.received_this_interval + x
                                    <= sp.bytes_received + 1
    BY <2>2 DEF ReceiverCounts
  <2>4. x \in {0, 1} /\ Own(side, i) = sp.bytes_received
    BY <1>6 DEF B, Own
  <2> HIDE DEF x
  <2>5. CASE omitting[side]
    BY <1>2, <1>4, <2>3, <2>4, <2>5
  <2>6. CASE ~omitting[side]
    BY <1>2, <1>4, <2>3, <2>4, <2>6
  <2>. QED
    BY <2>5, <2>6
<1>. QED
  BY <1>5, <1>6

(* The intervals reported of a stream since the omitted period add up to   *)
(* its total, and one block more at the most (iperf_stats_callback reads   *)
(* and clears without a lock what a worker counts).                        *)
THEOREM IntervalsAddUpAlways == Spec => []IntervalsAddUp
<1>1. Inv => IntervalsAddUp
  BY InvAddsUp
<1>. QED
  BY <1>1, ReportsInvariant, PTL

LEMMA InvAveraged == ASSUME Inv PROVE RateAveraged
<1>1. RateWindow \in Nat \ {0} /\ history \in Seq(Nat) /\ Len(history) \in Nat
  BY ReportsAssumption DEF Inv, RingInv
<1>2. ring.exceeded <=> pc["s"] = "stopped"
  BY DEF Inv, RingInv
<1>3. CASE RateLimit = 0
  BY <1>2, <1>3 DEF Inv, RingInv, RateAveraged
<1>4. CASE RateLimit # 0
  <2>1. ring.exceeded <=> (Len(history) >= RateWindow /\ Summed(Window) > RateLimit)
    BY <1>4 DEF Inv, RingInv
  <2>2. CASE Len(history) < RateWindow
    BY <1>1, <1>2, <2>1, <2>2 DEF RateAveraged
  <2>3. CASE ~(Len(history) < RateWindow)
    <3>1. Window = [j \in 0 .. RateWindow - 1 |-> history[Len(history) - j]]
      BY <1>1, <2>3 DEF Window
    <3>2. history # <<>>
      BY <1>1, <2>3
    <3>3. ring.exceeded <=>
            Summed([j \in 0 .. RateWindow - 1 |-> history[Len(history) - j]]) > RateLimit
      BY <1>1, <2>1, <2>3, <3>1
    <3>. QED
      BY <1>2, <1>4, <2>3, <3>2, <3>3 DEF RateAveraged
  <2>. QED
    BY <2>2, <2>3
<1>. QED
  BY <1>3, <1>4

(* A server stops a test exactly at the interval that ends the first       *)
(* window of RateWindow intervals over the limit: the ring of              *)
(* iperf_check_total_rate is that window, wherever its index is.           *)
THEOREM RateAveragedAlways == Spec => []RateAveraged
<1>1. Inv => RateAveraged
  BY InvAveraged
<1>. QED
  BY <1>1, ReportsInvariant, PTL

=============================================================================
