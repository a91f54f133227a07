------------------------------- MODULE Reports -------------------------------
(***************************************************************************)
(* What the two sides of a test print, and where it comes from: the        *)
(* counters of each stream, which a worker thread adds to while the main   *)
(* thread takes interval results from them (iperf_stats_callback), relieves*)
(* them of the omitted period (iperf_reset_stats), sends them to the peer  *)
(* (send_results), takes the peer's over (get_results) and prints both     *)
(* (iperf_print_results), all in src/iperf_api.c.                          *)
(*                                                                         *)
(* There is one stream per direction: "fwd" from the client, "rev" from    *)
(* the server.  Sizes are in blocks, modulo SizeLimit as iperf_size_t is   *)
(* modulo 2^64.  Times, jitter and CPU figures are left out.               *)
(***************************************************************************)
EXTENDS Integers, Sequences, FiniteSets

CONSTANTS
    Modes,          \* modes of the client
    Protocols,
    MaxBlocks,      \* bounds, for each mode: blocks of a test,
    MaxIntervals,   \* the server's intervals before the last,
    MaxRetransmits, \* retransmissions of a test over TCP
    RateLimit,      \* --server-bitrate-limit, in blocks per RateWindow intervals; 0: none
    RateWindow,     \* bitrate_limit_stats_per_interval
    SizeLimit       \* iperf_size_t is below it: 2^64

ASSUME ReportsAssumption ==
    /\ Modes \subseteq {"SENDER", "RECEIVER", "BIDIRECTIONAL"}
    /\ {MaxBlocks, MaxIntervals, MaxRetransmits} \subseteq [Modes -> Nat]
    /\ RateLimit \in Nat
    /\ RateWindow \in Nat \ {0} /\ SizeLimit \in Nat \ {0}
    \* no test sends 2^64 bytes: only a difference can wrap around
    /\ \A m \in Modes : MaxBlocks[m] < SizeLimit

Sides == {"c", "s"}

VARIABLES
    mode, protocol,     \* of the client's test
    omit,               \* whether -O is given
    pc,                 \* how far each side is
    stream,             \* stream[side][i]: its struct iperf_stream
    has,                \* test->sender_has_retransmits of each side
    other,              \* test->other_side_has_retransmits
    congestion,         \* test->remote_congestion_used
    omitting,           \* test->omitting
    taken,              \* taken[side][i]: the interval's bytes, between reading and clearing
    worker,             \* worker[side][i]: idle, or with a block not counted yet
    wire,               \* wire[i]: numbers of the blocks under way
    kernel,             \* kernel[i]: tcpi_total_retrans of the sender's socket, now and
                        \* when the sender's omitted period ended
    results,            \* results[side]: what the side has sent, once it has
    intervals,          \* intervals[side][i]: sum of the intervals reported since omit
    ring,               \* the server's rate limit: index, count, traffic, exceeded
    history,            \* the traffic of the server's intervals
    printed             \* printed[side]: the summary

test == <<mode, protocol, omit>>
counters == <<stream, has, other, congestion>>
vars == <<test, pc, counters, omitting, taken, worker, wire, kernel, results, intervals,
          ring, history, printed>>

-----------------------------------------------------------------------------
(* Streams and directions.                                                 *)

Peer(side) == IF side = "c" THEN "s" ELSE "c"
SenderOf(i) == IF i = "fwd" THEN "c" ELSE "s"
Sends(side, i) == SenderOf(i) = side

Streams ==
    CASE mode = "SENDER" -> {"fwd"} [] mode = "RECEIVER" -> {"rev"} [] OTHER -> {"fwd", "rev"}

ModeOf(side) ==
    IF mode = "BIDIRECTIONAL" THEN mode
    ELSE IF (mode = "SENDER") <=> (side = "c") THEN "SENDER" ELSE "RECEIVER"

NewStream ==
    [bytes_sent |-> 0, bytes_sent_omit |-> 0, bytes_received |-> 0,
     sent_this_interval |-> 0, received_this_interval |-> 0,
     stream_retrans |-> 0, stream_prev_total_retrans |-> 0,
     packet_count |-> 0, omitted_packet_count |-> 0, cnt_error |-> 0, omitted_cnt_error |-> 0,
     peer_packet_count |-> 0, peer_omitted_packet_count |-> 0]

NoResults == [streams |-> "none"]

(* The streams with sp for stream i of a side, and the workers with w.     *)
WithStream(side, i, sp) == [stream EXCEPT ![side] = [stream[side] EXCEPT ![i] = sp]]
WithWorker(side, i, w) == [worker EXCEPT ![side] = [worker[side] EXCEPT ![i] = w]]

(* The build of a side that sends may have no count of retransmissions     *)
(* (has_tcpinfo_retransmits).                                              *)
HasRetransmits(side) ==
    IF ModeOf(side) # "RECEIVER" /\ protocol = "tcp" THEN {0, 1} ELSE {0}

Init ==
    /\ mode \in Modes /\ protocol \in Protocols /\ omit \in BOOLEAN
    /\ pc = [side \in Sides |-> "running"]
    /\ stream = [side \in Sides |-> [i \in Streams |-> NewStream]]
    /\ has \in [Sides -> {0, 1}] /\ \A side \in Sides : has[side] \in HasRetransmits(side)
    /\ other = [side \in Sides |-> 0]
    /\ congestion = [side \in Sides |-> "none"]
    /\ omitting = [side \in Sides |-> omit]
    /\ taken = [side \in Sides |-> [i \in Streams |-> 0]]
    /\ worker = [side \in Sides |-> [i \in Streams |-> 0]]
    /\ wire = [i \in Streams |-> <<>>]
    /\ kernel = [i \in Streams |-> [now |-> 0, omitted |-> 0]]
    /\ results = [side \in Sides |-> NoResults]
    /\ intervals = [side \in Sides |-> [i \in Streams |-> 0]]
    /\ ring = [index |-> 0, count |-> 0, traffic |-> [k \in 0 .. RateWindow - 1 |-> 0],
               exceeded |-> FALSE]
    /\ history = <<>>
    /\ printed = [side \in Sides |-> NoResults]

-----------------------------------------------------------------------------
(* The workers.  A block is in the kernel, or out of it, before it counts. *)

(* test->state is TEST_RUNNING: the server leaves it before it takes the   *)
(* last interval, the client after.                                        *)
TestRunning(side) == pc[side] \in {"running", "interval"} \/ (pc["c"] = "last" /\ side = "c")

(* The server closes its stream sockets at TEST_END, but for QUIC.         *)
MaySend(i) ==
    \/ pc[SenderOf(i)] \in {"running", "interval"}
    \/ SenderOf(i) = "s" /\ pc["s"] = "last"
    \/ SenderOf(i) = "s" /\ protocol = "quic" /\ pc["s"] # "printed"

Written ==
    LET by(i) == IF i \in Streams
                 THEN stream[SenderOf(i)][i].bytes_sent + (IF worker[SenderOf(i)][i] = 1 THEN 1 ELSE 0)
                 ELSE 0
    IN  by("fwd") + by("rev")

Write(i) ==
    LET side == SenderOf(i)
        n == stream[side][i].bytes_sent + 1
    IN
    /\ worker[side][i] = 0
    /\ MaySend(i)
    /\ Written < MaxBlocks[mode]
    /\ worker' = WithWorker(side, i, 1)
    /\ stream' = IF protocol = "udp"
                 THEN WithStream(side, i, [stream[side][i] EXCEPT !.packet_count = @ + 1])
                 ELSE stream
    /\ wire' = [wire EXCEPT ![i] = Append(@, n)]
    /\ UNCHANGED <<test, pc, has, other, congestion, omitting, taken, kernel, results, intervals,
                   ring, history, printed>>

(* sp->result->bytes_sent += r, and then the same for the interval.        *)
CountSent(i) ==
    LET side == SenderOf(i)
        sp == stream[side][i]
    IN
    /\ worker[side][i] \in {1, 2}
    /\ worker' = WithWorker(side, i, IF worker[side][i] = 1 THEN 2 ELSE 0)
    /\ stream' = WithStream(side, i,
            IF worker[side][i] = 1 THEN [sp EXCEPT !.bytes_sent = (@ + 1) % SizeLimit]
            ELSE [sp EXCEPT !.sent_this_interval = (@ + 1) % SizeLimit])
    /\ UNCHANGED <<test, pc, has, other, congestion, omitting, taken, wire, kernel, results,
                   intervals, ring, history, printed>>

(* What arrives when the test is not in TEST_RUNNING any more is dropped.  *)
Read(i) ==
    LET side == Peer(SenderOf(i)) IN
    /\ worker[side][i] = 0 /\ wire[i] # <<>>
    /\ worker' = WithWorker(side, i, IF TestRunning(side) THEN 1 ELSE 0)
    /\ wire' = IF TestRunning(side) THEN wire ELSE [wire EXCEPT ![i] = Tail(@)]
    /\ UNCHANGED <<test, pc, counters, omitting, taken, kernel, results, intervals,
                   ring, history, printed>>

(* A datagram's number says how many before it are lost, or that it is one *)
(* of those that were counted as lost.                                     *)
Numbered(sp, n) ==
    CASE protocol = "udp" /\ n > sp.packet_count ->
            [sp EXCEPT !.packet_count = n, !.cnt_error = @ + n - sp.packet_count - 1]
      [] protocol = "udp" /\ n <= sp.packet_count /\ sp.cnt_error > 0 ->
            [sp EXCEPT !.cnt_error = @ - 1]
      [] OTHER -> sp

CountReceived(i) ==
    LET side == Peer(SenderOf(i))
        sp == stream[side][i]
    IN
    /\ worker[side][i] \in {1, 2}
    /\ worker' = WithWorker(side, i, IF worker[side][i] = 1 THEN 2 ELSE 0)
    /\ stream' = WithStream(side, i,
            IF worker[side][i] = 1 THEN [sp EXCEPT !.bytes_received = (@ + 1) % SizeLimit]
            ELSE Numbered([sp EXCEPT !.received_this_interval = (@ + 1) % SizeLimit], Head(wire[i])))
    /\ wire' = IF worker[side][i] = 2 THEN [wire EXCEPT ![i] = Tail(@)] ELSE wire
    /\ UNCHANGED <<test, pc, has, other, congestion, omitting, taken, kernel, results,
                   intervals, ring, history, printed>>

(* The network loses a datagram, ...                                       *)
Lose(i) ==
    /\ protocol = "udp" /\ wire[i] # <<>> /\ worker[Peer(SenderOf(i))][i] = 0
    /\ wire' = [wire EXCEPT ![i] = Tail(@)]
    /\ UNCHANGED <<test, pc, counters, omitting, taken, worker, kernel, results, intervals,
                   ring, history, printed>>

(* ... or delivers it behind the next one.                                 *)
Reorder(i) ==
    /\ protocol = "udp" /\ Len(wire[i]) > 1 /\ worker[Peer(SenderOf(i))][i] = 0
    /\ wire' = [wire EXCEPT ![i] = <<@[2], @[1]>> \o SubSeq(@, 3, Len(@))]
    /\ UNCHANGED <<test, pc, counters, omitting, taken, worker, kernel, results, intervals,
                   ring, history, printed>>

Retransmitted ==
    LET by(i) == IF i \in Streams THEN kernel[i].now ELSE 0 IN by("fwd") + by("rev")

(* TCP sends a segment once more.                                          *)
Retransmit(i) ==
    /\ protocol = "tcp" /\ Retransmitted < MaxRetransmits[mode]
    /\ kernel' = [kernel EXCEPT ![i] = [now |-> kernel[i].now + 1, omitted |-> kernel[i].omitted]]
    /\ UNCHANGED <<test, pc, counters, omitting, taken, worker, wire, results, intervals,
                   ring, history, printed>>

-----------------------------------------------------------------------------
(* The main thread while the test runs.                                    *)

(* save_tcpinfo asks the kernel for the retransmissions of the socket; the *)
(* receiver of a stream sends nothing that could be lost.                  *)
save_tcpinfo(side, i) == IF Sends(side, i) THEN kernel[i].now ELSE 0

(* One interval result of a stream, and the stream after it.               *)
ThisInterval(side, i) ==
    IF Sends(side, i) THEN stream[side][i].sent_this_interval
                      ELSE stream[side][i].received_this_interval

AfterStats(side, i) ==
    LET sp == stream[side][i]
        total == IF protocol = "tcp" /\ has[side] = 1 THEN save_tcpinfo(side, i)
                 ELSE sp.stream_prev_total_retrans
    IN  [sp EXCEPT !.sent_this_interval = 0, !.received_this_interval = 0,
                   !.stream_retrans = @ + total - sp.stream_prev_total_retrans,
                   !.stream_prev_total_retrans = total]

Traffic(side) ==
    LET of(i) == IF i \in Streams THEN taken[side][i] ELSE 0
    IN  of("fwd") + of("rev")

(* The server's average over the last intervals, in a ring.                *)
PartialSums(traffic) ==
    LET sum[k \in 0 .. RateWindow] == IF k = 0 THEN 0 ELSE sum[k - 1] + traffic[k - 1]
    IN  sum
Summed(traffic) == PartialSums(traffic)[RateWindow]

(* Faulty variant: the first window is judged one interval late.           *)
RateLate(bytes) ==
    LET next == IF ring.index + 1 >= RateWindow THEN 0 ELSE ring.index + 1
        traffic == [ring.traffic EXCEPT ![next] = bytes]
    IN  IF RateLimit = 0 THEN ring
        ELSE [index |-> next, count |-> ring.count + 1, traffic |-> traffic,
              exceeded |-> ring.exceeded \/ (/\ ring.count >= RateWindow
                                            /\ Summed(traffic) > RateLimit)]

iperf_check_total_rate(bytes) ==
    LET next == IF ring.index + 1 >= RateWindow THEN 0 ELSE ring.index + 1
        traffic == [ring.traffic EXCEPT ![next] = bytes]
    IN  IF RateLimit = 0 THEN ring
        ELSE [index |-> next, count |-> ring.count + 1, traffic |-> traffic,
              exceeded |-> ring.exceeded \/ (/\ ring.count + 1 >= RateWindow
                                            /\ Summed(traffic) > RateLimit)]

(* iperf_stats_callback: the bytes of the interval are read first, and     *)
(* cleared at the end.                                                     *)
ReadInterval(side) == taken' = [taken EXCEPT ![side] = [i \in Streams |-> ThisInterval(side, i)]]

ClearInterval(side) ==
    /\ stream' = [stream EXCEPT ![side] = [i \in Streams |-> AfterStats(side, i)]]
    /\ intervals' = [intervals EXCEPT ![side] = [i \in Streams |->
            IF omitting[side] THEN 0 ELSE intervals[side][i] + taken[side][i]]]
    /\ taken' = [taken EXCEPT ![side] = [i \in Streams |-> 0]]

(* The stats and the reporter timer.                                       *)
StartInterval(side) ==
    /\ pc[side] = "running"
    /\ side = "s" => Len(history) < MaxIntervals[mode]
    /\ pc' = [pc EXCEPT ![side] = "interval"]
    /\ ReadInterval(side)
    /\ UNCHANGED <<test, counters, omitting, worker, wire, kernel, results, intervals,
                   ring, history, printed>>

EndInterval(side) ==
    /\ pc[side] = "interval"
    /\ ClearInterval(side)
    /\ ring' = IF side = "s" THEN iperf_check_total_rate(Traffic(side)) ELSE ring
    /\ history' = IF side = "s" THEN Append(history, Traffic(side)) ELSE history
    /\ pc' = [pc EXCEPT ![side] = IF side = "s" /\ ring'.exceeded THEN "stopped" ELSE "running"]
    /\ UNCHANGED <<test, has, other, congestion, omitting, worker, wire, kernel, results,
                   printed>>

(* Faulty variants: the bytes of the interval, or the retransmissions so   *)
(* far, are kept.                                                          *)
RelievedKeepsInterval(side, i) ==
    LET sp == stream[side][i] IN
    [sp EXCEPT !.omitted_packet_count = sp.packet_count, !.omitted_cnt_error = sp.cnt_error,
               !.bytes_sent_omit = sp.bytes_sent, !.bytes_received = 0, !.stream_retrans = 0,
               !.stream_prev_total_retrans =
                    IF has[side] = 1 THEN save_tcpinfo(side, i) ELSE @]

RelievedKeepsRetransmits(side, i) ==
    LET sp == stream[side][i] IN
    [sp EXCEPT !.omitted_packet_count = sp.packet_count, !.omitted_cnt_error = sp.cnt_error,
               !.bytes_sent_omit = sp.bytes_sent, !.bytes_received = 0,
               !.sent_this_interval = 0, !.received_this_interval = 0, !.stream_retrans = 0]

(* What the omit timer leaves of a stream's counters.                      *)
Relieved(side, i) ==
    LET sp == stream[side][i] IN
    [sp EXCEPT !.omitted_packet_count = sp.packet_count, !.omitted_cnt_error = sp.cnt_error,
               !.bytes_sent_omit = sp.bytes_sent, !.bytes_received = 0,
               !.sent_this_interval = 0, !.received_this_interval = 0,
               !.stream_retrans = 0,
               !.stream_prev_total_retrans =
                    IF has[side] = 1 THEN save_tcpinfo(side, i) ELSE @]

(* The omit timer.                                                         *)
iperf_reset_stats(side) ==
    /\ pc[side] = "running" /\ omitting[side]
    /\ omitting' = [omitting EXCEPT ![side] = FALSE]
    /\ stream' = [stream EXCEPT ![side] = [i \in Streams |-> Relieved(side, i)]]
    /\ kernel' = [i \in Streams |->
            IF Sends(side, i) THEN [now |-> kernel[i].now, omitted |-> kernel[i].now] ELSE kernel[i]]
    /\ UNCHANGED <<test, pc, has, other, congestion, taken, worker, wire, results,
                   intervals, ring, history, printed>>

-----------------------------------------------------------------------------
(* The end of the test.                                                    *)

(* The client is done: it cancels its senders, whatever they have not      *)
(* counted, and takes the last interval.                                   *)
ClientEnds ==
    /\ pc["c"] = "running" /\ ~omitting["c"]
    /\ pc' = [pc EXCEPT !["c"] = "last"]
    /\ worker' = [worker EXCEPT !["c"] = [i \in Streams |->
            IF Sends("c", i) THEN 0 ELSE worker["c"][i]]]
    /\ ReadInterval("c")
    /\ UNCHANGED <<test, counters, omitting, wire, kernel, results, intervals,
                   ring, history, printed>>

ServerEnds ==
    /\ pc["s"] = "running" /\ pc["c"] = "ended"
    /\ pc' = [pc EXCEPT !["s"] = "last"]
    /\ ReadInterval("s")
    /\ UNCHANGED <<test, counters, omitting, worker, wire, kernel, results, intervals,
                   ring, history, printed>>

(* test->done is set: the limit is not checked any more.                   *)
LastInterval(side) ==
    /\ pc[side] = "last"
    /\ pc' = [pc EXCEPT ![side] = "ended"]
    /\ ClearInterval(side)
    /\ UNCHANGED <<test, has, other, congestion, omitting, worker, wire, kernel, results,
                   ring, history, printed>>

(* Faulty variant: the omitted bytes are sent along.                       *)
StreamResultsInFull(side, i) ==
    LET sp == stream[side][i] IN
    [bytes |-> IF Sends(side, i) THEN sp.bytes_sent ELSE sp.bytes_received,
     retransmits |-> IF Sends(side, i) /\ has[side] # 0 THEN sp.stream_retrans ELSE -1,
     errors |-> sp.cnt_error, omitted_errors |-> sp.omitted_cnt_error,
     packets |-> sp.packet_count, omitted_packets |-> sp.omitted_packet_count]

(* Each side reports what it knows itself.                                 *)
StreamResults(side, i) ==
    LET sp == stream[side][i] IN
    [bytes |-> IF Sends(side, i) THEN (sp.bytes_sent - sp.bytes_sent_omit) % SizeLimit
               ELSE sp.bytes_received,
     retransmits |-> IF Sends(side, i) /\ has[side] # 0 THEN sp.stream_retrans ELSE -1,
     errors |-> sp.cnt_error, omitted_errors |-> sp.omitted_cnt_error,
     packets |-> sp.packet_count, omitted_packets |-> sp.omitted_packet_count]

send_results(side) ==
    /\ pc[side] = IF side = "c" THEN "ended" ELSE "got"
    /\ side = "c" => pc["s"] = "ended"
    /\ pc' = [pc EXCEPT ![side] = "sent"]
    /\ results' = [results EXCEPT ![side] =
            [sender_has_retransmits |-> IF ModeOf(side) = "RECEIVER" THEN -1 ELSE has[side],
             congestion_used |-> side,
             streams |-> [i \in Streams |-> StreamResults(side, i)]]]
    /\ UNCHANGED <<test, counters, omitting, taken, worker, wire, kernel, intervals,
                   ring, history, printed>>

(* What the peer knows of a stream completes what this side knows.         *)
WithResults(side, i, r) ==
    IF Sends(side, i)
    THEN [stream[side][i] EXCEPT
            !.cnt_error = r.errors, !.omitted_cnt_error = r.omitted_errors,
            !.peer_packet_count = r.packets, !.peer_omitted_packet_count = r.omitted_packets,
            !.bytes_received = r.bytes,
            !.bytes_sent = IF protocol = "quic" /\ side = "c" THEN r.bytes ELSE @]
    ELSE [stream[side][i] EXCEPT
            !.peer_packet_count = r.packets, !.peer_omitted_packet_count = r.omitted_packets,
            !.bytes_sent = r.bytes, !.stream_retrans = r.retransmits]

get_results(side) ==
    LET r == results[Peer(side)] IN
    /\ pc[side] = IF side = "c" THEN "sent" ELSE "ended"
    /\ r # NoResults
    /\ pc' = [pc EXCEPT ![side] = "got"]
    /\ stream' = [stream EXCEPT ![side] = [i \in Streams |-> WithResults(side, i, r.streams[i])]]
    /\ has' = [has EXCEPT ![side] = IF ModeOf(side) = "RECEIVER"
                                    THEN r.sender_has_retransmits ELSE @]
    /\ other' = [other EXCEPT ![side] = IF ModeOf(side) = "BIDIRECTIONAL"
                                        THEN r.sender_has_retransmits ELSE @]
    /\ congestion' = [congestion EXCEPT ![side] = r.congestion_used]
    /\ UNCHANGED <<test, omitting, taken, worker, wire, kernel, results, intervals,
                   ring, history, printed>>

-----------------------------------------------------------------------------
(* The summary: one round for each direction the side takes part in.  The  *)
(* client prints its sending round first, the server its receiving round.  *)
Rounds(side) ==
    CASE ModeOf(side) = "BIDIRECTIONAL" -> IF side = "c" THEN <<TRUE, FALSE>> ELSE <<FALSE, TRUE>>
      [] OTHER -> <<ModeOf(side) = "SENDER">>

(* Faulty variant: every round goes by the flag of this side.              *)
RoundRetransmitsOwn(side, sending) == has[side]

(* Whether this round's sender has retransmissions to show.                *)
RoundRetransmits(side, sending) ==
    IF ModeOf(side) = "BIDIRECTIONAL" /\ ~sending THEN other[side] ELSE has[side]

(* A server that never heard of the client's QUIC figure repeats its own.  *)
SentShown(side, sent, received) ==
    IF side = "s" /\ protocol = "quic" /\ sent = 0 THEN received ELSE sent

(* The sender's number of packets, or the receiver's without one.          *)
PacketsKnown(sp, sends) ==
    LET sender == IF sends THEN sp.packet_count ELSE sp.peer_packet_count
        receiver == IF sends THEN sp.peer_packet_count ELSE sp.packet_count
    IN  IF sender # 0 THEN sender ELSE receiver

StreamSummary(side, i) ==
    LET sp == stream[side][i]
        sends == Sends(side, i)
        sent == (sp.bytes_sent - sp.bytes_sent_omit) % SizeLimit
        local == sp.packet_count - sp.omitted_packet_count
        remote == sp.peer_packet_count - sp.peer_omitted_packet_count
    IN  [sent |-> IF sends THEN sent ELSE SentShown(side, sent, sp.bytes_received),
         received |-> sp.bytes_received,
         retransmits |-> IF protocol # "udp" /\ RoundRetransmits(side, sends) # 0
                         THEN sp.stream_retrans ELSE -1,
         lost |-> sp.cnt_error - sp.omitted_cnt_error,
         packets |-> PacketsKnown(sp, sends) - sp.omitted_packet_count,
         sender_packets |-> IF sends THEN local ELSE remote,
         receiver_packets |-> IF sends THEN remote ELSE local]

(* Faulty variant: every side calls what it receives the reverse channel.  *)
SumNameReceiving(side, sending) ==
    IF ModeOf(side) = "BIDIRECTIONAL" /\ ~sending THEN "sum_bidir_reverse" ELSE "sum"

(* The names of the sums: the channel from the server of a bidirectional   *)
(* test has names of its own.                                              *)
SumName(side, sending) ==
    IF ModeOf(side) = "BIDIRECTIONAL" /\ (side = "c") # sending
    THEN "sum_bidir_reverse" ELSE "sum"

StreamOfRound(side, sending) ==
    CHOOSE i \in Streams : Sends(side, i) = sending

RoundSums(side) ==
    LET rounds == {Rounds(side)[k] : k \in DOMAIN Rounds(side)}
        named(n) == CHOOSE d \in rounds : SumName(side, d) = n
    IN  [n \in {SumName(side, d) : d \in rounds} |->
            StreamSummary(side, StreamOfRound(side, named(n)))]

(* The last round names the congestion algorithms.                         *)
SenderCongestion(side) ==
    IF Rounds(side)[Len(Rounds(side))] THEN side ELSE congestion[side]

(* The server prints once the results are exchanged, the client when the   *)
(* server has told it to.                                                  *)
iperf_print_results(side) ==
    /\ IF side = "s" THEN pc["s"] = "sent" ELSE pc["c"] = "got" /\ pc["s"] = "printed"
    /\ pc' = [pc EXCEPT ![side] = "printed"]
    /\ printed' = [printed EXCEPT ![side] =
            [streams |-> [i \in Streams |-> StreamSummary(side, i)],
             sums |-> RoundSums(side),
             sender_tcp_congestion |-> SenderCongestion(side)]]
    /\ UNCHANGED <<test, counters, omitting, taken, worker, wire, kernel, results, intervals,
                   ring, history>>

-----------------------------------------------------------------------------
Worker(i) ==
    \/ Write(i) \/ CountSent(i) \/ Read(i) \/ CountReceived(i)
    \/ Lose(i) \/ Reorder(i) \/ Retransmit(i)

Main(side) ==
    \/ StartInterval(side) \/ EndInterval(side) \/ iperf_reset_stats(side)
    \/ LastInterval(side) \/ send_results(side) \/ get_results(side)
    \/ iperf_print_results(side)

Next ==
    \/ \E i \in Streams : Worker(i)
    \/ \E side \in Sides : Main(side)
    \/ ClientEnds \/ ServerEnds

Spec == Init /\ [][Next]_vars

-----------------------------------------------------------------------------
(* Properties.                                                             *)

TypeOK ==
    /\ \A side \in Sides :
        /\ pc[side] \in {"running", "interval", "last", "ended", "sent", "got", "printed", "stopped"}
        /\ has[side] \in {-1, 0, 1} /\ other[side] \in {-1, 0, 1}
        /\ omitting[side] \in BOOLEAN
        /\ \A i \in Streams : worker[side][i] \in 0 .. 2 /\ intervals[side][i] \in Nat

Near(x, y) == x - y \in -1 .. 1

(* The packets and the losses of a stream after at most one more datagram: *)
(* it comes with the whole gap before it, or it was counted as lost.       *)
OneMore(packets, lost, p, l) ==
    \/ p = packets /\ l \in {lost, lost - 1}
    \/ p > packets /\ l - lost = p - packets - 1

(* What the two sides print of a stream is the same: how much the sender   *)
(* sent, how much the receiver received, how many packets came and how many*)
(* were lost.  A worker that is still counting its last block when the     *)
(* server exchanges the results makes a difference of that block, although *)
(* the sockets are closed under it and nobody has joined it.  For a        *)
(* datagram this is more than one loss: the receiver's own line has the    *)
(* whole gap before the datagram as lost, and its peer's line nothing of   *)
(* it; or one loss less, when the datagram was late.  QUIC, which shows the*)
(* server's figure as the client's, and whose senders go on, is exempt.    *)
ReportsAgree ==
    TypeOK /\ (pc["c"] = "printed" /\ protocol # "quic" =>
        /\ \A i \in Streams :
            LET sender == printed[SenderOf(i)].streams[i]
                receiver == printed[Peer(SenderOf(i))].streams[i]
            IN  /\ Near(sender.sent, receiver.sent) /\ Near(sender.received, receiver.received)
                /\ Near(sender.sender_packets, receiver.sender_packets)
                /\ OneMore(sender.receiver_packets, sender.lost,
                           receiver.receiver_packets, receiver.lost)
        /\ printed["c"].sender_tcp_congestion = printed["s"].sender_tcp_congestion)

(* A sum has the same name on both sides, "compatible" as the code says:   *)
(* under it each side sums up the streams of the same direction.           *)
SumsCompatible ==
    pc["c"] = "printed" =>
        /\ DOMAIN printed["c"].sums = DOMAIN printed["s"].sums
        /\ \A n \in DOMAIN printed["c"].sums : \E i \in Streams :
                /\ printed["c"].sums[n] = printed["c"].streams[i]
                /\ printed["s"].sums[n] = printed["s"].streams[i]

(* Retransmissions are shown exactly when the system of the stream's sender*)
(* counts them, on both sides and in both directions, also when the other  *)
(* side's does not; and they are those that the sender's kernel counted    *)
(* between the end of the omitted period and the sender's last interval.   *)
RetransmitsAttributed ==
    pc["c"] = "printed" =>
        \A i \in Streams, side \in Sides :
            IF protocol = "tcp" /\ has[SenderOf(i)] = 1
            THEN LET sp == stream[SenderOf(i)][i] IN
                 /\ printed[side].streams[i].retransmits = sp.stream_retrans
                 /\ sp.stream_retrans = sp.stream_prev_total_retrans - kernel[i].omitted
            ELSE printed[side].streams[i].retransmits = -1

Own(side, i) ==
    IF Sends(side, i) THEN stream[side][i].bytes_sent - stream[side][i].bytes_sent_omit
    ELSE stream[side][i].bytes_received

(* The interval reports of a stream after the omitted period add up to no  *)
(* more than its total and the one block that was counted in one of the    *)
(* two counters when they were cleared.                                    *)
IntervalsAddUp ==
    \A side \in Sides, i \in Streams :
        pc[side] \in {"running", "interval", "last", "ended"} =>
            intervals[side][i] <= Own(side, i) + 1

(* The ring of iperf_check_total_rate is the traffic of the last           *)
(* RateWindow intervals: a server stops a test at the first interval that  *)
(* ends a window over the limit, and at no other.                          *)
RateAveraged ==
    LET windowed(k) == IF k < RateWindow THEN FALSE
                       ELSE Summed([j \in 0 .. RateWindow - 1 |-> history[k - j]]) > RateLimit
    IN  (pc["s"] = "stopped") <=>
            (RateLimit # 0 /\ history # <<>> /\ windowed(Len(history)))

(* "For QUIC, prefer server-reported totals for sender summary."           *)
QuicSenderSummary ==
    pc["c"] = "printed" /\ protocol = "quic" /\ "fwd" \in Streams =>
        printed["c"].streams["fwd"].sent = results["s"].streams["fwd"].bytes
=============================================================================
