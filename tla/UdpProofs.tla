------------------------------ MODULE UdpProofs ------------------------------
(***************************************************************************)
(* Proofs about UdpTest, for every number of streams, size of a block,     *)
(* kernel and number of datagrams: which streams the two sides have, why a *)
(* client fails, and what the receiver reports as lost.                    *)
(***************************************************************************)
EXTENDS UdpTest, FiniteSetTheorems, SequenceTheorems, TLAPS

-----------------------------------------------------------------------------
(* The inductive invariant of the connect phase.                           *)

ConnectTypes ==
    /\ count \in StreamCounts
    /\ ConnectTypeOK
    /\ peers \in Seq(Nat) /\ queue \in Seq(Nat) /\ strays \in Nat

(* Stream k has its socket, and the reply to it has been sent.             *)
Answered(k) ==
    \E i \in 1 .. Len(peers) :
        /\ peers[i] = k
        /\ i = Len(peers) => spc \notin {"announce", "reply"}

(* Where the message of the current stream is: on its way, in the queue or *)
(* taken, and never at two places; no message of an earlier stream is left.*)
MessageInv ==
    /\ msgs \subseteq {stream}
    /\ msgs # {} => /\ cpc \in {"wait", "failed"}
                    /\ \A i \in 1 .. Len(peers) : peers[i] # stream
    /\ \A i \in 1 .. Len(queue) :
         /\ queue[i] \in {0, stream}
         /\ queue[i] = stream => /\ cpc \in {"wait", "failed"} /\ msgs = {}
                                 /\ \A j \in 1 .. Len(peers) : peers[j] # stream
    /\ \A i, j \in 1 .. Len(queue) : i # j => queue[i] = 0 \/ queue[j] = 0

(* The client goes on only with a reply, and a reply has been sent only to *)
(* a stream that has its socket.                                           *)
AnswerInv ==
    /\ \A k \in replies : Answered(k)
    /\ \A k \in 1 .. stream : k < stream \/ cpc = "done" => Answered(k)

(* Sockets are made in the order of the streams, with strays in between.   *)
PeersInv ==
    \A i \in 1 .. Len(peers) :
        /\ peers[i] <= stream /\ peers[i] <= i
        /\ peers[i] = stream => cpc # "dial"
        /\ peers[i] = i => \A j \in 1 .. i : peers[j] = j

ServerInv ==
    /\ spc \in {"select", "connect"} => Len(peers) < count
    /\ spc \in {"announce", "reply"} => Len(peers) >= 1
    /\ spc = "connect" => queue # <<>>
    /\ spc = "done" => Len(peers) = count
    /\ cpc = "done" => stream = count

(* Without strays every socket is a stream's and no message is in the way. *)
NoStraysInv ==
    strays = 0 =>
        /\ \A i \in 1 .. Len(peers) : peers[i] = i
        /\ \A i \in 1 .. Len(queue) : queue[i] # 0
        /\ swallowed = {} /\ (refused # {} => spc = "failed")

(* The words the client has read while it waits.                           *)
PatienceInv ==
    /\ cpc = "wait" => got < max_len_wait_for_reply
    /\ cause = "data" => cpc = "failed" /\ got = max_len_wait_for_reply

(* The buffers that were made hold a block, unless the user sized them.    *)
SizesInv ==
    /\ asked \in Nat
    /\ kernel \in [UdpSides -> [usual : Nat, most : Nat]]
    /\ bufsize \in [UdpSides -> Nat] /\ buffer \in [UdpSides -> Seq(Nat)]
    /\ asked = 0 =>
         \A side \in UdpSides :
            /\ bufsize[side] \in {0, BlockSize + UDP_BUFFER_EXTRA}
            /\ \A k \in 1 .. Len(buffer[side]) : buffer[side][k] >= BlockSize

(* There is one for each stream.                                           *)
BuffersInv ==
    /\ SizesInv
    /\ cpc \in {"wait", "done"} => Len(buffer["c"]) = stream
    /\ cpc = "dial" => Len(buffer["c"]) = stream - 1
    /\ spc # "failed" => Len(buffer["s"]) = Len(peers)

OrderInv == ConnectTypes /\ MessageInv /\ AnswerInv /\ PeersInv /\ ServerInv /\ NoStraysInv
                         /\ PatienceInv

-----------------------------------------------------------------------------
(* The inductive invariant of the accounts.                                *)

(* The highest number the worker has read.                                 *)
Highmost == IF wpc = "gap" THEN pcount ELSE packet_count

(* A loss is a number at most the highest one that was not counted.        *)
LossInv ==
    /\ out = 1 .. sent
    /\ transit \cap counted = {}
    /\ NoWrap => /\ Highmost <= sent
                 /\ counted \subseteq 1 .. Highmost
                 /\ cnt_error = Cardinality({n \in out \ counted : n <= Highmost})

(* packet_count goes forward only.                                         *)
ForwardInv ==
    /\ wpc = "gap" => packet_count < pcount
    /\ base <= packet_count
    /\ IntervalsNeverExceed

(* With the losses of the gap, a number that is not yet in packet_count.   *)
Covered == IF wpc = "gap" THEN pcount - 1 ELSE packet_count

OmitInv ==
    /\ omitted_packet_count <= packet_count
    /\ omit = "off" => cnt_error - omitted_cnt_error <= Covered - omitted_packet_count
    /\ mpc = "omit" => omit = "on"

AccountInv == TypeOK /\ LossInv /\ ForwardInv /\ OmitInv

-----------------------------------------------------------------------------
(* What is in a datagram.                                                  *)
LEMMA OnWireOf ==
    ASSUME NEW n \in Nat
    PROVE  OnWire(n) \in Nat /\ (n < CounterLimit => OnWire(n) = n)
    BY UdpStreamAssumption DEF OnWire

(* The losses up to a number are finitely many.                            *)
Lost(o, c, top) == {n \in o \ c : n <= top}

LEMMA LostFinite ==
    ASSUME NEW k \in Nat, NEW c, NEW top
    PROVE  /\ IsFiniteSet(Lost(1 .. k, c, top))
           /\ Cardinality(Lost(1 .. k, c, top)) \in Nat
<1>1. IsFiniteSet(1 .. k)
    BY FS_Interval
<1>2. Lost(1 .. k, c, top) \in SUBSET (1 .. k)
    BY DEF Lost
<1> QED
    BY <1>1, <1>2, FS_Subset, FS_CardinalityType

(* A number that goes forward adds the ones that it jumps over, ...        *)
LEMMA LostForward ==
    ASSUME NEW k \in Nat, NEW n \in 1 .. k, NEW top \in Nat, top < n, NEW c, c \subseteq 1 .. top
    PROVE  Cardinality(Lost(1 .. k, c \cup {n}, n))
           = Cardinality(Lost(1 .. k, c, top)) + (n - 1 - top)
<1> DEFINE old == Lost(1 .. k, c, top)
           jump == (top + 1) .. (n - 1)
<1>1. Lost(1 .. k, c \cup {n}, n) = old \cup jump
    BY DEF Lost
<1>2. old \cap jump = {}
    BY DEF Lost
<1>3. IsFiniteSet(old) /\ Cardinality(old) \in Nat
    BY LostFinite
<1>4. IsFiniteSet(jump) /\ Cardinality(jump) = n - 1 - top
  <2>1. top + 1 \in Int /\ n - 1 \in Int
    OBVIOUS
  <2>2. /\ IsFiniteSet(jump)
        /\ Cardinality(jump) = IF top + 1 > n - 1 THEN 0 ELSE (n - 1) - (top + 1) + 1
    BY <2>1, FS_Interval
  <2> HIDE DEF jump
  <2> QED
    BY <2>2
<1> HIDE DEF old, jump
<1>5. Cardinality(old \cup jump) = Cardinality(old) + Cardinality(jump) - Cardinality(old \cap jump)
    BY <1>3, <1>4, FS_Union
<1>6. Cardinality(old \cap jump) = 0
    BY <1>2, FS_EmptySet
<1>7. Cardinality(old \cup jump) = Cardinality(old) + (n - 1 - top)
    BY <1>3, <1>4, <1>5, <1>6
<1> QED
    BY <1>1, <1>7 DEF old

(* ... and a late one is a loss less.                                      *)
LEMMA LostBackward ==
    ASSUME NEW k \in Nat, NEW n \in 1 .. k, NEW top \in Nat, n <= top, NEW c, n \notin c
    PROVE  /\ Cardinality(Lost(1 .. k, c, top)) \in Nat \ {0}
           /\ Cardinality(Lost(1 .. k, c \cup {n}, top))
              = Cardinality(Lost(1 .. k, c, top)) - 1
<1> DEFINE old == Lost(1 .. k, c, top)
<1>1. Lost(1 .. k, c \cup {n}, top) = old \ {n} /\ n \in old
    BY DEF Lost
<1>2. IsFiniteSet(old) /\ Cardinality(old) \in Nat
    BY LostFinite
<1> HIDE DEF old
<1>3. Cardinality(old \ {n}) = Cardinality(old) - 1 /\ Cardinality(old) # 0
    BY <1>1, <1>2, FS_RemoveElement, FS_EmptySet
<1> QED
    BY <1>1, <1>2, <1>3 DEF old

(* A number not yet seen is no loss yet.                                   *)
LEMMA LostSend ==
    ASSUME NEW k \in Nat, NEW c, NEW top \in Nat, top <= k
    PROVE  Lost(1 .. k + 1, c, top) = Lost(1 .. k, c, top)
    BY DEF Lost

-----------------------------------------------------------------------------
LEMMA AccountInit == TestInit => AccountInv
<1> SUFFICES ASSUME TestInit PROVE AccountInv
    OBVIOUS
<1>1. Init
    BY DEF TestInit
<1>2. TypeOK
  <2>1. running \in BOOLEAN
    BY <1>1, Zenon DEF Init
  <2> QED
    BY <1>1, <2>1, UdpStreamAssumption DEF Init, TypeOK
<1>3. LossInv
  <2>1. {n \in out \ counted : n <= Highmost} = {} /\ out = 1 .. sent
    BY <1>1 DEF Init
  <2> QED
    BY <1>1, <2>1, FS_EmptySet DEF Init, LossInv, Highmost
<1> QED
    BY <1>1, <1>2, <1>3 DEF AccountInv, Init, ForwardInv, OmitInv, Covered, IntervalsNeverExceed

(* The parts of the invariant that a step of the worker keeps.             *)
LEMMA AccountSend == AccountInv /\ Send => AccountInv'
<1> SUFFICES ASSUME AccountInv, Send PROVE AccountInv'
    OBVIOUS
<1> USE DEF AccountInv
<1>1. /\ UNCHANGED <<running, counted, wpc, pcount, packet_count, cnt_error, mpc, omit,
                     omitted_packet_count, omitted_cnt_error, intervals, base, total>>
      /\ sent \in Nat /\ packet_count \in Nat /\ pcount \in Nat
    BY DEF Send, worker, omits, results, TypeOK
<1>2. CASE UNCHANGED <<sent, out, transit>>
    BY <1>1, <1>2 DEF TypeOK, LossInv, ForwardInv, OmitInv, Highmost, Covered, NoWrap,
        IntervalsNeverExceed
<1>3. CASE sent' = sent + 1 /\ out' = out \cup {sent + 1} /\ transit' = transit \cup {sent + 1}
  <2>1. TypeOK'
    <3>1. sent' \in 0 .. MaxPackets
      BY <1>1, <1>3, UdpStreamAssumption DEF TypeOK, Send
    <3>2. out' \subseteq 1 .. sent' /\ counted' \subseteq out' /\ transit' \subseteq out'
      BY <1>1, <1>3 DEF TypeOK
    <3> QED
      BY <1>1, <3>1, <3>2 DEF TypeOK
  <2>2. out' = 1 .. sent' /\ (transit \cap counted)' = {}
    BY <1>1, <1>3 DEF TypeOK, LossInv
  <2>3. ASSUME NoWrap'
        PROVE  /\ Highmost' <= sent' /\ (counted \subseteq 1 .. Highmost)'
               /\ cnt_error' = Cardinality(Lost(out', counted', Highmost'))
    <3>1. NoWrap
      BY <1>1, <1>3, <2>3, UdpStreamAssumption DEF NoWrap
    <3>2. /\ Highmost <= sent /\ counted \subseteq 1 .. Highmost /\ Highmost \in Nat
          /\ cnt_error = Cardinality(Lost(1 .. sent, counted, Highmost))
      BY <1>1, <3>1 DEF LossInv, Lost, Highmost
    <3>3. Highmost' = Highmost
      BY <1>1 DEF Highmost
    <3>4. Lost(1 .. sent + 1, counted, Highmost) = Lost(1 .. sent, counted, Highmost)
      BY <1>1, <3>2, LostSend
    <3>5. Lost(out', counted', Highmost') = Lost(1 .. sent, counted, Highmost)
      BY <1>1, <1>3, <2>2, <3>3, <3>4
    <3>6. Highmost' <= sent' /\ counted' \subseteq 1 .. Highmost'
      BY <1>1, <1>3, <3>2, <3>3
    <3> QED
      BY <1>1, <3>2, <3>5, <3>6
  <2>4. LossInv'
    BY <2>2, <2>3 DEF LossInv, Lost
  <2> QED
    BY <1>1, <2>1, <2>4 DEF ForwardInv, OmitInv, Covered, IntervalsNeverExceed
<1> QED
    BY <1>2, <1>3 DEF Send, GiveBack

LEMMA AccountForward ==
    ASSUME AccountInv, NEW n \in transit, RecvForward(n)
    PROVE  AccountInv'
<1> USE DEF AccountInv
<1>1. /\ wpc = "idle" /\ wpc' = "gap" /\ n \in transit
      /\ OnWire(n) >= packet_count + 1 /\ pcount' = OnWire(n)
      /\ cnt_error' = cnt_error + (OnWire(n) - 1 - packet_count)
      /\ transit' = transit \ {n} /\ counted' = counted \cup {n}
      /\ UNCHANGED <<sent, out, running, packet_count, mpc, omit, omitted_packet_count,
                     omitted_cnt_error, intervals, base, total>>
    BY DEF RecvForward, source, omits, results
<1>2. /\ n \in 1 .. sent /\ sent \in Nat /\ packet_count \in Nat /\ cnt_error \in Nat
      /\ omitted_packet_count \in Nat /\ omitted_cnt_error \in Nat
      /\ base \in Nat /\ total \in Nat
    BY DEF TypeOK
<1>3. OnWire(n) \in Nat
    BY <1>2, OnWireOf
<1>4. TypeOK'
  <2>1. cnt_error' \in Nat /\ pcount' \in Nat
    BY <1>1, <1>2, <1>3
  <2>2. counted' \subseteq out' /\ transit' \subseteq out'
    BY <1>1 DEF TypeOK
  <2>3. wpc' \in {"idle", "gap"}
    BY <1>1
  <2> QED
    BY <1>1, <2>1, <2>2, <2>3 DEF TypeOK
<1>5. LossInv'
  <2>1. out' = 1 .. sent' /\ transit' \cap counted' = {}
    BY <1>1 DEF LossInv
  <2>2. ASSUME NoWrap'
        PROVE  /\ Highmost' <= sent' /\ counted' \subseteq 1 .. Highmost'
               /\ cnt_error' = Cardinality(Lost(out', counted', Highmost'))
    <3>1. NoWrap /\ OnWire(n) = n
      BY <1>1, <1>2, <2>2, OnWireOf, UdpStreamAssumption DEF NoWrap
    <3>2. /\ counted \subseteq 1 .. packet_count /\ packet_count < n
          /\ cnt_error = Cardinality(Lost(1 .. sent, counted, packet_count))
      BY <1>1, <1>2, <3>1 DEF LossInv, Lost, Highmost
    <3>3. Highmost' = n
      BY <1>1, <3>1 DEF Highmost
    <3>4. Cardinality(Lost(1 .. sent, counted \cup {n}, n)) = cnt_error + (n - 1 - packet_count)
      <4>1. sent \in Nat /\ n \in 1 .. sent /\ packet_count \in Nat /\ packet_count < n
            /\ counted \subseteq 1 .. packet_count
        BY <1>2, <3>2
      <4>2. Cardinality(Lost(1 .. sent, counted \cup {n}, n))
            = Cardinality(Lost(1 .. sent, counted, packet_count)) + (n - 1 - packet_count)
        BY <4>1, LostForward, Zenon
      <4> QED
        BY <3>2, <4>2, Zenon
    <3>5. cnt_error' = Cardinality(Lost(out', counted', Highmost'))
      BY <1>1, <2>1, <3>1, <3>3, <3>4
    <3>6. Highmost' <= sent' /\ counted' \subseteq 1 .. Highmost'
      BY <1>1, <1>2, <3>2, <3>3
    <3> QED
      BY <3>5, <3>6
  <2> QED
    BY <2>1, <2>2 DEF LossInv, Lost
<1>6. ForwardInv'
    BY <1>1, <1>2, <1>3 DEF ForwardInv, IntervalsNeverExceed
<1>7. OmitInv'
  <2>1. Covered = packet_count /\ Covered' = OnWire(n) - 1
    BY <1>1 DEF Covered
  <2>2. omit' = "off" => cnt_error' - omitted_cnt_error' <= Covered' - omitted_packet_count'
    BY <1>1, <1>2, <1>3, <2>1 DEF OmitInv
  <2> QED
    BY <1>1, <2>2 DEF OmitInv
<1> QED
    BY <1>4, <1>5, <1>6, <1>7

LEMMA AccountBackward ==
    ASSUME AccountInv, NEW n \in transit, RecvBackward(n)
    PROVE  AccountInv'
<1> USE DEF AccountInv
<1>1. /\ wpc = "idle" /\ wpc' = "idle" /\ n \in transit
      /\ OnWire(n) < packet_count + 1 /\ pcount' = OnWire(n)
      /\ cnt_error' = (IF cnt_error > 0 THEN cnt_error - 1 ELSE 0)
      /\ transit' = transit \ {n} /\ counted' = counted \cup {n}
      /\ UNCHANGED <<sent, out, running, packet_count, mpc, omit, omitted_packet_count,
                     omitted_cnt_error, intervals, base, total>>
    BY DEF RecvBackward, source, omits, results, TakenBack
<1>2. /\ n \in 1 .. sent /\ sent \in Nat /\ packet_count \in Nat /\ cnt_error \in Nat
      /\ omitted_packet_count \in Nat /\ omitted_cnt_error \in Nat
      /\ base \in Nat /\ total \in Nat
    BY DEF TypeOK
<1>3. OnWire(n) \in Nat /\ cnt_error' \in Nat /\ cnt_error' <= cnt_error
    BY <1>1, <1>2, OnWireOf
<1>4. TypeOK'
  <2>1. counted' \subseteq out' /\ transit' \subseteq out'
    BY <1>1 DEF TypeOK
  <2>2. wpc' \in {"idle", "gap"} /\ pcount' \in Nat
    BY <1>1, <1>3
  <2> QED
    BY <1>1, <1>3, <2>1, <2>2 DEF TypeOK
<1>5. LossInv'
  <2>1. out' = 1 .. sent' /\ transit' \cap counted' = {}
    BY <1>1 DEF LossInv
  <2>2. ASSUME NoWrap'
        PROVE  /\ Highmost' <= sent' /\ counted' \subseteq 1 .. Highmost'
               /\ cnt_error' = Cardinality(Lost(out', counted', Highmost'))
    <3>1. NoWrap /\ OnWire(n) = n
      BY <1>1, <1>2, <2>2, OnWireOf, UdpStreamAssumption DEF NoWrap
    <3>2. /\ counted \subseteq 1 .. packet_count /\ n <= packet_count /\ n \notin counted
          /\ packet_count <= sent
          /\ cnt_error = Cardinality(Lost(1 .. sent, counted, packet_count))
      BY <1>1, <1>2, <3>1 DEF LossInv, Lost, Highmost
    <3>3. Highmost' = packet_count
      BY <1>1, <3>1 DEF Highmost
    <3>4. /\ cnt_error \in Nat \ {0}
          /\ Cardinality(Lost(1 .. sent, counted \cup {n}, packet_count)) = cnt_error - 1
      BY <1>2, <3>2, LostBackward
    <3>5. cnt_error' = cnt_error - 1
      BY <1>1, <3>4
    <3>6. cnt_error' = Cardinality(Lost(out', counted', Highmost'))
      BY <1>1, <2>1, <3>3, <3>4, <3>5
    <3>7. Highmost' <= sent' /\ counted' \subseteq 1 .. Highmost'
      BY <1>1, <1>2, <3>2, <3>3
    <3> QED
      BY <3>6, <3>7
  <2> QED
    BY <2>1, <2>2 DEF LossInv, Lost
<1>6. ForwardInv'
    BY <1>1 DEF ForwardInv, IntervalsNeverExceed
<1>7. OmitInv'
    BY <1>1, <1>2, <1>3 DEF OmitInv, Covered
<1> QED
    BY <1>4, <1>5, <1>6, <1>7

LEMMA AccountHighest == AccountInv /\ Highest => AccountInv'
<1> SUFFICES ASSUME AccountInv, Highest PROVE AccountInv'
    OBVIOUS
<1> USE DEF AccountInv
<1>1. /\ wpc = "gap" /\ wpc' = "idle" /\ packet_count' = pcount
      /\ UNCHANGED <<sent, out, transit, running, counted, pcount, cnt_error, mpc, omit,
                     omitted_packet_count, omitted_cnt_error, intervals, base, total>>
    BY DEF Highest, source, omits, results
<1>2. /\ packet_count \in Nat /\ pcount \in Nat /\ cnt_error \in Nat
      /\ omitted_packet_count \in Nat /\ omitted_cnt_error \in Nat
      /\ base \in Nat /\ total \in Nat
    BY DEF TypeOK
<1>3. TypeOK'
    BY <1>1 DEF TypeOK
<1>4. Highmost' = Highmost
    BY <1>1 DEF Highmost
<1>5. LossInv'
    BY <1>1, <1>4 DEF LossInv, NoWrap
<1>6. ForwardInv'
    BY <1>1, <1>2 DEF ForwardInv, IntervalsNeverExceed
<1>7. OmitInv'
    BY <1>1, <1>2 DEF OmitInv, Covered, ForwardInv
<1> QED
    BY <1>3, <1>5, <1>6, <1>7

(* The main thread, between any two steps of the worker.                   *)
LEMMA AccountMain == AccountInv /\ (Stats \/ StatsSave \/ ResetStats) => AccountInv'
<1> SUFFICES ASSUME AccountInv, Stats \/ StatsSave \/ ResetStats PROVE AccountInv'
    OBVIOUS
<1> USE DEF AccountInv
<1>1. /\ UNCHANGED <<sent, out, transit, running, counted, wpc, pcount, packet_count, cnt_error>>
      /\ Highmost' = Highmost /\ Covered' = Covered
    BY DEF Stats, StatsSave, ResetStats, source, worker, Highmost, Covered
<1>2. LossInv'
    BY <1>1 DEF LossInv, NoWrap
<1>3. /\ packet_count \in Nat /\ pcount \in Nat /\ cnt_error \in Nat
      /\ omitted_packet_count \in Nat /\ omitted_cnt_error \in Nat
      /\ base \in Nat /\ total \in Nat /\ intervals \in Nat
    BY DEF TypeOK
<1>4. CASE Stats
  <2>1. /\ total' = total + (packet_count - base) /\ intervals' = intervals + 1
        /\ mpc = "idle" /\ mpc' = "stats"
        /\ UNCHANGED <<base, omit, omitted_packet_count, omitted_cnt_error>>
    BY <1>4 DEF Stats, omits
  <2>2. total' \in Nat /\ intervals' \in Nat
    BY <1>3, <2>1 DEF ForwardInv
  <2>3. TypeOK'
    BY <1>1, <2>1, <2>2 DEF TypeOK
  <2>4. ForwardInv'
    BY <1>1, <1>3, <2>1 DEF ForwardInv, IntervalsNeverExceed
  <2> QED
    BY <1>1, <1>2, <2>1, <2>3, <2>4 DEF OmitInv
<1>5. CASE StatsSave
  <2>1. /\ base' = packet_count /\ mpc = "stats" /\ mpc' = "idle"
        /\ UNCHANGED <<intervals, total, omit, omitted_packet_count, omitted_cnt_error>>
    BY <1>5 DEF StatsSave, omits, NewBase
  <2>2. TypeOK'
    BY <1>1, <2>1 DEF TypeOK
  <2>3. ForwardInv'
    BY <1>1, <1>3, <2>1 DEF ForwardInv, IntervalsNeverExceed
  <2> QED
    BY <1>1, <1>2, <2>1, <2>2, <2>3 DEF OmitInv
<1>6. CASE ResetStats
  <2>1. Remember /\ UNCHANGED <<intervals, base, total>>
    BY <1>6 DEF ResetStats, results
  <2>2. TypeOK'
    BY <1>1, <2>1 DEF TypeOK, Remember
  <2>3. ForwardInv'
    BY <1>1, <2>1 DEF ForwardInv, IntervalsNeverExceed, Remember
  <2>4. packet_count <= Covered /\ Covered \in Int
    BY <1>3 DEF Covered, ForwardInv, TypeOK
  <2>5. OmitInv'
    BY <1>1, <1>3, <2>1, <2>4 DEF OmitInv, Remember
  <2> QED
    BY <1>2, <2>2, <2>3, <2>5
<1> QED
    BY <1>4, <1>5, <1>6

LEMMA AccountStep == AccountInv /\ [TestNext]_tvars => AccountInv'
<1> SUFFICES ASSUME AccountInv, [TestNext]_tvars PROVE AccountInv'
    OBVIOUS
<1>1. CASE UNCHANGED vars
    BY <1>1 DEF vars, source, worker, omits, results, AccountInv, TypeOK, LossInv, ForwardInv,
        OmitInv, Highmost, Covered, NoWrap, IntervalsNeverExceed
<1>2. ASSUME NEW n \in transit, Lose(n) \/ RecvEarly(n)
      PROVE  AccountInv'
  <2>1. /\ transit' = transit \ {n}
        /\ UNCHANGED <<sent, out, running, counted, wpc, pcount, packet_count, cnt_error, mpc,
                       omit, omitted_packet_count, omitted_cnt_error, intervals, base, total>>
    BY <1>2 DEF Lose, RecvEarly, source, worker, omits, results
  <2>2. TypeOK'
    BY <2>1 DEF AccountInv, TypeOK
  <2>3. LossInv'
    BY <2>1 DEF AccountInv, LossInv, Highmost, NoWrap
  <2> QED
    BY <2>1, <2>2, <2>3 DEF AccountInv, ForwardInv, OmitInv, Covered, IntervalsNeverExceed
<1>3. CASE StartRunning
  <2>1. /\ running' = TRUE
        /\ UNCHANGED <<sent, out, transit, counted, wpc, pcount, packet_count, cnt_error, mpc,
                       omit, omitted_packet_count, omitted_cnt_error, intervals, base, total>>
    BY <1>3 DEF StartRunning, source, worker, omits, results
  <2>2. running' \in BOOLEAN
    BY <2>1, Zenon
  <2>3. TypeOK'
    BY <2>1, <2>2 DEF AccountInv, TypeOK
  <2> QED
    BY <2>1, <2>3 DEF AccountInv, LossInv, Highmost, NoWrap, ForwardInv, OmitInv, Covered,
        IntervalsNeverExceed
<1>4. CASE SendData
    BY <1>4, AccountSend DEF SendData
<1>5. CASE TestRuns
    BY <1>3, <1>5 DEF TestRuns
<1>6. CASE Receive
    BY <1>2, <1>6, AccountForward, AccountBackward, AccountHighest DEF Receive
<1>7. CASE Account
    BY <1>7, AccountMain DEF Account
<1>8. CASE \E n \in transit : Overtake(n) \/ LoseData(n)
    BY <1>2, <1>8 DEF Overtake, LoseData
<1> QED
    BY <1>1, <1>4, <1>5, <1>6, <1>7, <1>8 DEF TestNext, tvars

-----------------------------------------------------------------------------
(* The connect phase.                                                      *)

LEMMA MaxLen == max_len_wait_for_reply \in Nat /\ max_len_wait_for_reply >= 1
    BY UdpConnectAssumption DEF max_len_wait_for_reply, MAX_REVERSE_OUT_OF_ORDER_PACKETS

LEMMA OrderFacts ==
    ASSUME OrderInv
    PROVE  /\ count \in Nat \ {0} /\ stream \in 1 .. count
           /\ Len(peers) \in Nat /\ \A i \in 1 .. Len(peers) : peers[i] \in Nat
           /\ Len(queue) \in Nat /\ \A i \in 1 .. Len(queue) : queue[i] \in Nat
<1>1. count \in Nat \ {0} /\ stream \in 1 .. count
    BY UdpConnectAssumption DEF OrderInv, ConnectTypes, ConnectTypeOK
<1>2. Len(peers) \in Nat /\ \A i \in 1 .. Len(peers) : peers[i] \in Nat
    BY LenProperties, ElementOfSeq DEF OrderInv, ConnectTypes
<1>3. Len(queue) \in Nat /\ \A i \in 1 .. Len(queue) : queue[i] \in Nat
    BY LenProperties, ElementOfSeq DEF OrderInv, ConnectTypes
<1> QED
    BY <1>1, <1>2, <1>3

(* The server is never more than one stream behind.                        *)
LEMMA ServerFollows == OrderInv => stream <= Len(peers) + 1
<1> SUFFICES ASSUME OrderInv PROVE stream <= Len(peers) + 1
    OBVIOUS
<1>1. CASE stream = 1
    BY <1>1, OrderFacts
<1>2. CASE stream > 1
  <2>1. stream - 1 \in 1 .. stream /\ stream - 1 < stream
    BY <1>2, OrderFacts
  <2>2. PICK i \in 1 .. Len(peers) : peers[i] = stream - 1
    BY <2>1 DEF OrderInv, AnswerInv, Answered
  <2>3. peers[i] <= i
    BY DEF OrderInv, PeersInv
  <2> QED
    BY <2>2, <2>3, OrderFacts
<1> QED
    BY <1>1, <1>2, OrderFacts

LEMMA OrderInit == TestInit => OrderInv
<1> SUFFICES ASSUME TestInit PROVE OrderInv
    OBVIOUS
<1>1. ConnectInit
    BY DEF TestInit
<1>2. /\ peers = <<>> /\ queue = <<>> /\ Len(peers) = 0 /\ Len(queue) = 0
      /\ peers \in Seq(Nat) /\ queue \in Seq(Nat) /\ msgs = {} /\ replies = {} /\ refused = {}
      /\ swallowed = {} /\ stream = 1 /\ cpc = "dial" /\ spc = "select" /\ got = 0
      /\ cause = "none" /\ strays = 0
    BY <1>1, EmptySeq DEF ConnectInit
<1>3. count \in StreamCounts /\ count \in Nat \ {0}
    BY <1>1, UdpConnectAssumption DEF ConnectInit
<1>4. ConnectTypes
    BY <1>2, <1>3, MaxLen DEF ConnectTypes, ConnectTypeOK
<1>5. MessageInv /\ AnswerInv /\ PeersInv
    BY <1>2 DEF MessageInv, AnswerInv, PeersInv
<1>6. ServerInv /\ NoStraysInv /\ PatienceInv
    BY <1>2, <1>3 DEF ServerInv, NoStraysInv, PatienceInv
<1> QED
    BY <1>4, <1>5, <1>6 DEF OrderInv

LEMMA OrderDial == OrderInv /\ Dial => OrderInv'
<1> SUFFICES ASSUME OrderInv, Dial PROVE OrderInv'
    OBVIOUS
<1> USE DEF OrderInv
<1>1. /\ cpc = "dial" /\ UNCHANGED <<count, umode, stream, spc, peers, queue, replies, refused,
                                     swallowed, strays>>
      /\ \/ cpc' = "wait" /\ got' = 0 /\ msgs' = msgs \cup {stream} /\ cause' = cause
         \/ cpc' = "failed" /\ cause' = "buffer" /\ got' = got /\ msgs' = msgs
    BY DEF Dial, udptest
<1>2. max_len_wait_for_reply' = max_len_wait_for_reply
    BY <1>1 DEF max_len_wait_for_reply
<1>3. ConnectTypes'
    BY <1>1, <1>2, MaxLen, OrderFacts DEF ConnectTypes, ConnectTypeOK
(* Neither a message nor a socket of this stream exists yet.               *)
<1>4. /\ msgs = {} /\ \A i \in 1 .. Len(peers) : peers[i] # stream
      /\ \A i \in 1 .. Len(queue) : queue[i] = 0
    BY <1>1, OrderFacts DEF MessageInv, PeersInv
<1>5. MessageInv'
    BY <1>1, <1>4, OrderFacts DEF MessageInv
<1>6. AnswerInv'
    BY <1>1 DEF AnswerInv, Answered
<1>7. PeersInv' /\ ServerInv' /\ NoStraysInv'
    BY <1>1 DEF PeersInv, ServerInv, NoStraysInv
<1>8. PatienceInv'
    BY <1>1, <1>2, MaxLen DEF PatienceInv
<1> QED
    BY <1>3, <1>5, <1>6, <1>7, <1>8

LEMMA OrderRecvReply == OrderInv /\ RecvReply => OrderInv'
<1> SUFFICES ASSUME OrderInv, RecvReply PROVE OrderInv'
    OBVIOUS
<1> USE DEF OrderInv
<1>1. /\ cpc = "wait" /\ stream \in replies /\ replies' = replies \ {stream}
      /\ \/ stream = count /\ cpc' = "done" /\ stream' = stream
         \/ stream # count /\ cpc' = "dial" /\ stream' = stream + 1
      /\ UNCHANGED <<count, umode, got, cause, spc, peers, queue, msgs, refused, swallowed, strays>>
    BY DEF RecvReply, udptest
<1>2. max_len_wait_for_reply' = max_len_wait_for_reply
    BY <1>1 DEF max_len_wait_for_reply
<1>3. ConnectTypes'
    BY <1>1, <1>2, OrderFacts DEF ConnectTypes, ConnectTypeOK
(* The stream is answered, so its message is gone.                         *)
<1>4. /\ Answered(stream) /\ \A k \in 1 .. stream : Answered(k)
      /\ \A k : Answered(k)' <=> Answered(k)
  <2>1. \A k \in 1 .. stream : k < stream \/ k = stream
    BY OrderFacts
  <2> QED
    BY <1>1, <2>1 DEF AnswerInv, Answered
<1>5. msgs = {} /\ \A i \in 1 .. Len(queue) : queue[i] = 0
    BY <1>4 DEF MessageInv, Answered
<1>6. MessageInv'
    BY <1>1, <1>5, OrderFacts DEF MessageInv
<1>7. AnswerInv'
  <2>1. \A k \in 1 .. stream' : k < stream' \/ cpc' = "done" => k \in 1 .. stream
    BY <1>1, OrderFacts
  <2> QED
    BY <1>1, <1>4, <2>1 DEF AnswerInv
<1>8. PeersInv'
    BY <1>1, OrderFacts DEF PeersInv
<1>9. ServerInv' /\ NoStraysInv' /\ PatienceInv'
    BY <1>1, <1>2 DEF ServerInv, NoStraysInv, PatienceInv
<1> QED
    BY <1>3, <1>6, <1>7, <1>8, <1>9

(* The client gives up, or reads something that is not its reply.          *)
LEMMA OrderFail == OrderInv /\ (RecvRefused \/ RecvTimeout \/ RecvOther) => OrderInv'
<1> SUFFICES ASSUME OrderInv, RecvRefused \/ RecvTimeout \/ RecvOther PROVE OrderInv'
    OBVIOUS
<1> USE DEF OrderInv
<1>1. /\ cpc = "wait"
      /\ \/ cpc' = "failed" /\ cause' \in {"refused", "timeout"} /\ got' = got
         \/ got' = got + 1 /\ got' < max_len_wait_for_reply /\ cpc' = cpc /\ cause' = cause
         \/ got' = got + 1 /\ ~(got' < max_len_wait_for_reply) /\ cpc' = "failed" /\ cause' = "data"
      /\ UNCHANGED <<count, umode, stream, spc, peers, queue, msgs, replies, refused, swallowed,
                     strays>>
    BY DEF RecvRefused, RecvTimeout, RecvOther, udptest, network
<1>2. max_len_wait_for_reply' = max_len_wait_for_reply
    BY <1>1 DEF max_len_wait_for_reply
<1>3. got \in Nat /\ got < max_len_wait_for_reply /\ cause # "data"
    BY <1>1, MaxLen DEF ConnectTypes, ConnectTypeOK, PatienceInv
<1>4. /\ got' \in 0 .. max_len_wait_for_reply
      /\ cause' = "data" => cpc' = "failed" /\ got' = max_len_wait_for_reply
      /\ cpc' = "wait" => got' < max_len_wait_for_reply
    BY <1>1, <1>3, MaxLen
<1>5. ConnectTypes'
    BY <1>1, <1>2, <1>4 DEF ConnectTypes, ConnectTypeOK
<1>6. MessageInv' /\ PeersInv'
    BY <1>1 DEF MessageInv, PeersInv
<1>7. AnswerInv'
    BY <1>1 DEF AnswerInv, Answered
<1>8. ServerInv' /\ NoStraysInv'
    BY <1>1 DEF ServerInv, NoStraysInv
<1>9. PatienceInv'
    BY <1>2, <1>4 DEF PatienceInv
<1> QED
    BY <1>5, <1>6, <1>7, <1>8, <1>9

(* The next socket is the current stream's or a stray's, and the order of  *)
(* the sockets stays the order of the streams.                             *)
LEMMA OrderConnect == OrderInv /\ Connect => OrderInv'
<1> SUFFICES ASSUME OrderInv, Connect PROVE OrderInv'
    OBVIOUS
<1> USE DEF OrderInv
<1> DEFINE h == queue[1]
           N == Len(peers)
<1>1. /\ spc = "connect" /\ queue' = <<>> /\ spc' \in {"announce", "failed"}
      /\ peers' = Append(peers, Head(queue)) /\ swallowed' = swallowed \cup Behind
      /\ UNCHANGED <<count, umode, cpc, stream, got, cause, msgs, replies, refused, strays>>
    BY DEF Connect, udptest, client
<1>2. /\ Len(queue) >= 1 /\ 1 \in 1 .. Len(queue) /\ Head(queue) = h /\ h \in Nat
      /\ h \in {0, stream}
      /\ h = stream => /\ cpc \in {"wait", "failed"} /\ msgs = {}
                       /\ \A j \in 1 .. N : peers[j] # stream
  <2>1. queue \in Seq(Nat) /\ queue # <<>>
    BY <1>1 DEF ConnectTypes, ServerInv
  <2>2. Len(queue) >= 1 /\ 1 \in 1 .. Len(queue) /\ Head(queue) = h
    BY <2>1, OrderFacts, EmptySeq
  <2> QED
    BY <2>2, OrderFacts DEF MessageInv
<1>3. /\ N \in Nat /\ N < count /\ stream <= N + 1 /\ stream \in 1 .. count /\ count \in Nat
    BY <1>1, OrderFacts, ServerFollows DEF ServerInv
<1>4. /\ peers' \in Seq(Nat) /\ Len(peers') = N + 1
      /\ \A i \in 1 .. N : peers'[i] = peers[i]
      /\ peers'[N + 1] = h
    BY <1>1, <1>2, AppendProperties DEF ConnectTypes
<1> HIDE DEF h, N
<1>5. \A i \in 1 .. N + 1 : i \in 1 .. N \/ i = N + 1
    BY <1>3
<1>6. Behind \subseteq {stream} /\ (strays = 0 => Behind = {})
  <2>1. \A i \in 2 .. Len(queue) : i \in 1 .. Len(queue) /\ i # 1
    BY OrderFacts
  <2>2. \A i \in 2 .. Len(queue) : queue[i] \in {0, stream} /\ (h = 0 \/ queue[i] = 0)
    BY <1>2, <2>1 DEF MessageInv, h
  <2>3. Behind \subseteq {stream}
    BY <2>2 DEF Behind
  <2>4. strays = 0 => \A i \in 1 .. Len(queue) : queue[i] # 0
    BY DEF NoStraysInv
  <2>5. strays = 0 => ~ \E i \in 2 .. Len(queue) : TRUE
    BY <1>2, <2>1, <2>2, <2>4 DEF h
  <2> QED
    BY <2>3, <2>5 DEF Behind
<1>7. queue' \in Seq(Nat) /\ Len(queue') = 0
    BY <1>1, EmptySeq
<1>8. max_len_wait_for_reply' = max_len_wait_for_reply
    BY <1>1 DEF max_len_wait_for_reply
<1>9. ConnectTypes'
  <2>1. Len(peers') <= count
    BY <1>3, <1>4
  <2>2. swallowed' \subseteq 1 .. count
    <3>1. swallowed \subseteq 1 .. count
      BY DEF ConnectTypes, ConnectTypeOK
    <3> QED
      BY <1>1, <1>3, <1>6, <3>1
  <2> QED
    BY <1>1, <1>4, <1>7, <1>8, <2>1, <2>2 DEF ConnectTypes, ConnectTypeOK
<1>10. MessageInv'
  <2>1. msgs # {} => \A i \in 1 .. N + 1 : peers'[i] # stream
    BY <1>2, <1>4, <1>5 DEF MessageInv, N
  <2> QED
    BY <1>1, <1>4, <1>7, <2>1 DEF MessageInv
<1>11. AnswerInv'
  <2>1. ASSUME NEW k, Answered(k)
        PROVE  Answered(k)'
    <3>1. PICK i \in 1 .. N : peers[i] = k
      BY <2>1 DEF Answered, N
    <3>2. i \in 1 .. N + 1 /\ i # N + 1 /\ peers'[i] = k
      BY <1>3, <1>4, <3>1
    <3> QED
      BY <1>4, <3>2 DEF Answered
  <2> QED
    BY <1>1, <2>1 DEF AnswerInv
<1>12. h = N + 1 => \A j \in 1 .. N : peers[j] = j
  <2> SUFFICES ASSUME h = N + 1, N >= 1
               PROVE  \A j \in 1 .. N : peers[j] = j
    BY <1>3
  <2>1. N \in 1 .. stream /\ N < stream
    BY <1>2, <1>3
  <2>2. PICK i \in 1 .. N : peers[i] = N
    BY <2>1 DEF AnswerInv, Answered, N
  <2>3. i = N
    <3>1. peers[i] <= i
      BY DEF PeersInv, N
    <3> QED
      BY <1>3, <2>2, <3>1
  <2> QED
    BY <2>2, <2>3 DEF PeersInv, N
<1>13. PeersInv'
  <2>1. ASSUME NEW i \in 1 .. N + 1
        PROVE  /\ peers'[i] <= stream /\ peers'[i] <= i
               /\ peers'[i] = stream => cpc # "dial"
               /\ peers'[i] = i => \A j \in 1 .. i : peers'[j] = j
    <3>1. CASE i \in 1 .. N
      <4>1. /\ peers'[i] = peers[i] /\ peers[i] <= stream /\ peers[i] <= i
            /\ peers[i] = stream => cpc # "dial"
            /\ peers[i] = i => \A j \in 1 .. i : peers[j] = j
        BY <1>4, <3>1 DEF PeersInv, N
      <4>2. \A j \in 1 .. i : j \in 1 .. N
        BY <1>3, <3>1
      <4> QED
        BY <1>4, <4>1, <4>2
    <3>2. CASE i = N + 1
      <4>1. peers'[i] = h
        BY <1>4, <3>2
      <4>2. h <= stream /\ h <= i /\ (h = stream => cpc # "dial")
        BY <1>2, <1>3, <3>2
      <4>3. h = i => \A j \in 1 .. i : peers'[j] = j
        BY <1>4, <1>5, <1>12, <3>2
      <4> QED
        BY <4>1, <4>2, <4>3
    <3> QED
      BY <1>5, <3>1, <3>2
  <2> QED
    BY <1>1, <1>4, <2>1 DEF PeersInv
<1>14. ServerInv'
    BY <1>1, <1>3, <1>4 DEF ServerInv
<1>15. NoStraysInv'
  <2> SUFFICES ASSUME strays = 0
               PROVE  /\ \A i \in 1 .. N + 1 : peers'[i] = i
                      /\ swallowed' = {} /\ refused' = {}
    BY <1>1, <1>4, <1>7 DEF NoStraysInv
  <2>1. swallowed' = {} /\ refused' = {}
    BY <1>1, <1>6 DEF NoStraysInv
  <2>2. h = stream /\ \A i \in 1 .. N : peers[i] = i
    BY <1>2 DEF NoStraysInv, h, N
  <2>3. h = N + 1
    <3>1. stream \notin 1 .. N
      BY <1>2, <2>2
    <3> QED
      BY <1>3, <2>2, <3>1
  <2> QED
    BY <1>4, <1>5, <2>1, <2>2, <2>3
<1>16. PatienceInv'
    BY <1>1, <1>8 DEF PatienceInv
<1> QED
    BY <1>9, <1>10, <1>11, <1>13, <1>14, <1>15, <1>16

(* The other steps of the server leave its sockets alone.                  *)
LEMMA OrderServer == OrderInv /\ (Recvfrom \/ Announce \/ Reply \/ ServerEnds) => OrderInv'
<1> SUFFICES ASSUME OrderInv, Recvfrom \/ Announce \/ Reply \/ ServerEnds PROVE OrderInv'
    OBVIOUS
<1> USE DEF OrderInv
<1>1. /\ UNCHANGED <<count, umode, cpc, stream, got, cause, peers, msgs, refused, swallowed, strays>>
      /\ \/ /\ spc = "select" /\ spc' = "connect" /\ queue # <<>> /\ queue' = queue
            /\ replies' = replies
         \/ spc = "announce" /\ spc' = "reply" /\ queue' = queue /\ replies' = replies
         \/ /\ spc = "reply" /\ replies' = replies \cup ({peers[Len(peers)]} \ {0})
            /\ \/ Len(peers) = count /\ spc' = "done" /\ queue' = <<>>
               \/ Len(peers) # count /\ spc' = "select" /\ queue' = queue
         \/ spc = "select" /\ spc' = "failed" /\ queue' = <<>> /\ replies' = replies
    BY DEF Recvfrom, Announce, Reply, ServerEnds, udptest, client, network
<1>2. max_len_wait_for_reply' = max_len_wait_for_reply
    BY <1>1 DEF max_len_wait_for_reply
<1>3. queue' = queue \/ (queue' = <<>> /\ Len(queue') = 0 /\ queue' \in Seq(Nat))
    BY <1>1, EmptySeq
<1>4. Len(peers) \in Nat /\ Len(peers) <= count /\ count \in Nat
    BY OrderFacts DEF ConnectTypes, ConnectTypeOK
<1>5. CASE spc = "reply"
  <2>1. /\ Len(peers) \in 1 .. Len(peers) /\ peers[Len(peers)] <= stream
        /\ peers[Len(peers)] \in Nat /\ stream \in 1 .. count
    BY <1>4, <1>5, OrderFacts DEF ServerInv, PeersInv
  <2>2. ConnectTypes'
    <3>1. replies' \subseteq 1 .. count
      BY <1>1, <1>4, <1>5, <2>1 DEF ConnectTypes, ConnectTypeOK
    <3> QED
      BY <1>1, <1>2, <1>3, <1>5, <3>1 DEF ConnectTypes, ConnectTypeOK
  <2>3. Answered(peers[Len(peers)])' /\ \A k : Answered(k) => Answered(k)'
    BY <1>1, <1>5, <2>1 DEF Answered
  <2>4. AnswerInv'
    BY <1>1, <1>5, <2>3 DEF AnswerInv
  <2>5. MessageInv'
    BY <1>1, <1>3 DEF MessageInv
  <2>6. PeersInv' /\ PatienceInv'
    BY <1>1, <1>2 DEF PeersInv, PatienceInv
  <2>7. ServerInv'
    BY <1>1, <1>4, <1>5 DEF ServerInv
  <2>8. NoStraysInv'
    BY <1>1, <1>3, <1>5 DEF NoStraysInv
  <2> QED
    BY <2>2, <2>4, <2>5, <2>6, <2>7, <2>8
<1>6. CASE spc # "reply"
  <2>1. ConnectTypes'
    BY <1>1, <1>2, <1>3, <1>6 DEF ConnectTypes, ConnectTypeOK
  <2>2. \A k : Answered(k) => Answered(k)'
    BY <1>1, <1>6 DEF Answered
  <2>3. AnswerInv'
    BY <1>1, <1>6, <2>2 DEF AnswerInv
  <2>4. MessageInv'
    BY <1>1, <1>3 DEF MessageInv
  <2>5. PeersInv' /\ PatienceInv'
    BY <1>1, <1>2 DEF PeersInv, PatienceInv
  <2>6. ServerInv'
    BY <1>1, <1>4, <1>6 DEF ServerInv
  <2>7. NoStraysInv'
    BY <1>1, <1>3, <1>6 DEF NoStraysInv
  <2> QED
    BY <2>1, <2>3, <2>4, <2>5, <2>6, <2>7
<1> QED
    BY <1>5, <1>6

(* A message that arrives is the current stream's.  Without strays there   *)
(* is a socket for it, unless the server has failed.                       *)
LEMMA OrderArrive ==
    ASSUME OrderInv, NEW k \in 1 .. count, Arrive(k)
    PROVE  OrderInv'
<1> USE DEF OrderInv
<1>1. /\ k = stream /\ k \in msgs /\ msgs' = {} /\ cpc \in {"wait", "failed"}
      /\ \A i \in 1 .. Len(peers) : peers[i] # stream
      /\ \A i \in 1 .. Len(queue) : queue[i] = 0
      /\ UNCHANGED <<count, umode, cpc, stream, got, cause, spc, peers, replies, swallowed, strays>>
    BY DEF Arrive, MessageInv, udptest, client
<1>2. /\ \/ Unconnected /\ queue' = Append(queue, stream) /\ refused' = refused
         \/ ~Unconnected /\ queue' = queue /\ refused' = refused \cup {stream}
      /\ stream \in 1 .. count /\ count \in Nat
    BY <1>1, OrderFacts DEF Arrive
<1>3. /\ queue' = queue \/ queue' = Append(queue, stream)
      /\ queue' \in Seq(Nat)
      /\ \A i \in 1 .. Len(queue') : queue'[i] = 0 \/ (i = Len(queue) + 1 /\ queue'[i] = stream)
      /\ queue # <<>> => queue' # <<>>
      /\ queue' # queue => Len(queue') = Len(queue) + 1 /\ queue'[Len(queue) + 1] = stream
  <2>1. CASE queue' = queue
    BY <1>1, <2>1 DEF ConnectTypes
  <2>2. CASE queue' = Append(queue, stream)
    <3>1. /\ queue' \in Seq(Nat) /\ queue' # <<>> /\ Len(queue') = Len(queue) + 1
          /\ \A i \in 1 .. Len(queue) : queue'[i] = queue[i]
          /\ queue'[Len(queue) + 1] = stream
      BY <1>2, <2>2, AppendProperties DEF ConnectTypes
    <3>2. \A i \in 1 .. Len(queue') : i \in 1 .. Len(queue) \/ i = Len(queue) + 1
      BY <3>1, OrderFacts
    <3> QED
      BY <1>1, <2>2, <3>1, <3>2
  <2> QED
    BY <1>2, <2>1, <2>2
<1>4. max_len_wait_for_reply' = max_len_wait_for_reply
    BY <1>1 DEF max_len_wait_for_reply
<1>5. ConnectTypes'
  <2>1. msgs' \cup refused' \subseteq 1 .. count
    BY <1>1, <1>2 DEF ConnectTypes, ConnectTypeOK
  <2> QED
    BY <1>1, <1>3, <1>4, <2>1 DEF ConnectTypes, ConnectTypeOK
<1>6. MessageInv'
  <2>1. \A i \in 1 .. Len(queue') : queue'[i] \in {0, stream}
    BY <1>3
  <2>2. \A i, j \in 1 .. Len(queue') : i # j => queue'[i] = 0 \/ queue'[j] = 0
    BY <1>3
  <2> QED
    BY <1>1, <2>1, <2>2 DEF MessageInv
<1>7. AnswerInv'
    BY <1>1 DEF AnswerInv, Answered
<1>8. PeersInv' /\ PatienceInv'
    BY <1>1, <1>4 DEF PeersInv, PatienceInv
<1>9. ServerInv'
    BY <1>1, <1>3 DEF ServerInv
<1>10. NoStraysInv'
  <2> SUFFICES ASSUME strays = 0
               PROVE  /\ \A i \in 1 .. Len(queue') : queue'[i] # 0
                      /\ refused' # {} => spc = "failed"
    BY <1>1 DEF NoStraysInv
  <2>1. /\ \A i \in 1 .. Len(peers) : peers[i] = i
        /\ \A i \in 1 .. Len(queue) : queue[i] # 0
        /\ refused # {} => spc = "failed"
    BY DEF NoStraysInv
  <2>2. \A i \in 1 .. Len(queue') : queue'[i] # 0
    BY <1>1, <1>2, <1>3, <2>1, OrderFacts
  <2>3. CASE Unconnected
    BY <1>2, <2>1, <2>2, <2>3
  <2>4. CASE spc = "failed"
    BY <2>2, <2>4
  (* The server has taken the streams before this one, and not this one.   *)
  <2>5. Len(peers) = stream - 1
    <3>1. stream \notin 1 .. Len(peers)
      BY <1>1, <2>1
    <3> QED
      BY <1>2, <3>1, OrderFacts, ServerFollows
  <2>6. spc # "done"
    BY <1>2, <2>5 DEF ServerInv
  <2>7. spc # "announce"
    <3> SUFFICES ASSUME spc = "announce" PROVE FALSE
      OBVIOUS
    <3>1. Len(peers) >= 1 /\ Len(peers) \in 1 .. stream /\ Len(peers) < stream
      BY <1>2, <2>5, OrderFacts DEF ServerInv
    <3>2. Answered(Len(peers))
      BY <3>1 DEF AnswerInv
    <3>3. PICK i \in 1 .. Len(peers) : peers[i] = Len(peers) /\ i # Len(peers)
      BY <3>2 DEF Answered
    <3> QED
      BY <2>1, <3>3
  <2> QED
    BY <2>2, <2>3, <2>4, <2>6, <2>7 DEF Unconnected, ConnectTypes, ConnectTypeOK
<1> QED
    BY <1>5, <1>6, <1>7, <1>8, <1>9, <1>10

LEMMA OrderStray == OrderInv /\ Stray => OrderInv'
<1> SUFFICES ASSUME OrderInv, Stray PROVE OrderInv'
    OBVIOUS
<1> USE DEF OrderInv
<1>1. /\ strays' = strays + 1 /\ queue' = Append(queue, 0)
      /\ UNCHANGED <<count, umode, cpc, stream, got, cause, spc, peers, msgs, replies, refused,
                     swallowed>>
    BY DEF Stray, udptest, client
<1>2. /\ queue' \in Seq(Nat) /\ queue' # <<>> /\ Len(queue') = Len(queue) + 1
      /\ \A i \in 1 .. Len(queue) : queue'[i] = queue[i]
      /\ queue'[Len(queue) + 1] = 0
    BY <1>1, AppendProperties DEF ConnectTypes
<1>3. \A i \in 1 .. Len(queue') : (i \in 1 .. Len(queue) /\ queue'[i] = queue[i]) \/ queue'[i] = 0
  <2>1. \A i \in 1 .. Len(queue') : i \in 1 .. Len(queue) \/ i = Len(queue) + 1
    BY <1>2, OrderFacts
  <2> QED
    BY <1>2, <2>1
<1>4. max_len_wait_for_reply' = max_len_wait_for_reply
    BY <1>1 DEF max_len_wait_for_reply
<1>5. ConnectTypes' /\ strays' # 0
    BY <1>1, <1>2, <1>4 DEF ConnectTypes, ConnectTypeOK
<1>6. MessageInv'
  <2>1. stream # 0
    BY OrderFacts
  <2>2. \A i \in 1 .. Len(queue') :
          /\ queue'[i] \in {0, stream}
          /\ queue'[i] = stream => /\ cpc \in {"wait", "failed"} /\ msgs = {}
                                   /\ \A j \in 1 .. Len(peers) : peers[j] # stream
    BY <1>3, <2>1 DEF MessageInv
  <2>3. \A i, j \in 1 .. Len(queue') : i # j => queue'[i] = 0 \/ queue'[j] = 0
    BY <1>3 DEF MessageInv
  <2> QED
    BY <1>1, <2>2, <2>3 DEF MessageInv
<1>7. AnswerInv'
    BY <1>1 DEF AnswerInv, Answered
<1>8. PeersInv' /\ PatienceInv'
    BY <1>1, <1>4 DEF PeersInv, PatienceInv
<1>9. ServerInv' /\ NoStraysInv'
    BY <1>1, <1>2, <1>5 DEF ServerInv, NoStraysInv
<1> QED
    BY <1>5, <1>6, <1>7, <1>8, <1>9

LEMMA OrderLose ==
    ASSUME OrderInv, NEW k \in 1 .. count, LoseMessage(k)
    PROVE  OrderInv'
<1> USE DEF OrderInv
<1>1. /\ msgs' \subseteq msgs /\ replies' \subseteq replies
      /\ UNCHANGED <<count, umode, cpc, stream, got, cause, spc, peers, queue, refused, swallowed,
                     strays>>
    BY DEF LoseMessage, udptest, client
<1>2. max_len_wait_for_reply' = max_len_wait_for_reply
    BY <1>1 DEF max_len_wait_for_reply
<1>3. ConnectTypes'
    BY <1>1, <1>2 DEF ConnectTypes, ConnectTypeOK
<1>4. MessageInv'
    BY <1>1 DEF MessageInv
<1>5. AnswerInv'
    BY <1>1 DEF AnswerInv, Answered
<1>6. PeersInv' /\ PatienceInv' /\ ServerInv' /\ NoStraysInv'
    BY <1>1, <1>2 DEF PeersInv, PatienceInv, ServerInv, NoStraysInv
<1> QED
    BY <1>3, <1>4, <1>5, <1>6

LEMMA OrderStep == OrderInv /\ [TestNext]_tvars => OrderInv'
<1> SUFFICES ASSUME OrderInv, [TestNext]_tvars PROVE OrderInv'
    OBVIOUS
<1>1. CASE UNCHANGED cvars
    BY <1>1 DEF cvars, udptest, client, network, OrderInv, ConnectTypes, ConnectTypeOK, MessageInv,
        AnswerInv, Answered, PeersInv, ServerInv, NoStraysInv, PatienceInv,
        max_len_wait_for_reply
<1>2. CASE ConnectNext
    BY <1>2, OrderDial, OrderRecvReply, OrderFail, OrderConnect, OrderServer, OrderArrive,
        OrderStray, OrderLose DEF ConnectNext, Server
<1>3. CASE \E n \in transit : Overtake(n)
    BY <1>3, OrderFail DEF Overtake
<1> QED
    BY <1>1, <1>2, <1>3 DEF TestNext, SendData, TestRuns, Receive, Account, LoseData, tvars

-----------------------------------------------------------------------------
(* The socket buffers.                                                     *)

LEMMA MinOfTwo ==
    ASSUME NEW a \in Nat, NEW b \in Nat
    PROVE  Min({a, b}) \in Nat
<1>1. \E x \in {a, b} : \A y \in {a, b} : x <= y
    OBVIOUS
<1>2. Min({a, b}) \in {a, b}
    BY <1>1, Zenon DEF Min
<1> QED
    BY <1>2

LEMMA ActualNat ==
    ASSUME SizesInv, NEW side \in UdpSides, NEW size \in Nat
    PROVE  Actual(side, size) \in Nat
<1>1. kernel[side].usual \in Nat /\ kernel[side].most \in Nat
    BY DEF SizesInv
<1>2. Min({size, kernel[side].most}) \in Nat
    BY <1>1, MinOfTwo
<1> QED
    BY <1>1, <1>2 DEF Actual

(* iperf_udp_buffercheck accepts a default only when a block fits, and the *)
(* size that replaces a default is larger than a block.                    *)
LEMMA SizeSettled ==
    ASSUME SizesInv, NEW side \in UdpSides
    PROVE  /\ SizeFor(side) \in Nat /\ Actual(side, SizeFor(side)) \in Nat
           /\ asked = 0 =>
                /\ SizeFor(side) \in {0, BlockSize + UDP_BUFFER_EXTRA}
                /\ BuffersOk(side) => Actual(side, SizeFor(side)) >= BlockSize
<1> DEFINE b == bufsize[side]
           big == BlockSize + UDP_BUFFER_EXTRA
           size == SizeFor(side)
<1>1. BlockSize \in Nat /\ big \in Nat /\ big >= BlockSize /\ b \in Nat
    BY UdpConnectAssumption DEF SizesInv, UDP_BUFFER_EXTRA
<1>2. size = b \/ (size = big /\ b = 0)
    BY DEF SizeFor
<1>3. /\ Actual(side, 0) \in Nat /\ Actual(side, size) \in Nat /\ size \in Nat
      /\ Actual(side, b) \in Nat
    BY <1>1, <1>2, ActualNat
<1>4. ASSUME asked = 0
      PROVE  size \in {0, big}
    BY <1>2, <1>4 DEF SizesInv
<1>5. ASSUME asked = 0, BuffersOk(side)
      PROVE  Actual(side, size) >= BlockSize
  <2>1. ~(size > Actual(side, size))
    BY <1>5 DEF BuffersOk, iperf_udp_buffercheck
  <2>2. CASE size = big
    BY <1>1, <1>3, <2>1, <2>2
  <2>3. CASE size = 0 /\ size # big
    <3>1. b = 0 /\ iperf_udp_buffercheck(side, 0) # 1
      BY <1>2, <2>3 DEF SizeFor
    <3>2. ~(0 > Actual(side, 0))
      BY <1>3
    <3>3. ~(BlockSize > Actual(side, 0))
      BY <3>1, <3>2 DEF iperf_udp_buffercheck
    <3> QED
      BY <1>1, <1>3, <2>3, <3>3
  <2> QED
    BY <1>4, <1>5, <2>2, <2>3
<1> QED
    BY <1>3, <1>4, <1>5

LEMMA SetBuffersKeeps ==
    ASSUME SizesInv, NEW side \in UdpSides, SetBuffers(side), UNCHANGED <<asked, kernel>>
    PROVE  /\ SizesInv'
           /\ \A other \in UdpSides \ {side} : buffer'[other] = buffer[other]
           /\ BuffersOk(side) => Len(buffer'[side]) = Len(buffer[side]) + 1
<1>1. /\ bufsize' = [bufsize EXCEPT ![side] = SizeFor(side)]
      /\ BuffersOk(side) =>
            buffer' = [buffer EXCEPT ![side] = Append(buffer[side], Actual(side, SizeFor(side)))]
      /\ ~BuffersOk(side) => buffer' = buffer
    BY DEF SetBuffers
<1>2. /\ SizeFor(side) \in Nat /\ Actual(side, SizeFor(side)) \in Nat
      /\ asked = 0 =>
           /\ SizeFor(side) \in {0, BlockSize + UDP_BUFFER_EXTRA}
           /\ BuffersOk(side) => Actual(side, SizeFor(side)) >= BlockSize
    BY SizeSettled
<1>3. /\ bufsize' \in [UdpSides -> Nat]
      /\ asked = 0 => \A s \in UdpSides : bufsize'[s] \in {0, BlockSize + UDP_BUFFER_EXTRA}
    BY <1>1, <1>2 DEF SizesInv
<1>4. CASE ~BuffersOk(side)
    BY <1>1, <1>3, <1>4 DEF SizesInv
<1>5. CASE BuffersOk(side)
  <2> DEFINE old == buffer[side]
             e == Actual(side, SizeFor(side))
  <2>1. old \in Seq(Nat) /\ e \in Nat /\ Len(old) \in Nat /\ (asked = 0 => e >= BlockSize)
    BY <1>2, <1>5, LenProperties DEF SizesInv
  <2>2. buffer' = [buffer EXCEPT ![side] = Append(old, e)]
    BY <1>1, <1>5
  <2> HIDE DEF e
  <2>3. /\ Append(old, e) \in Seq(Nat) /\ Len(Append(old, e)) = Len(old) + 1
        /\ \A k \in 1 .. Len(old) : Append(old, e)[k] = old[k]
        /\ Append(old, e)[Len(old) + 1] = e
    BY <2>1, AppendProperties
  <2>4. /\ buffer' \in [UdpSides -> Seq(Nat)] /\ buffer'[side] = Append(old, e)
        /\ \A other \in UdpSides \ {side} : buffer'[other] = buffer[other]
    BY <2>2, <2>3 DEF SizesInv
  <2>5. ASSUME asked = 0, NEW s \in UdpSides, NEW k \in 1 .. Len(buffer'[s])
        PROVE  buffer'[s][k] >= BlockSize
    <3>1. CASE s # side
      BY <2>4, <2>5, <3>1 DEF SizesInv
    <3>2. CASE s = side
      <4>1. k \in 1 .. Len(old) \/ k = Len(old) + 1
        BY <2>1, <2>3, <2>4, <2>5, <3>2
      <4>2. \A j \in 1 .. Len(old) : old[j] >= BlockSize
        BY <2>5 DEF SizesInv
      <4> QED
        BY <2>1, <2>3, <2>4, <2>5, <3>2, <4>1, <4>2
    <3> QED
      BY <3>1, <3>2
  <2>6. SizesInv'
    BY <1>3, <2>4, <2>5 DEF SizesInv
  <2> QED
    BY <2>3, <2>4, <2>6
<1> QED
    BY <1>4, <1>5

LEMMA BuffersInit == TestInit => BuffersInv
<1> SUFFICES ASSUME TestInit PROVE BuffersInv
    OBVIOUS
<1>1. ConnectInit
    BY DEF TestInit
<1>2. /\ asked \in Nat /\ kernel \in [UdpSides -> [usual : Nat, most : Nat]]
      /\ bufsize = [side \in UdpSides |-> asked] /\ buffer = [side \in UdpSides |-> <<>>]
      /\ cpc = "dial" /\ stream = 1 /\ peers = <<>>
    BY <1>1, UdpConnectAssumption DEF ConnectInit
<1>3. <<>> \in Seq(Nat) /\ Len(<<>>) = 0
    BY EmptySeq
<1>4. /\ bufsize \in [UdpSides -> Nat] /\ buffer \in [UdpSides -> Seq(Nat)]
      /\ \A side \in UdpSides : bufsize[side] = asked /\ Len(buffer[side]) = 0
    BY <1>2, <1>3
<1>5. SizesInv
    BY <1>2, <1>4 DEF SizesInv
<1> QED
    BY <1>2, <1>3, <1>4, <1>5 DEF BuffersInv, UdpSides

LEMMA BuffersStep == OrderInv /\ BuffersInv /\ [TestNext]_tvars => BuffersInv'
<1> SUFFICES ASSUME OrderInv, BuffersInv, [TestNext]_tvars PROVE BuffersInv'
    OBVIOUS
<1> USE DEF BuffersInv
<1>1. stream \in Nat /\ Len(peers) \in Nat /\ "c" \in UdpSides /\ "s" \in UdpSides
    BY OrderFacts DEF UdpSides
<1>2. CASE /\ UNCHANGED <<asked, kernel, bufsize, buffer, cpc, stream, peers>>
           /\ spc' # "failed" => spc # "failed"
    BY <1>2 DEF SizesInv
<1>3. CASE Dial
  <2>1. SetBuffers("c") /\ UNCHANGED <<asked, kernel, stream, spc, peers>>
    BY <1>3 DEF Dial, udptest
  <2>2. /\ SizesInv' /\ buffer'["s"] = buffer["s"]
        /\ BuffersOk("c") => Len(buffer'["c"]) = Len(buffer["c"]) + 1
    BY <1>1, <2>1, SetBuffersKeeps DEF UdpSides
  <2>3. cpc' \in {"wait", "done"} => Len(buffer'["c"]) = stream'
    BY <1>1, <1>3, <2>1, <2>2 DEF Dial
  <2> QED
    BY <1>3, <2>1, <2>2, <2>3 DEF Dial
<1>4. CASE RecvReply
  <2>1. /\ cpc = "wait" /\ UNCHANGED <<asked, kernel, bufsize, buffer, spc, peers>>
        /\ \/ cpc' = "done" /\ stream' = stream
           \/ cpc' = "dial" /\ stream' = stream + 1
    BY <1>4 DEF RecvReply, udptest
  <2>2. SizesInv'
    BY <2>1 DEF SizesInv
  <2> QED
    BY <1>1, <2>1, <2>2
<1>5. CASE RecvRefused \/ RecvTimeout \/ RecvOther
  <2>1. /\ cpc = "wait" /\ cpc' \in {"wait", "failed"}
        /\ UNCHANGED <<asked, kernel, bufsize, buffer, stream, spc, peers>>
    BY <1>5 DEF RecvRefused, RecvTimeout, RecvOther, udptest
  <2>2. SizesInv'
    BY <2>1 DEF SizesInv
  <2> QED
    BY <2>1, <2>2
<1>6. CASE Connect
  <2>1. /\ SetBuffers("s") /\ UNCHANGED <<asked, kernel, cpc, stream>>
        /\ spc = "connect" /\ peers' = Append(peers, Head(queue))
        /\ spc' = IF BuffersOk("s") THEN "announce" ELSE "failed"
    BY <1>6 DEF Connect, udptest, client
  <2>2. /\ SizesInv' /\ buffer'["c"] = buffer["c"]
        /\ BuffersOk("s") => Len(buffer'["s"]) = Len(buffer["s"]) + 1
    BY <1>1, <2>1, SetBuffersKeeps DEF UdpSides
  <2>3. Len(peers') = Len(peers) + 1
    <3>1. queue \in Seq(Nat) /\ queue # <<>> /\ peers \in Seq(Nat)
      BY <2>1 DEF OrderInv, ConnectTypes, ServerInv
    <3>2. Head(queue) \in Nat
      BY <3>1, EmptySeq
    <3> QED
      BY <2>1, <3>1, <3>2, AppendProperties
  <2>4. spc' # "failed" => Len(buffer'["s"]) = Len(peers')
    BY <2>1, <2>2, <2>3
  <2> QED
    BY <2>1, <2>2, <2>4
<1>7. CASE Recvfrom \/ Announce \/ Reply \/ ServerEnds
    BY <1>2, <1>7 DEF Recvfrom, Announce, Reply, ServerEnds, udptest, client
<1>8. ASSUME NEW k \in 1 .. count, Arrive(k) \/ LoseMessage(k)
      PROVE  BuffersInv'
    BY <1>2, <1>8 DEF Arrive, LoseMessage, udptest, client
<1>9. CASE Stray
    BY <1>2, <1>9 DEF Stray, udptest, client
<1>10. CASE UNCHANGED cvars
    BY <1>2, <1>10 DEF cvars, udptest, client
<1>11. CASE ConnectNext
    BY <1>3, <1>4, <1>5, <1>6, <1>7, <1>8, <1>9, <1>11 DEF ConnectNext, Server
<1>12. CASE \E n \in transit : Overtake(n)
    BY <1>5, <1>12 DEF Overtake
<1> QED
    BY <1>10, <1>11, <1>12 DEF TestNext, SendData, TestRuns, Receive, Account, LoseData, tvars

-----------------------------------------------------------------------------
LEMMA TestInvariant == TestSpec => [](AccountInv /\ OrderInv /\ BuffersInv)
<1>1. TestInit => AccountInv /\ OrderInv /\ BuffersInv
    BY AccountInit, OrderInit, BuffersInit
<1>2. AccountInv /\ OrderInv /\ BuffersInv /\ [TestNext]_tvars
      => (AccountInv /\ OrderInv /\ BuffersInv)'
    BY AccountStep, OrderStep, BuffersStep
<1> QED
    BY <1>1, <1>2, PTL DEF TestSpec

(* iperf_udp_recv's cnt_error is the number of datagrams that were sent    *)
(* before the last one seen and not counted, whatever was lost, overtaken  *)
(* or read by iperf_udp_connect, for any number of datagrams below the     *)
(* limit of the counter in them.                                           *)
THEOREM LossIsExact == TestSpec => []LossCounted
<1>1. AccountInv /\ OrderInv => LossCounted
    BY DEF AccountInv, OrderInv, ConnectTypes, LossCounted, LossExact, LossInv, Highmost
<1> QED
    BY TestInvariant, <1>1, PTL

(* Whatever the worker of iperf_udp_recv does between two reads of its     *)
(* counters in iperf_stats_callback and iperf_reset_stats, intervals do    *)
(* not claim more packets than there were, nor the report more losses than *)
(* packets.                                                                *)
THEOREM ReportsAreBounded == TestSpec => []ReportsBounded
<1>1. AccountInv => ReportsBounded
    BY DEF AccountInv, ForwardInv, OmitInv, Covered, ReportsBounded, LossAtMostPackets
<1> QED
    BY TestInvariant, <1>1, PTL

(* iperf_udp_accept and iperf_udp_connect end up with the same streams in  *)
(* the same order, however many strays were accepted as streams on the     *)
(* way, and a block fits into the buffers iperf chose.                     *)
THEOREM StreamsAreMatched == TestSpec => []StreamsMatched
<1>1. OrderInv /\ BuffersInv => StreamsMatched
  <2> SUFFICES ASSUME OrderInv, BuffersInv, cpc = "done", spc = "done"
               PROVE  /\ peers = [k \in 1 .. count |-> k]
                      /\ asked = 0 => \A side \in UdpSides, k \in 1 .. count :
                                        buffer[side][k] >= BlockSize
    BY DEF StreamsMatched
  <2>1. /\ stream = count /\ Len(peers) = count /\ count \in Nat \ {0} /\ count \in 1 .. stream
        /\ peers \in Seq(Nat)
    BY OrderFacts DEF OrderInv, ServerInv, ConnectTypes
  (* The last stream has a socket, which can only be the last one.         *)
  <2>2. PICK i \in 1 .. count : peers[i] = count
    BY <2>1 DEF OrderInv, AnswerInv, Answered
  <2>3. i = count
    <3>1. peers[i] <= i
      BY <2>1 DEF OrderInv, PeersInv
    <3> QED
      BY <2>1, <2>2, <3>1
  <2>4. \A j \in 1 .. count : peers[j] = j
    BY <2>1, <2>2, <2>3 DEF OrderInv, PeersInv
  <2>5. peers = [k \in 1 .. count |-> k]
    <3>1. peers \in [1 .. count -> Nat]
      BY <2>1, LenProperties
    <3> QED
      BY <2>4, <3>1
  <2>6. Len(buffer["c"]) = count /\ Len(buffer["s"]) = count
    BY <2>1 DEF BuffersInv
  <2>7. asked = 0 => \A side \in UdpSides, k \in 1 .. count : buffer[side][k] >= BlockSize
    BY <2>6 DEF BuffersInv, SizesInv, UdpSides
  <2> QED
    BY <2>5, <2>7
<1> QED
    BY TestInvariant, <1>1, PTL

(* Without strays iperf_udp_accept is ready for every connect message, and *)
(* iperf_udp_connect of a reverse test does not fail for the packets that  *)
(* iperf.h says may overtake a reply.                                      *)
THEOREM FailuresHaveCause == TestSpec => []FailsForCause
<1>1. OrderInv => FailsForCause
  <2> SUFFICES ASSUME OrderInv PROVE FailsForCause
    OBVIOUS
  <2>1. strays = 0 => swallowed = {} /\ (refused # {} => spc = "failed")
    BY DEF OrderInv, NoStraysInv
  <2>2. cause = "data" /\ umode = "RECEIVER" => got > MAX_REVERSE_OUT_OF_ORDER_PACKETS
    BY UdpConnectAssumption
    DEF OrderInv, PatienceInv, max_len_wait_for_reply, MAX_REVERSE_OUT_OF_ORDER_PACKETS
  <2> QED
    BY <2>1, <2>2 DEF FailsForCause
<1> QED
    BY TestInvariant, <1>1, PTL
=============================================================================
