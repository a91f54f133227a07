------------------------------ MODULE UdpStream ------------------------------
(***************************************************************************)
(* The accounting of one UDP data stream (src/iperf_udp.c, with            *)
(* iperf_stats_callback and iperf_reset_stats of src/iperf_api.c).         *)
(*                                                                         *)
(* The sender numbers its datagrams; the network loses and reorders them.  *)
(* At the receiver the worker thread derives losses from the numbers while *)
(* the main thread, in its timers, reads the same counters without a lock  *)
(* to make the interval results and to remember what the omitted period    *)
(* has to be relieved of.  Each read and each write of a counter that the  *)
(* other thread can come between is a step.  Datagrams are not duplicated, *)
(* which is the assumption the code states.                                *)
(***************************************************************************)
EXTENDS Integers, FiniteSets

CONSTANTS
    MaxPackets,     \* bound: datagrams sent
    CounterLimit,   \* numbers in a datagram are below it: 2^32, or 2^64
    MaxIntervals    \* bound: interval reports

ASSUME UdpStreamAssumption ==
    {MaxPackets, CounterLimit, MaxIntervals} \subseteq Nat \ {0}

VARIABLES
    sent,           \* sp->packet_count of the sender
    out,            \* datagrams that were written to the network
    transit,        \* the ones still under way
    running,        \* the receiver's test->state is TEST_RUNNING
    counted,        \* datagrams the receiver took into account
    wpc, pcount,    \* the receiving worker: idle or gap; the number it has read
    packet_count, cnt_error,                \* of the receiver's stream
    mpc,            \* the main thread: idle, stats or omit
    omit,           \* the omit period: on, off
    omitted_packet_count, omitted_cnt_error,
    intervals,      \* interval results so far
    base,           \* packet_count of the last one
    total           \* sum of their interval_packet_count

source == <<sent, out>>
worker == <<counted, wpc, pcount, packet_count, cnt_error>>
omits == <<omit, omitted_packet_count, omitted_cnt_error>>
results == <<intervals, base, total>>
vars == <<source, transit, running, worker, mpc, omits, results>>

Init ==
    /\ sent = 0 /\ out = {} /\ transit = {}
    /\ running = FALSE
    /\ counted = {} /\ wpc = "idle" /\ pcount = 0
    /\ packet_count = 0 /\ cnt_error = 0
    /\ mpc = "idle"
    /\ omit = "on" /\ omitted_packet_count = 0 /\ omitted_cnt_error = 0
    /\ intervals = 0 /\ base = 0 /\ total = 0

(* In particular losses are never negative.                                *)
TypeOK ==
    /\ sent \in 0 .. MaxPackets
    /\ counted \subseteq out /\ transit \subseteq out /\ out \subseteq 1 .. sent
    /\ running \in BOOLEAN
    /\ wpc \in {"idle", "gap"} /\ mpc \in {"idle", "stats", "omit"}
    /\ omit \in {"on", "off"}
    /\ {pcount, packet_count, cnt_error, omitted_packet_count,
        omitted_cnt_error, intervals, base, total} \subseteq Nat

-----------------------------------------------------------------------------
(* iperf_udp_send: the number goes out with the datagram; a datagram that  *)
(* could not be written gives its number back.                             *)
GiveBack == sent' = sent
Send ==
    /\ sent < MaxPackets
    /\ \/ /\ sent' = sent + 1
          /\ out' = out \cup {sent + 1}
          /\ transit' = transit \cup {sent + 1}
       \/ GiveBack /\ UNCHANGED <<out, transit>>
    /\ UNCHANGED <<running, worker, mpc, omits, results>>

Lose(n) ==
    /\ n \in transit
    /\ transit' = transit \ {n}
    /\ UNCHANGED <<source, running, worker, mpc, omits, results>>

(* TEST_RUNNING reaches the receiver.                                      *)
StartRunning ==
    /\ ~running
    /\ running' = TRUE
    /\ UNCHANGED <<source, transit, worker, mpc, omits, results>>

-----------------------------------------------------------------------------
(* iperf_udp_recv.                                                         *)

(* A datagram that comes before TEST_RUNNING is not looked at.             *)
RecvEarly(n) ==
    /\ wpc = "idle" /\ ~running /\ n \in transit
    /\ transit' = transit \ {n}
    /\ UNCHANGED <<source, running, worker, mpc, omits, results>>

(* The number as it was sent, in network byte order.                       *)
OnWire(n) == n % CounterLimit

(* A number that goes forward: the gap counts as loss, then packet_count   *)
(* is the highest number seen.                                             *)
RecvForward(n) ==
    /\ wpc = "idle" /\ running /\ n \in transit
    /\ OnWire(n) >= packet_count + 1
    /\ pcount' = OnWire(n)
    /\ cnt_error' = cnt_error + (OnWire(n) - 1 - packet_count)
    /\ transit' = transit \ {n} /\ counted' = counted \cup {n}
    /\ wpc' = "gap"
    /\ UNCHANGED <<source, running, packet_count, mpc, omits, results>>
Highest ==
    /\ wpc = "gap"
    /\ packet_count' = pcount
    /\ wpc' = "idle"
    /\ UNCHANGED <<source, transit, running, counted, pcount, cnt_error, mpc,
                   omits, results>>

(* Any other number is out of order and takes a loss back, if there is one.*)
(* Faulty variant: a late datagram stays lost.                             *)
StillLost == cnt_error
TakenBack == IF cnt_error > 0 THEN cnt_error - 1 ELSE 0
RecvBackward(n) ==
    /\ wpc = "idle" /\ running /\ n \in transit
    /\ OnWire(n) < packet_count + 1
    /\ pcount' = OnWire(n)
    /\ cnt_error' = TakenBack
    /\ transit' = transit \ {n} /\ counted' = counted \cup {n}
    /\ UNCHANGED <<source, running, wpc, packet_count, mpc, omits, results>>

-----------------------------------------------------------------------------
(* The receiver's main thread, which interrupts the worker anywhere.       *)

(* iperf_stats_callback computes the interval from packet_count ...        *)
Stats ==
    /\ mpc = "idle" /\ running /\ intervals < MaxIntervals
    /\ total' = total + (packet_count - base)
    /\ intervals' = intervals + 1
    /\ mpc' = "stats"
    /\ UNCHANGED <<source, transit, running, worker, omits, base>>

(* ... and reads packet_count again to remember it.                        *)
NewBase == packet_count
StatsSave ==
    /\ mpc = "stats"
    /\ base' = NewBase
    /\ mpc' = "idle"
    /\ UNCHANGED <<source, transit, running, worker, omits, intervals, total>>

(* Faulty variant: losses are remembered before packets.                   *)
ErrorsFirst ==
    \/ /\ mpc = "idle" /\ omit = "on" /\ running
       /\ mpc' = "omit"
       /\ omitted_cnt_error' = cnt_error
       /\ UNCHANGED <<omitted_packet_count, omit>>
    \/ /\ mpc = "omit"
       /\ mpc' = "idle" /\ omit' = "off"
       /\ omitted_packet_count' = packet_count
       /\ UNCHANGED omitted_cnt_error

(* iperf_reset_stats, at the end of the omit period.                       *)
Remember ==
    \/ /\ mpc = "idle" /\ omit = "on" /\ running
       /\ mpc' = "omit"
       /\ omitted_packet_count' = packet_count
       /\ UNCHANGED <<omitted_cnt_error, omit>>
    \/ /\ mpc = "omit"
       /\ mpc' = "idle" /\ omit' = "off"
       /\ omitted_cnt_error' = cnt_error
       /\ UNCHANGED omitted_packet_count
ResetStats ==
    /\ Remember
    /\ UNCHANGED <<source, transit, running, worker, results>>

Next ==
    \/ Send
    \/ \E n \in transit : Lose(n)
    \/ StartRunning
    \/ \E n \in transit : RecvEarly(n)
    \/ \E n \in transit : RecvForward(n)
    \/ Highest
    \/ \E n \in transit : RecvBackward(n)
    \/ Stats
    \/ StatsSave
    \/ ResetStats

Spec == Init /\ [][Next]_vars

-----------------------------------------------------------------------------
(* The numbers in the datagrams have not wrapped around.                   *)
NoWrap == sent < CounterLimit

(* What the receiver reports as lost are exactly the datagrams that were   *)
(* sent before the last one it saw and that it did not count, whatever the *)
(* order of arrival; failed writes are no losses.  A datagram that came    *)
(* before TEST_RUNNING is among the lost ones.                             *)
LossExact ==
    wpc = "idle" /\ NoWrap =>
        cnt_error = Cardinality({n \in out \ counted : n <= packet_count})

(* The interval reports never claim more datagrams than there were, though *)
(* the worker may go on between the two reads of packet_count.             *)
IntervalsNeverExceed == total <= base + (IF mpc = "stats" THEN packet_count - base ELSE 0)

(* The final report of a test with an omit period never has more losses    *)
(* than datagrams: the two counters are read one after the other while the *)
(* worker goes on, and the order in which they are read and written is the *)
(* one that keeps the ratio at most 1.                                     *)
LossAtMostPackets ==
    wpc = "idle" /\ mpc = "idle" /\ omit = "off" /\ NoWrap =>
        cnt_error - omitted_cnt_error <= packet_count - omitted_packet_count
=============================================================================
