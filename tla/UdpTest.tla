------------------------------- MODULE UdpTest -------------------------------
(***************************************************************************)
(* A UDP test from its connect messages to its loss reports: UdpConnect,   *)
(* and UdpStream for the first stream that carries data.  They meet where  *)
(* the server starts to send before the client has seen its reply, and the *)
(* client takes data packets for replies.                                  *)
(***************************************************************************)
EXTENDS UdpConnect, UdpStream

CONSTANT Packets    \* Packets[n]: bound on the datagrams of a test with n streams

ASSUME UdpTestAssumption == Packets \in [StreamCounts -> 0 .. MaxPackets]

tvars == <<cvars, vars>>

TestInit == ConnectInit /\ Init

(* The server sends once it has all its streams; the client waits for      *)
(* TEST_START, which comes after that, and so has all of its own.          *)
SenderStarted ==
    /\ spc = "done"
    /\ umode = "SENDER" => cpc = "done"

(* The receiver's main thread hears of TEST_RUNNING.                       *)
ReceiverStarted == cpc = "done" /\ spc = "done"

SendData == SenderStarted /\ sent < Packets[count] /\ Send /\ UNCHANGED cvars

TestRuns == ReceiverStarted /\ StartRunning /\ UNCHANGED cvars

(* The worker reads data only from a stream that is set up, ...            *)
Receive ==
    /\ ReceiverStarted
    /\ UNCHANGED cvars
    /\ \/ \E n \in transit : RecvEarly(n) \/ RecvForward(n) \/ RecvBackward(n)
       \/ Highest

(* ... and before that it is iperf_udp_connect of the last stream that     *)
(* gets it.                                                                *)
Overtake(n) ==
    /\ umode # "SENDER" /\ stream = count
    /\ RecvOther
    /\ RecvEarly(n)

Account == (Stats \/ StatsSave \/ ResetStats) /\ UNCHANGED cvars

LoseData(n) == Lose(n) /\ UNCHANGED cvars

TestNext ==
    \/ ConnectNext /\ UNCHANGED vars
    \/ SendData \/ TestRuns \/ Receive \/ Account
    \/ \E n \in transit : Overtake(n)
    \/ \E n \in transit : LoseData(n)

(* The kernel ends a recv() that has waited long enough.                   *)
TestSpec == TestInit /\ [][TestNext]_tvars
FairTestSpec ==
    /\ TestSpec
    /\ WF_tvars((Dial \/ RecvReply \/ RecvRefused \/ RecvTimeout) /\ UNCHANGED vars)

-----------------------------------------------------------------------------
(* What the receiver counts as lost is what the network lost, and what     *)
(* came before TEST_RUNNING, be it to iperf_udp_connect; nothing is        *)
(* counted that was not sent.                                              *)
LossCounted == ConnectTypeOK /\ TypeOK /\ LossExact

(* Interval and final reports with an omitted period, whose counters the   *)
(* main thread reads one by one while the worker goes on: intervals never  *)
(* add up to more packets than there were, and there is never more loss    *)
(* than packets.                                                           *)
ReportsBounded == LossAtMostPackets /\ IntervalsNeverExceed

(* Every iperf_udp_connect returns, whatever is lost, and the client gets  *)
(* through all of its streams or fails.                                    *)
ConnectReturns == <>(cpc \in {"done", "failed"})
=============================================================================
