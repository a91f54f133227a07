----------------------------- MODULE QuicStream ------------------------------
(***************************************************************************)
(* One QUIC data stream from its sending worker thread to its receiving    *)
(* worker thread (iperf_quic_send, iperf_quic_recv and stream_cb of        *)
(* src/iperf_quic.c; iperf_send_mt and iperf_recv_mt of src/iperf_api.c;   *)
(* the worker loops and the end of the test in src/iperf_client_api.c and  *)
(* src/iperf_server_api.c), for a test in which the client sends.          *)
(*                                                                         *)
(* At each end three threads share the stream's context: the worker, the   *)
(* MsQuic thread that runs stream_cb, and the main thread, which ends the  *)
(* worker with a flag, pthread_cancel and pthread_join.                    *)
(*                                                                         *)
(* The bytes of the stream are numbered 1, 2, ...; a block is Block bytes. *)
(* A worker is at one of                                                   *)
(*   loop    the worker's while          lock    about to take sc->lock    *)
(*   call    the for of iperf_send_mt    cond    holding it                *)
(*   submit  in StreamSend               asleep  in the timed wait         *)
(*   count   adding to the stream's bytes_sent                             *)
(*   ret     back in iperf_send_mt or at the end of iperf_quic_recv        *)
(*   out     the thread has ended                                          *)
(***************************************************************************)
EXTENDS Integers, SequencesExt

CONSTANTS
    Block,      \* settings->blksize, in bytes
    MaxPending, \* QUIC_MAX_PENDING_SENDS
    Multisend,  \* test->multisend
    MaxBlocks   \* bound: the blocks one test sends

ASSUME QuicStreamAssumption ==
    {Block, MaxPending, Multisend, MaxBlocks} \subseteq Nat \ {0}

VARIABLES
    spc, rpc,       \* where the two workers are
    slock, rlock,   \* sc->lock of each end: is it held
    scancel,        \* the sending worker can be cancelled
    rcancel,        \* the receiving worker can be cancelled
    burst,          \* multisend of iperf_send_mt
    got,            \* what the receiving worker copied
    pending,        \* sc->pending_sends
    flight,         \* sends MsQuic has not completed yet
    submitted,      \* bytes given to StreamSend
    delivered,      \* bytes stream_cb has received
    chunks,         \* sc->head .. sc->tail, the bytes left in each
    queued,         \* sc->queued
    sfin, rfin,     \* sc->fin of each end
    sdone, rdone,   \* sp->done or test->done of each end
    rstate,         \* test->state of the receiving end
    conn,           \* the QUIC connection: up or shut
    bytes_sent,     \* of sp->result
    bytes_received  \* of sp->result

sender == <<spc, slock, scancel, burst>>
receiver == <<rpc, rlock, rcancel, got>>
sctx == <<pending, sfin>>
rctx == <<chunks, queued, rfin>>
net == <<flight, submitted, delivered, conn>>
ends == <<sdone, rdone, rstate>>
counts == <<bytes_sent, bytes_received>>
vars == <<sender, receiver, sctx, rctx, net, ends, counts>>

Pcs == {"loop", "call", "lock", "cond", "asleep", "submit", "count", "ret", "out"}

TypeOK ==
    /\ spc \in Pcs /\ rpc \in Pcs \ {"call", "submit", "count"}
    /\ {slock, rlock, scancel, rcancel, sfin, rfin, sdone, rdone} \subseteq BOOLEAN
    /\ burst \in 0 .. Multisend
    /\ got \in 0 .. Block
    /\ pending \in 0 .. MaxPending
    /\ {flight, submitted, delivered, queued, bytes_sent, bytes_received} \subseteq Nat
    /\ rstate \in {"TEST_RUNNING", "TEST_END"}
    /\ conn \in {"up", "shut"}

Init ==
    /\ spc = "loop" /\ rpc = "loop"
    /\ slock = FALSE /\ rlock = FALSE
    /\ scancel = TRUE /\ rcancel = TRUE
    /\ burst = 0 /\ got = 0
    /\ pending = 0 /\ flight = 0 /\ submitted = 0 /\ delivered = 0
    /\ chunks = <<>> /\ queued = 0
    /\ sfin = FALSE /\ rfin = FALSE /\ conn = "up"
    /\ sdone = FALSE /\ rdone = FALSE /\ rstate = "TEST_RUNNING"
    /\ bytes_sent = 0 /\ bytes_received = 0

-----------------------------------------------------------------------------
(* The sending worker.                                                     *)

(* The worker's while; each round is one iperf_send_mt.                    *)
SendLoop ==
    /\ spc = "loop"
    /\ spc' = IF sdone THEN "out" ELSE "call"
    /\ burst' = IF sdone THEN burst ELSE Multisend
    /\ UNCHANGED <<slock, scancel, receiver, sctx, rctx, net, ends, counts>>

(* The burst is over, or cut short because -n or -k is fulfilled, which    *)
(* iperf_send_mt looks at before every send but the last.                  *)
BurstOver == burst # 1 /\ spc' = "loop" /\ UNCHANGED scancel

(* The bound on what one test sends.                                       *)
Unfinished == submitted < MaxBlocks * Block \/ sdone

(* Faulty variant: the worker can be cancelled inside iperf_quic_send.     *)
CallCancellable ==
    /\ spc = "call"
    /\ \/ BurstOver
       \/ burst > 0 /\ Unfinished /\ spc' = "lock" /\ UNCHANGED scancel
    /\ UNCHANGED <<slock, burst, receiver, sctx, rctx, net, ends, counts>>

(* The for of iperf_send_mt calls iperf_quic_send, which begins by         *)
(* disabling cancellation.                                                 *)
SendCall ==
    /\ spc = "call"
    /\ \/ BurstOver
       \/ burst > 0 /\ Unfinished /\ spc' = "lock" /\ scancel' = FALSE
    /\ UNCHANGED <<slock, burst, receiver, sctx, rctx, net, ends, counts>>

SendLock ==
    /\ spc = "lock" /\ ~slock
    /\ spc' = "cond" /\ slock' = TRUE
    /\ UNCHANGED <<scancel, burst, receiver, sctx, rctx, net, ends, counts>>

(* The throttle: no more than MaxPending sends are in MsQuic.              *)
Throttled == pending >= MaxPending

(* The condition of the wait, under the lock: sleep, give up (0 bytes were *)
(* sent), or take a place among the pending sends.                         *)
SendCond ==
    /\ spc = "cond"
    /\ slock' = FALSE
    /\ \/ /\ Throttled /\ ~sfin /\ ~sdone
          /\ spc' = "asleep"
          /\ UNCHANGED <<scancel, pending>>
       \/ /\ sfin \/ sdone
          /\ spc' = "ret" /\ scancel' = TRUE
          /\ UNCHANGED pending
       \/ /\ ~Throttled /\ ~sfin /\ ~sdone
          /\ spc' = "submit"
          /\ pending' = pending + 1
          /\ UNCHANGED scancel
    /\ UNCHANGED <<burst, receiver, sfin, rctx, net, ends, counts>>

(* The 100 ms of the timed wait are over.                                  *)
SendTimeout ==
    /\ spc = "asleep"
    /\ spc' = "lock"
    /\ UNCHANGED <<slock, scancel, burst, receiver, sctx, rctx, net, ends, counts>>

(* StreamSend takes the block ...                                          *)
Accepted ==
    /\ spc = "submit" /\ conn = "up"
    /\ flight' = flight + 1
    /\ submitted' = submitted + Block
    /\ spc' = "count"
    /\ UNCHANGED <<delivered, conn, receiver, sctx, rctx, ends, counts>>

StreamSend ==
    /\ Accepted
    /\ UNCHANGED <<slock, scancel, burst>>

(* ... or fails (also on a stream that was just shut down): the worker     *)
(* ends, its place among the pending sends is not given back, and          *)
(* cancellation stays disabled.                                            *)
StreamSendFailed ==
    /\ spc = "submit"
    /\ spc' = "out"
    /\ UNCHANGED <<slock, scancel, burst, receiver, sctx, rctx, net, ends, counts>>

CountSent ==
    /\ spc = "count"
    /\ bytes_sent' = bytes_sent + Block
    /\ scancel' = TRUE
    /\ spc' = "ret"
    /\ UNCHANGED <<slock, burst, receiver, sctx, rctx, net, ends, bytes_received>>

(* The rest of an iteration of iperf_send_mt.  (The test's own totals,     *)
(* bytes_sent and blocks_sent, are not kept here.)                         *)
SendReturn ==
    /\ spc = "ret"
    /\ burst' = burst - 1
    /\ spc' = "call"
    /\ UNCHANGED <<slock, scancel, receiver, sctx, rctx, net, ends, counts>>

Sender == SendLoop \/ SendCall \/ SendLock \/ SendCond \/ SendTimeout
          \/ StreamSend \/ StreamSendFailed \/ CountSent \/ SendReturn

-----------------------------------------------------------------------------
(* The receiving worker.                                                   *)

RecvLoop ==
    /\ rpc = "loop"
    /\ IF rdone THEN rpc' = "out" /\ UNCHANGED rcancel
                ELSE rpc' = "lock" /\ rcancel' = FALSE
    /\ UNCHANGED <<rlock, got, sender, sctx, rctx, net, ends, counts>>

RecvLock ==
    /\ rpc = "lock" /\ ~rlock
    /\ rpc' = "cond" /\ rlock' = TRUE
    /\ UNCHANGED <<rcancel, got, sender, sctx, rctx, net, ends, counts>>

(* What is left of the chunks when n bytes have been copied: the ones      *)
(* copied to their end are gone, the first of the others is shorter.       *)
(* Faulty variant: a chunk copied in part is released.                     *)
AfterWhole(n) ==
    LET left == {i \in DOMAIN chunks : chunks[i].from >= Head(chunks).from + n}
    IN  IF left = {} THEN <<>> ELSE SubSeq(chunks, Min(left), Len(chunks))
AfterCopy(n) ==
    LET next == Head(chunks).from + n
        left == {i \in DOMAIN chunks : chunks[i].to >= next}
        c == chunks[Min(left)]
    IN  IF left = {} THEN <<>>
        ELSE [SubSeq(chunks, Min(left), Len(chunks)) EXCEPT
                ![1] = [from |-> IF c.from < next THEN next ELSE c.from, to |-> c.to]]

(* The condition of the wait and, when there is something, the copy of at  *)
(* most one block.                                                         *)
RecvCond ==
    /\ rpc = "cond"
    /\ rlock' = FALSE
    /\ \/ /\ queued = 0 /\ ~rfin /\ ~rdone
          /\ rpc' = "asleep"
          /\ UNCHANGED <<rcancel, got, chunks, queued>>
       \/ /\ queued = 0 /\ (rfin \/ rdone)
          /\ rpc' = "ret" /\ got' = 0 /\ rcancel' = TRUE
          /\ UNCHANGED <<chunks, queued>>
       \/ /\ queued > 0
          /\ got' = IF queued < Block THEN queued ELSE Block
          /\ chunks' = AfterCopy(got')
          /\ queued' = queued - got'
          /\ rpc' = "ret" /\ rcancel' = TRUE
    /\ UNCHANGED <<sender, sctx, rfin, net, ends, counts>>

(* Faulty variant: a wait without a deadline.                              *)
NoDeadline == FALSE
RecvDeadline == rpc = "asleep"

RecvTimeout ==
    /\ RecvDeadline
    /\ rpc' = "lock"
    /\ UNCHANGED <<rlock, rcancel, got, sender, sctx, rctx, net, ends, counts>>

(* Bytes count only while the test runs.                                   *)
RecvReturn ==
    /\ rpc = "ret"
    /\ bytes_received' = bytes_received
                         + (IF rstate = "TEST_RUNNING" THEN got ELSE 0)
    /\ rpc' = "loop"
    /\ UNCHANGED <<rlock, rcancel, got, sender, sctx, rctx, net, ends,
                   bytes_sent>>

Receiver == RecvLoop \/ RecvLock \/ RecvCond \/ RecvTimeout \/ RecvReturn

-----------------------------------------------------------------------------
(* stream_cb.                                                              *)

SenderWoken == spc' = IF spc = "asleep" THEN "lock" ELSE spc
ReceiverWoken == rpc' = IF rpc = "asleep" THEN "lock" ELSE rpc

(* Faulty variant: completions wake the worker and are not counted.        *)
CompleteUncounted ==
    /\ flight > 0 /\ ~slock
    /\ flight' = flight - 1
    /\ SenderWoken
    /\ UNCHANGED <<slock, scancel, burst, receiver, sctx, rctx, submitted,
                   delivered, conn, ends, counts>>

(* SEND_COMPLETE, also of a send that was cancelled.                       *)
SendComplete ==
    /\ flight > 0 /\ ~slock
    /\ flight' = flight - 1
    /\ pending' = IF pending > 0 THEN pending - 1 ELSE 0
    /\ SenderWoken
    /\ UNCHANGED <<slock, scancel, burst, receiver, sfin, rctx, submitted,
                   delivered, conn, ends, counts>>

(* RECEIVE: the stream's next bytes, in a buffer of MsQuic's choice.       *)
Receive(n) ==
    /\ conn = "up" /\ ~rlock
    /\ delivered + n <= submitted
    /\ delivered' = delivered + n
    /\ chunks' = Append(chunks, [from |-> delivered + 1, to |-> delivered + n])
    /\ queued' = queued + n
    /\ ReceiverWoken
    /\ UNCHANGED <<rlock, rcancel, got, sender, sctx, rfin, flight, submitted,
                   conn, ends, counts>>

(* The connection goes down by itself; each end learns it in its own time, *)
(* the sending one when its sends have been completed.                     *)
ConnLost ==
    /\ conn = "up"
    /\ conn' = "shut"
    /\ UNCHANGED <<sender, receiver, sctx, rctx, flight, submitted, delivered, ends, counts>>
SenderShutdown ==
    /\ conn = "shut" /\ ~sfin /\ ~slock /\ flight = 0
    /\ sfin' = TRUE
    /\ SenderWoken
    /\ UNCHANGED <<slock, scancel, burst, receiver, pending, rctx, net, ends, counts>>
ReceiverShutdown ==
    /\ conn = "shut" /\ ~rfin /\ ~rlock
    /\ rfin' = TRUE
    /\ ReceiverWoken
    /\ UNCHANGED <<rlock, rcancel, got, sender, sctx, chunks, queued, net, ends, counts>>

Callbacks ==
    \/ SendComplete
    \/ \E n \in 1 .. Block : Receive(n)
    \/ SenderShutdown
    \/ ReceiverShutdown

-----------------------------------------------------------------------------
(* The main threads.                                                       *)

(* The client ends the test: sp->done, then pthread_cancel, which takes    *)
(* effect wherever the worker can be cancelled.                            *)
EndTest ==
    /\ ~sdone
    /\ sdone' = TRUE
    /\ UNCHANGED <<sender, receiver, sctx, rctx, net, rdone, rstate, counts>>
SenderCancelled ==
    /\ sdone /\ scancel /\ spc # "out"
    /\ spc' = "out"
    /\ UNCHANGED <<slock, scancel, burst, receiver, sctx, rctx, net, ends, counts>>

(* pthread_join has returned and TEST_END was sent: the server is told,    *)
(* sets test->done and in cleanup_server cancels its worker.               *)
TestEnd ==
    /\ spc = "out" /\ sdone /\ rstate = "TEST_RUNNING"
    /\ rstate' = "TEST_END"
    /\ UNCHANGED <<sender, receiver, sctx, rctx, net, sdone, rdone, counts>>
ServerDone ==
    /\ rstate = "TEST_END" /\ ~rdone
    /\ rdone' = TRUE
    /\ UNCHANGED <<sender, receiver, sctx, rctx, net, sdone, rstate, counts>>
ReceiverCancelled ==
    /\ rdone /\ rcancel /\ rpc # "out"
    /\ rpc' = "out"
    /\ UNCHANGED <<rlock, rcancel, got, sender, sctx, rctx, net, ends, counts>>

Main == SenderCancelled \/ TestEnd \/ ServerDone \/ ReceiverCancelled

Next ==
    \/ Sender
    \/ Receiver
    \/ Callbacks
    \/ ConnLost
    \/ EndTest
    \/ Main

Spec == Init /\ [][Next]_vars
FairSpec ==
    /\ Spec
    /\ WF_vars(Sender) /\ WF_vars(Receiver)
    /\ WF_vars(TestEnd) /\ WF_vars(ServerDone)

-----------------------------------------------------------------------------
(* pending_sends is the number of sends MsQuic holds, with the one the     *)
(* worker is about to submit (StreamSend may complete the send before it   *)
(* returns).  Only a failed StreamSend, which ends the worker, loses a     *)
(* place.                                                                  *)
PendingMatches ==
    /\ TypeOK
    /\ spc # "out" => pending = flight + (IF spc = "submit" THEN 1 ELSE 0)
    /\ spc = "out" => pending \in flight .. flight + 1

(* A worker that is gone, by itself or cancelled, has not left its lock    *)
(* held: stream_cb, and with it the cleanup of the connection, never waits *)
(* for a thread that no longer exists.                                     *)
NoOrphanLock ==
    /\ slock => spc = "cond"
    /\ rlock => rpc = "cond"

(* The queue holds the bytes received and not yet copied, in order, once   *)
(* each, and queued is their number.                                       *)
QueueInOrder ==
    /\ \A i \in DOMAIN chunks :
         /\ chunks[i].from <= chunks[i].to
         /\ i < Len(chunks) => chunks[i + 1].from = chunks[i].to + 1
    /\ IF chunks = <<>> THEN queued = 0
       ELSE /\ Last(chunks).to = delivered
            /\ queued = delivered - Head(chunks).from + 1

(* Once the sending worker has ended, its bytes_sent is final and no       *)
(* smaller than what the other end counts: the worker cannot be cancelled  *)
(* between handing a block over and counting it, and the counts of the two *)
(* ends are about the same bytes.                                          *)
ReceivedWereSent ==
    /\ QueueInOrder
    /\ spc = "out" => bytes_received <= bytes_sent

(* pthread_join returns: workers that cannot be cancelled in the wait see  *)
(* the flag when the wait times out.                                       *)
WorkersEnd == (sdone ~> spc = "out") /\ (rdone ~> rpc = "out")
=============================================================================
