----------------------------- MODULE QuicAccept ------------------------------
(***************************************************************************)
(* How the data streams of a QUIC test reach the server and how they are   *)
(* released (src/iperf_quic.c, with the drain loop and the cleanup of      *)
(* src/iperf_server_api.c).                                                *)
(*                                                                         *)
(* Two threads meet here.  MsQuic's worker runs conn_cb and stream_cb: a   *)
(* stream the peer starts gets a context, is put on the accept queue and   *)
(* announced by a byte in a pipe.  The main thread sleeps in select() on   *)
(* the pipe, drains the queue, attaches the streams to iperf_streams, and  *)
(* in the end frees the contexts while callbacks may still be running.     *)
(*                                                                         *)
(* mpc is where the main thread is:                                        *)
(*   select    in select(), CREATE_STREAMS     read, deq  iperf_quic_accept*)
(*   attach    an id, not yet an iperf_stream  close      close_listener   *)
(*   running   the test                        walk, clear, conn, destroy  *)
(*                                                        iperf_quic_free_ *)
(*   ended     iperf_reset_test has run                   test             *)
(***************************************************************************)
EXTENDS Naturals, FiniteSets, SequencesExt

CONSTANTS
    Streams,    \* the streams the client of the test starts
    PipeSize,   \* how many bytes the pipe holds
    ConnLoss    \* TRUE when the QUIC connection may shut down by itself

ASSUME QuicAcceptAssumption ==
    /\ IsFiniteSet(Streams) /\ Streams # {}
    /\ PipeSize \in Nat \ {0}
    /\ ConnLoss \in BOOLEAN

VARIABLES
    started,    \* streams MsQuic has announced
    hopen,      \* streams whose MsQuic handle is open
    fin,        \* contexts whose fin flag is set
    aq,         \* ctx->ahead .. ctx->atail
    map,        \* ctx->map: the contexts that have an id and no iperf_stream
    data,       \* sp->data of the iperf_streams, oldest first
    freed,      \* contexts quic_sc_free was called for
    pipe,       \* bytes in the pipe
    pipeopen,   \* ctx->nfd is open
    lock,       \* who holds ctx->lock
    conn,       \* the QUIC connection: up, shut (by itself) or closed
    cbpc,       \* the callback thread: idle, enq or notify
    cbs,        \* the stream it is announcing
    mpc

msquic == <<started, hopen, fin, conn>>
queues == <<aq, map, data, freed>>
pipes == <<pipe, pipeopen>>
cbvars == <<cbpc, cbs>>
vars == <<msquic, queues, pipes, lock, cbvars, mpc>>

Init ==
    /\ started = {} /\ hopen = {} /\ fin = {} /\ conn = "up"
    /\ aq = <<>> /\ map = <<>> /\ data = <<>> /\ freed = {}
    /\ pipe = 0 /\ pipeopen = TRUE
    /\ lock = "none"
    /\ cbpc = "idle" /\ cbs \in Streams
    /\ mpc = "select"

TypeOK ==
    /\ started \subseteq Streams /\ hopen \subseteq started
    /\ fin \subseteq started /\ freed \subseteq started
    /\ aq \in Seq(Streams) /\ map \in Seq(Streams) /\ data \in Seq(Streams)
    /\ pipe \in 0 .. PipeSize /\ pipeopen \in BOOLEAN
    /\ lock \in {"none", "cb"}
    /\ conn \in {"up", "shut", "closed"}
    /\ cbpc \in {"idle", "enq", "notify"} /\ cbs \in Streams
    /\ mpc \in {"select", "read", "deq", "attach", "close", "running", "walk",
                "clear", "conn", "destroy", "ended"}

-----------------------------------------------------------------------------
(* The callback thread.                                                    *)

(* conn_cb, PEER_STREAM_STARTED: a new context becomes the stream's.       *)
PeerStreamStarted(s) ==
    /\ cbpc = "idle" /\ conn = "up" /\ s \notin started
    /\ started' = started \cup {s}
    /\ hopen' = hopen \cup {s}
    /\ cbpc' = "enq" /\ cbs' = s
    /\ UNCHANGED <<fin, conn, queues, pipes, lock, mpc>>

(* accept_enq, which conn_cb calls with ctx->lock held: the queue first,   *)
(* then the pipe.                                                          *)
accept_enq ==
    /\ cbpc = "enq" /\ lock = "none"
    /\ lock' = "cb"
    /\ aq' = Append(aq, cbs)
    /\ cbpc' = "notify"
    /\ UNCHANGED <<msquic, map, data, freed, pipes, cbs, mpc>>

(* notify_pipe: the pipe does not block, and a full one needs no more.     *)
notify_pipe ==
    /\ cbpc = "notify"
    /\ pipe' = IF pipeopen /\ pipe < PipeSize THEN pipe + 1 ELSE pipe
    /\ lock' = "none"
    /\ cbpc' = "idle"
    /\ UNCHANGED <<msquic, queues, pipeopen, cbs, mpc>>

(* conn_cb, SHUTDOWN_COMPLETE: the peer or the network is gone.            *)
ConnShutdown ==
    /\ ConnLoss /\ cbpc = "idle" /\ conn = "up"
    /\ conn' = "shut"
    /\ UNCHANGED <<started, hopen, fin, queues, pipes, lock, cbvars, mpc>>

(* stream_cb, SHUTDOWN_COMPLETE: fin is set and the handle is closed.      *)
StreamShutdown(s) ==
    /\ cbpc = "idle" /\ conn = "shut" /\ s \in hopen
    /\ fin' = fin \cup {s}
    /\ hopen' = hopen \ {s}
    /\ UNCHANGED <<started, conn, queues, pipes, lock, cbvars, mpc>>

Callback ==
    \/ \E s \in Streams : PeerStreamStarted(s)
    \/ accept_enq
    \/ notify_pipe

-----------------------------------------------------------------------------
(* The main thread.                                                        *)

(* select() finds the pipe readable and the drain loop begins.             *)
Select ==
    /\ mpc = "select" /\ pipe > 0
    /\ mpc' = "read"
    /\ UNCHANGED <<msquic, queues, pipes, lock, cbvars>>

(* iperf_quic_accept takes one byte, if there is one: the pipe does not    *)
(* block ...                                                               *)
ReadByte ==
    /\ mpc = "read"
    /\ pipe' = IF pipe > 0 THEN pipe - 1 ELSE 0
    /\ mpc' = "deq"
    /\ UNCHANGED <<msquic, queues, pipeopen, lock, cbvars>>

(* Faulty variant: the stream stays at the head of the queue.              *)
PeekOnly ==
    /\ mpc = "deq" /\ lock = "none"
    /\ IF aq = <<>>
         THEN mpc' = "select" /\ UNCHANGED map
         ELSE mpc' = "attach" /\ map' = Append(map, Head(aq))
    /\ UNCHANGED <<msquic, aq, data, freed, pipes, lock, cbvars>>

(* ... and one stream, which gets the next id; no stream ends the drain.   *)
accept_deq ==
    /\ mpc = "deq" /\ lock = "none"
    /\ IF aq = <<>>
         THEN mpc' = "select" /\ UNCHANGED <<aq, map>>
         ELSE /\ mpc' = "attach"
              /\ map' = Append(map, Head(aq))
              /\ aq' = Tail(aq)
    /\ UNCHANGED <<msquic, data, freed, pipes, lock, cbvars>>

(* iperf_quic_attach_stream: the id's context moves to an iperf_stream.    *)
Attached ==
    /\ mpc = "attach" /\ lock = "none"
    /\ data' = Append(data, Last(map))
    /\ map' = Front(map)
    /\ UNCHANGED <<msquic, aq, freed, pipes, lock, cbvars>>
AllAccepted == Len(data) + 1 = Cardinality(Streams)

(* Faulty variants: one stream per select(); one stream too many awaited.  *)
AttachOne ==
    /\ Attached
    /\ mpc' = IF AllAccepted THEN "close" ELSE "select"
AttachMore ==
    /\ Attached
    /\ mpc' = IF Len(data) = Cardinality(Streams) THEN "close" ELSE "read"

(* iperf_new_stream in the drain loop: with the last stream the drain is   *)
(* over, else it goes on.                                                  *)
AttachStream ==
    /\ Attached
    /\ mpc' = IF AllAccepted THEN "close" ELSE "read"

(* iperf_quic_close_listener: the pipe goes with the listener.             *)
CloseListener ==
    /\ mpc = "close"
    /\ pipeopen' = FALSE /\ pipe' = 0
    /\ mpc' = "running"
    /\ UNCHANGED <<msquic, queues, lock, cbvars>>

(* The test ends, or is given up while streams are still awaited.          *)
TestOver ==
    /\ mpc \in {"select", "running"}
    /\ mpc' = "walk"
    /\ UNCHANGED <<msquic, queues, pipes, lock, cbvars>>

(* iperf_quic_free_test: the contexts of the map and of the accept queue   *)
(* are released, handle first.  The walk does not take ctx->lock.          *)
Waiting == ToSet(map) \cup ToSet(aq)

(* Faulty variant: contexts are freed and their handles left open.         *)
FreeContextsOnly ==
    /\ mpc = "walk"
    /\ freed' = freed \cup Waiting
    /\ map' = <<>>
    /\ mpc' = "clear"
    /\ UNCHANGED <<msquic, aq, data, pipes, lock, cbvars>>

FreeWaiting ==
    /\ mpc = "walk"
    /\ hopen' = hopen \ Waiting
    /\ freed' = freed \cup Waiting
    /\ map' = <<>>
    /\ mpc' = "clear"
    /\ UNCHANGED <<started, fin, conn, aq, data, pipes, lock, cbvars>>

(* The queue is forgotten only after the walk.  accept_enq can come in     *)
(* between: it links a node to one that was freed, and its stream is lost. *)
ClearQueue ==
    /\ mpc = "clear"
    /\ aq' = <<>>
    /\ mpc' = "conn"
    /\ UNCHANGED <<msquic, map, data, freed, pipes, lock, cbvars>>

(* ConnectionClose returns when no callback of the connection runs and     *)
(* stream_cb has been told of the end of every stream that was open.       *)
CloseConnection ==
    /\ mpc = "conn" /\ cbpc = "idle"
    /\ conn' = "closed"
    /\ fin' = fin \cup hopen
    /\ hopen' = {}
    /\ mpc' = "destroy"
    /\ UNCHANGED <<started, queues, pipes, lock, cbvars>>

(* The rest of iperf_quic_free_test, and iperf_reset_test, where           *)
(* iperf_quic_stream_cleanup frees the contexts of the iperf_streams.      *)
ResetTest ==
    /\ mpc = "destroy"
    /\ pipeopen' = FALSE /\ pipe' = 0
    /\ freed' = freed \cup ToSet(data)
    /\ data' = <<>>
    /\ mpc' = "ended"
    /\ UNCHANGED <<msquic, aq, map, lock, cbvars>>

Main == Select \/ ReadByte \/ accept_deq \/ AttachStream \/ CloseListener
        \/ FreeWaiting \/ ClearQueue \/ CloseConnection \/ ResetTest

Next ==
    \/ Callback
    \/ ConnShutdown
    \/ \E s \in Streams : StreamShutdown(s)
    \/ Main
    \/ TestOver

Spec == Init /\ [][Next]_vars

-----------------------------------------------------------------------------
(* A main thread asleep in select() is woken for every stream that waits:  *)
(* if the queue is not empty, the pipe is not, or the callback is about to *)
(* write to it.                                                            *)
NoLostWakeup ==
    TypeOK /\ (mpc = "select" /\ aq # <<>> => pipe > 0 \/ cbpc = "notify")

(* Until the test is torn down, a started stream is in exactly one place:  *)
(* about to be queued, queued, waiting under its id, or attached to one    *)
(* iperf_stream.  (iperf_quic_free_test keeps this promise only for the    *)
(* streams that were queued before its walk; see ClearQueue.)              *)
Copies(s) ==
    Cardinality({i \in DOMAIN aq : aq[i] = s})
    + Cardinality({i \in DOMAIN map : map[i] = s})
    + Cardinality({i \in DOMAIN data : data[i] = s})
    + (IF s \in freed THEN 1 ELSE 0)
    + (IF cbpc = "enq" /\ cbs = s THEN 1 ELSE 0)
OwnedOnce ==
    mpc \notin {"clear", "conn", "destroy", "ended"}
        => \A s \in started : Copies(s) = 1

(* No callback can reach a context that has been freed: its handle is      *)
(* closed before, by the main thread or by stream_cb.  Nor does a callback *)
(* of the connection run, and use ctx, when the context of the test is     *)
(* destroyed.                                                              *)
NoCallbackAfterFree ==
    /\ freed \cap hopen = {}
    /\ mpc \in {"destroy", "ended"} => cbpc = "idle"
=============================================================================
