------------------------------ MODULE QuicSetup ------------------------------
(***************************************************************************)
(* The client's end of the setup of a QUIC test (iperf_quic_connect and    *)
(* conn_cb of src/iperf_quic.c), composed with the server's (QuicAccept):  *)
(* the main thread waits for MsQuic's thread to report the handshake, then *)
(* opens one stream after the other, which the server is told about.       *)
(*                                                                         *)
(* ccpc is where the client's main thread is in iperf_quic_connect: before *)
(* it locks ctx->lock, asleep on ctx->cond (woken when woken is TRUE),     *)
(* before it opens a stream, or out of it.                                 *)
(***************************************************************************)
EXTENDS QuicAccept

VARIABLES
    timeout,    \* --connect-timeout is given
    cconn,      \* the client's connection: none, start, up or shut
    ready,      \* ctx->ready of the client
    ccpc,
    woken,
    opened      \* the streams the client has started

cvars == <<timeout, cconn, ready, ccpc, woken, opened>>
qvars == <<vars, cvars>>

SetupInit ==
    /\ Init
    /\ timeout \in BOOLEAN
    /\ cconn = "none" /\ ready = FALSE /\ ccpc = "start" /\ woken = FALSE /\ opened = {}

-----------------------------------------------------------------------------
(* MsQuic's thread: conn_cb of the client.                                 *)

(* Faulty variant: the main thread is not woken.                           *)
ConnectedSilently ==
    /\ cconn = "start" /\ conn = "up"
    /\ cconn' = "up" /\ ready' = TRUE
    /\ UNCHANGED <<vars, timeout, ccpc, woken, opened>>

Connected ==
    /\ cconn = "start" /\ conn = "up"
    /\ cconn' = "up" /\ ready' = TRUE /\ woken' = TRUE
    /\ UNCHANGED <<vars, timeout, ccpc, opened>>

(* The handshake fails, the connection is lost, or the server closes it.   *)
(* ctx->done is set as well; nobody looks at it.                           *)
Shutdown ==
    /\ cconn \in {"start", "up"} /\ (ConnLoss \/ conn # "up")
    /\ cconn' = "shut" /\ ready' = FALSE /\ woken' = TRUE
    /\ UNCHANGED <<vars, timeout, ccpc, opened>>

-----------------------------------------------------------------------------
(* iperf_quic_connect.  Only the first call starts the connection.         *)
ConnectionStart ==
    /\ ccpc = "start"
    /\ cconn' = IF cconn = "none" THEN "start" ELSE cconn
    /\ ccpc' = "lock"
    /\ UNCHANGED <<vars, timeout, ready, woken, opened>>

(* Under the lock: go on, or to sleep until the next broadcast.            *)
Check ==
    /\ ccpc = "lock" \/ (ccpc = "sleep" /\ woken)
    /\ ccpc' = IF ready THEN "open" ELSE "sleep"
    /\ woken' = FALSE
    /\ UNCHANGED <<vars, timeout, cconn, ready, opened>>

HandshakeTimeout ==
    /\ ccpc = "sleep" /\ timeout
    /\ ccpc' = "open"
    /\ UNCHANGED <<vars, timeout, cconn, ready, woken, opened>>

(* ctx->ready is read once more, without the lock; a stream of a           *)
(* connection that is shut meanwhile does not open.                        *)
StreamStart(s) ==
    /\ ccpc = "open" /\ s \notin opened
    /\ IF ready /\ cconn = "up"
       THEN /\ opened' = opened \cup {s}
            /\ ccpc' = IF opened' = Streams THEN "done" ELSE "start"
       ELSE ccpc' = "failed" /\ UNCHANGED opened
    /\ UNCHANGED <<vars, timeout, cconn, ready, woken>>

-----------------------------------------------------------------------------
(* The server hears of a stream that the client has started.               *)
ServerNext ==
    /\ \/ \E s \in opened : PeerStreamStarted(s)
       \/ accept_enq \/ notify_pipe \/ ConnShutdown
       \/ \E s \in Streams : StreamShutdown(s)
       \/ Main \/ TestOver
    /\ UNCHANGED cvars

ClientMain == ConnectionStart \/ Check \/ HandshakeTimeout \/ (\E s \in Streams : StreamStart(s))

SetupNext == ServerNext \/ Connected \/ Shutdown \/ ClientMain

SetupSpec == SetupInit /\ [][SetupNext]_qvars

(* MsQuic's threads and both main threads are scheduled; a handshake       *)
(* succeeds or fails.                                                      *)
FairSetupSpec ==
    /\ SetupSpec
    /\ WF_qvars(((\E s \in opened : PeerStreamStarted(s)) \/ accept_enq \/ notify_pipe)
                /\ UNCHANGED cvars)
    /\ WF_qvars(Main /\ UNCHANGED cvars)
    /\ \A s \in Streams : WF_qvars(StreamShutdown(s) /\ UNCHANGED cvars)
    /\ WF_qvars(cconn = "start" /\ (Connected \/ Shutdown)) /\ WF_qvars(ClientMain)

-----------------------------------------------------------------------------
(* A client that waits for the handshake gets out of it.  The one that     *)
(* does not has no --connect-timeout, and its connection was shut down     *)
(* before it looked: it waits for ctx->ready, which is 0 for good.         *)
HandshakeAwaited ==
    (ccpc \in {"lock", "sleep"}) ~>
        (ccpc \notin {"lock", "sleep"} \/ (cconn = "shut" /\ ~timeout))

(* The server gets out of CREATE_STREAMS: every stream of the client is    *)
(* attached and the test runs, unless the client fails (it then says so on *)
(* the control connection) or the connection is lost.                      *)
AllAttached ==
    <>(mpc \notin {"select", "read", "deq", "attach"}
        \/ ccpc = "failed" \/ "shut" \in {conn, cconn})
=============================================================================
