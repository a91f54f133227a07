----------------------------- MODULE IperfServer -----------------------------
(***************************************************************************)
(* The iperf3 server: iperf_run_server, iperf_accept, its message handler  *)
(* and cleanup_server (src/iperf_server_api.c), the server halves of the   *)
(* parameter and result exchanges (src/iperf_api.c), iperf_tcp_accept      *)
(* (src/iperf_tcp.c) and the loop of run() that restarts it (src/main.c).  *)
(* The test protocol is TCP: data streams arrive on test->listener too.    *)
(*                                                                         *)
(* spc is where the server is:                                             *)
(*   run      about to call iperf_run_server                               *)
(*   loop     the select loop                                              *)
(*   cookie   blocked in iperf_accept, reading the cookie                  *)
(*   params   blocked in get_parameters                                    *)
(*   stream   blocked in iperf_tcp_accept, reading a stream's cookie       *)
(*   results  blocked in get_results                                       *)
(*   display  summary printed, DISPLAY_RESULTS not yet sent                *)
(*   main     iperf_run_server returned srvrc                              *)
(*   exited   the process has ended                                        *)
(* A step that cleans up ends in "main": cleanup_server and the return are *)
(* one uninterrupted run of the thread.                                    *)
(***************************************************************************)
EXTENDS IperfClient

CONSTANTS
    Server,         \* the server process, as a member of Mortals or not
    OneOff,         \* -1: serve one client and exit
    IdleTimeout     \* --idle-timeout was given

ASSUME ServerAssumption ==
    /\ OneOff \in BOOLEAN
    /\ IdleTimeout \in BOOLEAN

VARIABLES
    sstate,     \* test->state
    spc,
    ctrl,       \* test->ctrl_sck, as the connection it is
    acc,        \* the stream connection whose cookie is being read
    smode,      \* test->mode
    sopt,       \* the options of the current test
    sstreams,   \* test->streams: which connection, and whether it sends
    sworkers,   \* worker threads run
    srvrc,      \* what iperf_run_server returned
    serr,       \* i_errno, as far as run() looks at it
    reported    \* clients whose summary was printed with both sides' numbers

srvvars == <<sstate, spc, ctrl, acc, smode, sopt, sstreams, sworkers, srvrc,
             serr, reported>>

ServerState == {"0", "IPERF_START", "IPERF_DONE"} \cup ServerByte
ServerPc == {"run", "loop", "cookie", "params", "stream", "results", "display",
             "main", "exited"}

ServerInit ==
    /\ sstate = "0" /\ spc = "run"
    /\ ctrl = NoConn /\ acc = NoConn
    /\ smode = "RECEIVER" /\ sopt = {}
    /\ sstreams = <<>> /\ sworkers = FALSE
    /\ srvrc = 0 /\ serr = "none"
    /\ reported = {}

ServerTypeOK ==
    /\ sstate \in ServerState
    /\ spc \in ServerPc
    /\ ctrl \in Conns \cup {NoConn}
    /\ acc \in Conns \cup {NoConn}
    /\ smode \in {"SENDER", "RECEIVER", "BIDIRECTIONAL"}
    /\ sopt \in SUBSET TestOption
    /\ sstreams \in Seq([conn : Conns, sender : BOOLEAN])
    /\ sworkers \in BOOLEAN
    /\ srvrc \in {-1, 0, 2}
    /\ serr \in {"none", "IEAUTHTEST", "other"}
    /\ reported \subseteq Clients

(* iperf_set_test_reverse on the server: the client's direction, mirrored. *)
ServerMode(mode) ==
    CASE mode = "SENDER" -> "RECEIVER"
      [] mode = "RECEIVER" -> "SENDER"
      [] mode = "BIDIRECTIONAL" -> "BIDIRECTIONAL"

StreamsToRec == IF smode = "SENDER" THEN 0 ELSE NumStreams
StreamsToSend == IF smode = "RECEIVER" THEN 0 ELSE NumStreams
(* Faulty variant: the sending streams of a bidirectional test are left out.*)
OneWayStreams == IF smode = "SENDER" THEN StreamsToSend ELSE StreamsToRec
StreamsWanted == StreamsToRec + StreamsToSend

(* Receiving streams are filled before sending ones.                       *)
NextIsSender == Len(sstreams) >= StreamsToRec

-----------------------------------------------------------------------------
(* cleanup_server: threads cancelled and joined, stream sockets, control   *)
(* connection and listener closed; then iperf_run_server returns rc.       *)
(* `in` and `out` are the server's channels as the handler left them.      *)
(* Faulty variant: cleanup_server leaves the connections open.             *)
NoneClosed == srv
AllClosed == [k \in Conns |-> IF srv[k] = "open" THEN "closed" ELSE srv[k]]
ServerGone(in, out) ==
    /\ IF ctrl = NoConn
         THEN down' = out
         ELSE down' \in SurvivingClose(in, out, ctrl)
    /\ srv' = AllClosed
    /\ up' = [k \in Conns |-> IF srv[k] = "open" THEN <<>> ELSE in[k]]
    /\ listening' = FALSE
    /\ backlog' = <<>>
    /\ ctrl' = NoConn
    /\ acc' = NoConn
    /\ sworkers' = FALSE
    /\ UNCHANGED cli

cleanup_server(rc, err, in, out) ==
    /\ ServerGone(in, out)
    /\ spc' = "main"
    /\ srvrc' = rc
    /\ serr' = err
    /\ UNCHANGED <<sstate, smode, sopt, sstreams, reported>>

(* A handler that fails after writing msgs, which get through if the       *)
(* client is still there.                                                  *)
FailAfter(err, in, msgs) ==
    cleanup_server(-1, err, in, Written(down, cli, ctrl, msgs))
WriteFails == cli[ctrl] = "closed"

(* The rest of a step that stays in iperf_run_server.                      *)
ServerGoes(pc, state) ==
    /\ spc' = pc
    /\ sstate' = state
    /\ UNCHANGED <<srvrc, serr, cli>>

InLoop == spc = "loop" /\ sstate # "IPERF_DONE"

-----------------------------------------------------------------------------
(* iperf_run_server up to its loop: iperf_server_listen, IPERF_START.      *)
iperf_server_listen ==
    /\ spc = "run"
    /\ listening' = TRUE
    /\ ServerGoes("loop", "IPERF_START")
    /\ UNCHANGED <<srv, up, down, backlog, ctrl, acc, smode, sopt, sstreams,
                   sworkers, reported>>

(* iperf_accept on a free server: whatever was dialled becomes the control *)
(* connection, and the cookie is read from it.                             *)
iperf_accept_free ==
    /\ InLoop /\ sstate # "CREATE_STREAMS"
    /\ ctrl = NoConn /\ backlog # <<>>
    /\ ctrl' = Head(backlog)
    /\ backlog' = Tail(backlog)
    /\ ServerGoes("cookie", sstate)
    /\ UNCHANGED <<srv, up, down, listening, acc, smode, sopt, sstreams,
                   sworkers, reported>>

(* iperf_accept on a busy server: ACCESS_DENIED without reading anything.  *)
Denied(k, in) ==
    /\ down' \in SurvivingClose(in, Written(down, cli, k, <<"ACCESS_DENIED">>), k)
    /\ srv' = [srv EXCEPT ![k] = "closed"]
    /\ up' = [in EXCEPT ![k] = <<>>]

(* Faulty variant: the server does not notice that it is busy.             *)
AcceptedWhileBusy ==
    /\ InLoop /\ sstate # "CREATE_STREAMS"
    /\ ctrl # NoConn /\ backlog # <<>>
    /\ ctrl' = Head(backlog)
    /\ backlog' = Tail(backlog)
    /\ ServerGoes("cookie", sstate)
    /\ UNCHANGED <<srv, up, down, listening, acc, smode, sopt, sstreams,
                   sworkers, reported>>

iperf_accept_busy ==
    /\ InLoop /\ sstate # "CREATE_STREAMS"
    /\ ctrl # NoConn /\ backlog # <<>>
    /\ Denied(Head(backlog), up)
    /\ backlog' = Tail(backlog)
    /\ ServerGoes("loop", sstate)
    /\ UNCHANGED <<listening, ctrl, acc, smode, sopt, sstreams, sworkers, reported>>

(* The cookie, then PARAM_EXCHANGE.  Fewer bytes than a cookie, an end of  *)
(* file or nread_read_timeout of silence are IERECVCOOKIE.                 *)
ReadCookie ==
    /\ spc = "cookie"
    /\ \/ /\ ServerSees(ctrl, "cookie")
          /\ up' = Unread(up, ctrl)
          /\ down' = Written(down, cli, ctrl, <<"PARAM_EXCHANGE">>)
          /\ ServerGoes("params", "PARAM_EXCHANGE")
          /\ UNCHANGED <<srv, listening, backlog, ctrl, acc, smode, sopt,
                         sstreams, sworkers, reported>>
       \/ /\ ServerSees(ctrl, "cookie") /\ WriteFails
          /\ cleanup_server(-1, "other", Unread(up, ctrl), down)
       \/ /\ \/ up[ctrl] # <<>> /\ ~ServerSees(ctrl, "cookie")
             \/ ServerSeesEof(ctrl)
             \/ Timeouts /\ ServerQuiet(ctrl)
          /\ cleanup_server(-1, "other", up, down)

(* iperf_exchange_parameters on the server.  Parameters that cannot be     *)
(* read, that ask for too long a test or that do not authenticate are      *)
(* answered by SERVER_ERROR; otherwise protocol->listen replaces the       *)
(* listening socket if the options ask for it, and CREATE_STREAMS is sent. *)
Relistened(opts, s) ==
    /\ backlog' = IF "relisten" \in opts THEN <<>> ELSE backlog
    /\ srv' = IF "relisten" \in opts THEN BacklogClosed ELSE s

ParamsRejected ==
    /\ spc = "params"
    /\ \/ /\ ServerSees(ctrl, "params")
          /\ "overlong" \in copt[Owner(ctrl)]
          /\ \/ FailAfter("other", Unread(up, ctrl), <<"SERVER_ERROR", "errs">>)
             \/ WriteFails /\ FailAfter("other", Unread(up, ctrl), <<>>)
       \/ /\ \/ up[ctrl] # <<>> /\ ~ServerSees(ctrl, "params")
             \/ ServerSeesEof(ctrl)
             \/ Timeouts /\ ServerQuiet(ctrl)
          /\ \/ FailAfter("other", up, <<"SERVER_ERROR", "errs">>)
             \/ WriteFails /\ FailAfter("other", up, <<>>)

(* i_errno becomes IEAUTHTEST only after SERVER_ERROR has been written,    *)
(* and becomes IECTRLWRITE when the error numbers cannot be.               *)
Unauthenticated ==
    /\ spc = "params"
    /\ ServerSees(ctrl, "params")
    /\ "badtoken" \in copt[Owner(ctrl)] /\ "overlong" \notin copt[Owner(ctrl)]
    /\ \/ FailAfter("IEAUTHTEST", Unread(up, ctrl), <<"SERVER_ERROR", "errs">>)
       \/ WriteFails /\ FailAfter("other", Unread(up, ctrl), <<>>)

(* Faulty variant: the result of get_parameters is not looked at.          *)
ParamsUnchecked ==
    LET c == Owner(ctrl) IN
    /\ spc = "params"
    /\ up[ctrl] = <<>> => ServerSeesEof(ctrl)
    /\ up' = IF up[ctrl] = <<>> THEN up ELSE Unread(up, ctrl)
    /\ down' = Written(down, cli, ctrl, <<"CREATE_STREAMS">>)
    /\ Relistened(copt[c], srv)
    /\ smode' = ServerMode(cmode[c])
    /\ sopt' = copt[c]
    /\ ServerGoes("loop", "CREATE_STREAMS")
    /\ UNCHANGED <<listening, ctrl, acc, sstreams, sworkers, reported>>

ParamsAccepted ==
    LET c == Owner(ctrl) IN
    /\ spc = "params"
    /\ ServerSees(ctrl, "params")
    /\ copt[c] \cap {"overlong", "badtoken"} = {}
    /\ \/ /\ up' = Unread(up, ctrl)
          /\ down' = Written(down, cli, ctrl, <<"CREATE_STREAMS">>)
          /\ Relistened(copt[c], srv)
          /\ smode' = ServerMode(cmode[c])
          /\ sopt' = copt[c]
          /\ ServerGoes("loop", "CREATE_STREAMS")
          /\ UNCHANGED <<listening, ctrl, acc, sstreams, sworkers, reported>>
       \/ WriteFails /\ FailAfter("other", Unread(up, ctrl), <<>>)

-----------------------------------------------------------------------------
(* CREATE_STREAMS: iperf_tcp_accept takes the next connection, whosever it *)
(* is, and reads a cookie from it.                                         *)
iperf_tcp_accept ==
    /\ InLoop /\ sstate = "CREATE_STREAMS"
    /\ backlog # <<>>
    /\ acc' = Head(backlog)
    /\ backlog' = Tail(backlog)
    /\ ServerGoes("stream", sstate)
    /\ UNCHANGED <<srv, up, down, listening, ctrl, smode, sopt, sstreams,
                   sworkers, reported>>

(* Faulty variant: any cookie will do.                                     *)
AnyCookie == ServerSees(acc, "cookie")
CookieMatches == ServerSees(acc, "cookie") /\ Owner(acc) = Owner(ctrl)
StreamAdded == Append(sstreams, [conn |-> acc, sender |-> NextIsSender])

(* One more stream, and others are still to come.                          *)
StreamAccepted ==
    /\ spc = "stream" /\ CookieMatches
    /\ Len(sstreams) + 1 < StreamsWanted
    /\ sstreams' = StreamAdded
    /\ up' = Unread(up, acc)
    /\ acc' = NoConn
    /\ ServerGoes("loop", sstate)
    /\ UNCHANGED <<srv, down, listening, backlog, ctrl, smode, sopt, sworkers, reported>>

(* The last stream: the listening socket is replaced again if the options  *)
(* ask for it, TEST_START and TEST_RUNNING are sent, workers are created.  *)
LastStreamAccepted ==
    /\ spc = "stream" /\ CookieMatches
    /\ Len(sstreams) + 1 = StreamsWanted
    /\ \/ /\ "overrate" \notin sopt
          /\ sstreams' = StreamAdded
          /\ up' = Unread(up, acc)
          /\ acc' = NoConn
          /\ Relistened(sopt, srv)
          /\ down' = Written(down, cli, ctrl, <<"TEST_START", "TEST_RUNNING">>)
          /\ sworkers' = TRUE
          /\ ServerGoes("loop", "TEST_RUNNING")
          /\ UNCHANGED <<listening, ctrl, smode, sopt, reported>>
       \/ /\ "overrate" \in sopt \/ WriteFails
          /\ cleanup_server(-1, "other", Unread(up, acc), down)

(* Faulty variant: a denied connection ends the test.                      *)
DenialAborts ==
    /\ spc = "stream"
    /\ up[acc] # <<>> /\ ~CookieMatches
    /\ cleanup_server(-1, "other", Unread(up, acc), down)

(* Another client's connection, or one that sends no cookie: ACCESS_DENIED *)
(* and close.  iperf_common_sockopts is applied to the closed descriptor   *)
(* before is_closed is asked, and fails when a type of service is set.     *)
StreamDenied ==
    /\ spc = "stream"
    /\ \/ up[acc] # <<>> /\ ~CookieMatches
       \/ ServerSeesEof(acc)
       \/ Timeouts /\ ServerQuiet(acc)
    /\ LET in == IF up[acc] = <<>> THEN up ELSE Unread(up, acc) IN
       IF "tos" \in sopt
         THEN cleanup_server(-1, "other", in,
                             Written(down, cli, acc, <<"ACCESS_DENIED">>))
         ELSE /\ Denied(acc, in)
              /\ acc' = NoConn
              /\ ServerGoes("loop", sstate)
              /\ UNCHANGED <<listening, backlog, ctrl, smode, sopt, sstreams,
                             sworkers, reported>>

-----------------------------------------------------------------------------
(* iperf_handle_message_server: one action per message.                    *)
StreamsClosed == [k \in Conns |->
    IF \E i \in DOMAIN sstreams : sstreams[i].conn = k THEN "closed" ELSE srv[k]]

(* TEST_END: the stream sockets are closed, EXCHANGE_RESULTS is sent and   *)
(* the server waits for the client's results.                              *)
HandleTestEnd ==
    /\ InLoop /\ ctrl # NoConn /\ ServerSees(ctrl, "TEST_END")
    /\ \/ /\ srv' = StreamsClosed
          /\ up' = Unread(up, ctrl)
          /\ down' = Written(down, cli, ctrl, <<"EXCHANGE_RESULTS">>)
          /\ ServerGoes("results", "EXCHANGE_RESULTS")
          /\ UNCHANGED <<listening, backlog, ctrl, acc, smode, sopt, sstreams,
                         sworkers, reported>>
       \/ WriteFails /\ FailAfter("other", Unread(up, ctrl), <<>>)

(* iperf_exchange_results is get_results, then send_results; then the      *)
(* summary is printed.                                                     *)
ExchangeResults ==
    /\ spc = "results"
    /\ \/ /\ ServerSees(ctrl, "results")
          /\ up' = Unread(up, ctrl)
          /\ down' = Written(down, cli, ctrl, <<"results">>)
          /\ reported' = reported \cup {Owner(ctrl)}
          /\ ServerGoes("display", sstate)
          /\ UNCHANGED <<srv, listening, backlog, ctrl, acc, smode, sopt,
                         sstreams, sworkers>>
       \/ /\ ServerSees(ctrl, "results") /\ WriteFails
          /\ FailAfter("other", Unread(up, ctrl), <<>>)
       \/ /\ \/ up[ctrl] # <<>> /\ ~ServerSees(ctrl, "results")
             \/ ServerSeesEof(ctrl)
             \/ Timeouts /\ ServerQuiet(ctrl)
          /\ FailAfter("other", up, <<>>)

SendDisplayResults ==
    /\ spc = "display"
    /\ \/ /\ down' = Written(down, cli, ctrl, <<"DISPLAY_RESULTS">>)
          /\ ServerGoes("loop", "DISPLAY_RESULTS")
          /\ UNCHANGED <<srv, up, listening, backlog, ctrl, acc, smode, sopt,
                         sstreams, sworkers, reported>>
       \/ WriteFails /\ FailAfter("other", up, <<>>)

(* Faulty variant: the state is left as the message that was read.         *)
LeavingState ==
    /\ InLoop /\ ctrl # NoConn
    /\ ServerSees(ctrl, "CLIENT_TERMINATE")
    /\ srv' = StreamsClosed
    /\ up' = Unread(up, ctrl)
    /\ ServerGoes("loop", "CLIENT_TERMINATE")
    /\ UNCHANGED <<down, listening, backlog, ctrl, acc, smode, sopt, sstreams,
                   sworkers, reported>>

(* IPERF_DONE, CLIENT_TERMINATE (which also closes the stream sockets) and *)
(* an orderly close by the client end the loop without an error.           *)
HandleClientLeaves ==
    /\ InLoop /\ ctrl # NoConn
    /\ \/ ServerSees(ctrl, "IPERF_DONE") /\ srv' = srv /\ up' = Unread(up, ctrl)
       \/ ServerSees(ctrl, "CLIENT_TERMINATE") /\ srv' = StreamsClosed
                                               /\ up' = Unread(up, ctrl)
       \/ ServerSeesEof(ctrl) /\ UNCHANGED <<srv, up>>
    /\ ServerGoes("loop", "IPERF_DONE")
    /\ UNCHANGED <<down, listening, backlog, ctrl, acc, smode, sopt, sstreams,
                   sworkers, reported>>

(* Anything else is IEMESSAGE, and a reset connection IERECVMESSAGE.       *)
HandleBadMessage ==
    /\ InLoop /\ ctrl # NoConn
    /\ \/ up[ctrl] # <<>> /\ Head(up[ctrl]) \notin ClientByte
       \/ ServerSeesEof(ctrl)
    /\ cleanup_server(-1, "other", up, down)

-----------------------------------------------------------------------------
(* Faulty variant: the idle timeout is armed only while the test runs.     *)
IdleOnlyWhenRunning ==
    /\ Timeouts /\ InLoop /\ sstate = "TEST_RUNNING" /\ smode # "SENDER"
    /\ backlog = <<>> /\ ServerQuiet(ctrl)
    /\ cleanup_server(-1, "other", up, down)

(* select() timed out in an active test that receives: IENOMSG.            *)
ServerIdle ==
    /\ Timeouts /\ InLoop /\ sstate # "IPERF_START" /\ smode # "SENDER"
    /\ backlog = <<>> /\ ServerQuiet(ctrl)
    /\ cleanup_server(-1, "other", up, down)

(* server_timer_proc, which closes the control connection so that the next *)
(* select() fails, and the bitrate limit, which the loop's head checks.    *)
ServerGivesUp ==
    /\ Timeouts /\ InLoop /\ sstate = "TEST_RUNNING"
    /\ cleanup_server(-1, "other", up, down)

(* --idle-timeout: the server starts over, or exits if it is one-off.      *)
IdleRestart ==
    /\ IdleTimeout /\ InLoop /\ sstate = "IPERF_START"
    /\ backlog = <<>> /\ ctrl = NoConn
    /\ ServerGone(up, down)
    /\ spc' = IF OneOff THEN "exited" ELSE "main"
    /\ srvrc' = 2
    /\ UNCHANGED <<sstate, serr, smode, sopt, sstreams, reported>>

(* The loop ends: cleanup_server, and 0 is returned.                       *)
ServerDone ==
    /\ spc = "loop" /\ sstate = "IPERF_DONE"
    /\ cleanup_server(0, serr, up, down)

(* run(): iperf_reset_test, and another round unless this was a one-off.   *)
(* Faulty variant: i_errno is looked at even if the server did not fail.   *)
StaleErrno == srvrc # 2 /\ serr # "IEAUTHTEST"
OneOffCounts == srvrc # 2 /\ ~(srvrc < 0 /\ serr = "IEAUTHTEST")
MainLoop ==
    /\ spc = "main"
    /\ spc' = IF OneOff /\ OneOffCounts THEN "exited" ELSE "run"
    /\ sstate' = "0" /\ smode' = "RECEIVER" /\ sopt' = {} /\ sstreams' = <<>>
    /\ UNCHANGED <<ctrl, acc, sworkers, srvrc, serr, reported>>
    /\ UNCHANGED netvars

(* iperf_got_sigend in the server: SERVER_TERMINATE if there is a control  *)
(* connection, then exit.                                                  *)
ServerSigEnd ==
    /\ Server \in Mortals /\ spc # "exited"
    /\ ServerGone(up, IF ctrl = NoConn THEN down
                      ELSE Written(down, cli, ctrl, <<"SERVER_TERMINATE">>))
    /\ spc' = "exited"
    /\ sstate' = IF ctrl = NoConn THEN sstate ELSE "SERVER_TERMINATE"
    /\ UNCHANGED <<smode, sopt, sstreams, srvrc, serr, reported>>
=============================================================================
