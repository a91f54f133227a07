--------------------------- MODULE ControlProtocol ---------------------------
(***************************************************************************)
(* The control protocol of iperf3: one server and a set of clients that    *)
(* dial it, in any interleaving of their handlers, with signals, vanishing *)
(* hosts, expiring timeouts and connections that reset.                    *)
(***************************************************************************)
EXTENDS IperfServer

vars == <<netvars, clivars, srvvars>>

Init ==
    /\ NetInit
    /\ ClientInit
    /\ ServerInit

(* What client c does by itself, what may befall it, and the same for the  *)
(* server.                                                                 *)
ClientStep(c) ==
    \/ iperf_connect(c)
    \/ SendCookie(c)
    \/ HandleParamExchange(c)
    \/ HandleCreateStreams(c)
    \/ iperf_create_streams(c)
    \/ SendStreamCookie(c)
    \/ HandleTestStart(c)
    \/ HandleTestRunning(c)
    \/ TestDone(c)
    \/ HandleExchangeResults(c)
    \/ get_results(c)
    \/ HandleDisplayResults(c)
    \/ HandleRefusal(c)
    \/ ControlClosed(c)
    \/ ClientIdle(c)

ClientFault(c) == ClientSigEnd(c) \/ ClientVanishes(c)

ServerStep ==
    \/ iperf_server_listen
    \/ iperf_accept_free
    \/ iperf_accept_busy
    \/ ReadCookie
    \/ ParamsRejected
    \/ Unauthenticated
    \/ ParamsAccepted
    \/ iperf_tcp_accept
    \/ StreamAccepted
    \/ LastStreamAccepted
    \/ StreamDenied
    \/ HandleTestEnd
    \/ ExchangeResults
    \/ SendDisplayResults
    \/ HandleClientLeaves
    \/ HandleBadMessage
    \/ ServerIdle
    \/ ServerGivesUp
    \/ IdleRestart
    \/ ServerDone
    \/ MainLoop

Next ==
    \/ \E c \in Clients :
          /\ ClientStep(c) \/ ClientFault(c)
          /\ UNCHANGED srvvars
    \/ /\ ServerStep \/ ServerSigEnd
       /\ UNCHANGED clivars

Spec == Init /\ [][Next]_vars

(* Every process keeps running until it ends: the loops never block other  *)
(* than in select() and in reads whose timeouts are steps of the model.    *)
Fairness ==
    /\ \A c \in Clients : WF_vars(ClientStep(c) /\ UNCHANGED srvvars)
    /\ WF_vars(ServerStep /\ UNCHANGED clivars)

FairSpec == Spec /\ Fairness

-----------------------------------------------------------------------------
(* What the protocol promises, as the sessions of module Session.          *)
Stranger == <<"data stream">>
Served ==
    IF ctrl = NoConn THEN NoConn ELSE IF IsControl(ctrl) THEN Owner(ctrl) ELSE Stranger
Phase ==
    CASE ctrl = NoConn -> "idle"
      [] ctrl # NoConn /\ sstate \in {"IPERF_START", "PARAM_EXCHANGE", "CREATE_STREAMS"}
            -> "setup"
      [] ctrl # NoConn /\ (spc = "display" \/ sstate = "DISPLAY_RESULTS") -> "reported"
      [] ctrl # NoConn /\ spc # "display" /\ sstate \in {"TEST_RUNNING", "EXCHANGE_RESULTS"}
            -> "running"
      [] OTHER -> "leaving"
Outcome(c) ==
    CASE cpc[c] \in ClientAlive -> "none"
      [] cpc[c] = "ok" -> "ok"
      [] OTHER -> "failed"

S == INSTANCE Session WITH
        Nobody <- NoConn, served <- Served, phase <- Phase,
        outcome <- [c \in Clients |-> Outcome(c)]

(* The server of iperf_server_api.c implements Session: one client at a    *)
(* time, one report per client, and no client that believes in a test the  *)
(* server has not reported.                                                *)
ImplementsSession == S!Spec

-----------------------------------------------------------------------------
TypeOK == NetTypeOK /\ ClientTypeOK /\ ServerTypeOK

(* A byte that iperf_handle_message_server or _client takes for a test     *)
(* state is one: no reader in the select loop is ever in front of a        *)
(* cookie, a JSON block or an error number, whatever was interrupted,      *)
(* refused or timed out before.                                            *)
Framing ==
    /\ InLoop /\ ctrl # NoConn /\ up[ctrl] # <<>> => Head(up[ctrl]) \in ClientByte
    /\ \A c \in Clients :
          cpc[c] = "loop" /\ down[Ctrl(c)] # <<>>
              => Head(down[Ctrl(c)]) \in ServerByte

(* The states a client is in between CREATE_STREAMS and the results.       *)
TestState == {"CREATE_STREAMS", "TEST_START", "TEST_RUNNING", "TEST_END",
              "EXCHANGE_RESULTS"}

(* The server serves one client at a time: a client that is in a test and  *)
(* whose control connection the server has not closed is the one test->    *)
(* ctrl_sck belongs to.                                                    *)
OneClientServed ==
    \A c \in Clients :
        cstate[c] \in TestState /\ cpc[c] \in ClientAlive /\ srv[Ctrl(c)] = "open"
            => ctrl = Ctrl(c)

(* A data connection that reaches a restarted server may be taken for a    *)
(* control connection, but no test is ever set up on one.                  *)
TestsOnControlOnly ==
    sstate \in TestState /\ spc \notin {"main", "exited"} => IsControl(ctrl)

(* Once a test runs, the n-th stream of the server is the far end of the   *)
(* n-th stream of the client it serves, and exactly one of the two sends:  *)
(* both sides number their streams by position, and get_results matches    *)
(* them by number.  (While streams are created a stream of the client may  *)
(* be denied because its cookie came too late; then no test runs.)         *)
StreamsPaired ==
    sworkers =>
        \A n \in DOMAIN sstreams :
            /\ sstreams[n].conn = <<Owner(ctrl), n>>
            /\ sstreams[n].sender = ~ClientSends(cmode[Owner(ctrl)], n)

(* While a client runs its test on an open connection, every stream of it  *)
(* has been accepted and the server's workers are there.                   *)
RunningTogether ==
    \A c \in Clients :
        /\ cpc[c] = "loop" /\ cstate[c] \in {"TEST_START", "TEST_RUNNING"}
        /\ srv[Ctrl(c)] = "open"
        => /\ sstate = "TEST_RUNNING" /\ sworkers
           /\ Len(sstreams) = StreamCount(cmode[c])
           /\ cstreams[c] = StreamCount(cmode[c])

(* The server closes the streams and counts the results only when the      *)
(* client's sender threads have been joined: nothing is sent after         *)
(* TEST_END.                                                               *)
SendersStopFirst ==
    sstate \in {"EXCHANGE_RESULTS", "DISPLAY_RESULTS"} /\ ctrl # NoConn
        => "send" \notin cworkers[Owner(ctrl)]

(* A client that ends well has the server's results, and the server has    *)
(* reported the test with the client's.                                    *)
ResultsExchanged ==
    \A c \in Clients : cpc[c] = "ok" => cpeer[c] /\ c \in reported

(* Every client ends: it is never left waiting for a server that refused   *)
(* it, gave up on it, restarted or is waiting for it.                      *)
ClientEnds == \A c \in Clients : <>(cpc[c] \in ClientEnded)

(* The server always gets rid of a control connection: it returns to       *)
(* listening for new clients.                                              *)
ServerReturns == (ctrl # NoConn) ~> (ctrl = NoConn)

(* Where nothing fails and nobody is killed, a client whose parameters the *)
(* server asked for and does not refuse ends well, whatever other clients  *)
(* do meanwhile.                                                           *)
ServedToTheEnd ==
    \A c \in Clients :
        (cstate[c] = "PARAM_EXCHANGE" /\ copt[c] \subseteq {"relisten"}) ~> (cpc[c] = "ok")

(* A one-off server serves one client and exits: it reports one test.      *)
OneOffServesOne == OneOff => Cardinality(reported) <= 1

(* "Authentication failure doesn't count for 1-off test" (main.c): after   *)
(* one, run() goes round again.                                            *)
AuthFailureDoesNotCount == [][Unauthenticated => ~OneOffCounts']_vars

(* "accepting and denying an invalid connection in iperf_tcp_accept is not *)
(* considered an error" (iperf_util.c, is_closed).                         *)
DenialIsNoError == [][StreamDenied => spc' = "loop"]_vars
=============================================================================
