--------------------------- MODULE ControlTheorems ---------------------------
(***************************************************************************)
(* What holds of the control protocol for any number of clients and of     *)
(* streams, for every choice of test modes and options, and whatever is    *)
(* killed, reset or timed out.                                             *)
(*                                                                         *)
(* The first part is what ControlInv gives: the order of the messages, and *)
(* who is served.  The second is how the two ends of a test keep step:     *)
(* FlowInv (ControlInvariant.tla) beside ControlInv is inductive, and from *)
(* the two follow the framing of what is read, the pairing of the streams  *)
(* and the order in which the ends start and stop.  The third is that the  *)
(* detailed protocol implements Session.                                   *)
(***************************************************************************)
EXTENDS ControlHandlers, FiniteSetTheorems, WellFoundedInduction

LEMMA StutterInv == ControlInv /\ UNCHANGED vars => ControlInv'
<1> SUFFICES ASSUME ControlInv, UNCHANGED vars PROVE ControlInv'
    OBVIOUS
<1> USE DEF vars, netvars, clivars, srvvars
<1>1. TypeOK'
    BY DEF ControlInv, TypeOK, NetTypeOK, ClientTypeOK, ServerTypeOK
<1>2. ServerPlace' /\ CookiesOnly'
    BY DEF ControlInv, ServerPlace, CookiesOnly
<1>3. ASSUME NEW c \in Clients PROVE PerClient(c)'
    <2>0. PerClient(c)
        BY InvParts
    <2>1. ClientPlace(c)'
        BY <2>0 DEF PerClient, ClientPlace
    <2>2. Accounted(c)'
        BY <2>0 DEF PerClient, Accounted, Waiting, InBacklog
    <2>3. Ordered(c)'
        BY <2>0 DEF PerClient, Ordered, SentBy, ReadBy
    <2>4. Heard(c)'
        BY <2>0 DEF PerClient, Heard, SentBy
    <2>5. Reported(c)'
        BY <2>0 DEF PerClient, Reported
    <2> QED BY <2>1, <2>2, <2>3, <2>4, <2>5 DEF PerClient
<1> QED BY <1>1, <1>2, <1>3, InvFromParts

(* Every handler of the client and of the server, every fault and every    *)
(* stuttering step preserves the invariant.                                *)
LEMMA NextInv == ControlInv /\ [Next]_vars => ControlInv'
<1>1. ASSUME ControlInv, Next PROVE ControlInv'
    BY <1>1, ClientInv, ServerInv DEF Next
<1> QED BY <1>1, StutterInv

(* The messages of every control connection, in both directions, are in    *)
(* the order of the protocol and agree with where the client and the       *)
(* server are, after any sequence of handlers, signals, resets, timeouts   *)
(* and restarts of the server (iperf_run_client, iperf_run_server, run()). *)
THEOREM ControlInvAlways == Spec => []ControlInv
<1>1. Init => ControlInv
    BY InitInv
<1>2. ControlInv /\ [Next]_vars => ControlInv'
    BY NextInv
<1> QED BY <1>1, <1>2, PTL DEF Spec

(* Every variable of the client, the server and the connections between    *)
(* them keeps its type.                                                    *)
THEOREM TypeOKAlways == Spec => []TypeOK
<1>1. ControlInv => TypeOK
    BY DEF ControlInv
<1> QED BY <1>1, ControlInvAlways, PTL

(* A client that returns successfully has parsed the server's results, and *)
(* the server has printed the test with the client's: iperf_run_client     *)
(* never reports a test that its server does not know as complete.         *)
THEOREM ResultsExchangedAlways == Spec => []ResultsExchanged
<1>1. ControlInv => ResultsExchanged
    BY DEF ControlInv, Reported, ResultsExchanged
<1> QED BY <1>1, ControlInvAlways, PTL

(* Whoever is in the middle of a test on an open connection is the client  *)
(* test->ctrl_sck belongs to: iperf_accept never lets a second client in.  *)
THEOREM OneClientServedAlways == Spec => []OneClientServed
<1>1. ASSUME ControlInv PROVE OneClientServed
    <2> SUFFICES ASSUME NEW c \in Clients, cstate[c] \in TestState, cpc[c] \in ClientAlive,
                        srv[Ctrl(c)] = "open"
                 PROVE  ctrl = Ctrl(c)
        BY DEF OneClientServed
    <2>1. Waiting(Ctrl(c)) \/ ctrl = Ctrl(c)
        BY <1>1 DEF ControlInv, Accounted
    <2>2. Waiting(Ctrl(c)) => cstate[c] \in {"0", "CLIENT_TERMINATE"}
        BY <1>1 DEF ControlInv, Accounted
    <2> QED BY <2>1, <2>2 DEF TestState
<1> QED BY <1>1, ControlInvAlways, PTL

(* A stray data connection that a restarted server takes for a control     *)
(* connection never gets past the parameter exchange.                      *)
THEOREM TestsOnControlOnlyAlways == Spec => []TestsOnControlOnly
<1>1. ASSUME ControlInv PROVE TestsOnControlOnly
    <2> SUFFICES ASSUME sstate \in TestState, spc \notin {"main", "exited"}
                 PROVE  IsControl(ctrl)
        BY DEF TestsOnControlOnly
    <2>1. ServerPlace /\ spc \in ServerPc
        BY <1>1 DEF ControlInv, TypeOK, ServerTypeOK
    <2> QED BY <2>1 DEF ServerPlace, TestState, ServerPc
<1> QED BY <1>1, ControlInvAlways, PTL

-----------------------------------------------------------------------------
(* How the two ends of a test keep step.                                   *)

(* The server cleans up and iperf_run_server returns rc, or it exits.      *)
Gone ==
    /\ ctrl' = NoConn /\ acc' = NoConn /\ sworkers' = FALSE /\ backlog' = <<>>
    /\ UNCHANGED <<smode, sopt, sstreams, reported, cli>>
CleanedUp(rc, err) == spc' = "main" /\ sstate' = sstate /\ srvrc' = rc /\ serr' = err /\ Gone

LEMMA CleanupShape ==
    ASSUME NEW rc, NEW err, NEW in, NEW out, cleanup_server(rc, err, in, out)
    PROVE  CleanedUp(rc, err)
BY DEF cleanup_server, ServerGone, CleanedUp, Gone

LEMMA FailShape ==
    ASSUME NEW err, NEW in, NEW msgs, FailAfter(err, in, msgs)
    PROVE  CleanedUp(-1, err)
BY CleanupShape DEF FailAfter

(* What each handler of the server does to its own variables.              *)
LEMMA EarlyShape ==
    ASSUME ControlInv
    PROVE  /\ ReadCookie => \/ /\ spc' = "params" /\ sstate' = "PARAM_EXCHANGE" /\ cli' = cli
                               /\ UNCHANGED <<backlog, ctrl, acc, smode, sopt, sstreams,
                                              sworkers, reported>>
                            \/ CleanedUp(-1, "other")
           /\ ParamsRejected => CleanedUp(-1, "other")
           /\ Unauthenticated => CleanedUp(-1, "IEAUTHTEST") \/ CleanedUp(-1, "other")
           /\ ParamsAccepted =>
                 \/ /\ spc' = "loop" /\ sstate' = "CREATE_STREAMS" /\ cli' = cli
                    /\ smode' = ServerMode(cmode[Owner(ctrl)])
                    /\ backlog' \in {<<>>, backlog}
                    /\ UNCHANGED <<ctrl, acc, sstreams, sworkers, reported>>
                 \/ CleanedUp(-1, "other")
<1>1. ReadCookie => \/ /\ spc' = "params" /\ sstate' = "PARAM_EXCHANGE" /\ cli' = cli
                       /\ UNCHANGED <<backlog, ctrl, acc, smode, sopt, sstreams,
                                      sworkers, reported>>
                    \/ CleanedUp(-1, "other")
    BY CleanupShape DEF ReadCookie, ServerGoes
<1>2. ParamsRejected => CleanedUp(-1, "other")
    BY FailShape DEF ParamsRejected
<1>3. Unauthenticated => CleanedUp(-1, "IEAUTHTEST") \/ CleanedUp(-1, "other")
    BY FailShape DEF Unauthenticated
<1>4. ParamsAccepted =>
                 \/ /\ spc' = "loop" /\ sstate' = "CREATE_STREAMS" /\ cli' = cli
                    /\ smode' = ServerMode(cmode[Owner(ctrl)])
                    /\ backlog' \in {<<>>, backlog}
                    /\ UNCHANGED <<ctrl, acc, sstreams, sworkers, reported>>
                 \/ CleanedUp(-1, "other")
    BY FailShape DEF ParamsAccepted, ServerGoes, Relistened
<1> QED BY <1>1, <1>2, <1>3, <1>4

LEMMA StreamShape ==
    ASSUME ControlInv
    PROVE  /\ StreamAccepted =>
                 /\ spc' = "loop" /\ sstate' = sstate /\ acc' = NoConn /\ sstreams' = StreamAdded
                 /\ UNCHANGED <<backlog, ctrl, smode, sopt, sworkers, reported, cli>>
           /\ LastStreamAccepted =>
                 \/ /\ spc' = "loop" /\ sstate' = "TEST_RUNNING" /\ acc' = NoConn
                    /\ sstreams' = StreamAdded /\ sworkers' = TRUE
                    /\ backlog' \in {<<>>, backlog}
                    /\ UNCHANGED <<ctrl, smode, sopt, reported, cli>>
                 \/ CleanedUp(-1, "other")
           /\ StreamDenied =>
                 \/ /\ spc' = "loop" /\ sstate' = sstate /\ acc' = NoConn
                    /\ UNCHANGED <<backlog, ctrl, smode, sopt, sstreams, sworkers, reported, cli>>
                 \/ CleanedUp(-1, "other")
<1>1. StreamAccepted =>
                 /\ spc' = "loop" /\ sstate' = sstate /\ acc' = NoConn /\ sstreams' = StreamAdded
                 /\ UNCHANGED <<backlog, ctrl, smode, sopt, sworkers, reported, cli>>
    BY DEF StreamAccepted, ServerGoes
<1>2. LastStreamAccepted =>
                 \/ /\ spc' = "loop" /\ sstate' = "TEST_RUNNING" /\ acc' = NoConn
                    /\ sstreams' = StreamAdded /\ sworkers' = TRUE
                    /\ backlog' \in {<<>>, backlog}
                    /\ UNCHANGED <<ctrl, smode, sopt, reported, cli>>
                 \/ CleanedUp(-1, "other")
    BY CleanupShape DEF LastStreamAccepted, ServerGoes, Relistened
<1>3. StreamDenied =>
                 \/ /\ spc' = "loop" /\ sstate' = sstate /\ acc' = NoConn
                    /\ UNCHANGED <<backlog, ctrl, smode, sopt, sstreams, sworkers, reported, cli>>
                 \/ CleanedUp(-1, "other")
    BY CleanupShape DEF StreamDenied, ServerGoes
<1> QED BY <1>1, <1>2, <1>3

LEMMA LateShape ==
    ASSUME ControlInv
    PROVE  /\ HandleTestEnd =>
                 \/ /\ spc' = "results" /\ sstate' = "EXCHANGE_RESULTS"
                    /\ UNCHANGED <<backlog, ctrl, acc, smode, sopt, sstreams, sworkers, reported, cli>>
                 \/ CleanedUp(-1, "other")
           /\ ExchangeResults =>
                 \/ /\ spc' = "display" /\ sstate' = sstate
                    /\ reported' = reported \cup {Owner(ctrl)}
                    /\ UNCHANGED <<backlog, ctrl, acc, smode, sopt, sstreams, sworkers, cli>>
                 \/ CleanedUp(-1, "other")
           /\ SendDisplayResults =>
                 \/ /\ spc' = "loop" /\ sstate' = "DISPLAY_RESULTS"
                    /\ UNCHANGED <<backlog, ctrl, acc, smode, sopt, sstreams, sworkers, reported, cli>>
                 \/ CleanedUp(-1, "other")
           /\ HandleClientLeaves =>
                 /\ spc' = "loop" /\ sstate' = "IPERF_DONE"
                 /\ UNCHANGED <<backlog, ctrl, acc, smode, sopt, sstreams, sworkers, reported, cli>>
           /\ HandleBadMessage \/ ServerIdle \/ ServerGivesUp => CleanedUp(-1, "other")
           /\ ServerDone => CleanedUp(0, serr)
<1>1. HandleTestEnd =>
                 \/ /\ spc' = "results" /\ sstate' = "EXCHANGE_RESULTS"
                    /\ UNCHANGED <<backlog, ctrl, acc, smode, sopt, sstreams, sworkers, reported, cli>>
                 \/ CleanedUp(-1, "other")
    BY FailShape DEF HandleTestEnd, ServerGoes
<1>2. ExchangeResults =>
                 \/ /\ spc' = "display" /\ sstate' = sstate
                    /\ reported' = reported \cup {Owner(ctrl)}
                    /\ UNCHANGED <<backlog, ctrl, acc, smode, sopt, sstreams, sworkers, cli>>
                 \/ CleanedUp(-1, "other")
    BY FailShape DEF ExchangeResults, ServerGoes
<1>3. SendDisplayResults =>
                 \/ /\ spc' = "loop" /\ sstate' = "DISPLAY_RESULTS"
                    /\ UNCHANGED <<backlog, ctrl, acc, smode, sopt, sstreams, sworkers, reported, cli>>
                 \/ CleanedUp(-1, "other")
    BY FailShape DEF SendDisplayResults, ServerGoes
<1>4. HandleClientLeaves =>
                 /\ spc' = "loop" /\ sstate' = "IPERF_DONE"
                 /\ UNCHANGED <<backlog, ctrl, acc, smode, sopt, sstreams, sworkers, reported, cli>>
    BY DEF HandleClientLeaves, ServerGoes
<1>5. HandleBadMessage \/ ServerIdle \/ ServerGivesUp => CleanedUp(-1, "other")
    BY CleanupShape DEF HandleBadMessage, ServerIdle, ServerGivesUp
<1>6. ServerDone => CleanedUp(0, serr)
    BY CleanupShape DEF ServerDone
<1> QED BY <1>1, <1>2, <1>3, <1>4, <1>5, <1>6

(* TEST_END comes before the results are exchanged.                        *)
LEMMA TestEndState ==
    ASSUME ControlInv, HandleTestEnd
    PROVE  /\ spc = "loop" /\ sstate \in {"CREATE_STREAMS", "TEST_RUNNING"}
           /\ ctrl # NoConn /\ IsControl(ctrl) /\ ctrl \in Conns /\ acc = NoConn
<1>0. /\ spc = "loop" /\ ctrl # NoConn /\ IsControl(ctrl) /\ ctrl \in Conns /\ acc = NoConn
      /\ ServerSees(ctrl, "TEST_END") /\ up[ctrl] # <<>>
      /\ sstate \in {"CREATE_STREAMS", "TEST_RUNNING", "DISPLAY_RESULTS"}
    BY ServerFacts DEF HandleTestEnd, InLoop, ServerPlace, ServerSees
<1>1. Owner(ctrl) \in Clients
    BY <1>0 DEF Conns, Owner
<1>2. ctrl = Ctrl(Owner(ctrl))
    BY <1>0, <1>1, CtrlConn
<1>3. "TEST_END" \in ClientMsg /\ UpRank["TEST_END"] = 3
    BY DEF ClientMsg, ClientByte, UpRank
<1>4. ServerRead(spc, sstate) < 3
    BY <1>0, <1>1, <1>2, <1>3, CtrlReads
<1>5. ServerRead(spc, "DISPLAY_RESULTS") = 4
    BY DEF ServerRead
<1> QED BY <1>0, <1>4, <1>5

-----------------------------------------------------------------------------
(* A one-off server.                                                       *)
LEMMA OneOffServer ==
    ASSUME ControlInv, OneOffInv, ServerStep \/ ServerSigEnd
    PROVE  OneOffInv'
<1> SUFFICES ASSUME OneOff
             PROVE  /\ \A c, d \in reported' : c = d
                    /\ reported' # {} =>
                         \/ spc' \in {"display", "exited"}
                         \/ spc' = "loop" /\ sstate' \in {"DISPLAY_RESULTS", "IPERF_DONE"}
                         \/ spc' = "main" /\ OneOffCounts'
    BY DEF OneOffInv
<1> DEFINE leaving == \/ spc \in {"display", "exited"}
                      \/ spc = "loop" /\ sstate \in {"DISPLAY_RESULTS", "IPERF_DONE"}
                      \/ spc = "main" /\ OneOffCounts
<1>0. (\A c, d \in reported : c = d) /\ (reported # {} => leaving)
    BY DEF OneOffInv
<1>p. ServerPlace /\ spc \in ServerPc
    BY ServerFacts DEF ServerTypeOK
<1>c. \A rc, err : CleanedUp(rc, err) /\ rc # 2 /\ ~(rc < 0 /\ err = "IEAUTHTEST")
                      => spc' = "main" /\ OneOffCounts' /\ reported' = reported
    BY DEF CleanedUp, Gone, OneOffCounts
<1>f. CleanedUp(-1, "other") => spc' = "main" /\ OneOffCounts' /\ reported' = reported
    BY <1>c
<1>1. CASE iperf_server_listen \/ iperf_accept_free \/ iperf_tcp_accept \/ IdleRestart
    <2>1. ~leaving /\ reported' = reported
        BY <1>1, <1>p DEF iperf_server_listen, iperf_accept_free, iperf_tcp_accept, IdleRestart,
           InLoop, ServerPlace, ServerGone, OneOffCounts
    <2> QED BY <1>0, <2>1
<1>2. CASE ReadCookie \/ ParamsRejected \/ Unauthenticated \/ ParamsAccepted
    <2>1. spc \in {"cookie", "params"}
        BY <1>2 DEF ReadCookie, ParamsRejected, Unauthenticated, ParamsAccepted
    <2>2. ~leaving
        BY <2>1
    <2>3. reported' = reported
        BY <1>2, EarlyShape DEF CleanedUp, Gone
    <2> QED BY <1>0, <2>2, <2>3
<1>3. CASE StreamAccepted \/ LastStreamAccepted \/ StreamDenied
    <2>1. spc = "stream"
        BY <1>3 DEF StreamAccepted, LastStreamAccepted, StreamDenied
    <2>2. ~leaving
        BY <2>1
    <2>3. reported' = reported
        BY <1>3, StreamShape DEF CleanedUp, Gone
    <2> QED BY <1>0, <2>2, <2>3
<1>4. CASE HandleTestEnd
    <2>1. ~leaving
        BY <1>4, TestEndState
    <2>2. reported' = reported
        BY <1>4, LateShape DEF CleanedUp, Gone
    <2> QED BY <1>0, <2>1, <2>2
<1>5. CASE ExchangeResults
    <2>1. ~leaving
        BY <1>5 DEF ExchangeResults
    <2>2. (spc' = "display" /\ reported' = {Owner(ctrl)}) \/ reported' = {}
        BY <1>0, <1>5, <2>1, LateShape DEF CleanedUp, Gone
    <2> QED BY <2>2
<1>6. CASE SendDisplayResults
    <2>1. /\ reported' = reported
          /\ (spc' = "loop" /\ sstate' = "DISPLAY_RESULTS") \/ (spc' = "main" /\ OneOffCounts')
        BY <1>6, <1>f, LateShape
    <2> QED BY <1>0, <2>1
<1>7. CASE iperf_accept_busy
    <2>1. reported' = reported /\ spc = "loop" /\ spc' = "loop" /\ sstate' = sstate
        BY <1>7 DEF iperf_accept_busy, ServerGoes, InLoop
    <2> QED BY <1>0, <2>1
<1>8. CASE HandleClientLeaves
    <2>1. reported' = reported /\ spc' = "loop" /\ sstate' = "IPERF_DONE"
        BY <1>8, LateShape
    <2> QED BY <1>0, <2>1
<1>9. CASE HandleBadMessage \/ ServerIdle \/ ServerGivesUp
    <2>1. reported' = reported /\ spc' = "main" /\ OneOffCounts'
        BY <1>9, <1>f, LateShape
    <2> QED BY <1>0, <2>1
<1>10. CASE ServerDone
    <2>1. reported' = reported /\ spc' = "main" /\ OneOffCounts'
        BY <1>10, <1>c, LateShape
    <2> QED BY <1>0, <2>1
<1>11. CASE MainLoop
    <2>1. reported' = reported /\ spc = "main" /\ (OneOffCounts => spc' = "exited")
        BY <1>11 DEF MainLoop
    <2> QED BY <1>0, <2>1
<1>12. CASE ServerSigEnd
    <2>1. reported' = reported /\ spc' = "exited"
        BY <1>12 DEF ServerSigEnd, ServerGone
    <2> QED BY <1>0, <2>1
<1> QED BY <1>1, <1>2, <1>3, <1>4, <1>5, <1>6, <1>7, <1>8, <1>9, <1>10, <1>11, <1>12
        DEF ServerStep

-----------------------------------------------------------------------------
(* The streams the server has.                                             *)
LEMMA WantedFacts ==
    ASSUME NEW c \in Clients, cmode[c] \in {"SENDER", "RECEIVER", "BIDIRECTIONAL"},
           smode = ServerMode(cmode[c])
    PROVE  /\ StreamsWanted = StreamCount(cmode[c]) /\ StreamsWanted \in Nat \ {0}
           /\ StreamsToRec \in Nat
BY ConnectionsAssumption
DEF StreamsWanted, StreamsToRec, StreamsToSend, StreamCount, ServerMode

LEMMA StreamAddedFacts ==
    ASSUME ControlInv, sstreams' = StreamAdded
    PROVE  /\ Len(sstreams) \in Nat /\ Len(sstreams') = Len(sstreams) + 1
           /\ \A n \in 1 .. Len(sstreams) : sstreams'[n] = sstreams[n]
           /\ sstreams'[Len(sstreams) + 1].conn = acc
           /\ sstreams'[Len(sstreams) + 1].sender = NextIsSender
<1> DEFINE e == [conn |-> acc, sender |-> NextIsSender]
<1>1. sstreams \in Seq([conn : Conns, sender : BOOLEAN])
    BY ServerFacts DEF ServerTypeOK
<1>2. sstreams' = Append(sstreams, e) /\ e.conn = acc /\ e.sender = NextIsSender
    BY DEF StreamAdded
<1> HIDE DEF e
<1>3. /\ Len(sstreams) \in Nat /\ Len(sstreams') = Len(sstreams) + 1
      /\ \A n \in 1 .. Len(sstreams) : sstreams'[n] = sstreams[n]
      /\ sstreams'[Len(sstreams) + 1] = e
    BY <1>1, <1>2
<1> QED BY <1>2, <1>3

(* The senders' flags, when a stream is added and when none is.            *)
LEMMA SendersAdded ==
    ASSUME ControlInv, sstreams' = StreamAdded, smode' = smode,
           \A n \in 1 .. Len(sstreams) : sstreams[n].sender = (n > StreamsToRec)
    PROVE  \A n \in 1 .. Len(sstreams') : sstreams'[n].sender = (n > StreamsToRec')
<1>1. /\ Len(sstreams) \in Nat /\ Len(sstreams') = Len(sstreams) + 1
      /\ \A n \in 1 .. Len(sstreams) : sstreams'[n] = sstreams[n]
      /\ sstreams'[Len(sstreams) + 1].sender = NextIsSender
    BY StreamAddedFacts
<1>2. StreamsToRec' = StreamsToRec /\ StreamsToRec \in Nat
    BY ConnectionsAssumption DEF StreamsToRec
<1>3. NextIsSender = (Len(sstreams) + 1 > StreamsToRec)
    BY <1>1, <1>2 DEF NextIsSender
<1> SUFFICES ASSUME NEW n \in 1 .. Len(sstreams')
             PROVE  sstreams'[n].sender = (n > StreamsToRec')
    OBVIOUS
<1>4. CASE n \in 1 .. Len(sstreams)
    BY <1>1, <1>2, <1>4
<1>5. CASE n = Len(sstreams) + 1
    BY <1>1, <1>2, <1>3, <1>5
<1> QED BY <1>1, <1>4, <1>5

LEMMA SendersKept ==
    ASSUME UNCHANGED <<smode, sstreams>>,
           \A n \in 1 .. Len(sstreams) : sstreams[n].sender = (n > StreamsToRec)
    PROVE  /\ \A n \in 1 .. Len(sstreams') : sstreams'[n].sender = (n > StreamsToRec')
           /\ StreamsWanted' = StreamsWanted
BY DEF StreamsToRec, StreamsToSend, StreamsWanted

LEMMA StreamsGone == ASSUME ServerStreams, Gone, spc' \in {"main", "exited"} PROVE ServerStreams'
<1>1. \A n \in 1 .. Len(sstreams') : sstreams'[n].sender = (n > StreamsToRec')
    BY SendersKept DEF ServerStreams, Gone
<1> QED BY <1>1 DEF ServerStreams, Gone

LEMMA StreamsServer ==
    ASSUME ControlInv, ServerStreams, UNCHANGED clivars, ServerStep \/ ServerSigEnd
    PROVE  ServerStreams'
<1>p. ServerPlace /\ spc \in ServerPc /\ sworkers \in BOOLEAN /\ cmode' = cmode
    BY ServerFacts DEF ServerTypeOK, clivars
<1>s. \A n \in 1 .. Len(sstreams) : sstreams[n].sender = (n > StreamsToRec)
    BY DEF ServerStreams
<1>g. \A rc, err : CleanedUp(rc, err) => ServerStreams'
    BY StreamsGone DEF CleanedUp
<1>k. ASSUME UNCHANGED <<smode, sstreams, sworkers, ctrl>>,
             \/ sstate' = sstate
             \/ sstate' \in {"EXCHANGE_RESULTS", "DISPLAY_RESULTS", "IPERF_DONE",
                             "PARAM_EXCHANGE"},
             spc' \in {"run", "cookie", "params"} \/ (spc' = "loop" /\ sstate' = "IPERF_START")
                => sstreams = <<>> /\ ~sworkers
      PROVE  ServerStreams'
    <2>1. /\ \A n \in 1 .. Len(sstreams') : sstreams'[n].sender = (n > StreamsToRec')
          /\ StreamsWanted' = StreamsWanted
        BY <1>k, <1>s, SendersKept
    <2> QED BY <1>k, <1>p, <2>1 DEF ServerStreams
<1>1. CASE iperf_accept_free \/ iperf_tcp_accept \/ iperf_accept_busy \/ iperf_server_listen
    <2>1. CASE iperf_server_listen
        <3>1. /\ UNCHANGED <<smode, sstreams, sworkers, ctrl>> /\ spc = "run" /\ ctrl = NoConn
              /\ sstate' = "IPERF_START" /\ spc' = "loop"
            BY <2>1, <1>p DEF iperf_server_listen, ServerGoes, ServerPlace
        <3>2. /\ \A n \in 1 .. Len(sstreams') : sstreams'[n].sender = (n > StreamsToRec')
              /\ StreamsWanted' = StreamsWanted
            BY <3>1, <1>s, SendersKept
        <3> QED BY <3>1, <3>2 DEF ServerStreams
    <2>2. CASE iperf_accept_free
        <3>1. /\ UNCHANGED <<smode, sstreams, sworkers, sstate>> /\ spc = "loop" /\ ctrl = NoConn
              /\ spc' = "cookie" /\ sstate = "IPERF_START" /\ sstreams = <<>> /\ ~sworkers
            BY <2>2, <1>p DEF iperf_accept_free, ServerGoes, ServerPlace, InLoop, ServerStreams
        <3>2. /\ \A n \in 1 .. Len(sstreams') : sstreams'[n].sender = (n > StreamsToRec')
              /\ StreamsWanted' = StreamsWanted
            BY <3>1, <1>s, SendersKept
        <3> QED BY <3>1, <3>2 DEF ServerStreams
    <2>3. CASE iperf_tcp_accept \/ iperf_accept_busy
        <3>1. /\ UNCHANGED <<smode, sstreams, sworkers, ctrl, sstate>> /\ spc = "loop"
              /\ spc' = "stream" \/ spc' = spc
            BY <2>3 DEF iperf_tcp_accept, iperf_accept_busy, ServerGoes, InLoop
        <3> QED BY <3>1, <1>k DEF ServerStreams
    <2> QED BY <1>1, <2>1, <2>2, <2>3
<1>2. CASE ReadCookie \/ ParamsRejected \/ Unauthenticated
    <2>1. CASE \E rc, err : CleanedUp(rc, err)
        BY <2>1, <1>g
    <2>2. CASE /\ ReadCookie /\ spc' = "params" /\ sstate' = "PARAM_EXCHANGE"
               /\ UNCHANGED <<ctrl, smode, sstreams, sworkers>>
        <3>1. sstreams = <<>> /\ ~sworkers
            BY <2>2 DEF ReadCookie, ServerStreams
        <3> QED BY <2>2, <3>1, <1>k
    <2> QED BY <1>2, <2>1, <2>2, EarlyShape
<1>3. CASE ParamsAccepted
    <2>1. CASE CleanedUp(-1, "other")
        BY <2>1, <1>g
    <2>2. CASE /\ spc' = "loop" /\ sstate' = "CREATE_STREAMS"
               /\ smode' = ServerMode(cmode[Owner(ctrl)])
               /\ UNCHANGED <<ctrl, acc, sstreams, sworkers, reported>>
        <3>1. /\ sstreams = <<>> /\ ~sworkers /\ ctrl # NoConn /\ Owner(ctrl) \in Clients
              /\ cmode[Owner(ctrl)] \in {"SENDER", "RECEIVER", "BIDIRECTIONAL"}
            <4>1. sstreams = <<>> /\ ~sworkers /\ ctrl # NoConn /\ ctrl \in Conns
                BY <1>3, <1>p, ServerFacts DEF ParamsAccepted, ServerStreams, ServerPlace
            <4>2. Owner(ctrl) \in Clients
                BY <4>1 DEF Conns, Owner
            <4> QED BY <4>1, <4>2, ClientFacts, ClientAssumption
        <3>2. StreamsWanted' \in Nat \ {0}
            BY <2>2, <3>1, ConnectionsAssumption
            DEF StreamsWanted, StreamsToRec, StreamsToSend, ServerMode
        <3>3. Len(sstreams') = 0
            BY <2>2, <3>1
        <3> QED BY <1>p, <2>2, <3>1, <3>2, <3>3 DEF ServerStreams
    <2> QED BY <1>3, <2>1, <2>2, EarlyShape
<1>4. CASE StreamAccepted
    <2>1. /\ spc' = "loop" /\ sstate' = sstate /\ sstreams' = StreamAdded
          /\ UNCHANGED <<ctrl, smode, sworkers>> /\ Len(sstreams) + 1 < StreamsWanted
          /\ sstate = "CREATE_STREAMS" /\ ctrl # NoConn
        BY <1>4, <1>p, StreamShape DEF StreamAccepted, ServerPlace
    <2>2. /\ Len(sstreams') = Len(sstreams) + 1 /\ StreamsWanted' = StreamsWanted
          /\ \A n \in 1 .. Len(sstreams') : sstreams'[n].sender = (n > StreamsToRec')
        BY <2>1, <1>s, StreamAddedFacts, SendersAdded
        DEF StreamsWanted, StreamsToRec, StreamsToSend
    <2> QED BY <1>p, <2>1, <2>2 DEF ServerStreams
<1>5. CASE LastStreamAccepted
    <2>1. CASE CleanedUp(-1, "other")
        BY <2>1, <1>g
    <2>2. CASE /\ spc' = "loop" /\ sstate' = "TEST_RUNNING" /\ acc' = NoConn
               /\ sstreams' = StreamAdded /\ sworkers' = TRUE
               /\ UNCHANGED <<ctrl, smode, sopt, reported, cli>>
        <3>1. sstate = "CREATE_STREAMS" /\ ctrl # NoConn /\ Len(sstreams) + 1 = StreamsWanted
            BY <1>5, <1>p DEF LastStreamAccepted, ServerPlace
        <3>2. /\ Len(sstreams') = Len(sstreams) + 1 /\ StreamsWanted' = StreamsWanted
              /\ \A n \in 1 .. Len(sstreams') : sstreams'[n].sender = (n > StreamsToRec')
            BY <2>2, <1>s, StreamAddedFacts, SendersAdded
            DEF StreamsWanted, StreamsToRec, StreamsToSend
        <3> QED BY <1>p, <2>2, <3>1, <3>2 DEF ServerStreams
    <2> QED BY <1>5, <2>1, <2>2, StreamShape
<1>6. CASE StreamDenied
    <2>1. CASE CleanedUp(-1, "other")
        BY <2>1, <1>g
    <2>2. CASE /\ spc' = "loop" /\ sstate' = sstate /\ acc' = NoConn
               /\ UNCHANGED <<ctrl, smode, sopt, sstreams, sworkers, reported, cli>>
        <3>1. sstate = "CREATE_STREAMS"
            BY <1>6, <1>p DEF StreamDenied, ServerPlace
        <3> QED BY <2>2, <3>1, <1>k
    <2> QED BY <1>6, <2>1, <2>2, StreamShape
<1>7. CASE HandleTestEnd \/ ExchangeResults \/ SendDisplayResults \/ HandleClientLeaves
    <2>1. CASE CleanedUp(-1, "other")
        BY <2>1, <1>g
    <2>2. CASE /\ UNCHANGED <<ctrl, smode, sstreams, sworkers>>
               /\ spc' \in {"results", "display", "loop"}
               /\ sstate' \in {"EXCHANGE_RESULTS", "DISPLAY_RESULTS", "IPERF_DONE"}
        BY <2>2, <1>k
    <2>3. ExchangeResults => sstate = "EXCHANGE_RESULTS"
        BY <1>p DEF ExchangeResults, ServerPlace
    <2> QED BY <1>7, <2>1, <2>2, <2>3, LateShape
<1>8. CASE HandleBadMessage \/ ServerIdle \/ ServerGivesUp \/ ServerDone
    BY <1>8, <1>g, LateShape
<1>9. CASE IdleRestart \/ ServerSigEnd
    <2>1. Gone /\ spc' \in {"main", "exited"}
        BY <1>9 DEF IdleRestart, ServerSigEnd, ServerGone, Gone
    <2> QED BY <2>1, StreamsGone
<1>10. CASE MainLoop
    <2>1. /\ sstreams' = <<>> /\ sstate' = "0" /\ ctrl' = ctrl /\ sworkers' = sworkers
          /\ ctrl = NoConn /\ spc' \in {"exited", "run"}
        BY <1>10, <1>p DEF MainLoop, ServerPlace
    <2> QED BY <2>1, <1>p DEF ServerStreams
<1> QED BY <1>1, <1>2, <1>3, <1>4, <1>5, <1>6, <1>7, <1>8, <1>9, <1>10 DEF ServerStep

-----------------------------------------------------------------------------
(* What is in place stays so when a reset cuts it short, when the client   *)
(* or the report goes on, when it is read and when a message follows.      *)
LEMMA InPlaceEmpty == ASSUME NEW c, NEW pc, NEW st, NEW rep PROVE InPlace(c, <<>>, pc, st, rep)
BY DEF InPlace

LEMMA InPlacePrefix ==
    ASSUME NEW c, NEW s \in Seq(ServerMsg), NEW t \in Prefixes(s), NEW pc, NEW st, NEW rep,
           InPlace(c, s, pc, st, rep)
    PROVE  InPlace(c, t, pc, st, rep)
<1>1. PICK n \in 0 .. Len(s) : t = SubSeq(s, 1, n)
    BY DEF Prefixes
<1>2. Len(t) = n /\ n <= Len(s) /\ \A i \in 1 .. n : t[i] = s[i]
    BY <1>1
<1> HIDE DEF Prefixes
<1> SUFFICES ASSUME NEW i \in 1 .. Len(t)
             PROVE  /\ t[i] = "errs" => i > 1 /\ t[i - 1] = "SERVER_ERROR"
                    /\ t[i] = "results" => /\ c \in rep
                                           /\ \/ i > 1 /\ t[i - 1] = "EXCHANGE_RESULTS"
                                              \/ i = 1 /\ pc \in {"results", "gone"}
                    /\ t[i] \in Rest => \/ ClientRead(st) >= 2
                                        \/ \E j \in 1 .. i : t[j] = "CREATE_STREAMS"
                    /\ t[i] \in Late => ClientSent(pc, st) >= 3
    BY DEF InPlace
<1>3. i \in 1 .. n /\ i \in 1 .. Len(s) /\ t[i] = s[i]
    BY <1>2
<1>4. i > 1 => t[i - 1] = s[i - 1]
    BY <1>2, <1>3
<1>5. \A j \in 1 .. i : t[j] = s[j]
    BY <1>2, <1>3
<1>6. /\ s[i] = "errs" => i > 1 /\ s[i - 1] = "SERVER_ERROR"
      /\ s[i] = "results" => /\ c \in rep
                             /\ \/ i > 1 /\ s[i - 1] = "EXCHANGE_RESULTS"
                                \/ i = 1 /\ pc \in {"results", "gone"}
      /\ s[i] \in Rest => \/ ClientRead(st) >= 2
                          \/ \E j \in 1 .. i : s[j] = "CREATE_STREAMS"
      /\ s[i] \in Late => ClientSent(pc, st) >= 3
    BY <1>3 DEF InPlace
<1> QED BY <1>3, <1>4, <1>5, <1>6

LEMMA InPlaceMono ==
    ASSUME NEW c, NEW s \in Seq(ServerMsg), NEW pc, NEW st, NEW rep, InPlace(c, s, pc, st, rep),
           NEW pc2, NEW st2, NEW rep2,
           ClientRead(st) >= 2 => ClientRead(st2) >= 2,
           ClientSent(pc, st) >= 3 => ClientSent(pc2, st2) >= 3,
           pc \in {"results", "gone"} => pc2 \in {"results", "gone"},
           c \in rep => c \in rep2
    PROVE  InPlace(c, s, pc2, st2, rep2)
BY DEF InPlace

LEMMA InPlaceTail ==
    ASSUME NEW c, NEW s \in Seq(ServerMsg), s # <<>>, NEW pc, NEW st, NEW rep,
           InPlace(c, s, pc, st, rep), NEW pc2, NEW st2,
           Head(s) # "SERVER_ERROR",
           ClientRead(st) >= 2 \/ Head(s) = "CREATE_STREAMS" => ClientRead(st2) >= 2,
           ClientSent(pc, st) >= 3 => ClientSent(pc2, st2) >= 3,
           Head(s) = "EXCHANGE_RESULTS" => pc2 \in {"results", "gone"}
    PROVE  InPlace(c, Tail(s), pc2, st2, rep)
<1> DEFINE t == Tail(s)
<1>1. Head(s) = s[1] /\ Len(s) \in Nat /\ Len(s) >= 1 /\ Len(t) = Len(s) - 1
    OBVIOUS
<1>2. \A i \in 1 .. Len(t) : t[i] = s[i + 1] /\ i + 1 \in 1 .. Len(s)
    BY <1>1
<1> HIDE DEF t
<1>3. ASSUME NEW i \in 1 .. Len(t)
      PROVE  /\ t[i] = "errs" => i > 1 /\ t[i - 1] = "SERVER_ERROR"
             /\ t[i] = "results" => /\ c \in rep
                                    /\ \/ i > 1 /\ t[i - 1] = "EXCHANGE_RESULTS"
                                       \/ i = 1 /\ pc2 \in {"results", "gone"}
             /\ t[i] \in Rest => \/ ClientRead(st2) >= 2
                                 \/ \E j \in 1 .. i : t[j] = "CREATE_STREAMS"
             /\ t[i] \in Late => ClientSent(pc2, st2) >= 3
    <2> DEFINE h == i + 1
    <2>0. h \in 1 .. Len(s) /\ t[i] = s[h] /\ h > 1 /\ h - 1 = i /\ i \in Nat
        BY <1>1, <1>2
    <2>1. /\ s[h] = "errs" => h > 1 /\ s[h - 1] = "SERVER_ERROR"
          /\ s[h] = "results" => /\ c \in rep
                                 /\ \/ h > 1 /\ s[h - 1] = "EXCHANGE_RESULTS"
                                    \/ h = 1 /\ pc \in {"results", "gone"}
          /\ s[h] \in Rest => \/ ClientRead(st) >= 2
                              \/ \E j \in 1 .. h : s[j] = "CREATE_STREAMS"
          /\ s[h] \in Late => ClientSent(pc, st) >= 3
        BY <2>0 DEF InPlace
    <2>2. i > 1 => t[i - 1] = s[i] /\ i \in 1 .. Len(s)
        BY <1>1, <1>2
    <2>3. i = 1 => s[h - 1] = Head(s)
        BY <1>1, <2>0
    <2>4. i = 1 \/ i > 1
        OBVIOUS
    <2>5. ASSUME NEW j \in 1 .. h, s[j] = "CREATE_STREAMS"
          PROVE  ClientRead(st2) >= 2 \/ \E g \in 1 .. i : t[g] = "CREATE_STREAMS"
        <3>1. CASE j = 1
            BY <1>1, <2>5, <3>1
        <3>2. CASE j # 1
            <4>1. j - 1 \in 1 .. i /\ j - 1 \in 1 .. Len(t) /\ (j - 1) + 1 = j
                BY <1>1, <2>0, <3>2
            <4>2. t[j - 1] = s[j]
                BY <1>2, <4>1
            <4> QED BY <2>5, <4>1, <4>2
        <3> QED BY <3>1, <3>2
    <2> HIDE DEF h
    <2>6. t[i] = "errs" => i > 1 /\ t[i - 1] = "SERVER_ERROR"
        BY <2>0, <2>1, <2>2, <2>3, <2>4
    <2>7. t[i] = "results" => /\ c \in rep
                              /\ \/ i > 1 /\ t[i - 1] = "EXCHANGE_RESULTS"
                                 \/ i = 1 /\ pc2 \in {"results", "gone"}
        BY <2>0, <2>1, <2>2, <2>3, <2>4
    <2>8. t[i] \in Rest => \/ ClientRead(st2) >= 2
                           \/ \E j \in 1 .. i : t[j] = "CREATE_STREAMS"
        BY <2>0, <2>1, <2>5
    <2> QED BY <2>0, <2>1, <2>6, <2>7, <2>8
<1> QED BY <1>3 DEF InPlace, t

LEMMA InPlaceAppend ==
    ASSUME NEW c, NEW s \in Seq(ServerMsg), NEW m \in ServerMsg, NEW pc, NEW st, NEW rep,
           InPlace(c, s, pc, st, rep),
           m = "errs" => s # <<>> /\ s[Len(s)] = "SERVER_ERROR",
           m = "results" => c \in rep /\ s = <<>> /\ pc \in {"results", "gone"},
           m \in Rest => ClientRead(st) >= 2 \/ Has(s, "CREATE_STREAMS"),
           m \in Late => ClientSent(pc, st) >= 3
    PROVE  InPlace(c, s \o <<m>>, pc, st, rep)
<1> DEFINE t == s \o <<m>>
<1>1. Len(t) = Len(s) + 1 /\ t[Len(s) + 1] = m /\ Len(s) \in Nat /\ (s = <<>> <=> Len(s) = 0)
    OBVIOUS
<1>2. \A i \in 1 .. Len(s) : t[i] = s[i]
    OBVIOUS
<1> HIDE DEF t
<1>3. ASSUME NEW i \in 1 .. Len(t)
      PROVE  /\ t[i] = "errs" => i > 1 /\ t[i - 1] = "SERVER_ERROR"
             /\ t[i] = "results" => /\ c \in rep
                                    /\ \/ i > 1 /\ t[i - 1] = "EXCHANGE_RESULTS"
                                       \/ i = 1 /\ pc \in {"results", "gone"}
             /\ t[i] \in Rest => \/ ClientRead(st) >= 2
                                 \/ \E j \in 1 .. i : t[j] = "CREATE_STREAMS"
             /\ t[i] \in Late => ClientSent(pc, st) >= 3
    <2>1. CASE i \in 1 .. Len(s)
        <3>1. t[i] = s[i] /\ (i > 1 => t[i - 1] = s[i - 1]) /\ \A j \in 1 .. i : t[j] = s[j]
            BY <1>1, <1>2, <2>1
        <3>2. /\ s[i] = "errs" => i > 1 /\ s[i - 1] = "SERVER_ERROR"
              /\ s[i] = "results" => /\ c \in rep
                                     /\ \/ i > 1 /\ s[i - 1] = "EXCHANGE_RESULTS"
                                        \/ i = 1 /\ pc \in {"results", "gone"}
              /\ s[i] \in Rest => \/ ClientRead(st) >= 2
                                  \/ \E j \in 1 .. i : s[j] = "CREATE_STREAMS"
              /\ s[i] \in Late => ClientSent(pc, st) >= 3
            BY <2>1 DEF InPlace
        <3> QED BY <3>1, <3>2
    <2>2. CASE i = Len(s) + 1
        <3>1. t[i] = m /\ (i > 1 => t[i - 1] = s[Len(s)]) /\ (i = 1 <=> s = <<>>)
              /\ (s # <<>> => i > 1)
            BY <1>1, <1>2, <2>2
        <3>2. Has(s, "CREATE_STREAMS") => \E j \in 1 .. i : t[j] = "CREATE_STREAMS"
            BY <1>1, <1>2, <2>2 DEF Has
        <3> QED BY <3>1, <3>2
    <2> QED BY <1>1, <2>1, <2>2
<1> QED BY <1>3 DEF InPlace, t

(* Two messages in a write.                                                *)
LEMMA TwoWritten ==
    ASSUME NEW s \in Seq(ServerMsg), NEW m1 \in ServerMsg, NEW m2 \in ServerMsg
    PROVE  /\ (s \o <<m1>>) \o <<m2>> = s \o <<m1, m2>>
           /\ s \o <<m1>> \in Seq(ServerMsg) /\ s \o <<m1>> # <<>>
           /\ (s \o <<m1>>)[Len(s \o <<m1>>)] = m1
<1> DEFINE a == (s \o <<m1>>) \o <<m2>>
           b == s \o <<m1, m2>>
<1>0. /\ s \o <<m1>> \in Seq(ServerMsg) /\ Len(s \o <<m1>>) = Len(s) + 1 /\ Len(s) \in Nat
      /\ (s \o <<m1>>)[Len(s) + 1] = m1 /\ s \o <<m1>> # <<>>
    OBVIOUS
<1>1. a \in Seq(ServerMsg) /\ Len(a) = Len(s) + 2 /\ b \in Seq(ServerMsg) /\ Len(b) = Len(s) + 2
    BY <1>0
<1>2. \A i \in 1 .. Len(s) + 2 : a[i] = b[i]
    <2>1. \A i \in 1 .. Len(s) : (s \o <<m1>>)[i] = s[i]
        OBVIOUS
    <2>2. (\A i \in 1 .. Len(s) + 1 : a[i] = (s \o <<m1>>)[i]) /\ a[Len(s) + 2] = m2
        BY <1>0
    <2>3. (\A i \in 1 .. Len(s) : b[i] = s[i]) /\ b[Len(s) + 1] = m1 /\ b[Len(s) + 2] = m2
        OBVIOUS
    <2> HIDE DEF a, b
    <2> QED BY <1>0, <2>1, <2>2, <2>3
<1> HIDE DEF a, b
<1>3. a = b
    BY <1>1, <1>2, SeqEqual
<1> QED BY <1>0, <1>3 DEF a, b

-----------------------------------------------------------------------------
(* What a step of the server means to client c: its connection is closed,  *)
(* after a refusal perhaps; nothing is said to it; or something is.        *)
Reads1(c) == up'[Ctrl(c)] = up[Ctrl(c)]
                \/ (up[Ctrl(c)] # <<>> /\ up'[Ctrl(c)] = Tail(up[Ctrl(c)]))
Onwards == ServerSent(spc, sstate) <= ServerSent(spc', sstate')

Parted(c) ==
    /\ ctrl' # Ctrl(c) /\ srv'[Ctrl(c)] # "open"
    /\ \E msgs \in Refusals : \E s \in {down[Ctrl(c)], down[Ctrl(c)] \o msgs} :
          down'[Ctrl(c)] \in Prefixes(s)
Stays(c) ==
    /\ Reads1(c) /\ down'[Ctrl(c)] = down[Ctrl(c)]
    /\ srv'[Ctrl(c)] = "open" => srv[Ctrl(c)] = "open"
    /\ ctrl = Ctrl(c) => /\ ctrl' = Ctrl(c) /\ Onwards
                         /\ cli[Ctrl(c)] = "open" /\ ServerSent(spc', sstate') >= 2
                               => ServerSent(spc, sstate) >= 2
    /\ ctrl # Ctrl(c) /\ ctrl' = Ctrl(c) => ServerSent(spc', sstate') < 2
Sayable(c, m) ==
    /\ m \in ServerMsg /\ m # "errs"
    /\ m = "results" => /\ c \in reported' /\ down[Ctrl(c)] = <<>>
                        /\ cpc[c] \in {"results", "gone"}
    /\ m \in Rest => ServerSent(spc, sstate) >= 2
    /\ m \in Late => ClientSent(cpc[c], cstate[c]) >= 3
Says(c) ==
    /\ Reads1(c) /\ ctrl = Ctrl(c) /\ ctrl' = Ctrl(c) /\ Onwards /\ cli[Ctrl(c)] = "open"
    /\ \/ \E m : /\ Sayable(c, m) /\ down'[Ctrl(c)] = down[Ctrl(c)] \o <<m>>
                 /\ \/ m = "CREATE_STREAMS" \/ ServerSent(spc', sstate') < 2
                    \/ ServerSent(spc, sstate) >= 2
       \/ /\ down'[Ctrl(c)] = down[Ctrl(c)] \o <<"TEST_START", "TEST_RUNNING">>
          /\ ServerSent(spc, sstate) >= 2

LEMMA RefusalInPlace ==
    ASSUME NEW c, NEW s \in Seq(ServerMsg), NEW msgs \in Refusals, NEW pc, NEW st, NEW rep,
           InPlace(c, s, pc, st, rep)
    PROVE  s \o msgs \in Seq(ServerMsg) /\ InPlace(c, s \o msgs, pc, st, rep)
<1>0. /\ "SERVER_ERROR" \in ServerMsg /\ "errs" \in ServerMsg
      /\ "SERVER_TERMINATE" \in ServerMsg /\ "ACCESS_DENIED" \in ServerMsg
    BY DEF ServerMsg, ServerByte, ServerPayload
<1>1. ASSUME NEW m \in {"SERVER_TERMINATE", "ACCESS_DENIED", "SERVER_ERROR"}
      PROVE  /\ s \o <<m>> \in Seq(ServerMsg) /\ InPlace(c, s \o <<m>>, pc, st, rep)
    <2>1. m \in ServerMsg /\ m # "errs" /\ m # "results" /\ m \notin Rest /\ m \notin Late
        BY <1>0 DEF Rest, Late
    <2> QED BY <2>1, InPlaceAppend
<1>2. CASE msgs = <<>>
    <2>1. s \o msgs = s
        BY <1>2
    <2> QED BY <2>1
<1>3. CASE msgs = <<"SERVER_ERROR", "errs">>
    <2> DEFINE t == s \o <<"SERVER_ERROR">>
    <2>1. /\ t \o <<"errs">> = s \o msgs /\ t \in Seq(ServerMsg) /\ t # <<>>
          /\ t[Len(t)] = "SERVER_ERROR"
        BY <1>0, <1>3, TwoWritten
    <2>2. InPlace(c, t, pc, st, rep)
        BY <1>1
    <2> HIDE DEF t
    <2>3. "errs" \notin Rest /\ "errs" \notin Late
        BY DEF Rest, Late
    <2>4. InPlace(c, t \o <<"errs">>, pc, st, rep)
        BY <1>0, <2>1, <2>2, <2>3, InPlaceAppend
    <2>5. t \o <<"errs">> \in Seq(ServerMsg)
        BY <1>0, <2>1
    <2> QED BY <2>1, <2>4, <2>5
<1> QED BY <1>1, <1>2, <1>3 DEF Refusals

LEMMA PartedFlow ==
    ASSUME ControlInv, UNCHANGED <<clivars, cli>>, reported \subseteq reported', NEW c \in Clients,
           InSequence(c), Parted(c)
    PROVE  InSequence(c)'
<1> DEFINE k == Ctrl(c)
<1>0. down[k] \in Seq(ServerMsg) /\ k \in Conns
    BY ServerFacts, CtrlConn
<1>1. InPlace(c, down[k], cpc[c], cstate[c], reported)
    BY DEF InSequence
<1>2. PICK msgs \in Refusals : \E s \in {down[k], down[k] \o msgs} : down'[k] \in Prefixes(s)
    BY DEF Parted
<1>3. PICK s \in {down[k], down[k] \o msgs} : down'[k] \in Prefixes(s)
    BY <1>2
<1>4. s \in Seq(ServerMsg) /\ InPlace(c, s, cpc[c], cstate[c], reported)
    BY <1>0, <1>1, <1>3, RefusalInPlace
<1>5. InPlace(c, down'[k], cpc[c], cstate[c], reported) /\ down'[k] \in Seq(ServerMsg)
    BY <1>3, <1>4, InPlacePrefix, PrefixFacts
<1>6. InPlace(c, down'[k], cpc[c], cstate[c], reported')
    BY <1>5, InPlaceMono
<1> QED BY <1>6 DEF InSequence, Parted, clivars

LEMMA StaysFlow ==
    ASSUME ControlInv, UNCHANGED <<clivars, cli>>, reported \subseteq reported', NEW c \in Clients,
           InSequence(c), Stays(c)
    PROVE  InSequence(c)'
<1> DEFINE k == Ctrl(c)
<1>0. down[k] \in Seq(ServerMsg) /\ k \in Conns /\ up[k] \in Seq(ClientMsg)
    BY ServerFacts, CtrlConn
<1>1. InPlace(c, down[k], cpc[c], cstate[c], reported')
    BY <1>0, InPlaceMono DEF InSequence
<1>2. "results" \in ClientMsg
    BY DEF ClientMsg, ClientPayload
<1>3. Has(up'[k], "results") => Has(up[k], "results")
    BY <1>0, <1>2, HasTail DEF Stays, Reads1
<1>4. ServerSent(spc, sstate) \in Nat /\ ServerSent(spc', sstate') \in Nat
    BY ServerSentType
<1>5. srv'[k] = "open" /\ Has(up'[k], "results") => ctrl' = k /\ ServerSent(spc', sstate') >= 6
    BY <1>3, <1>4 DEF InSequence, Stays, Onwards
<1>6. ctrl' = k /\ cli[k] = "open" /\ ServerSent(spc', sstate') >= 2
          => ClientRead(cstate[c]) >= 2 \/ Has(down'[k], "CREATE_STREAMS")
    BY <1>4 DEF InSequence, Stays
<1> QED BY <1>1, <1>5, <1>6 DEF InSequence, clivars, Stays

LEMMA SaysFlow ==
    ASSUME ControlInv, UNCHANGED <<clivars, cli>>, reported \subseteq reported', NEW c \in Clients,
           InSequence(c), Says(c)
    PROVE  InSequence(c)'
<1> DEFINE k == Ctrl(c)
<1>0. down[k] \in Seq(ServerMsg) /\ k \in Conns /\ up[k] \in Seq(ClientMsg)
    BY ServerFacts, CtrlConn
<1>1. InPlace(c, down[k], cpc[c], cstate[c], reported')
    BY <1>0, InPlaceMono DEF InSequence
<1>2. "results" \in ClientMsg
    BY DEF ClientMsg, ClientPayload
<1>3. Has(up'[k], "results") => Has(up[k], "results")
    BY <1>0, <1>2, HasTail DEF Says, Reads1
<1>4. ServerSent(spc, sstate) \in Nat /\ ServerSent(spc', sstate') \in Nat
    BY ServerSentType
<1>5. srv[k] = "open"
    BY ClientFacts DEF Accounted, Says
<1>6. Has(up'[k], "results") => ctrl' = k /\ ServerSent(spc', sstate') >= 6
    BY <1>3, <1>4, <1>5 DEF InSequence, Says, Onwards
<1>7. ServerSent(spc, sstate) >= 2 => ClientRead(cstate[c]) >= 2 \/ Has(down[k], "CREATE_STREAMS")
    BY DEF InSequence, Says
<1>8. "CREATE_STREAMS" \in ServerMsg /\ "TEST_START" \in ServerMsg /\ "TEST_RUNNING" \in ServerMsg
    BY DEF ServerMsg, ServerByte
<1>9. ASSUME NEW m, Sayable(c, m), down'[k] = down[k] \o <<m>>,
             \/ m = "CREATE_STREAMS" \/ ServerSent(spc', sstate') < 2
             \/ ServerSent(spc, sstate) >= 2
      PROVE  /\ InPlace(c, down'[k], cpc[c], cstate[c], reported')
             /\ ServerSent(spc', sstate') >= 2
                  => ClientRead(cstate[c]) >= 2 \/ Has(down'[k], "CREATE_STREAMS")
    <2>1. /\ m \in ServerMsg /\ m # "errs"
          /\ m = "results" => c \in reported' /\ down[k] = <<>> /\ cpc[c] \in {"results", "gone"}
          /\ m \in Rest => ClientRead(cstate[c]) >= 2 \/ Has(down[k], "CREATE_STREAMS")
          /\ m \in Late => ClientSent(cpc[c], cstate[c]) >= 3
        BY <1>7, <1>9 DEF Sayable
    <2>2. InPlace(c, down[k] \o <<m>>, cpc[c], cstate[c], reported')
        BY <1>0, <1>1, <2>1, InPlaceAppend
    <2>3. Has(down'[k], "CREATE_STREAMS") <=> Has(down[k], "CREATE_STREAMS") \/ m = "CREATE_STREAMS"
        BY <1>0, <1>8, <1>9, <2>1, HasAppend
    <2> QED BY <1>4, <1>7, <1>9, <2>2, <2>3
<1>10. ASSUME down'[k] = down[k] \o <<"TEST_START", "TEST_RUNNING">>, ServerSent(spc, sstate) >= 2
       PROVE  /\ InPlace(c, down'[k], cpc[c], cstate[c], reported')
              /\ ClientRead(cstate[c]) >= 2 \/ Has(down'[k], "CREATE_STREAMS")
    <2> DEFINE t == down[k] \o <<"TEST_START">>
    <2>0. "TEST_START" \notin Late /\ "TEST_RUNNING" \notin Late
        BY DEF Late
    <2>1. down'[k] = t \o <<"TEST_RUNNING">> /\ t \in Seq(ServerMsg)
        BY <1>0, <1>8, <1>10, TwoWritten
    <2>2. /\ Has(t, "CREATE_STREAMS") <=> Has(down[k], "CREATE_STREAMS")
        BY <1>0, <1>8, HasAppend
    <2>3. InPlace(c, t, cpc[c], cstate[c], reported')
        BY <1>0, <1>1, <1>7, <1>8, <1>10, <2>0, InPlaceAppend
    <2> HIDE DEF t
    <2>4. Has(down'[k], "CREATE_STREAMS") <=> Has(t, "CREATE_STREAMS")
        BY <1>8, <2>1, HasAppend
    <2>5. InPlace(c, t \o <<"TEST_RUNNING">>, cpc[c], cstate[c], reported')
        BY <1>7, <1>8, <1>10, <2>0, <2>1, <2>2, <2>3, InPlaceAppend
    <2> QED BY <1>7, <1>10, <2>1, <2>2, <2>4, <2>5
<1>11. /\ InPlace(c, down'[k], cpc[c], cstate[c], reported')
       /\ ServerSent(spc', sstate') >= 2
            => ClientRead(cstate[c]) >= 2 \/ Has(down'[k], "CREATE_STREAMS")
    BY <1>9, <1>10 DEF Says
<1> QED BY <1>6, <1>11 DEF InSequence, clivars, Says

Moves(c) == (Parted(c) \/ Stays(c) \/ Says(c)) /\ reported \subseteq reported' /\ cli' = cli

LEMMA GoneMoves ==
    ASSUME ControlInv, NEW in, NEW out, ServerGone(in, out), reported' = reported,
           NEW h \in Conns, NEW msgs \in Refusals, out = down \/ out = Written(down, cli, h, msgs),
           NEW c \in Clients
    PROVE  Moves(c)
<1> DEFINE k == Ctrl(c)
<1>0. /\ k \in Conns /\ k # NoConn /\ msgs \in Seq(ServerMsg)
      /\ down \in [Conns -> Seq(ServerMsg)] /\ srv \in [Conns -> End]
      /\ ctrl \in Conns \cup {NoConn}
    BY CtrlConn, RefusalTypes, ServerFacts
<1>1. out \in [Conns -> Seq(ServerMsg)] /\ out[k] \in {down[k], down[k] \o msgs}
    <2>1. out = down => out \in [Conns -> Seq(ServerMsg)] /\ out[k] = down[k]
        BY <1>0
    <2>2. ASSUME out = Written(down, cli, h, msgs)
          PROVE  out \in [Conns -> Seq(ServerMsg)] /\ out[k] \in {down[k], down[k] \o msgs}
        <3>1. CASE cli[h] = "open"
            <4>1. out = [down EXCEPT ![h] = down[h] \o msgs] /\ down[h] \o msgs \in Seq(ServerMsg)
                BY <1>0, <2>2, <3>1 DEF Written
            <4> QED BY <1>0, <4>1
        <3>2. CASE cli[h] # "open"
            BY <1>0, <2>2, <3>2 DEF Written
        <3> QED BY <3>1, <3>2
    <2> QED BY <2>1, <2>2
<1>2. down'[k] \in Prefixes(out[k])
    <2>1. out[k] \in Prefixes(out[k])
        BY <1>0, <1>1, WholePrefix
    <2>2. CASE ctrl = NoConn
        BY <2>1, <2>2 DEF ServerGone
    <2>3. CASE ctrl # NoConn
        <3>1. /\ down' \in SurvivingClose(in, out, ctrl) /\ ctrl \in Conns
              /\ out \in [Conns -> Seq(ServerMsg)]
            BY <1>0, <1>1, <2>3 DEF ServerGone
        <3>2. /\ down' \in [Conns -> Seq(ServerMsg)]
              /\ \A j \in Conns : j # ctrl => down'[j] = out[j]
              /\ down'[ctrl] \in Prefixes(out[ctrl])
            BY <3>1, DownClose, Zenon
        <3> QED BY <1>0, <2>1, <3>2
    <2> QED BY <2>2, <2>3
<1>3. ctrl' # k /\ srv'[k] # "open" /\ cli' = cli
    BY <1>0 DEF ServerGone, AllClosed
<1>4. Parted(c)
    BY <1>1, <1>2, <1>3 DEF Parted
<1> QED BY <1>3, <1>4 DEF Moves

LEMMA CleanupMoves ==
    ASSUME ControlInv, NEW rc, NEW err, NEW in, NEW out, cleanup_server(rc, err, in, out),
           NEW h \in Conns, NEW msgs \in Refusals, out = down \/ out = Written(down, cli, h, msgs),
           NEW c \in Clients
    PROVE  Moves(c)
BY GoneMoves DEF cleanup_server

LEMMA QuietCleanupMoves ==
    ASSUME ControlInv, NEW rc, NEW err, NEW in, cleanup_server(rc, err, in, down),
           NEW c \in Clients
    PROVE  Moves(c)
<1>1. Ctrl(c) \in Conns /\ <<>> \in Refusals
    BY CtrlConn DEF Refusals
<1> QED BY <1>1, CleanupMoves

LEMMA FailMoves ==
    ASSUME ControlInv, NEW err, NEW in, NEW msgs \in Refusals, FailAfter(err, in, msgs),
           ctrl # NoConn, NEW c \in Clients
    PROVE  Moves(c)
<1>1. ctrl \in Conns
    BY ServerFacts
<1> QED BY <1>1, CleanupMoves DEF FailAfter

(* A connection that waits is turned away.                                 *)
LEMMA DeniedMoves ==
    ASSUME ControlInv, NEW h \in Conns, Waiting(h), NEW in \in [Conns -> Seq(ClientMsg)],
           \A j \in Conns : j # h => in[j] = up[j], Denied(h, in),
           UNCHANGED <<ctrl, sstate, reported, cli>>, ServerSent(spc', sstate) = ServerSent(spc, sstate),
           NEW c \in Clients
    PROVE  Moves(c)
<1> DEFINE k == Ctrl(c)
           w == Written(down, cli, h, <<"ACCESS_DENIED">>)
<1>0. k \in Conns /\ <<"ACCESS_DENIED">> \in Refusals /\ <<"ACCESS_DENIED">> \in Seq(ServerMsg)
      /\ down \in [Conns -> Seq(ServerMsg)] /\ ServerSent(spc, sstate) \in Nat
    BY CtrlConn, RefusalTypes, ServerFacts DEF Refusals
<1>1. /\ srv'[h] = "closed" /\ down'[h] \in Prefixes(w[h])
      /\ \A j \in Conns : j # h => srv'[j] = srv[j] /\ up'[j] = up[j] /\ down'[j] = down[j]
    BY DeniedFacts
<1>2. CASE k = h
    <2>1. ctrl' # k
        BY <1>2, WaitingFacts
    <2>2. w[k] \in {down[k], down[k] \o <<"ACCESS_DENIED">>}
        BY <1>0, <1>2 DEF Written
    <2>3. Parted(c)
        BY <1>0, <1>1, <1>2, <2>1, <2>2 DEF Parted
    <2> QED BY <2>3 DEF Moves
<1>3. CASE k # h
    <2>1. srv'[k] = srv[k] /\ up'[k] = up[k] /\ down'[k] = down[k]
        BY <1>0, <1>1, <1>3
    <2>2. Stays(c)
        BY <1>0, <2>1 DEF Stays, Reads1, Onwards
    <2> QED BY <2>2 DEF Moves
<1> QED BY <1>2, <1>3

(* The server goes on and writes nothing.                                  *)
LEMMA QuietMoves ==
    ASSUME ControlInv, NEW c \in Clients, UNCHANGED <<reported, cli>>,
           down'[Ctrl(c)] = down[Ctrl(c)], Reads1(c),
           srv'[Ctrl(c)] = "open" => srv[Ctrl(c)] = "open",
           ctrl = Ctrl(c) => /\ ctrl' = ctrl /\ Onwards
                             /\ \/ ServerSent(spc, sstate) >= 2
                                \/ ServerSent(spc', sstate') < 2,
           ctrl # Ctrl(c) /\ ctrl' = Ctrl(c) => ServerSent(spc', sstate') < 2
    PROVE  Moves(c)
<1>1. ServerSent(spc, sstate) \in Nat /\ ServerSent(spc', sstate') \in Nat
    BY ServerSentType
<1>2. Stays(c)
    BY <1>1 DEF Stays
<1> QED BY <1>2 DEF Moves

(* The server answers on the control connection.                           *)
LEMMA AnswerMoves ==
    ASSUME ControlInv, ctrl # NoConn, ctrl' = ctrl, cli' = cli, reported \subseteq reported',
           NEW m \in ServerMsg, down' = Written(down, cli, ctrl, <<m>>),
           up' = up \/ (up[ctrl] # <<>> /\ up' = Unread(up, ctrl)),
           \A c \in Clients : srv'[Ctrl(c)] = "open" => srv[Ctrl(c)] = "open", Onwards,
           NEW c \in Clients,
           ctrl = Ctrl(c) /\ cli[Ctrl(c)] = "open" =>
               /\ Sayable(c, m)
               /\ \/ m = "CREATE_STREAMS" \/ ServerSent(spc', sstate') < 2
                  \/ ServerSent(spc, sstate) >= 2
    PROVE  Moves(c)
<1> DEFINE k == Ctrl(c)
<1>0. /\ ctrl \in Conns /\ k \in Conns /\ down \in [Conns -> Seq(ServerMsg)]
      /\ up \in [Conns -> Seq(ClientMsg)] /\ <<m>> \in Seq(ServerMsg)
    BY ServerFacts, CtrlConn
<1>1. Reads1(c)
    <2>1. CASE up' = up
        BY <2>1 DEF Reads1
    <2>2. CASE up[ctrl] # <<>> /\ up' = Unread(up, ctrl)
        BY <1>0, <2>2, UpUnread DEF Reads1
    <2> QED BY <2>1, <2>2
<1>2. CASE ctrl # k
    <2>1. down'[k] = down[k]
        BY <1>0, <1>2 DEF Written
    <2>2. Stays(c)
        BY <1>1, <1>2, <2>1 DEF Stays
    <2> QED BY <2>2 DEF Moves
<1>3. CASE ctrl = k /\ cli[k] # "open"
    <2>1. down'[k] = down[k]
        BY <1>0, <1>3 DEF Written
    <2>2. Stays(c)
        BY <1>1, <1>3, <2>1 DEF Stays
    <2> QED BY <2>2 DEF Moves
<1>4. CASE ctrl = k /\ cli[k] = "open"
    <2>1. down'[k] = down[k] \o <<m>>
        BY <1>0, <1>4 DEF Written
    <2>2. Says(c)
        BY <1>1, <1>4, <2>1 DEF Says
    <2> QED BY <2>2 DEF Moves
<1> QED BY <1>2, <1>3, <1>4

LEMMA SentValues ==
    /\ \A pc : ServerSent(pc, "IPERF_START") = 0 /\ ServerSent(pc, "0") = 0
    /\ ServerSent("params", "PARAM_EXCHANGE") = 1
    /\ ServerSent("loop", "CREATE_STREAMS") = 2 /\ ServerSent("stream", "CREATE_STREAMS") = 2
    /\ ServerSent("loop", "TEST_RUNNING") = 4
    /\ ServerSent("results", "EXCHANGE_RESULTS") = 6 /\ ServerSent("display", "EXCHANGE_RESULTS") = 7
    /\ ServerSent("loop", "DISPLAY_RESULTS") = 8 /\ ServerSent("loop", "IPERF_DONE") = 8
BY DEF ServerSent, DownRank, ServerMsg, ServerByte, ServerPayload

LEMMA RelistenedCloses ==
    ASSUME ControlInv, NEW opts, Relistened(opts, srv), NEW k \in Conns, srv'[k] = "open"
    PROVE  srv[k] = "open"
BY ServerFacts DEF Relistened, BacklogClosed

LEMMA CtrlOwner ==
    ASSUME ControlInv, ctrl # NoConn, IsControl(ctrl)
    PROVE  Owner(ctrl) \in Clients /\ ctrl = Ctrl(Owner(ctrl)) /\ ctrl \in Conns
<1>1. ctrl \in Conns
    BY ServerFacts
<1>2. Owner(ctrl) \in Clients
    BY <1>1 DEF Conns, Owner
<1> QED BY <1>1, <1>2, CtrlConn

(* Waiting for a client, and setting up its test.                          *)
LEMMA AcceptMoves ==
    ASSUME ControlInv, UNCHANGED clivars, NEW c \in Clients,
           \/ iperf_server_listen \/ iperf_accept_free \/ iperf_accept_busy \/ iperf_tcp_accept
           \/ MainLoop
    PROVE  Moves(c)
<1> DEFINE k == Ctrl(c)
<1>0. ServerPlace /\ k # NoConn /\ backlog \in Seq(Conns) /\ up \in [Conns -> Seq(ClientMsg)]
      /\ ServerSent(spc, sstate) \in Nat
    BY ServerFacts, CtrlConn
<1>1. CASE iperf_server_listen \/ MainLoop
    <2>1. ctrl = NoConn /\ ctrl' = ctrl /\ UNCHANGED <<reported, cli, down, up, srv>>
        BY <1>0, <1>1 DEF iperf_server_listen, MainLoop, ServerPlace, ServerGoes, netvars
    <2> QED BY <1>0, <2>1, QuietMoves DEF Reads1
<1>2. CASE iperf_accept_free
    <2>1. ctrl = NoConn /\ sstate' = "IPERF_START" /\ UNCHANGED <<reported, cli, down, up, srv>>
        BY <1>0, <1>2 DEF iperf_accept_free, InLoop, ServerPlace, ServerGoes
    <2>2. ServerSent(spc', sstate') = 0
        BY <2>1, SentValues
    <2> QED BY <1>0, <2>1, <2>2, QuietMoves DEF Reads1
<1>3. CASE iperf_accept_busy
    <2>1. /\ Denied(Head(backlog), up) /\ UNCHANGED <<ctrl, sstate, reported, cli>>
          /\ spc' = spc /\ backlog # <<>>
        BY <1>3 DEF iperf_accept_busy, ServerGoes, InLoop
    <2>2. Head(backlog) = backlog[1] /\ Head(backlog) \in Conns /\ 1 \in 1 .. Len(backlog)
        BY <1>0, <2>1
    <2>3. Waiting(Head(backlog))
        BY <2>2 DEF Waiting, InBacklog
    <2> QED BY <1>0, <2>1, <2>2, <2>3, DeniedMoves
<1>4. CASE iperf_tcp_accept
    <2>1. /\ UNCHANGED <<ctrl, reported, cli, down, up, srv>> /\ sstate = "CREATE_STREAMS"
          /\ spc = "loop" /\ spc' = "stream" /\ sstate' = sstate
        BY <1>4 DEF iperf_tcp_accept, InLoop, ServerGoes
    <2>2. ServerSent(spc, sstate) = 2 /\ ServerSent(spc', sstate') = 2
        BY <2>1, SentValues
    <2> QED BY <2>1, <2>2, QuietMoves DEF Reads1, Onwards
<1> QED BY <1>1, <1>2, <1>3, <1>4

LEMMA SetupMoves ==
    ASSUME ControlInv, UNCHANGED clivars, NEW c \in Clients,
           ReadCookie \/ ParamsRejected \/ Unauthenticated \/ ParamsAccepted
    PROVE  Moves(c)
<1>0. ServerPlace /\ Ctrl(c) \in Conns /\ \A d \in Clients : Ctrl(d) \in Conns
    BY ServerFacts, CtrlConn
<1>m. /\ "PARAM_EXCHANGE" \in ServerMsg /\ "CREATE_STREAMS" \in ServerMsg
      /\ "PARAM_EXCHANGE" \notin Rest /\ "CREATE_STREAMS" \notin Rest
      /\ "PARAM_EXCHANGE" \notin Late /\ "CREATE_STREAMS" \notin Late
      /\ <<>> \in Refusals /\ <<"SERVER_ERROR", "errs">> \in Refusals
    BY DEF ServerMsg, ServerByte, Rest, Late, Refusals
<1>1. CASE ReadCookie
    <2>1. ctrl # NoConn /\ spc = "cookie" /\ sstate = "IPERF_START"
        BY <1>0, <1>1 DEF ReadCookie, ServerPlace
    <2>2. CASE /\ up[ctrl] # <<>> /\ up' = Unread(up, ctrl)
               /\ down' = Written(down, cli, ctrl, <<"PARAM_EXCHANGE">>)
               /\ ServerGoes("params", "PARAM_EXCHANGE") /\ UNCHANGED <<srv, ctrl, reported>>
        <3>1. spc' = "params" /\ sstate' = "PARAM_EXCHANGE" /\ cli' = cli
            BY <2>2 DEF ServerGoes
        <3>2. ServerSent(spc, sstate) = 0 /\ ServerSent(spc', sstate') = 1
            BY <2>1, <3>1, SentValues
        <3>3. Onwards /\ Sayable(c, "PARAM_EXCHANGE") /\ ServerSent(spc', sstate') < 2
            BY <1>m, <3>2 DEF Onwards, Sayable
        <3> QED BY <1>m, <2>1, <2>2, <3>1, <3>3, AnswerMoves
    <2>3. CASE \E in : cleanup_server(-1, "other", in, down)
        BY <2>3, QuietCleanupMoves
    <2> QED BY <1>1, <2>2, <2>3 DEF ReadCookie, ServerSees
<1>2. CASE ParamsRejected \/ Unauthenticated
    <2>1. ctrl # NoConn
        BY <1>0, <1>2 DEF ParamsRejected, Unauthenticated, ServerPlace
    <2>2. \E err, in : \E msgs \in Refusals : FailAfter(err, in, msgs)
        BY <1>2, <1>m DEF ParamsRejected, Unauthenticated
    <2> QED BY <2>1, <2>2, FailMoves
<1>3. CASE ParamsAccepted
    <2>1. /\ ctrl # NoConn /\ spc = "params" /\ sstate = "PARAM_EXCHANGE"
          /\ up[ctrl] # <<>>
        BY <1>0, <1>3 DEF ParamsAccepted, ServerPlace, ServerSees
    <2>2. CASE /\ up' = Unread(up, ctrl)
               /\ down' = Written(down, cli, ctrl, <<"CREATE_STREAMS">>)
               /\ Relistened(copt[Owner(ctrl)], srv)
               /\ ServerGoes("loop", "CREATE_STREAMS") /\ UNCHANGED <<ctrl, reported>>
        <3>1. spc' = "loop" /\ sstate' = "CREATE_STREAMS" /\ cli' = cli
            BY <2>2 DEF ServerGoes
        <3>2. ServerSent(spc, sstate) = 1 /\ ServerSent(spc', sstate') = 2
            BY <2>1, <3>1, SentValues
        <3>3. Onwards /\ Sayable(c, "CREATE_STREAMS")
            BY <1>m, <3>2 DEF Onwards, Sayable
        <3>4. \A d \in Clients : srv'[Ctrl(d)] = "open" => srv[Ctrl(d)] = "open"
            BY <1>0, <2>2, RelistenedCloses
        <3> QED BY <1>m, <2>1, <2>2, <3>1, <3>3, <3>4, AnswerMoves
    <2>3. CASE FailAfter("other", Unread(up, ctrl), <<>>)
        BY <1>m, <2>1, <2>3, FailMoves
    <2> QED BY <1>3, <2>2, <2>3 DEF ParamsAccepted
<1> QED BY <1>1, <1>2, <1>3

LEMMA StreamMoves ==
    ASSUME ControlInv, UNCHANGED clivars, NEW c \in Clients,
           StreamAccepted \/ LastStreamAccepted \/ StreamDenied
    PROVE  Moves(c)
<1> DEFINE k == Ctrl(c)
<1>0. /\ ServerPlace /\ k \in Conns /\ up \in [Conns -> Seq(ClientMsg)] /\ spc = "stream"
      /\ sstate = "CREATE_STREAMS" /\ ctrl # NoConn /\ ctrl \in Conns /\ acc # NoConn
      /\ acc \in Conns /\ down \in [Conns -> Seq(ServerMsg)]
    BY ServerFacts, CtrlConn DEF StreamAccepted, LastStreamAccepted, StreamDenied, ServerPlace
<1>s. ServerSent(spc, sstate) = 2
    BY <1>0, SentValues
<1>1. CASE StreamAccepted
    <2>1. /\ UNCHANGED <<srv, down, ctrl, reported, cli>> /\ spc' = "loop" /\ sstate' = sstate
          /\ CookieMatches /\ up' = Unread(up, acc)
        BY <1>1 DEF StreamAccepted, ServerGoes
    <2>2. up'[k] = up[k] /\ ServerSent(spc', sstate') = 2
        BY <1>0, <2>1, AccFacts, SentValues
    <2> QED BY <1>s, <2>1, <2>2, QuietMoves DEF Reads1, Onwards
<1>2. CASE LastStreamAccepted
    <2>1. CASE /\ up' = Unread(up, acc) /\ CookieMatches
               /\ Relistened(sopt, srv)
               /\ down' = Written(down, cli, ctrl, <<"TEST_START", "TEST_RUNNING">>)
               /\ ServerGoes("loop", "TEST_RUNNING")
               /\ UNCHANGED <<ctrl, reported>>
        <3>1. spc' = "loop" /\ sstate' = "TEST_RUNNING" /\ cli' = cli /\ up'[k] = up[k]
            BY <1>0, <2>1, AccFacts DEF ServerGoes
        <3>2. ServerSent(spc', sstate') = 4 /\ Reads1(c) /\ Onwards
            BY <1>s, <3>1, SentValues DEF Reads1, Onwards
        <3>3. srv'[k] = "open" => srv[k] = "open"
            BY <1>0, <2>1, RelistenedCloses
        <3>4. CASE ctrl = k /\ cli[k] = "open"
            <4>1. down'[k] = down[k] \o <<"TEST_START", "TEST_RUNNING">>
                BY <1>0, <2>1, <3>4 DEF Written
            <4>2. Says(c)
                BY <1>s, <2>1, <3>2, <3>4, <4>1 DEF Says
            <4> QED BY <2>1, <3>1, <4>2 DEF Moves
        <3>5. CASE ctrl # k \/ cli[k] # "open"
            <4>1. down'[k] = down[k]
                BY <1>0, <2>1, <3>5 DEF Written
            <4> QED BY <1>s, <2>1, <3>1, <3>2, <3>3, <4>1, QuietMoves
        <3> QED BY <3>4, <3>5
    <2>2. CASE \E in : cleanup_server(-1, "other", in, down)
        BY <2>2, QuietCleanupMoves
    <2> QED BY <1>2, <2>1, <2>2 DEF LastStreamAccepted
<1>3. CASE StreamDenied
    <2> DEFINE in == IF up[acc] = <<>> THEN up ELSE Unread(up, acc)
    <2>1. in \in [Conns -> Seq(ClientMsg)] /\ \A j \in Conns : j # acc => in[j] = up[j]
        BY <1>0, UpUnread
    <2> HIDE DEF in
    <2>2. CASE cleanup_server(-1, "other", in, Written(down, cli, acc, <<"ACCESS_DENIED">>))
        <3>1. <<"ACCESS_DENIED">> \in Refusals
            BY DEF Refusals
        <3> QED BY <1>0, <2>2, <3>1, CleanupMoves
    <2>3. CASE Denied(acc, in) /\ ServerGoes("loop", sstate) /\ UNCHANGED <<ctrl, reported>>
        <3>1. UNCHANGED <<ctrl, sstate, reported, cli>> /\ spc' = "loop"
            BY <2>3 DEF ServerGoes
        <3>2. ServerSent(spc', sstate) = ServerSent(spc, sstate)
            BY <1>0, <1>s, <3>1, SentValues
        <3>3. Waiting(acc)
            BY DEF Waiting
        <3> QED BY <1>0, <2>1, <2>3, <3>1, <3>2, <3>3, DeniedMoves
    <2> QED BY <1>3, <2>2, <2>3 DEF StreamDenied, in
<1> QED BY <1>1, <1>2, <1>3

(* The client whose results the server has before it waits for the         *)
(* server's, and there is nothing else on its way to it.                   *)
LEMMA ResultsAwaited ==
    ASSUME ControlInv, NEW c \in Clients, ClientThreads(c), InSequence(c), ctrl = Ctrl(c),
           spc = "results", cli[Ctrl(c)] = "open", ServerSees(Ctrl(c), "results")
    PROVE  /\ down[Ctrl(c)] = <<>> /\ cpc[c] \in {"results", "gone"}
           /\ ClientSent(cpc[c], cstate[c]) >= 3
<1> DEFINE k == Ctrl(c)
           sent == ClientSent(cpc[c], cstate[c])
<1>0. /\ ServerPlace /\ ctrl # NoConn /\ sstate = "EXCHANGE_RESULTS" /\ sent \in Nat
      /\ down[k] \in Seq(ServerMsg) /\ ClientPlace(c) /\ Reported(c)
    BY ServerFacts, CtrlConn, ClientRanks, ClientFacts DEF ServerPlace
<1>1. ServerSent(spc, sstate) = 6 /\ "results" \in ClientMsg /\ UpRank["results"] = 4
    BY <1>0, SentValues DEF ClientMsg, ClientPayload, UpRank
<1>2. sent >= 4
    BY <1>0, <1>1, CtrlReads
<1>3. cpc[c] \in ClientAlive \cup {"gone"}
    BY DEF ClientThreads
<1>4. cstate[c] = "EXCHANGE_RESULTS" /\ cpc[c] \in {"loop", "results", "gone"}
    BY <1>0, <1>2, <1>3 DEF ClientSent, ClientAlive, ClientPlace
<1>5. cpc[c] # "loop"
    <2>1. cpc[c] = "loop" => c \in reported
        BY <1>4 DEF InSequence
    <2>2. c \in reported => ServerSent(spc, sstate) >= 7
        BY <1>0 DEF Reported
    <2> QED BY <1>1, <2>1, <2>2
<1>6. ClientRead(cstate[c]) = 6 /\ SentBy(k) = 6
    BY <1>1, <1>4 DEF ClientRead, ServerByte, DownRank, ServerMsg, SentBy
<1>7. Ascending(DownRank, down[k], 6, 6)
    BY <1>6, ClientFacts
<1>8. \A i \in 1 .. Len(down[k]) : 6 < DownRank[down[k][i]] /\ DownRank[down[k][i]] <= 6
    BY <1>7 DEF Ascending
<1>9. \A i \in 1 .. Len(down[k]) : DownRank[down[k][i]] \in Nat
    BY <1>0, DownRankType
<1>10. Len(down[k]) = 0
    BY <1>0, <1>8, <1>9
<1> QED BY <1>0, <1>2, <1>4, <1>5, <1>10

LEMMA LateMoves ==
    ASSUME ControlInv, UNCHANGED clivars, NEW c \in Clients, ClientThreads(c), InSequence(c),
           HandleTestEnd \/ ExchangeResults \/ SendDisplayResults \/ HandleClientLeaves
    PROVE  Moves(c)
<1> DEFINE k == Ctrl(c)
           sent == ClientSent(cpc[c], cstate[c])
<1>0. ServerPlace /\ k \in Conns /\ up \in [Conns -> Seq(ClientMsg)] /\ sent \in Nat
      /\ ServerSent(spc, sstate) \in Nat
    BY ServerFacts, CtrlConn, ClientRanks
<1>m. /\ "EXCHANGE_RESULTS" \in ServerMsg /\ "results" \in ServerMsg
      /\ "DISPLAY_RESULTS" \in ServerMsg /\ <<>> \in Refusals
      /\ "TEST_END" \in ClientMsg /\ UpRank["TEST_END"] = 3
    BY DEF ServerMsg, ServerByte, ServerPayload, Refusals, ClientMsg, ClientByte, UpRank
<1>1. CASE HandleTestEnd
    <2>1. /\ spc = "loop" /\ sstate \in {"CREATE_STREAMS", "TEST_RUNNING"} /\ ctrl # NoConn
          /\ ServerSees(ctrl, "TEST_END") /\ up[ctrl] # <<>>
        BY <1>1, TestEndState DEF HandleTestEnd, ServerSees
    <2>2. CASE /\ srv' = StreamsClosed /\ up' = Unread(up, ctrl)
               /\ down' = Written(down, cli, ctrl, <<"EXCHANGE_RESULTS">>)
               /\ ServerGoes("results", "EXCHANGE_RESULTS") /\ UNCHANGED <<ctrl, reported>>
        <3>1. spc' = "results" /\ sstate' = "EXCHANGE_RESULTS" /\ cli' = cli
            BY <2>2 DEF ServerGoes
        <3>2. ServerSent(spc, sstate) \in {2, 4} /\ ServerSent(spc', sstate') = 6
            BY <2>1, <3>1, SentValues
        <3>3. ctrl = k => sent >= 3
            <4>1. ASSUME ctrl = k PROVE UpRank["TEST_END"] <= sent
                BY <1>m, <2>1, <4>1, CtrlReads
            <4> QED BY <1>0, <1>m, <4>1
        <3>4. /\ Onwards /\ ServerSent(spc, sstate) >= 2
              /\ ctrl = k => Sayable(c, "EXCHANGE_RESULTS")
            BY <1>m, <3>2, <3>3 DEF Onwards, Sayable
        <3>5. \A d \in Clients : srv'[Ctrl(d)] = "open" => srv[Ctrl(d)] = "open"
            BY <2>2, StreamsClosedFacts
        <3> QED BY <1>m, <2>1, <2>2, <3>1, <3>4, <3>5, AnswerMoves
    <2>3. CASE FailAfter("other", Unread(up, ctrl), <<>>)
        BY <1>m, <2>1, <2>3, FailMoves
    <2> QED BY <1>1, <2>2, <2>3 DEF HandleTestEnd
<1>2. CASE ExchangeResults
    <2>1. spc = "results" /\ sstate = "EXCHANGE_RESULTS" /\ ctrl # NoConn /\ IsControl(ctrl)
        BY <1>0, <1>2 DEF ExchangeResults, ServerPlace
    <2>2. CASE /\ ServerSees(ctrl, "results") /\ up' = Unread(up, ctrl)
               /\ down' = Written(down, cli, ctrl, <<"results">>)
               /\ reported' = reported \cup {Owner(ctrl)}
               /\ ServerGoes("display", sstate) /\ UNCHANGED <<srv, ctrl>>
        <3>1. spc' = "display" /\ sstate' = "EXCHANGE_RESULTS" /\ cli' = cli /\ up[ctrl] # <<>>
            BY <2>1, <2>2 DEF ServerGoes, ServerSees
        <3>2. ServerSent(spc, sstate) = 6 /\ ServerSent(spc', sstate') = 7
            BY <2>1, <3>1, SentValues
        <3>3. Onwards /\ ServerSent(spc, sstate) >= 2
            BY <3>2 DEF Onwards
        <3>4. ASSUME ctrl = k, cli[k] = "open" PROVE Sayable(c, "results")
            <4>1. down[k] = <<>> /\ cpc[c] \in {"results", "gone"} /\ sent >= 3
                BY <2>1, <2>2, <3>4, ResultsAwaited
            <4>2. c \in reported'
                BY <2>2, <3>4, CtrlConn
            <4> QED BY <1>m, <3>3, <4>1, <4>2 DEF Sayable
        <3> QED BY <1>m, <2>1, <2>2, <3>1, <3>3, <3>4, AnswerMoves
    <2>3. CASE \E in : FailAfter("other", in, <<>>)
        BY <1>m, <2>1, <2>3, FailMoves
    <2> QED BY <1>2, <2>2, <2>3 DEF ExchangeResults
<1>3. CASE SendDisplayResults
    <2>1. spc = "display" /\ sstate = "EXCHANGE_RESULTS" /\ ctrl # NoConn
        BY <1>0, <1>3 DEF SendDisplayResults, ServerPlace
    <2>2. CASE /\ down' = Written(down, cli, ctrl, <<"DISPLAY_RESULTS">>)
               /\ ServerGoes("loop", "DISPLAY_RESULTS") /\ UNCHANGED <<srv, up, ctrl, reported>>
        <3>1. spc' = "loop" /\ sstate' = "DISPLAY_RESULTS" /\ cli' = cli
            BY <2>2 DEF ServerGoes
        <3>2. ServerSent(spc, sstate) = 7 /\ ServerSent(spc', sstate') = 8
            BY <2>1, <3>1, SentValues
        <3>3. ctrl = k => sent >= 3
            <4>1. ServerRead(spc, sstate) = 4
                BY <2>1 DEF ServerRead
            <4>2. ReadBy(k) <= sent
                BY ClientFacts
            <4> QED BY <1>0, <4>1, <4>2 DEF ReadBy
        <3>4. /\ Onwards /\ ServerSent(spc, sstate) >= 2
              /\ ctrl = k => Sayable(c, "DISPLAY_RESULTS")
            BY <1>m, <3>2, <3>3 DEF Onwards, Sayable
        <3> QED BY <1>m, <2>1, <2>2, <3>1, <3>4, AnswerMoves
    <2>3. CASE FailAfter("other", up, <<>>)
        BY <1>m, <2>1, <2>3, FailMoves
    <2> QED BY <1>3, <2>2, <2>3 DEF SendDisplayResults
<1>4. CASE HandleClientLeaves
    <2>1. /\ spc = "loop" /\ sstate \in {"CREATE_STREAMS", "TEST_RUNNING", "DISPLAY_RESULTS"}
          /\ ctrl \in Conns /\ spc' = "loop" /\ sstate' = "IPERF_DONE" /\ ctrl' = ctrl
          /\ UNCHANGED <<down, reported, cli>>
        BY <1>0, <1>4, ServerFacts DEF HandleClientLeaves, ServerGoes, InLoop, ServerPlace
    <2>2. /\ ServerSent(spc, sstate) \in {2, 4, 8} /\ ServerSent(spc', sstate') = 8
        BY <2>1, SentValues
    <2>3. srv'[k] = srv[k]
        BY <1>4, StreamsClosedFacts DEF HandleClientLeaves
    <2>4. Reads1(c)
        <3>1. up' = up \/ (up[ctrl] # <<>> /\ up' = Unread(up, ctrl))
            BY <1>4 DEF HandleClientLeaves, ServerSees
        <3>2. CASE up' = up
            BY <3>2 DEF Reads1
        <3>3. CASE up[ctrl] # <<>> /\ up' = Unread(up, ctrl)
            BY <1>0, <2>1, <3>3, UpUnread DEF Reads1
        <3> QED BY <3>1, <3>2, <3>3
    <2> QED BY <2>1, <2>2, <2>3, <2>4, QuietMoves DEF Onwards
<1> QED BY <1>1, <1>2, <1>3, <1>4

LEMMA EndMoves ==
    ASSUME ControlInv, UNCHANGED clivars, NEW c \in Clients,
           \/ HandleBadMessage \/ ServerIdle \/ ServerGivesUp \/ ServerDone
           \/ IdleRestart \/ ServerSigEnd
    PROVE  Moves(c)
<1>1. CASE HandleBadMessage \/ ServerIdle \/ ServerGivesUp \/ ServerDone
    <2>1. \E rc, err, in : cleanup_server(rc, err, in, down)
        BY <1>1 DEF HandleBadMessage, ServerIdle, ServerGivesUp, ServerDone
    <2> QED BY <2>1, QuietCleanupMoves
<1>2. CASE IdleRestart
    <2>1. ServerGone(up, down) /\ reported' = reported /\ Ctrl(c) \in Conns /\ <<>> \in Refusals
        BY <1>2, CtrlConn DEF IdleRestart, Refusals
    <2> QED BY <2>1, GoneMoves
<1>3. CASE ServerSigEnd
    <2>1. reported' = reported /\ <<"SERVER_TERMINATE">> \in Refusals /\ Ctrl(c) \in Conns
        BY <1>3, CtrlConn DEF ServerSigEnd, Refusals
    <2>2. CASE ctrl = NoConn
        <3>1. ServerGone(up, down)
            BY <1>3, <2>2 DEF ServerSigEnd
        <3> QED BY <2>1, <3>1, GoneMoves
    <2>3. CASE ctrl # NoConn
        <3>1. ServerGone(up, Written(down, cli, ctrl, <<"SERVER_TERMINATE">>)) /\ ctrl \in Conns
            BY <1>3, <2>3, ServerFacts DEF ServerSigEnd
        <3> QED BY <2>1, <3>1, GoneMoves
    <2> QED BY <2>2, <2>3
<1> QED BY <1>1, <1>2, <1>3

(* No step of the server disturbs what is on its way to a client.          *)
LEMMA SequenceServer ==
    ASSUME ControlInv, UNCHANGED clivars, ServerStep \/ ServerSigEnd, NEW c \in Clients,
           ClientThreads(c), InSequence(c)
    PROVE  ClientThreads(c)' /\ InSequence(c)'
<1>1. Moves(c)
    BY AcceptMoves, SetupMoves, StreamMoves, LateMoves, EndMoves DEF ServerStep
<1>2. InSequence(c)'
    BY <1>1, PartedFlow, StaysFlow, SaysFlow DEF Moves
<1> QED BY <1>1, <1>2 DEF ClientThreads, Moves, clivars

-----------------------------------------------------------------------------
(* What a step of client c does: the other clients keep everything; the    *)
(* threads of c and what is on its way to c are as they should be; c dials *)
(* its connections in order.                                               *)
Same(d) ==
    /\ cstate'[d] = cstate[d] /\ cpc'[d] = cpc[d] /\ cmode'[d] = cmode[d]
    /\ cstreams'[d] = cstreams[d] /\ cpeer'[d] = cpeer[d] /\ cworkers'[d] = cworkers[d]
    /\ cli'[Ctrl(d)] = cli[Ctrl(d)] /\ srv'[Ctrl(d)] = srv[Ctrl(d)]
    /\ up'[Ctrl(d)] = up[Ctrl(d)] /\ down'[Ctrl(d)] = down[Ctrl(d)]
UpTo(c) ==
    /\ DialledUpTo(c) <= DialledUpTo(c)'
    /\ \/ backlog' = backlog
       \/ \E n \in Nat : /\ <<c, n>> \in Conns /\ backlog' = Append(backlog, <<c, n>>)
                         /\ n > DialledUpTo(c) /\ n <= DialledUpTo(c)'
Flows(c) ==
    /\ \A d \in Clients : d # c => Same(d)
    /\ cmode' = cmode /\ ClientThreads(c)' /\ InSequence(c)' /\ UpTo(c)

LEMMA SameFlow ==
    ASSUME UNCHANGED srvvars, NEW d \in Clients, Same(d), ClientThreads(d), InSequence(d)
    PROVE  ClientThreads(d)' /\ InSequence(d)' /\ DialledUpTo(d)' = DialledUpTo(d)
<1>1. ClientThreads(d)'
    BY DEF Same, ClientThreads
<1>2. InSequence(d)'
    BY DEF Same, InSequence, srvvars
<1>3. DialledUpTo(d)' = DialledUpTo(d)
    BY DEF Same, DialledUpTo
<1> QED BY <1>1, <1>2, <1>3

LEMMA DialledBound ==
    ASSUME ControlInv, NEW c \in Clients
    PROVE  /\ StreamCount(cmode[c]) \in Nat \ {0} /\ DialledUpTo(c) \in Int
           /\ DialledUpTo(c) <= StreamCount(cmode[c])
           /\ cstreams[c] \in Nat /\ StreamCount(cmode[c]) <= MaxStreams /\ MaxStreams \in Nat
<1>1. /\ StreamCount(cmode[c]) \in Nat \ {0} /\ MaxStreams \in Nat
      /\ StreamCount(cmode[c]) <= MaxStreams
    BY ConnectionsAssumption DEF StreamCount, MaxStreams
<1>2. cstreams[c] \in 0 .. MaxStreams /\ ClientPlace(c)
    BY ClientFacts
<1>3. cstreams[c] \in Nat
    BY <1>1, <1>2
<1>4. cpc[c] \in {"create", "stream"} => cstreams[c] < StreamCount(cmode[c])
    BY <1>2 DEF ClientPlace
<1> QED BY <1>1, <1>3, <1>4 DEF DialledUpTo

LEMMA OtherConns ==
    ASSUME NEW c \in Clients, NEW d \in Clients, d # c
    PROVE  /\ Ctrl(d) \in Conns /\ Owner(Ctrl(d)) # c /\ Ctrl(d) # Ctrl(c)
           /\ \A n : Ctrl(d) # <<c, n>>
BY CtrlConn DEF Ctrl, Owner

(* A client ends.                                                          *)
LEMMA ExitFlow ==
    ASSUME ControlInv, NEW c \in Clients, InSequence(c),
           NEW pc \in {"ok", "failed", "killed"}, NEW st,
           NEW dn, NEW msgs \in {<<>>, <<"IPERF_DONE">>, <<"CLIENT_TERMINATE">>},
           ClientExit(c, pc, st, dn, msgs), UNCHANGED srvvars
    PROVE  Flows(c)
<1> DEFINE k == Ctrl(c)
           w == Written(up, srv, k, msgs)
<1>0. /\ NetTypeOK /\ ClientTypeOK /\ k \in Conns /\ Owner(k) = c
      /\ up \in [Conns -> Seq(ClientMsg)] /\ "results" \in ClientMsg
    BY ServerFacts, CtrlConn DEF ClientMsg, ClientPayload
<1>m. msgs \in Seq(ClientMsg) /\ ~Has(msgs, "results")
    <2>1. "IPERF_DONE" \in ClientMsg /\ "CLIENT_TERMINATE" \in ClientMsg
        BY DEF ClientMsg, ClientByte
    <2>2. CASE msgs = <<>>
        BY <2>2, HasEmpty
    <2>3. CASE msgs = <<"IPERF_DONE">>
        BY <2>1, <2>3 DEF Has
    <2>4. CASE msgs = <<"CLIENT_TERMINATE">>
        BY <2>1, <2>4 DEF Has
    <2> QED BY <2>2, <2>3, <2>4
<1>1. w \in [Conns -> Seq(ClientMsg)] /\ \A j \in Conns : j # k => w[j] = up[j]
    <2>1. CASE srv[k] = "open"
        <3>1. w = [up EXCEPT ![k] = up[k] \o msgs] /\ up[k] \o msgs \in Seq(ClientMsg)
            BY <1>0, <1>m, <2>1 DEF Written
        <3> QED BY <1>0, <3>1
    <2>2. CASE srv[k] # "open"
        BY <1>0, <2>2 DEF Written
    <2> QED BY <2>1, <2>2
<1>2. /\ up' \in [Conns -> Seq(ClientMsg)]
      /\ \A j \in Conns : j # k => up'[j] = w[j]
      /\ up'[k] \in Prefixes(w[k])
    <2>1. up' \in SurvivingClose(dn, w, k)
        BY DEF ClientExit
    <2> HIDE DEF w, k
    <2> QED BY <1>0, <1>1, <2>1, UpClose, Zenon
<1>3. Has(up'[k], "results") => Has(up[k], "results")
    <2> DEFINE s == up[k]
               v == w[k]
    <2>0. v \in Seq(ClientMsg) /\ s \in Seq(ClientMsg)
        BY <1>0, <1>1
    <2>1. Has(v, "results") => Has(s, "results")
        <3>1. CASE srv[k] = "open"
            <4>1. v = s \o msgs
                BY <1>0, <3>1 DEF Written
            <4>2. Len(v) = Len(s) + Len(msgs) /\ Len(s) \in Nat /\ Len(msgs) \in Nat
                  /\ (\A i \in 1 .. Len(s) : v[i] = s[i])
                  /\ (\A i \in 1 .. Len(msgs) : v[Len(s) + i] = msgs[i])
                BY <1>m, <2>0, <4>1
            <4> HIDE DEF v, s
            <4>3. ASSUME NEW i \in 1 .. Len(v), v[i] = "results" PROVE Has(s, "results")
                <5>1. CASE i \in 1 .. Len(s)
                    BY <4>2, <4>3, <5>1 DEF Has
                <5>2. CASE i \notin 1 .. Len(s)
                    <6>1. i - Len(s) \in 1 .. Len(msgs) /\ i = Len(s) + (i - Len(s))
                        BY <4>2, <5>2
                    <6>2. msgs[i - Len(s)] = "results"
                        BY <4>2, <4>3, <6>1
                    <6> QED BY <1>m, <6>1, <6>2 DEF Has
                <5> QED BY <5>1, <5>2
            <4> QED BY <4>3 DEF Has
        <3>2. CASE srv[k] # "open"
            BY <3>2 DEF Written
        <3> QED BY <3>1, <3>2
    <2>2. Has(up'[k], "results") => Has(v, "results")
        <3> HIDE DEF v
        <3>1. PICK n \in 0 .. Len(v) : up'[k] = SubSeq(v, 1, n)
            BY <1>2 DEF Prefixes, v
        <3>2. Len(up'[k]) = n /\ n <= Len(v) /\ \A i \in 1 .. n : up'[k][i] = v[i]
            BY <2>0, <3>1
        <3> QED BY <2>0, <3>2 DEF Has
    <2> QED BY <2>1, <2>2
<1>4. /\ cpc'[c] = pc /\ cworkers'[c] = {} /\ down'[k] = <<>> /\ cli'[k] # "open" /\ srv' = srv
      /\ backlog' = backlog /\ cpeer' = cpeer /\ cmode' = cmode /\ cstreams' = cstreams
    BY <1>0 DEF ClientExit, NetTypeOK, ClientTypeOK, End
<1>5. ASSUME NEW d \in Clients, d # c PROVE Same(d)
    <2>1. Ctrl(d) \in Conns /\ Owner(Ctrl(d)) # c /\ Ctrl(d) # k
        BY <1>5, OtherConns
    <2>2. up'[Ctrl(d)] = up[Ctrl(d)]
        BY <1>1, <1>2, <2>1
    <2> QED BY <1>0, <1>4, <1>5, <2>1, <2>2 DEF Same, ClientExit, NetTypeOK, ClientTypeOK
<1>6. ClientThreads(c)'
    BY <1>4 DEF ClientThreads, ClientAlive
<1>7. InSequence(c)'
    <2>1. InPlace(c, <<>>, cpc'[c], cstate'[c], reported')
        BY InPlaceEmpty
    <2> QED BY <1>3, <1>4, <2>1 DEF InSequence, srvvars
<1>8. UpTo(c)
    <2>1. DialledUpTo(c)' = StreamCount(cmode[c])
        BY <1>4 DEF DialledUpTo, ClientAlive
    <2> QED BY <1>4, <2>1, DialledBound DEF UpTo
<1> QED BY <1>4, <1>5, <1>6, <1>7, <1>8 DEF Flows

LEMMA FailFlow ==
    ASSUME ControlInv, NEW c \in Clients, InSequence(c), NEW st, NEW dn,
           CleanupAndFail(c, st, dn), UNCHANGED srvvars
    PROVE  Flows(c)
<1>1. PICK msgs \in {<<>>, <<"IPERF_DONE">>, <<"CLIENT_TERMINATE">>} :
          ClientExit(c, "failed", st, dn, msgs)
    BY DEF CleanupAndFail, iperf_client_end
<1> QED BY <1>1, ExitFlow

(* A client goes on.                                                       *)
Elsewhere(c) ==
    \A d \in Clients : d # c =>
        /\ cstreams'[d] = cstreams[d] /\ cpeer'[d] = cpeer[d] /\ cworkers'[d] = cworkers[d]
        /\ up'[Ctrl(d)] = up[Ctrl(d)] /\ down'[Ctrl(d)] = down[Ctrl(d)]

LEMMA GoesFlow ==
    ASSUME ControlInv, NEW c \in Clients, InSequence(c), ClientThreads(c), UNCHANGED srvvars,
           cpc[c] \in {"dialled", "loop", "create", "stream", "results"},
           NEW pc \in ClientAlive, NEW st, ClientGoes(c, pc, st), Elsewhere(c),
           InPlace(c, down'[Ctrl(c)], pc, st, reported),
           srv[Ctrl(c)] = "open" /\ Has(up'[Ctrl(c)], "results")
              => \/ Has(up[Ctrl(c)], "results")
                 \/ ctrl = Ctrl(c) /\ ServerSent(spc, sstate) >= 6,
           ClientRead(cstate[c]) >= 2 \/ Has(down[Ctrl(c)], "CREATE_STREAMS")
              => ClientRead(st) >= 2 \/ Has(down'[Ctrl(c)], "CREATE_STREAMS"),
           cpeer'[c] => c \in reported,
           pc = "loop" /\ st = "EXCHANGE_RESULTS" => cpeer'[c],
           "send" \in cworkers'[c] => pc = "loop" /\ st = "TEST_RUNNING",
           pc \in {"loop", "results"} /\ st \in TestState => cstreams'[c] = StreamCount(cmode[c]),
           DialledUpTo(c) <= DialledUpTo(c)'
    PROVE  Flows(c)
<1> DEFINE k == Ctrl(c)
<1>0. ClientTypeOK /\ cstate \in [Clients -> ClientState]
      /\ cpc \in [Clients -> ClientAlive \cup ClientEnded]
    BY DEF ControlInv, TypeOK, ClientTypeOK
<1>1. /\ cpc'[c] = pc /\ cstate'[c] = st /\ cmode' = cmode /\ cli' = cli /\ srv' = srv
      /\ backlog' = backlog
      /\ \A d \in Clients : d # c => cpc'[d] = cpc[d] /\ cstate'[d] = cstate[d]
    BY <1>0 DEF ClientGoes
<1>2. ASSUME NEW d \in Clients, d # c PROVE Same(d)
    BY <1>1, <1>2 DEF Same, Elsewhere
<1>3. ClientThreads(c)'
    BY <1>1 DEF ClientThreads, ClientAlive
<1>4. InSequence(c)'
    BY <1>1 DEF InSequence, srvvars
<1>5. UpTo(c)
    BY <1>1 DEF UpTo
<1> QED BY <1>1, <1>2, <1>3, <1>4, <1>5 DEF Flows

(* What a client in its loop may find in front of it.                      *)
LEMMA HeadInPlace ==
    ASSUME ControlInv, NEW c \in Clients, InSequence(c), ClientThreads(c),
           cpc[c] = "loop", NEW m, ClientSees(Ctrl(c), m)
    PROVE  /\ m \in ServerByte /\ cstate[c] \in LiveState
           /\ m \in {"TEST_START", "TEST_RUNNING", "EXCHANGE_RESULTS"}
                 => ClientRead(cstate[c]) >= 2 /\ cstreams[c] = StreamCount(cmode[c])
           /\ m \in Late => ClientSent(cpc[c], cstate[c]) >= 3
<1> DEFINE s == down[Ctrl(c)]
<1>0. s \in Seq(ServerMsg) /\ s # <<>> /\ s[1] = m /\ Len(s) \in Nat /\ 1 \in 1 .. Len(s)
    BY ClientFacts DEF ClientSees
<1>1. m \in ServerMsg
    BY <1>0
<1>2. /\ m # "errs" /\ m # "results"
      /\ m \in Rest => ClientRead(cstate[c]) >= 2 \/ m = "CREATE_STREAMS"
      /\ m \in Late => ClientSent(cpc[c], cstate[c]) >= 3
    <2>1. InPlace(c, s, cpc[c], cstate[c], reported)
        BY DEF InSequence
    <2> HIDE DEF s
    <2> QED BY <1>0, <2>1 DEF InPlace
<1>3. cstate[c] \in LiveState
    BY ClientFacts DEF ClientPlace, ClientAlive
<1>4. ClientRead(cstate[c]) >= 2 => cstate[c] \in TestState
    BY <1>3 DEF ClientRead, LiveState, DownRank, ServerByte, ServerMsg
<1>5. ClientRead(cstate[c]) >= 2 => cstreams[c] = StreamCount(cmode[c])
    BY <1>4 DEF ClientThreads
<1> QED BY <1>1, <1>2, <1>3, <1>5 DEF ServerMsg, ServerPayload, Rest, Late

LEMMA ElsewhereKept ==
    ASSUME ControlInv, NEW c \in Clients,
           \A j \in Conns : Owner(j) # c => up'[j] = up[j] /\ down'[j] = down[j],
           \A d \in Clients : d # c => /\ cstreams'[d] = cstreams[d] /\ cpeer'[d] = cpeer[d]
                                       /\ cworkers'[d] = cworkers[d]
    PROVE  Elsewhere(c)
<1> SUFFICES ASSUME NEW d \in Clients, d # c
             PROVE  up'[Ctrl(d)] = up[Ctrl(d)] /\ down'[Ctrl(d)] = down[Ctrl(d)]
    BY DEF Elsewhere
<1> QED BY OtherConns

LEMMA OwnOnly ==
    ASSUME NEW c \in Clients, NEW ch, NEW ch2, \A j \in Conns : j # Ctrl(c) => ch2[j] = ch[j]
    PROVE  \A j \in Conns : Owner(j) # c => ch2[j] = ch[j]
BY CtrlConn

LEMMA WritesResults ==
    ASSUME ControlInv, NEW c \in Clients, NEW m \in ClientMsg, m # "results",
           up' = Written(up, srv, Ctrl(c), <<m>>)
    PROVE  Has(up'[Ctrl(c)], "results") => Has(up[Ctrl(c)], "results")
<1>0. up \in [Conns -> Seq(ClientMsg)] /\ Ctrl(c) \in Conns /\ <<m>> \in Seq(ClientMsg)
      /\ "results" \in ClientMsg
    BY ClientFacts DEF ClientMsg, ClientPayload
<1>1. CASE srv[Ctrl(c)] = "open"
    <2>1. up'[Ctrl(c)] = up[Ctrl(c)] \o <<m>>
        BY <1>0, <1>1 DEF Written
    <2>2. /\ up[Ctrl(c)] \in Seq(ClientMsg)
          /\ Has(up[Ctrl(c)] \o <<m>>, "results") <=> Has(up[Ctrl(c)], "results") \/ "results" = m
        BY <1>0, HasAppend, Zenon
    <2> QED BY <2>1, <2>2
<1>2. CASE srv[Ctrl(c)] # "open"
    BY <1>2 DEF Written
<1> QED BY <1>1, <1>2

LEMMA WritesElsewhere ==
    ASSUME ControlInv, NEW c \in Clients, NEW m \in ClientMsg,
           up' = Written(up, srv, Ctrl(c), <<m>>)
    PROVE  \A j \in Conns : Owner(j) # c => up'[j] = up[j]
<1>0. up \in [Conns -> Seq(ClientMsg)] /\ Ctrl(c) \in Conns /\ <<m>> \in Seq(ClientMsg)
    BY ClientFacts
<1>1. \A j \in Conns : j # Ctrl(c) => up'[j] = up[j]
    BY <1>0, UpWritten
<1> QED BY <1>1, OwnOnly

LEMMA ReadsFlow ==
    ASSUME ControlInv, NEW c \in Clients, InSequence(c), ClientThreads(c), cpc[c] = "loop",
           NEW m \in {"PARAM_EXCHANGE", "CREATE_STREAMS", "TEST_START", "TEST_RUNNING",
                      "EXCHANGE_RESULTS"},
           ClientSees(Ctrl(c), m), down' = Unread(down, Ctrl(c)), NEW pc \in ClientAlive,
           m = "EXCHANGE_RESULTS" => pc = "results"
    PROVE  /\ InPlace(c, down'[Ctrl(c)], pc, m, reported)
           /\ ClientRead(cstate[c]) >= 2 \/ Has(down[Ctrl(c)], "CREATE_STREAMS")
                 => ClientRead(m) >= 2 \/ Has(down'[Ctrl(c)], "CREATE_STREAMS")
           /\ \A j \in Conns : Owner(j) # c => down'[j] = down[j]
           /\ ClientRead(cstate[c]) < ClientRead(m)
<1> DEFINE k == Ctrl(c)
<1>0. /\ down \in [Conns -> Seq(ServerMsg)] /\ k \in Conns /\ down[k] # <<>> /\ Head(down[k]) = m
      /\ cstate[c] \in LiveState /\ m \in ServerMsg /\ "CREATE_STREAMS" \in ServerMsg
    BY ClientFacts, HeadInPlace DEF ClientSees, ServerMsg, ServerByte
<1>1. /\ DownRank[m] = ClientRead(m) /\ ClientRead(m) \in 1 .. 6
      /\ m = "PARAM_EXCHANGE" => ClientRead(m) = 1
      /\ m # "PARAM_EXCHANGE" => ClientRead(m) >= 2
      /\ ClientRead(m) = 6 => m = "EXCHANGE_RESULTS"
    BY <1>0 DEF ClientRead, DownRank, ServerMsg, ServerByte
<1>2. /\ \A j \in Conns : j # k => down'[j] = down[j]
      /\ ClientRead(cstate[c]) < DownRank[m] /\ down'[k] = Tail(down[k])
      /\ \A x \in ServerMsg : x # m /\ Has(down[k], x) => Has(down'[k], x)
    BY <1>0, ClientReads, DownUnread
<1>3. ClientSent(cpc[c], cstate[c]) >= 3 => ClientRead(cstate[c]) >= 5
    BY <1>0 DEF ClientSent, ClientRead, LiveState, TestState, DownRank, ServerMsg, ServerByte
<1>4. ClientSent(cpc[c], cstate[c]) >= 3 => ClientSent(pc, m) >= 3
    <2>1. ClientRead(cstate[c]) >= 5 => m = "EXCHANGE_RESULTS"
        BY <1>1, <1>2, ClientRanks
    <2>2. m = "EXCHANGE_RESULTS" => ClientSent(pc, m) >= 3
        BY DEF ClientSent
    <2> QED BY <1>3, <2>1, <2>2
<1>5. ClientRead(cstate[c]) >= 2 \/ m = "CREATE_STREAMS" => ClientRead(m) >= 2
    BY <1>1, <1>2, ClientRanks
<1>6. InPlace(c, down[k], cpc[c], cstate[c], reported) /\ down[k] \in Seq(ServerMsg)
    BY <1>0 DEF InSequence
<1>7. InPlace(c, Tail(down[k]), pc, m, reported)
    <2> HIDE DEF k
    <2> QED BY <1>0, <1>4, <1>5, <1>6, InPlaceTail
<1>8. Has(down[k], "CREATE_STREAMS") => ClientRead(m) >= 2 \/ Has(down'[k], "CREATE_STREAMS")
    BY <1>0, <1>1, <1>2
<1>9. \A j \in Conns : Owner(j) # c => down'[j] = down[j]
    BY <1>2, OwnOnly
<1> QED BY <1>1, <1>2, <1>5, <1>7, <1>8, <1>9

LEMMA GoesTo ==
    ASSUME ControlInv, NEW c \in Clients, NEW pc, NEW st, ClientGoes(c, pc, st)
    PROVE  /\ cpc'[c] = pc /\ cstate'[c] = st /\ cmode' = cmode
           /\ st \in TestState /\ pc \in {"loop", "results"}
                 => DialledUpTo(c)' = StreamCount(cmode[c]) /\ DialledUpTo(c) <= DialledUpTo(c)'
<1>1. cpc'[c] = pc /\ cstate'[c] = st /\ cmode' = cmode
    BY DEF ControlInv, TypeOK, ClientTypeOK, ClientGoes
<1>2. st \in TestState /\ pc \in {"loop", "results"} => DialledUpTo(c)' = StreamCount(cmode[c])
    BY <1>1 DEF DialledUpTo, TestState
<1> QED BY <1>1, <1>2, DialledBound

LEMMA HandleParamExchangeFlow ==
    ASSUME ControlInv, NEW c \in Clients, InSequence(c), ClientThreads(c),
           HandleParamExchange(c), UNCHANGED srvvars
    PROVE  Flows(c)
<1> DEFINE m == "PARAM_EXCHANGE"
           k == Ctrl(c)
<1>0. cpc[c] = "loop" /\ ClientSees(k, m) /\ "loop" \in ClientAlive /\ "params" \in ClientMsg
    BY DEF HandleParamExchange, Answer, Reads, ClientAlive, ClientMsg, ClientPayload
<1>1. CASE /\ up' = Written(up, srv, k, <<"params">>) /\ down' = Unread(down, k)
           /\ ClientGoes(c, "loop", m) /\ UNCHANGED <<cstreams, cworkers, cpeer>>
    <2>1. /\ InPlace(c, down'[k], "loop", m, reported)
          /\ ClientRead(cstate[c]) >= 2 \/ Has(down[k], "CREATE_STREAMS")
                => ClientRead(m) >= 2 \/ Has(down'[k], "CREATE_STREAMS")
          /\ \A j \in Conns : Owner(j) # c => down'[j] = down[j]
          /\ ClientRead(cstate[c]) < ClientRead(m) /\ cstate[c] \in LiveState
        BY <1>0, <1>1, ReadsFlow, HeadInPlace
    <2>2. cstate[c] = "0"
        BY <2>1 DEF ClientRead, LiveState, TestState, DownRank, ServerMsg, ServerByte
    <2>3. /\ \A j \in Conns : Owner(j) # c => up'[j] = up[j]
          /\ Has(up'[k], "results") => Has(up[k], "results")
        BY <1>0, <1>1, WritesElsewhere, WritesResults
    <2>4. Elsewhere(c)
        BY <1>1, <2>1, <2>3, ElsewhereKept
    <2>5. DialledUpTo(c) = 0 /\ DialledUpTo(c)' = 0
        BY <1>0, <1>1, <2>2, GoesTo DEF DialledUpTo
    <2>6. (cpeer'[c] => c \in reported) /\ "send" \notin cworkers'[c] /\ m \notin TestState
        BY <1>1, <2>2 DEF InSequence, ClientThreads, TestState
    <2> QED BY <1>0, <1>1, <2>1, <2>3, <2>4, <2>5, <2>6, GoesFlow
<1>2. CASE CleanupAndFail(c, m, Unread(down, k))
    BY <1>2, FailFlow
<1> QED BY <1>1, <1>2 DEF HandleParamExchange, Answer

LEMMA HandleExchangeResultsFlow ==
    ASSUME ControlInv, NEW c \in Clients, InSequence(c), ClientThreads(c),
           HandleExchangeResults(c), UNCHANGED srvvars
    PROVE  Flows(c)
<1> DEFINE m == "EXCHANGE_RESULTS"
           k == Ctrl(c)
<1>0. /\ cpc[c] = "loop" /\ ClientSees(k, m) /\ "results" \in ClientAlive
      /\ "results" \in ClientMsg /\ m \in ServerMsg /\ DownRank[m] = 6 /\ m \in TestState
    BY DEF HandleExchangeResults, Answer, Reads, ClientAlive, ClientMsg, ClientPayload,
           ServerMsg, ServerByte, DownRank, TestState
<1>1. CASE /\ up' = Written(up, srv, k, <<"results">>) /\ down' = Unread(down, k)
           /\ ClientGoes(c, "results", m) /\ UNCHANGED <<cstreams, cworkers, cpeer>>
    <2>1. /\ InPlace(c, down'[k], "results", m, reported)
          /\ ClientRead(cstate[c]) >= 2 \/ Has(down[k], "CREATE_STREAMS")
                => ClientRead(m) >= 2 \/ Has(down'[k], "CREATE_STREAMS")
          /\ \A j \in Conns : Owner(j) # c => down'[j] = down[j]
        BY <1>0, <1>1, ReadsFlow
    <2>2. ClientSent(cpc[c], cstate[c]) >= 3 /\ cstreams[c] = StreamCount(cmode[c])
        BY <1>0, HeadInPlace DEF Late
    <2>3. \A j \in Conns : Owner(j) # c => up'[j] = up[j]
        BY <1>0, <1>1, WritesElsewhere
    <2>4. Elsewhere(c)
        BY <1>1, <2>1, <2>3, ElsewhereKept
    <2>5. srv[k] = "open" => ctrl = k /\ ServerSent(spc, sstate) >= 6
        <3>1. ~Waiting(k) /\ DownRank[m] <= SentBy(k) /\ Accounted(c)
            BY <1>0, ClientReads, ClientFacts
        <3> QED BY <1>0, <3>1 DEF Accounted, SentBy
    <2>6. (cpeer'[c] => c \in reported) /\ "send" \notin cworkers'[c]
        <3>1. ClientSent("loop", "TEST_RUNNING") = 2
            BY DEF ClientSent
        <3> QED BY <1>0, <1>1, <2>2, <3>1 DEF InSequence, ClientThreads
    <2>7. DialledUpTo(c) <= DialledUpTo(c)'
        BY <1>0, <1>1, GoesTo
    <2> QED BY <1>0, <1>1, <2>1, <2>2, <2>4, <2>5, <2>6, <2>7, GoesFlow
<1>2. CASE CleanupAndFail(c, m, Unread(down, k))
    BY <1>2, FailFlow
<1> QED BY <1>1, <1>2 DEF HandleExchangeResults, Answer

LEMMA OnlyReadsFlow ==
    ASSUME ControlInv, NEW c \in Clients, InSequence(c), ClientThreads(c), UNCHANGED srvvars,
           NEW m \in {"CREATE_STREAMS", "TEST_START", "TEST_RUNNING"},
           NEW pc, pc = IF m = "CREATE_STREAMS" THEN "create" ELSE "loop",
           Reads(c, m), down' = Unread(down, Ctrl(c)), ClientGoes(c, pc, m),
           UNCHANGED <<up, cstreams, cpeer>>,
           \A d \in Clients : d # c => cworkers'[d] = cworkers[d],
           m # "TEST_RUNNING" => cworkers' = cworkers
    PROVE  Flows(c)
<1> DEFINE k == Ctrl(c)
<1>0. cpc[c] = "loop" /\ ClientSees(k, m) /\ pc \in ClientAlive
    BY DEF Reads, ClientAlive
<1>1. /\ InPlace(c, down'[k], pc, m, reported)
      /\ ClientRead(cstate[c]) >= 2 \/ Has(down[k], "CREATE_STREAMS")
            => ClientRead(m) >= 2 \/ Has(down'[k], "CREATE_STREAMS")
      /\ \A j \in Conns : Owner(j) # c => down'[j] = down[j]
      /\ ClientRead(cstate[c]) < ClientRead(m) /\ cstate[c] \in LiveState
      /\ m \in {"TEST_START", "TEST_RUNNING"} => cstreams[c] = StreamCount(cmode[c])
    BY <1>0, ReadsFlow, HeadInPlace
<1>2. Elsewhere(c)
    BY <1>1, ElsewhereKept
<1>3. cpeer'[c] => c \in reported
    BY DEF InSequence
<1>4. "send" \in cworkers'[c] => pc = "loop" /\ m = "TEST_RUNNING"
    <2>1. m # "TEST_RUNNING" => cstate[c] # "TEST_RUNNING"
        BY <1>1 DEF ClientRead, DownRank, ServerMsg, ServerByte
    <2> QED BY <2>1 DEF ClientThreads
<1>5. DialledUpTo(c) <= DialledUpTo(c)'
    <2>1. CASE m = "CREATE_STREAMS"
        <3>1. cstate[c] \in {"0", "PARAM_EXCHANGE"}
            BY <1>1, <2>1 DEF ClientRead, LiveState, TestState, DownRank, ServerMsg, ServerByte
        <3>2. DialledUpTo(c) = 0
            BY <1>0, <3>1 DEF DialledUpTo, ClientAlive
        <3>3. DialledUpTo(c)' = cstreams[c] /\ cstreams[c] \in Nat
            BY <2>1, GoesTo, DialledBound DEF DialledUpTo
        <3> QED BY <3>2, <3>3
    <2>2. CASE m # "CREATE_STREAMS"
        BY <2>2, GoesTo DEF TestState
    <2> QED BY <2>1, <2>2
<1> QED BY <1>0, <1>1, <1>2, <1>3, <1>4, <1>5, GoesFlow

LEMMA get_resultsFlow ==
    ASSUME ControlInv, NEW c \in Clients, InSequence(c), ClientThreads(c),
           get_results(c), UNCHANGED srvvars
    PROVE  Flows(c)
<1> DEFINE k == Ctrl(c)
           st == cstate[c]
<1>0. cpc[c] = "results" /\ "loop" \in ClientAlive
    BY DEF get_results, ClientAlive
<1>1. CASE /\ ClientSees(k, "results") /\ down' = Unread(down, k)
           /\ cpeer' = [cpeer EXCEPT ![c] = TRUE]
           /\ ClientGoes(c, "loop", st) /\ UNCHANGED <<up, cstreams, cworkers>>
    <2>0. /\ down \in [Conns -> Seq(ServerMsg)] /\ k \in Conns /\ down[k] # <<>>
          /\ Head(down[k]) = "results" /\ cpeer \in [Clients -> BOOLEAN]
          /\ InPlace(c, down[k], cpc[c], st, reported) /\ down[k] \in Seq(ServerMsg)
          /\ "results" \in ServerMsg /\ "CREATE_STREAMS" \in ServerMsg
        BY <1>1, ClientFacts DEF ClientSees, InSequence, ServerMsg, ServerPayload, ServerByte
    <2>1. /\ \A j \in Conns : j # k => down'[j] = down[j]
          /\ down'[k] = Tail(down[k])
          /\ \A x \in ServerMsg : x # "results" /\ Has(down[k], x) => Has(down'[k], x)
        BY <1>1, <2>0, ClientReads, DownUnread
    <2>2. ClientSent("loop", st) = ClientSent("results", st)
        BY DEF ClientSent
    <2>3. InPlace(c, Tail(down[k]), "loop", st, reported)
        <3> HIDE DEF k, st
        <3> QED BY <1>0, <2>0, <2>2, InPlaceTail
    <2>4. c \in reported
        <3> DEFINE s == down[k]
        <3>1. 1 \in 1 .. Len(s) /\ s[1] = "results"
            BY <2>0
        <3>2. InPlace(c, s, cpc[c], st, reported)
            BY <2>0
        <3> HIDE DEF s, st
        <3> QED BY <3>1, <3>2 DEF InPlace
    <2>5. \A j \in Conns : Owner(j) # c => down'[j] = down[j]
        BY <2>1, OwnOnly
    <2>6. Elsewhere(c)
        BY <1>1, <2>0, <2>5, ElsewhereKept
    <2>7. /\ cpeer'[c] /\ "send" \notin cworkers'[c]
          /\ st \in TestState => cstreams'[c] = StreamCount(cmode[c])
        BY <1>0, <1>1, <2>0 DEF ClientThreads
    <2>8. DialledUpTo(c) <= DialledUpTo(c)'
        <3>1. DialledUpTo(c)' = DialledUpTo(c)
            BY <1>0, <1>1, GoesTo DEF DialledUpTo, ClientAlive
        <3> QED BY <3>1, DialledBound
    <2> QED BY <1>0, <1>1, <2>0, <2>1, <2>3, <2>4, <2>6, <2>7, <2>8, GoesFlow
<1>2. CASE CleanupAndFail(c, st, Unread(down, k)) \/ CleanupAndFail(c, st, down)
    BY <1>2, FailFlow
<1> QED BY <1>1, <1>2 DEF get_results

(* A client goes on and reads nothing from its control connection.         *)
LEMMA GoesOnFlow ==
    ASSUME ControlInv, NEW c \in Clients, InSequence(c), ClientThreads(c), UNCHANGED srvvars,
           cpc[c] \in {"dialled", "loop", "create", "stream", "results"},
           NEW pc \in ClientAlive, NEW st, ClientGoes(c, pc, st), UNCHANGED <<down, cpeer>>,
           \A d \in Clients : d # c =>
              cstreams'[d] = cstreams[d] /\ cworkers'[d] = cworkers[d],
           \A j \in Conns : Owner(j) # c => up'[j] = up[j],
           Has(up'[Ctrl(c)], "results") => Has(up[Ctrl(c)], "results"),
           ClientRead(cstate[c]) >= 2 => ClientRead(st) >= 2,
           ClientSent(cpc[c], cstate[c]) >= 3 => ClientSent(pc, st) >= 3,
           cpc[c] \notin {"results", "gone"}, st # "EXCHANGE_RESULTS",
           "send" \in cworkers'[c] => pc = "loop" /\ st = "TEST_RUNNING",
           pc \in {"loop", "results"} /\ st \in TestState => cstreams'[c] = StreamCount(cmode[c]),
           DialledUpTo(c) <= DialledUpTo(c)'
    PROVE  Flows(c)
<1>0. down[Ctrl(c)] \in Seq(ServerMsg) /\ InPlace(c, down[Ctrl(c)], cpc[c], cstate[c], reported)
      /\ (cpeer[c] => c \in reported)
    BY ClientFacts DEF InSequence
<1>1. InPlace(c, down[Ctrl(c)], pc, st, reported)
    BY <1>0, InPlaceMono
<1>2. Elsewhere(c)
    BY ElsewhereKept
<1> QED BY <1>0, <1>1, <1>2, GoesFlow

LEMMA SendCookieFlow ==
    ASSUME ControlInv, NEW c \in Clients, InSequence(c), ClientThreads(c),
           SendCookie(c), UNCHANGED srvvars
    PROVE  Flows(c)
<1>0. /\ cpc[c] = "dialled" /\ cstate[c] = "0" /\ "loop" \in ClientAlive /\ "cookie" \in ClientMsg
      /\ "0" \notin TestState
    BY ClientFacts DEF SendCookie, ClientPlace, ClientAlive, ClientMsg, ClientPayload, TestState
<1>1. CASE /\ up' = Written(up, srv, Ctrl(c), <<"cookie">>) /\ ClientGoes(c, "loop", cstate[c])
           /\ UNCHANGED <<down, cstreams, cworkers, cpeer>>
    <2>1. /\ \A j \in Conns : Owner(j) # c => up'[j] = up[j]
          /\ Has(up'[Ctrl(c)], "results") => Has(up[Ctrl(c)], "results")
        BY <1>0, <1>1, WritesElsewhere, WritesResults
    <2>2. ~(ClientSent(cpc[c], cstate[c]) >= 3)
        BY <1>0 DEF ClientSent
    <2>3. "send" \notin cworkers'[c]
        BY <1>0, <1>1 DEF ClientThreads
    <2>4. DialledUpTo(c) = 0 /\ DialledUpTo(c)' = 0
        BY <1>0, <1>1, GoesTo DEF DialledUpTo, ClientAlive
    <2> QED BY <1>0, <1>1, <2>1, <2>2, <2>3, <2>4, GoesOnFlow
<1>2. CASE CleanupAndFail(c, cstate[c], down)
    BY <1>2, FailFlow
<1> QED BY <1>1, <1>2 DEF SendCookie

LEMMA TestDoneFlow ==
    ASSUME ControlInv, NEW c \in Clients, InSequence(c), ClientThreads(c),
           TestDone(c), UNCHANGED srvvars
    PROVE  Flows(c)
<1>0. /\ cpc[c] = "loop" /\ cstate[c] = "TEST_RUNNING" /\ "loop" \in ClientAlive
      /\ "TEST_END" \in ClientMsg /\ "TEST_END" \in TestState /\ "TEST_RUNNING" \in TestState
    BY DEF TestDone, ClientAlive, ClientMsg, ClientByte, TestState
<1>1. CASE /\ cworkers' = [cworkers EXCEPT ![c] = @ \ {"send"}]
           /\ up' = Written(up, srv, Ctrl(c), <<"TEST_END">>)
           /\ ClientGoes(c, "loop", "TEST_END") /\ UNCHANGED <<down, cstreams, cpeer>>
    <2>1. /\ \A j \in Conns : Owner(j) # c => up'[j] = up[j]
          /\ Has(up'[Ctrl(c)], "results") => Has(up[Ctrl(c)], "results")
        BY <1>0, <1>1, WritesElsewhere, WritesResults
    <2>2. ClientSent("loop", "TEST_END") >= 3 /\ ClientRead("TEST_END") >= 2
        BY DEF ClientSent, ClientRead, ServerByte
    <2>3. /\ "send" \notin cworkers'[c] /\ cstreams'[c] = StreamCount(cmode[c])
          /\ \A d \in Clients : d # c => cworkers'[d] = cworkers[d]
        BY <1>0, <1>1, ClientFacts DEF ClientThreads
    <2>4. DialledUpTo(c) <= DialledUpTo(c)'
        BY <1>0, <1>1, GoesTo
    <2> QED BY <1>0, <1>1, <2>1, <2>2, <2>3, <2>4, GoesOnFlow
<1>2. CASE CleanupAndFail(c, "TEST_END", down)
    BY <1>2, FailFlow
<1> QED BY <1>1, <1>2 DEF TestDone

LEMMA SendStreamCookieFlow ==
    ASSUME ControlInv, NEW c \in Clients, InSequence(c), ClientThreads(c),
           SendStreamCookie(c), UNCHANGED srvvars
    PROVE  Flows(c)
<1> DEFINE n == cstreams[c] + 1
           j == <<c, n>>
           pc == IF n = StreamCount(cmode[c]) THEN "loop" ELSE "create"
<1>c. /\ cpc[c] = "stream" /\ cstate[c] = "CREATE_STREAMS"
      /\ cstreams[c] \in Nat /\ cstreams \in [Clients -> 0 .. MaxStreams]
    BY ClientFacts, DialledBound DEF SendStreamCookie, ClientPlace
<1>j. j # Ctrl(c)
    BY <1>c DEF Ctrl
<1>0. /\ cpc[c] = "stream" /\ cstate[c] = "CREATE_STREAMS" /\ pc \in ClientAlive
      /\ cstreams[c] \in Nat /\ j # Ctrl(c)
      /\ cstreams \in [Clients -> 0 .. MaxStreams]
    BY <1>c, <1>j DEF ClientAlive
<1>1. CASE /\ up' = Written(up, srv, j, <<"cookie">>) /\ cstreams' = [cstreams EXCEPT ![c] = n]
           /\ ClientGoes(c, pc, cstate[c]) /\ UNCHANGED <<down, cworkers, cpeer>>
    <2>1. /\ \A i \in Conns : i # j => up'[i] = up[i]
          /\ Ctrl(c) \in Conns
        BY <1>1, ClientFacts DEF Written
    <2>2. /\ \A i \in Conns : Owner(i) # c => up'[i] = up[i]
          /\ up'[Ctrl(c)] = up[Ctrl(c)]
        BY <1>0, <2>1 DEF Owner
    <2>3. ~(ClientSent(cpc[c], cstate[c]) >= 3) /\ "send" \notin cworkers'[c]
        BY <1>0, <1>1 DEF ClientSent, ClientThreads
    <2>4. cstreams'[c] = n /\ \A d \in Clients : d # c => cstreams'[d] = cstreams[d]
        BY <1>0, <1>1
    <2>5. cpc'[c] = pc /\ cstate'[c] = "CREATE_STREAMS" /\ cmode' = cmode
        BY <1>0, <1>1, GoesTo
    <2>6. DialledUpTo(c) = n /\ DialledUpTo(c)' = n
        BY <1>0, <2>4, <2>5 DEF DialledUpTo
    <2> HIDE DEF n, pc
    <2>7. n \in Nat /\ (pc = "loop" => n = StreamCount(cmode[c])) /\ pc # "results"
        BY <1>0 DEF n, pc
    <2> QED BY <1>0, <1>1, <2>2, <2>3, <2>4, <2>6, <2>7, GoesOnFlow
<1>2. CASE CleanupAndFail(c, cstate[c], down)
    BY <1>2, FailFlow
<1> QED BY <1>1, <1>2 DEF SendStreamCookie

LEMMA iperf_connectFlow ==
    ASSUME ControlInv, NEW c \in Clients, InSequence(c), ClientThreads(c),
           iperf_connect(c), UNCHANGED srvvars
    PROVE  Flows(c)
<1> DEFINE k == Ctrl(c)
<1>0. /\ cpc[c] = "start" /\ cstate[c] = "0" /\ srv[k] = "none" /\ down[k] = <<>> /\ k \in Conns
      /\ ctrl # k
    BY ClientFacts DEF iperf_connect, ClientPlace, Accounted
<1>1. CASE /\ Dialled(k) /\ cpc' = [cpc EXCEPT ![c] = "dialled"]
           /\ UNCHANGED <<cstate, cmode, copt, cstreams, cworkers, cpeer>>
    <2>0. NetTypeOK /\ ClientTypeOK
        BY DEF ControlInv, TypeOK
    <2>1. /\ cpc'[c] = "dialled" /\ up' = up /\ down' = down /\ backlog' = Append(backlog, k)
          /\ \A d \in Clients : d # c => cpc'[d] = cpc[d]
          /\ \A j \in Conns : j # k => cli'[j] = cli[j] /\ srv'[j] = srv[j]
        BY <1>1, <2>0 DEF Dialled, NetTypeOK, ClientTypeOK
    <2>2. ASSUME NEW d \in Clients, d # c PROVE Same(d)
        BY <1>1, <2>1, <2>2, OtherConns DEF Same
    <2>3. ClientThreads(c)'
        BY <1>0, <1>1, <2>0, <2>1 DEF ClientThreads, ClientAlive, Dialled, NetTypeOK
    <2>4. ~Has(up[k], "results")
        <3>1. Ascending(UpRank, up[k], ReadBy(k), 0) /\ up[k] \in Seq(ClientMsg)
            BY <1>0, ClientFacts DEF ClientSent
        <3>2. ASSUME NEW i \in 1 .. Len(up[k]) PROVE up[k][i] # "results"
            <4>1. UpRank[up[k][i]] <= 0 /\ UpRank["results"] = 4
                BY <3>1, <3>2 DEF Ascending, UpRank, ClientMsg, ClientPayload
            <4> QED BY <4>1
        <3> QED BY <3>2 DEF Has
    <2>5. InSequence(c)'
        <3>1. InPlace(c, <<>>, cpc'[c], cstate'[c], reported')
            BY InPlaceEmpty
        <3> QED BY <1>0, <1>1, <2>1, <2>4, <3>1 DEF InSequence, srvvars
    <2>6. DialledUpTo(c) = -1 /\ DialledUpTo(c)' = 0
        BY <1>0, <1>1, <2>1 DEF DialledUpTo, ClientAlive
    <2>7. UpTo(c)
        <3>1. <<c, 0>> \in Conns /\ backlog' = Append(backlog, <<c, 0>>)
            BY <1>0, <2>1 DEF Ctrl
        <3>2. /\ 0 \in Nat /\ 0 > DialledUpTo(c) /\ 0 <= DialledUpTo(c)'
              /\ DialledUpTo(c) <= DialledUpTo(c)'
            BY <2>6
        <3>3. \E n \in Nat : /\ <<c, n>> \in Conns /\ backlog' = Append(backlog, <<c, n>>)
                             /\ n > DialledUpTo(c) /\ n <= DialledUpTo(c)'
            BY <3>1, <3>2, Zenon
        <3> QED BY <3>2, <3>3 DEF UpTo
    <2> QED BY <1>1, <2>2, <2>3, <2>5, <2>7 DEF Flows
<1>2. CASE CleanupAndFail(c, cstate[c], down)
    BY <1>2, FailFlow
<1> QED BY <1>1, <1>2 DEF iperf_connect

LEMMA iperf_create_streamsFlow ==
    ASSUME ControlInv, NEW c \in Clients, InSequence(c), ClientThreads(c),
           iperf_create_streams(c), UNCHANGED srvvars
    PROVE  Flows(c)
<1> DEFINE k == Ctrl(c)
           n == cstreams[c] + 1
           j == <<c, n>>
<1>0. /\ cpc[c] = "create" /\ cstreams[c] < StreamCount(cmode[c]) /\ k \in Conns
      /\ cstreams[c] \in Nat /\ StreamCount(cmode[c]) \in Nat
      /\ StreamCount(cmode[c]) <= MaxStreams /\ MaxStreams \in Nat
    BY ClientFacts, DialledBound DEF iperf_create_streams, ClientPlace
<1>j. n \in 0 .. MaxStreams /\ n \in Nat /\ n # 0
    BY <1>0
<1>1. CASE /\ Dialled(j) /\ cpc' = [cpc EXCEPT ![c] = "stream"]
           /\ UNCHANGED <<cstate, cmode, copt, cstreams, cworkers, cpeer>>
    <2>0. NetTypeOK /\ ClientTypeOK
        BY DEF ControlInv, TypeOK
    <2>d. DialledUpTo(c) = cstreams[c]
        BY <1>0 DEF DialledUpTo
    <2>c. cpc'[c] = "stream"
        BY <1>1, <2>0 DEF ClientTypeOK
    <2>e. DialledUpTo(c)' = n
        BY <1>1, <2>c DEF DialledUpTo
    <2>k. j \in Conns /\ \A d \in Clients : Ctrl(d) # j
        BY <1>j DEF Conns, Ctrl
    <2>1. /\ up' = up /\ down' = down /\ backlog' = Append(backlog, j)
          /\ \A d \in Clients : d # c => cpc'[d] = cpc[d]
          /\ \A i \in Conns : i # j => cli'[i] = cli[i] /\ srv'[i] = srv[i]
        BY <1>1, <2>0 DEF Dialled, NetTypeOK, ClientTypeOK
    <2> HIDE DEF j
    <2>2. ASSUME NEW d \in Clients, d # c PROVE Same(d)
        BY <1>1, <2>1, <2>2, <2>k, CtrlConn DEF Same
    <2>s. cli'[k] = cli[k] /\ srv'[k] = srv[k]
        BY <1>0, <2>1, <2>k
    <2>3. ClientThreads(c)'
        BY <1>0, <1>1, <2>c, <2>s DEF ClientThreads, ClientAlive
    <2>5. InSequence(c)'
        <3>1. InPlace(c, down[k], cpc[c], cstate[c], reported) /\ down[k] \in Seq(ServerMsg)
            BY ClientFacts DEF InSequence
        <3>2. ClientSent("stream", cstate[c]) = ClientSent("create", cstate[c])
            BY DEF ClientSent
        <3>3. InPlace(c, down[k], "stream", cstate[c], reported)
            BY <1>0, <3>1, <3>2, InPlaceMono
        <3> QED BY <1>0, <1>1, <2>1, <2>c, <2>s, <3>3 DEF InSequence, srvvars
    <2>7. UpTo(c)
        <3>1. <<c, n>> \in Conns /\ backlog' = Append(backlog, <<c, n>>)
            BY <2>1, <2>k DEF j
        <3>2. n > DialledUpTo(c) /\ n <= DialledUpTo(c)' /\ DialledUpTo(c) <= DialledUpTo(c)'
            BY <1>0, <2>d, <2>e
        <3>3. n \in Nat
            BY <1>j
        <3> HIDE DEF n
        <3> QED BY <3>1, <3>2, <3>3 DEF UpTo
    <2> QED BY <1>1, <2>2, <2>3, <2>5, <2>7 DEF Flows
<1>2. CASE CleanupAndFail(c, cstate[c], down)
    BY <1>2, FailFlow
<1> QED BY <1>1, <1>2 DEF iperf_create_streams

LEMMA ClientVanishesFlow ==
    ASSUME ControlInv, NEW c \in Clients, InSequence(c), ClientThreads(c),
           ClientVanishes(c), UNCHANGED srvvars
    PROVE  Flows(c)
<1> DEFINE k == Ctrl(c)
<1>0. ClientTypeOK /\ cpc[c] \in ClientAlive
    BY DEF ControlInv, TypeOK, ClientVanishes
<1>1. /\ cpc'[c] = "gone" /\ cworkers'[c] = {} /\ cstate' = cstate /\ cmode' = cmode
      /\ cstreams' = cstreams /\ cpeer' = cpeer /\ UNCHANGED netvars
      /\ \A d \in Clients : d # c => cpc'[d] = cpc[d] /\ cworkers'[d] = cworkers[d]
    BY <1>0 DEF ClientVanishes, ClientTypeOK
<1>2. ASSUME NEW d \in Clients, d # c PROVE Same(d)
    BY <1>1, <1>2 DEF Same, netvars
<1>3. ClientThreads(c)'
    BY <1>1 DEF ClientThreads, ClientAlive
<1>4. InSequence(c)'
    <2>1. InPlace(c, down[k], cpc[c], cstate[c], reported) /\ down[k] \in Seq(ServerMsg)
        BY ClientFacts DEF InSequence
    <2>2. ClientSent(cpc[c], cstate[c]) >= 3 => ClientSent("gone", cstate[c]) >= 3
        BY <1>0 DEF ClientSent, ClientAlive
    <2>3. InPlace(c, down[k], "gone", cstate[c], reported)
        BY <2>1, <2>2, InPlaceMono
    <2> QED BY <1>1, <2>3 DEF InSequence, srvvars, netvars
<1>5. UpTo(c)
    <2>1. DialledUpTo(c)' = StreamCount(cmode[c])
        BY <1>1 DEF DialledUpTo, ClientAlive
    <2> QED BY <1>1, <2>1, DialledBound DEF UpTo, netvars
<1> QED BY <1>1, <1>2, <1>3, <1>4, <1>5 DEF Flows

(* Every step of a client.                                                 *)
LEMMA ClientFlows ==
    ASSUME ControlInv, NEW c \in Clients, InSequence(c), ClientThreads(c),
           ClientStep(c) \/ ClientFault(c), UNCHANGED srvvars
    PROVE  Flows(c)
<1>1. CASE HandleCreateStreams(c) \/ HandleTestStart(c) \/ HandleTestRunning(c)
    <2>1. HandleCreateStreams(c) => Flows(c)
        BY OnlyReadsFlow DEF HandleCreateStreams
    <2>2. HandleTestStart(c) => Flows(c)
        BY OnlyReadsFlow DEF HandleTestStart
    <2>3. ASSUME HandleTestRunning(c) PROVE Flows(c)
        <3>1. \A d \in Clients : d # c => cworkers'[d] = cworkers[d]
            BY <2>3, ClientFacts DEF HandleTestRunning
        <3> QED BY <2>3, <3>1, OnlyReadsFlow DEF HandleTestRunning
    <2> QED BY <1>1, <2>1, <2>2, <2>3
<1>2. CASE HandleRefusal(c) \/ ControlClosed(c) \/ ClientIdle(c)
    <2>1. \E st, dn : CleanupAndFail(c, st, dn)
        BY <1>2 DEF HandleRefusal, ControlClosed, ClientIdle
    <2> QED BY <2>1, FailFlow
<1>3. CASE HandleDisplayResults(c) \/ ClientSigEnd(c)
    <2>1. HandleDisplayResults(c) => Flows(c)
        BY ExitFlow DEF HandleDisplayResults
    <2>2. CASE ClientSigEnd(c)
        <3>1. PICK msgs \in {<<>>, <<"IPERF_DONE">>, <<"CLIENT_TERMINATE">>} :
                  ClientExit(c, "killed", "CLIENT_TERMINATE", down, msgs)
            BY <2>2 DEF ClientSigEnd
        <3> QED BY <3>1, ExitFlow
    <2> QED BY <1>3, <2>1, <2>2
<1> QED BY <1>1, <1>2, <1>3, iperf_connectFlow, SendCookieFlow, HandleParamExchangeFlow,
           iperf_create_streamsFlow, SendStreamCookieFlow, TestDoneFlow,
           HandleExchangeResultsFlow, get_resultsFlow, ClientVanishesFlow
        DEF ClientStep, ClientFault

-----------------------------------------------------------------------------
(* The order in which connections are dialled, taken and made streams.     *)
LEMMA DialTypes ==
    ASSUME ControlInv
    PROVE  /\ Len(backlog) \in Nat /\ Len(sstreams) \in Nat
           /\ \A i \in 1 .. Len(backlog) : backlog[i] \in Conns /\ Number(backlog[i]) \in Nat
           /\ \A n \in 1 .. Len(sstreams) :
                 sstreams[n].conn \in Conns /\ Number(sstreams[n].conn) \in Nat
           /\ acc # NoConn => acc \in Conns /\ Number(acc) \in Nat
<1>1. \A k \in Conns : Number(k) \in Nat
    BY DialledBound DEF Conns, Number, MaxStreams
<1>2. /\ backlog \in Seq(Conns) /\ sstreams \in Seq([conn : Conns, sender : BOOLEAN])
      /\ acc \in Conns \cup {NoConn}
    BY ServerFacts DEF ServerTypeOK
<1>3. Len(backlog) \in Nat /\ \A i \in 1 .. Len(backlog) : backlog[i] \in Conns
    BY <1>2
<1>4. Len(sstreams) \in Nat /\ \A n \in 1 .. Len(sstreams) : sstreams[n].conn \in Conns
    <2> DEFINE R == [conn : Conns, sender : BOOLEAN]
    <2>1. \A r \in R : r.conn \in Conns
        OBVIOUS
    <2>r. sstreams \in Seq(R)
        BY <1>2
    <2> HIDE DEF R
    <2>2. Len(sstreams) \in Nat /\ \A n \in 1 .. Len(sstreams) : sstreams[n] \in R
        BY <2>r
    <2> QED BY <2>1, <2>2
<1> QED BY <1>1, <1>2, <1>3, <1>4

LEMMA DialFlows ==
    ASSUME ControlInv, NEW c \in Clients, Flows(c), UNCHANGED srvvars, NEW d \in Clients,
           DialOrder(d), DialBound(d), InSequence(d), ClientThreads(d), ControlInv'
    PROVE  DialOrder(d)' /\ DialBound(d)'
<1>0. /\ acc' = acc /\ ctrl' = ctrl /\ sstreams' = sstreams
      /\ DialledUpTo(d) \in Int /\ DialledUpTo(d)' \in Int
    <2>1. acc' = acc /\ ctrl' = ctrl /\ sstreams' = sstreams /\ DialledUpTo(d) \in Int
        BY DialledBound DEF srvvars
    <2>2. StreamCount(cmode[d]) \in Int /\ cmode' = cmode /\ cstreams'[d] \in Int
        <3>1. StreamCount(cmode[d]) \in Nat /\ MaxStreams \in Nat /\ cmode' = cmode
            BY DialledBound DEF Flows
        <3>2. cstreams'[d] \in 0 .. MaxStreams
            BY DEF ControlInv, TypeOK, ClientTypeOK
        <3> QED BY <3>1, <3>2
    <2>3. DialledUpTo(d)' \in Int
        BY <2>2 DEF DialledUpTo
    <2> QED BY <2>1, <2>3
<1>1. DialledUpTo(d) <= DialledUpTo(d)'
    <2>1. CASE d = c
        BY <2>1 DEF Flows, UpTo
    <2>2. CASE d # c
        <3>1. DialledUpTo(d)' = DialledUpTo(d)
            BY <2>2, SameFlow DEF Flows
        <3> QED BY <1>0, <3>1
    <2> QED BY <2>1, <2>2
<1>2. CASE backlog' = backlog
    <2>1. DialOrder(d)'
        BY <1>0, <1>2 DEF DialOrder
    <2>2. DialBound(d)'
        <3>1. \A x \in Nat : x <= DialledUpTo(d) => x <= DialledUpTo(d)'
            BY <1>0, <1>1
        <3> QED BY <1>0, <1>2, <3>1, DialTypes DEF DialBound, OfClient
    <2> QED BY <2>1, <2>2
<1>3. ASSUME NEW n \in Nat, <<c, n>> \in Conns, backlog' = Append(backlog, <<c, n>>),
             n > DialledUpTo(c), n <= DialledUpTo(c)'
      PROVE  DialOrder(d)' /\ DialBound(d)'
    <2> DEFINE L == Len(backlog) + 1
    <2>1. /\ Len(backlog) \in Nat /\ Len(backlog') = L /\ backlog'[L] = <<c, n>>
          /\ \A i \in 1 .. Len(backlog) : backlog'[i] = backlog[i]
        BY <1>3, ServerFacts
    <2>2. /\ OfClient(backlog'[L], d) => d = c
          /\ Number(backlog'[L]) = n
        BY <2>1 DEF OfClient, Owner, Number
    <2>3. /\ \A i \in 1 .. Len(backlog) : OfClient(backlog[i], c) /\ d = c => Number(backlog[i]) < n
          /\ OfClient(acc, c) /\ d = c => Number(acc) < n
          /\ ctrl = Ctrl(c) /\ d = c => \A m \in 1 .. Len(sstreams) : Number(sstreams[m].conn) < n
        BY <1>0, <1>3, DialTypes DEF DialBound, OfClient
    <2>4. /\ \A i \in 1 .. Len(backlog') : i \in 1 .. Len(backlog) \/ i = L
          /\ Len(backlog') = Len(backlog) + 1
        BY <2>1
    <2> HIDE DEF L
    <2>5. DialBound(d)'
        <3>1. ASSUME NEW i \in 1 .. Len(backlog'), OfClient(backlog'[i], d)
              PROVE  Number(backlog'[i]) <= DialledUpTo(d)'
            <4>1. CASE i = L
                BY <1>3, <2>2, <3>1, <4>1
            <4>2. CASE i \in 1 .. Len(backlog)
                <5>1. Number(backlog[i]) <= DialledUpTo(d) /\ Number(backlog[i]) \in Nat
                    BY <2>1, <3>1, <4>2, DialTypes DEF DialBound
                <5> QED BY <1>0, <1>1, <2>1, <4>2, <5>1
            <4> QED BY <2>4, <4>1, <4>2
        <3>2. OfClient(acc, d) => Number(acc) <= DialledUpTo(d)'
            BY <1>0, <1>1, DialTypes DEF DialBound, OfClient
        <3>3. ctrl = Ctrl(d) => \A m \in 1 .. Len(sstreams) :
                  Number(sstreams[m].conn) <= DialledUpTo(d)'
            BY <1>0, <1>1, DialTypes DEF DialBound
        <3> QED BY <1>0, <3>1, <3>2, <3>3 DEF DialBound
    <2>6. DialOrder(d)'
        <3>1. ASSUME NEW i \in 1 .. Len(backlog'), NEW j \in 1 .. Len(backlog'), i < j,
                     OfClient(backlog'[i], d), OfClient(backlog'[j], d)
              PROVE  Number(backlog'[i]) < Number(backlog'[j])
            <4>1. i \in 1 .. Len(backlog)
                BY <2>1, <2>4, <3>1
            <4>2. CASE j \in 1 .. Len(backlog)
                BY <2>1, <3>1, <4>1, <4>2 DEF DialOrder
            <4>3. CASE j = L
                BY <2>1, <2>2, <2>3, <3>1, <4>1, <4>3
            <4> QED BY <2>4, <4>2, <4>3
        <3>2. ASSUME OfClient(acc, d), NEW j \in 1 .. Len(backlog'), OfClient(backlog'[j], d)
              PROVE  Number(acc) < Number(backlog'[j])
            <4>1. CASE j \in 1 .. Len(backlog)
                BY <2>1, <3>2, <4>1 DEF DialOrder
            <4>2. CASE j = L
                BY <2>2, <2>3, <3>2, <4>2
            <4> QED BY <2>4, <4>1, <4>2
        <3>3. ASSUME ctrl = Ctrl(d), NEW m \in 1 .. Len(sstreams), NEW j \in 1 .. Len(backlog'),
                     OfClient(backlog'[j], d)
              PROVE  Number(sstreams[m].conn) < Number(backlog'[j])
            <4>1. CASE j \in 1 .. Len(backlog)
                BY <2>1, <3>3, <4>1 DEF DialOrder
            <4>2. CASE j = L
                BY <2>2, <2>3, <3>3, <4>2
            <4> QED BY <2>4, <4>1, <4>2
        <3>4. ctrl = Ctrl(d) => \A m \in 1 .. Len(sstreams) :
                 /\ Owner(sstreams[m].conn) = d
                 /\ \A j \in 1 .. Len(sstreams) :
                       m < j => Number(sstreams[m].conn) < Number(sstreams[j].conn)
                 /\ OfClient(acc, d) => Number(sstreams[m].conn) < Number(acc)
            BY DEF DialOrder
        <3> QED BY <1>0, <3>1, <3>2, <3>3, <3>4 DEF DialOrder
    <2> QED BY <2>5, <2>6
<1> QED BY <1>2, <1>3 DEF Flows, UpTo

(* What a step of the server does to the connections: it may forget some,  *)
(* or all of them when it starts with a new client; it takes the first one *)
(* that waits; or it makes the one it has taken a stream.                  *)
Left == \E o \in {0, 1} : \A i \in 1 .. Len(backlog') :
            i + o \in 1 .. Len(backlog) /\ backlog'[i] = backlog[i + o]
Forgets ==
    /\ Left /\ acc' \in {acc, NoConn} /\ sstreams' \in {sstreams, <<>>}
    /\ ctrl' \in {ctrl, NoConn} \/ sstreams' = <<>>
TakesOne ==
    /\ backlog # <<>> /\ acc' = Head(backlog) /\ backlog' = Tail(backlog)
    /\ UNCHANGED <<ctrl, sstreams>>
AddsOne ==
    /\ acc # NoConn /\ Owner(acc) = Owner(ctrl) /\ sstreams' = StreamAdded
    /\ acc' = NoConn /\ ctrl' = ctrl /\ backlog' \in {<<>>, backlog}

LEMMA LeftFacts ==
    ASSUME ControlInv, \/ backlog' \in {<<>>, backlog}
                       \/ backlog # <<>> /\ backlog' = Tail(backlog)
    PROVE  Left
<1>0. backlog \in Seq(Conns) /\ Len(backlog) \in Nat
    BY ServerFacts
<1>1. CASE backlog' \in {<<>>, backlog}
    <2>1. \A i \in 1 .. Len(backlog') : i + 0 \in 1 .. Len(backlog) /\ backlog'[i] = backlog[i + 0]
        BY <1>0, <1>1
    <2> QED BY <2>1 DEF Left
<1>2. CASE backlog # <<>> /\ backlog' = Tail(backlog)
    <2>1. \A i \in 1 .. Len(backlog') : i + 1 \in 1 .. Len(backlog) /\ backlog'[i] = backlog[i + 1]
        BY <1>0, <1>2
    <2> QED BY <2>1 DEF Left
<1> QED BY <1>1, <1>2

LEMMA ForgetsDials ==
    ASSUME ControlInv, Forgets, NEW c \in Clients, DialledUpTo(c)' = DialledUpTo(c),
           DialOrder(c), DialBound(c)
    PROVE  DialOrder(c)' /\ DialBound(c)'
<1>1. PICK o \in {0, 1} : \A i \in 1 .. Len(backlog') :
          i + o \in 1 .. Len(backlog) /\ backlog'[i] = backlog[i + o]
    BY DEF Forgets, Left
<1>2. ~OfClient(NoConn, c) /\ Ctrl(c) # NoConn
    BY CtrlConn DEF OfClient
<1>3. /\ acc' \in {acc, NoConn} /\ sstreams' \in {sstreams, <<>>}
      /\ ctrl' \in {ctrl, NoConn} \/ sstreams' = <<>>
    BY DEF Forgets
<1>4. \A i, j \in 1 .. Len(backlog') : i < j => i + o < j + o
    BY <1>1
<1>5. DialBound(c)'
    BY <1>1, <1>2, <1>3 DEF DialBound
<1>6. \A i, j \in 1 .. Len(backlog') :
          i < j /\ OfClient(backlog'[i], c) /\ OfClient(backlog'[j], c)
             => Number(backlog'[i]) < Number(backlog'[j])
    BY <1>1, <1>4 DEF DialOrder
<1>7. OfClient(acc', c) => \A j \in 1 .. Len(backlog') :
          OfClient(backlog'[j], c) => Number(acc') < Number(backlog'[j])
    BY <1>1, <1>2, <1>3 DEF DialOrder
<1>8. ctrl' = Ctrl(c) => \A n \in 1 .. Len(sstreams') :
          /\ Owner(sstreams'[n].conn) = c
          /\ \A m \in 1 .. Len(sstreams') :
                n < m => Number(sstreams'[n].conn) < Number(sstreams'[m].conn)
          /\ OfClient(acc', c) => Number(sstreams'[n].conn) < Number(acc')
          /\ \A j \in 1 .. Len(backlog') :
                OfClient(backlog'[j], c) => Number(sstreams'[n].conn) < Number(backlog'[j])
    <2>1. CASE sstreams' = <<>>
        BY <2>1
    <2>2. CASE sstreams' = sstreams /\ ctrl' \in {ctrl, NoConn}
        BY <1>1, <1>2, <1>3, <2>2 DEF DialOrder
    <2> QED BY <1>3, <2>1, <2>2
<1> QED BY <1>5, <1>6, <1>7, <1>8 DEF DialOrder

LEMMA TakesDials ==
    ASSUME ControlInv, TakesOne, NEW c \in Clients, DialledUpTo(c)' = DialledUpTo(c),
           DialOrder(c), DialBound(c)
    PROVE  DialOrder(c)' /\ DialBound(c)'
<1>1. /\ Len(backlog) \in Nat /\ 1 \in 1 .. Len(backlog) /\ acc' = backlog[1]
      /\ ctrl' = ctrl /\ sstreams' = sstreams
      /\ \A i \in 1 .. Len(backlog') :
            i + 1 \in 1 .. Len(backlog) /\ 1 < i + 1 /\ backlog'[i] = backlog[i + 1]
    BY ServerFacts DEF TakesOne
<1>2. \A i, j \in 1 .. Len(backlog') : i < j => i + 1 < j + 1
    BY <1>1
<1>3. DialBound(c)'
    BY <1>1 DEF DialBound
<1>4. \A i, j \in 1 .. Len(backlog') :
          i < j /\ OfClient(backlog'[i], c) /\ OfClient(backlog'[j], c)
             => Number(backlog'[i]) < Number(backlog'[j])
    BY <1>1, <1>2 DEF DialOrder
<1>5. OfClient(acc', c) => \A j \in 1 .. Len(backlog') :
          OfClient(backlog'[j], c) => Number(acc') < Number(backlog'[j])
    BY <1>1 DEF DialOrder
<1>6. ctrl' = Ctrl(c) => \A n \in 1 .. Len(sstreams') :
          /\ Owner(sstreams'[n].conn) = c
          /\ \A m \in 1 .. Len(sstreams') :
                n < m => Number(sstreams'[n].conn) < Number(sstreams'[m].conn)
          /\ OfClient(acc', c) => Number(sstreams'[n].conn) < Number(acc')
          /\ \A j \in 1 .. Len(backlog') :
                OfClient(backlog'[j], c) => Number(sstreams'[n].conn) < Number(backlog'[j])
    BY <1>1 DEF DialOrder
<1> QED BY <1>3, <1>4, <1>5, <1>6 DEF DialOrder

LEMMA AddsDials ==
    ASSUME ControlInv, AddsOne, NEW c \in Clients, DialledUpTo(c)' = DialledUpTo(c),
           DialOrder(c), DialBound(c)
    PROVE  DialOrder(c)' /\ DialBound(c)'
<1> DEFINE L == Len(sstreams) + 1
<1>1. /\ Len(sstreams) \in Nat /\ Len(sstreams') = Len(sstreams) + 1
      /\ \A n \in 1 .. Len(sstreams) : sstreams'[n] = sstreams[n]
      /\ sstreams'[L].conn = acc
    BY StreamAddedFacts DEF AddsOne
<1>2. /\ acc' = NoConn /\ ctrl' = ctrl /\ ~OfClient(NoConn, c) /\ acc # NoConn
      /\ \A i \in 1 .. Len(backlog') : i \in 1 .. Len(backlog) /\ backlog'[i] = backlog[i]
      /\ ctrl = Ctrl(c) => Owner(acc) = c /\ OfClient(acc, c)
    BY CtrlConn, DialTypes DEF AddsOne, OfClient
<1>3. \A n \in 1 .. Len(sstreams') : n \in 1 .. Len(sstreams) \/ n = L
    BY <1>1
<1>4. \A n, m \in 1 .. Len(sstreams') : n < m => n \in 1 .. Len(sstreams)
    BY <1>1
<1> HIDE DEF L
<1>5. DialBound(c)'
    BY <1>1, <1>2, <1>3 DEF DialBound
<1>6. \A i, j \in 1 .. Len(backlog') :
          i < j /\ OfClient(backlog'[i], c) /\ OfClient(backlog'[j], c)
             => Number(backlog'[i]) < Number(backlog'[j])
    BY <1>2 DEF DialOrder
<1>7. ASSUME ctrl = Ctrl(c), NEW n \in 1 .. Len(sstreams')
      PROVE  /\ Owner(sstreams'[n].conn) = c
             /\ \A m \in 1 .. Len(sstreams') :
                   n < m => Number(sstreams'[n].conn) < Number(sstreams'[m].conn)
             /\ \A j \in 1 .. Len(backlog') :
                   OfClient(backlog'[j], c) => Number(sstreams'[n].conn) < Number(backlog'[j])
    <2>1. CASE n \in 1 .. Len(sstreams)
        BY <1>1, <1>2, <1>3, <1>7, <2>1 DEF DialOrder
    <2>2. CASE n = L
        <3>1. \A m \in 1 .. Len(sstreams') : ~(n < m)
            BY <1>1, <1>4, <2>2 DEF L
        <3> QED BY <1>1, <1>2, <1>7, <2>2, <3>1 DEF DialOrder
    <2> QED BY <1>3, <2>1, <2>2
<1> QED BY <1>2, <1>5, <1>6, <1>7 DEF DialOrder

(* Every step of the server.                                               *)
LEMMA ServerDials ==
    ASSUME ControlInv, ServerStreams, ServerStep \/ ServerSigEnd
    PROVE  Forgets \/ TakesOne \/ AddsOne
<1>0. ServerPlace
    BY ServerFacts
<1>g. Gone => Forgets
    BY LeftFacts DEF Gone, Forgets
<1>c. \A rc, err : CleanedUp(rc, err) => Forgets
    BY <1>g DEF CleanedUp
<1>k. /\ backlog' \in {<<>>, backlog} \/ (backlog # <<>> /\ backlog' = Tail(backlog))
      /\ acc' \in {acc, NoConn} /\ sstreams' \in {sstreams, <<>>} /\ ctrl' = ctrl
      => Forgets
    BY LeftFacts DEF Forgets
<1>1. CASE iperf_server_listen \/ iperf_accept_busy \/ MainLoop
    BY <1>1, <1>k DEF iperf_server_listen, iperf_accept_busy, MainLoop, netvars
<1>2. CASE iperf_accept_free
    <2>1. sstreams = <<>> /\ spc = "loop" /\ sstate = "IPERF_START"
        BY <1>0, <1>2 DEF iperf_accept_free, InLoop, ServerPlace, ServerStreams
    <2>2. Left
        BY <1>2, LeftFacts DEF iperf_accept_free
    <2> QED BY <1>2, <2>1, <2>2 DEF iperf_accept_free, Forgets
<1>3. CASE iperf_tcp_accept
    BY <1>3 DEF iperf_tcp_accept, TakesOne
<1>4. CASE ReadCookie \/ ParamsRejected \/ Unauthenticated \/ ParamsAccepted
    BY <1>4, <1>c, <1>k, EarlyShape
<1>5. CASE StreamAccepted \/ LastStreamAccepted
    <2>1. acc # NoConn /\ Owner(acc) = Owner(ctrl)
        BY <1>0, <1>5 DEF StreamAccepted, LastStreamAccepted, CookieMatches, ServerPlace
    <2> QED BY <1>5, <2>1, <1>c, StreamShape DEF AddsOne
<1>6. CASE StreamDenied
    BY <1>6, <1>c, <1>k, StreamShape
<1>7. CASE HandleTestEnd \/ ExchangeResults \/ SendDisplayResults \/ HandleClientLeaves
    BY <1>7, <1>c, <1>k, LateShape
<1>8. CASE HandleBadMessage \/ ServerIdle \/ ServerGivesUp \/ ServerDone
    BY <1>8, <1>c, LateShape
<1>9. CASE IdleRestart \/ ServerSigEnd
    BY <1>9, <1>g DEF IdleRestart, ServerSigEnd, ServerGone, Gone
<1> QED BY <1>1, <1>2, <1>3, <1>4, <1>5, <1>6, <1>7, <1>8, <1>9 DEF ServerStep

-----------------------------------------------------------------------------
LEMMA FlowInit == Init => FlowInv
<1> SUFFICES ASSUME Init PROVE FlowInv
    OBVIOUS
<1> USE DEF Init, NetInit, ClientInit, ServerInit
<1>1. ServerStreams /\ OneOffInv
    BY DEF ServerStreams, OneOffInv
<1>2. ASSUME NEW c \in Clients PROVE ClientThreads(c) /\ InSequence(c) /\ DialOrder(c) /\ DialBound(c)
    <2>1. /\ Ctrl(c) \in Conns /\ Ctrl(c) # NoConn /\ ~OfClient(NoConn, c) /\ Len(backlog) = 0
          /\ Len(sstreams) = 0
        BY CtrlConn DEF OfClient
    <2>2. ClientThreads(c)
        BY <2>1 DEF ClientThreads
    <2>3. InSequence(c)
        <3>1. InPlace(c, <<>>, cpc[c], cstate[c], reported)
            BY InPlaceEmpty
        <3> QED BY <2>1, <3>1, HasEmpty DEF InSequence
    <2>4. DialOrder(c) /\ DialBound(c)
        BY <2>1 DEF DialOrder, DialBound
    <2> QED BY <2>2, <2>3, <2>4
<1> QED BY <1>1, <1>2 DEF FlowInv

LEMMA FlowStutter == ASSUME FlowInv, UNCHANGED vars PROVE FlowInv'
<1> USE DEF vars, netvars, clivars, srvvars
<1>1. ServerStreams'
    BY DEF FlowInv, ServerStreams, StreamsWanted, StreamsToRec, StreamsToSend
<1>2. OneOffInv'
    BY DEF FlowInv, OneOffInv, OneOffCounts
<1>3. ASSUME NEW c \in Clients
      PROVE  ClientThreads(c)' /\ InSequence(c)' /\ DialOrder(c)' /\ DialBound(c)'
    <2>1. ClientThreads(c)'
        BY DEF FlowInv, ClientThreads
    <2>2. InSequence(c)'
        BY DEF FlowInv, InSequence
    <2>3. DialOrder(c)'
        BY DEF FlowInv, DialOrder
    <2>4. DialBound(c)'
        BY DEF FlowInv, DialBound, DialledUpTo
    <2> QED BY <2>1, <2>2, <2>3, <2>4
<1> QED BY <1>1, <1>2, <1>3 DEF FlowInv

LEMMA FlowClient ==
    ASSUME ControlInv, FlowInv, ControlInv', NEW c \in Clients,
           ClientStep(c) \/ ClientFault(c), UNCHANGED srvvars
    PROVE  FlowInv'
<1>0. /\ ServerStreams /\ OneOffInv
      /\ \A d \in Clients : ClientThreads(d) /\ InSequence(d) /\ DialOrder(d) /\ DialBound(d)
    BY DEF FlowInv
<1>1. Flows(c)
    BY <1>0, ClientFlows
<1>2. cmode' = cmode
    BY <1>1 DEF Flows
<1>3. ServerStreams'
    BY <1>0, <1>2 DEF ServerStreams, StreamsWanted, StreamsToRec, StreamsToSend, srvvars
<1>4. OneOffInv'
    BY <1>0 DEF OneOffInv, OneOffCounts, srvvars
<1>5. ASSUME NEW d \in Clients
      PROVE  ClientThreads(d)' /\ InSequence(d)' /\ DialOrder(d)' /\ DialBound(d)'
    <2>1. DialOrder(d)' /\ DialBound(d)'
        BY <1>0, <1>1, DialFlows
    <2>2. CASE d = c
        BY <1>1, <2>1, <2>2 DEF Flows
    <2>3. CASE d # c
        <3>1. Same(d)
            BY <1>1, <2>3 DEF Flows
        <3> QED BY <1>0, <2>1, <3>1, SameFlow
    <2> QED BY <2>2, <2>3
<1> QED BY <1>3, <1>4, <1>5 DEF FlowInv

LEMMA FlowServer ==
    ASSUME ControlInv, FlowInv, ServerStep \/ ServerSigEnd, UNCHANGED clivars
    PROVE  FlowInv'
<1>0. /\ ServerStreams /\ OneOffInv
      /\ \A d \in Clients : ClientThreads(d) /\ InSequence(d) /\ DialOrder(d) /\ DialBound(d)
    BY DEF FlowInv
<1>1. ServerStreams'
    BY <1>0, StreamsServer
<1>2. OneOffInv'
    BY <1>0, OneOffServer
<1>3. ASSUME NEW d \in Clients
      PROVE  ClientThreads(d)' /\ InSequence(d)' /\ DialOrder(d)' /\ DialBound(d)'
    <2>1. ClientThreads(d)' /\ InSequence(d)'
        BY <1>0, SequenceServer
    <2>2. DialledUpTo(d)' = DialledUpTo(d)
        BY DEF DialledUpTo, clivars
    <2>3. Forgets \/ TakesOne \/ AddsOne
        BY <1>0, ServerDials
    <2>4. DialOrder(d)' /\ DialBound(d)'
        BY <1>0, <2>2, <2>3, ForgetsDials, TakesDials, AddsDials
    <2> QED BY <2>1, <2>4
<1> QED BY <1>1, <1>2, <1>3 DEF FlowInv

(* Over the order of the messages: what is in front of a reader is what it *)
(* waits for, and the streams, threads and reports of a test are where the *)
(* two state machines say they are, at every moment of every run.          *)
THEOREM FlowInvAlways == Spec => [](ControlInv /\ FlowInv)
<1>1. Init => ControlInv /\ FlowInv
    BY InitInv, FlowInit
<1>2. ControlInv /\ FlowInv /\ [Next]_vars => (ControlInv /\ FlowInv)'
    <2>1. ASSUME ControlInv, FlowInv, Next PROVE (ControlInv /\ FlowInv)'
        <3>1. ControlInv'
            BY <2>1, NextInv
        <3> QED BY <2>1, <3>1, FlowClient, FlowServer DEF Next
    <2>2. ASSUME ControlInv, FlowInv, UNCHANGED vars PROVE (ControlInv /\ FlowInv)'
        BY <2>2, StutterInv, FlowStutter
    <2> QED BY <2>1, <2>2
<1> QED BY <1>1, <1>2, PTL DEF Spec

-----------------------------------------------------------------------------
LEMMA ServedClient ==
    ASSUME ControlInv, ctrl # NoConn, spc \notin {"cookie", "params"}
    PROVE  /\ Owner(ctrl) \in Clients /\ ctrl = Ctrl(Owner(ctrl)) /\ ctrl \in Conns
           /\ srv[ctrl] = "open" /\ ServerPlace
<1>1. ServerPlace
    BY ServerFacts
<1>2. IsControl(ctrl)
    BY <1>1 DEF ServerPlace
<1>3. Owner(ctrl) \in Clients /\ ctrl = Ctrl(Owner(ctrl)) /\ ctrl \in Conns
    BY <1>2, CtrlOwner
<1>4. Accounted(Owner(ctrl))
    BY <1>3, ClientFacts
<1> QED BY <1>1, <1>3, <1>4 DEF Accounted

(* iperf_handle_message_server and iperf_handle_message_client never take  *)
(* a byte of a cookie, of a JSON block or of an error number for a test    *)
(* state, whatever was interrupted before.                                 *)
THEOREM FramingAlways == Spec => []Framing
<1>1. ASSUME ControlInv, FlowInv PROVE Framing
    <2> USE <1>1
    <2>1. ASSUME InLoop, ctrl # NoConn, up[ctrl] # <<>> PROVE Head(up[ctrl]) \in ClientByte
        <3> DEFINE c == Owner(ctrl)
                   s == up[ctrl]
        <3>1. /\ c \in Clients /\ ctrl = Ctrl(c) /\ ctrl \in Conns /\ srv[ctrl] = "open"
              /\ sstate \in {"CREATE_STREAMS", "TEST_RUNNING", "DISPLAY_RESULTS"} /\ spc = "loop"
            BY <2>1, ServedClient DEF InLoop, ServerPlace
        <3>2. s \in Seq(ClientMsg) /\ s[1] = Head(s) /\ 1 \in 1 .. Len(s) /\ Head(s) \in ClientMsg
            BY <2>1, <3>1, ServerFacts
        <3>3. UpRank[Head(s)] > ServerRead(spc, sstate)
            <4>1. Ascending(UpRank, s, ReadBy(ctrl), ClientSent(cpc[c], cstate[c]))
                BY <3>1, ClientFacts
            <4> QED BY <3>2, <4>1 DEF Ascending, ReadBy
        <3>4. Has(s, "results") => ServerSent(spc, sstate) >= 6
            BY <3>1 DEF FlowInv, InSequence
        <3>5. Head(s) = "results" => Has(s, "results")
            BY <3>2 DEF Has
        <3>6. /\ ServerRead("loop", "CREATE_STREAMS") = 2 /\ ServerRead("loop", "TEST_RUNNING") = 2
              /\ ServerRead("loop", "DISPLAY_RESULTS") = 4
            BY DEF ServerRead
        <3>7. UpRank["cookie"] = 1 /\ UpRank["params"] = 2 /\ UpRank["results"] = 4
            BY DEF UpRank, ClientMsg, ClientPayload
        <3>8. /\ ServerSent("loop", "CREATE_STREAMS") = 2 /\ ServerSent("loop", "TEST_RUNNING") = 4
            BY SentValues
        <3> DEFINE h == Head(s)
        <3> HIDE DEF s, h
        <3>9. h # "cookie" /\ h # "params"
            BY <3>1, <3>3, <3>6, <3>7 DEF h
        <3>10. ServerSent(spc, sstate) >= 6 => sstate = "DISPLAY_RESULTS"
            BY <3>1, <3>8
        <3>11. h # "results"
            BY <3>1, <3>3, <3>4, <3>5, <3>6, <3>7, <3>10 DEF h
        <3>12. h \in ClientByte
            BY <3>2, <3>9, <3>11 DEF ClientMsg, ClientPayload, h
        <3> QED BY <3>12 DEF h, s
    <2>2. ASSUME NEW c \in Clients, cpc[c] = "loop", down[Ctrl(c)] # <<>>
          PROVE  Head(down[Ctrl(c)]) \in ServerByte
        <3>1. ClientSees(Ctrl(c), Head(down[Ctrl(c)]))
            BY <2>2 DEF ClientSees
        <3> QED BY <2>2, <3>1, HeadInPlace DEF FlowInv
    <2> QED BY <2>1, <2>2 DEF Framing
<1> QED BY <1>1, FlowInvAlways, PTL

(* When the server closes the streams, counts and reports (TEST_END in     *)
(* iperf_handle_message_server and after), the sender threads of its       *)
(* client have been joined.                                                *)
THEOREM SendersStopFirstAlways == Spec => []SendersStopFirst
<1>1. ASSUME ControlInv, FlowInv PROVE SendersStopFirst
    <2> USE <1>1
    <2> SUFFICES ASSUME sstate \in {"EXCHANGE_RESULTS", "DISPLAY_RESULTS"}, ctrl # NoConn,
                        "send" \in cworkers[Owner(ctrl)]
                 PROVE  FALSE
        BY DEF SendersStopFirst
    <2> DEFINE c == Owner(ctrl)
    <2>1. c \in Clients /\ ctrl = Ctrl(c)
        BY ServedClient, ServerFacts DEF ServerPlace
    <2>2. cpc[c] = "loop" /\ cstate[c] = "TEST_RUNNING"
        BY <2>1 DEF FlowInv, ClientThreads
    <2>3. ReadBy(ctrl) <= 2
        BY <2>1, <2>2, ClientFacts DEF ClientSent
    <2>4. ServerRead(spc, sstate) \in {3, 4}
        BY DEF ServerRead
    <2> QED BY <2>3, <2>4 DEF ReadBy
<1> QED BY <1>1, FlowInvAlways, PTL

(* A client in TEST_START or TEST_RUNNING whose connection is open has a   *)
(* server that runs the same test, with all streams accepted and its       *)
(* workers created.                                                        *)
THEOREM RunningTogetherAlways == Spec => []RunningTogether
<1>1. ASSUME ControlInv, FlowInv PROVE RunningTogether
    <2> USE <1>1
    <2> SUFFICES ASSUME NEW c \in Clients, cpc[c] = "loop",
                        cstate[c] \in {"TEST_START", "TEST_RUNNING"}, srv[Ctrl(c)] = "open"
                 PROVE  /\ sstate = "TEST_RUNNING" /\ sworkers
                        /\ Len(sstreams) = StreamCount(cmode[c])
                        /\ cstreams[c] = StreamCount(cmode[c])
        BY DEF RunningTogether
    <2>1. ctrl = Ctrl(c) /\ ctrl # NoConn /\ Owner(ctrl) = c
        <3>1. Waiting(Ctrl(c)) \/ ctrl = Ctrl(c)
            BY ClientFacts DEF Accounted
        <3>2. Waiting(Ctrl(c)) => cstate[c] \in {"0", "CLIENT_TERMINATE"}
            BY ClientFacts DEF Accounted
        <3> QED BY <3>1, <3>2, CtrlConn
    <2>2. cli[Ctrl(c)] = "open" /\ cstreams[c] = StreamCount(cmode[c])
        BY DEF FlowInv, ClientThreads, ClientAlive, TestState
    <2>3. 3 <= ServerSent(spc, sstate)
        <3>1. ClientHeard(cstate[c]) \in {3, 4}
            BY DEF ClientHeard, ClientRead, DownRank, ServerMsg, ServerByte
        <3>2. ClientHeard(cstate[c]) <= ServerSent(spc, sstate)
            BY <2>1, <2>2, ClientFacts DEF Heard, SentBy
        <3> QED BY <3>1, <3>2, ServerFacts
    <2>4. ServerRead(spc, sstate) <= 2
        BY <2>1, ClientFacts DEF ReadBy, ClientSent
    <2>5. sstate = "TEST_RUNNING"
        <3>1. ServerPlace /\ spc \in ServerPc /\ sstate \in ServerState
            BY ServerFacts DEF ServerTypeOK
        <3>2. sstate \in {"0", "IPERF_START", "PARAM_EXCHANGE", "CREATE_STREAMS", "TEST_RUNNING"}
            BY <2>4, <3>1 DEF ServerRead
        <3>3. spc # "display"
            BY <3>1, <3>2 DEF ServerPlace
        <3> QED BY <2>3, <3>2, <3>3 DEF ServerSent, DownRank, ServerMsg, ServerByte
    <2>6. sworkers /\ Len(sstreams) = StreamsWanted /\ smode = ServerMode(cmode[c])
        BY <2>1, <2>5 DEF FlowInv, ServerStreams
    <2>7. cmode[c] \in {"SENDER", "RECEIVER", "BIDIRECTIONAL"}
        BY ClientFacts, ClientAssumption
    <2> QED BY <2>2, <2>5, <2>6, <2>7, WantedFacts
<1> QED BY <1>1, FlowInvAlways, PTL

(* A server that was started with -1 reports at most one test, however     *)
(* many clients dialled it.                                                *)
THEOREM OneOffServesOneAlways == Spec => []OneOffServesOne
<1>1. ASSUME FlowInv PROVE OneOffServesOne
    <2> SUFFICES ASSUME OneOff PROVE Cardinality(reported) <= 1
        BY DEF OneOffServesOne
    <2>1. \A c, d \in reported : c = d
        BY <1>1 DEF FlowInv, OneOffInv
    <2>2. CASE reported = {}
        BY <2>2, FS_EmptySet
    <2>3. CASE reported # {}
        <3>1. PICK c : reported = {c}
            BY <2>1, <2>3
        <3>2. Cardinality({c}) = 1
            BY FS_Singleton
        <3> QED BY <3>1, <3>2
    <2> QED BY <2>2, <2>3
<1> QED BY <1>1, FlowInvAlways, PTL

-----------------------------------------------------------------------------
(* A set of natural numbers that is not empty has a least element.         *)
LEMMA LeastNat == ASSUME NEW U, U \subseteq Nat, U # {} PROVE \E x \in U : \A y \in U : x <= y
<1> DEFINE less == {p \in Nat \X Nat : p[1] < p[2]}
<1>1. IsWellFoundedOn(less, Nat)
    BY NatLessThanWellFounded, Zenon DEF OpToRel
<1>2. PICK x \in U : \A y \in U : <<y, x>> \notin less
    BY <1>1, WFMin
<1>3. ASSUME NEW y \in U PROVE x <= y
    <2>1. x \in Nat /\ y \in Nat
        OBVIOUS
    <2>2. y < x => <<y, x>> \in less
        BY <2>1
    <2> QED BY <1>2, <2>1, <2>2
<1> QED BY <1>3

(* As many numbers between 1 and N as there are, in increasing order, are  *)
(* 1, 2, ..., N.                                                           *)
LEMMA IncreasingIsIdentity ==
    ASSUME NEW N \in Nat, NEW f, \A n \in 1 .. N : f[n] \in Nat /\ 1 <= f[n] /\ f[n] <= N,
           \A n, m \in 1 .. N : n < m => f[n] < f[m]
    PROVE  \A n \in 1 .. N : f[n] = n
<1>1. \A n \in 1 .. N : n <= f[n]
    <2> DEFINE U == {n \in 1 .. N : f[n] < n}
    <2> SUFFICES ASSUME U # {} PROVE FALSE
        OBVIOUS
    <2>1. U \subseteq Nat
        OBVIOUS
    <2>2. PICK n \in U : \A m \in U : n <= m
        <3> HIDE DEF U
        <3> QED BY <2>1, LeastNat
    <2>3. n \in 1 .. N /\ f[n] < n /\ f[n] \in Nat /\ 1 <= f[n]
        BY <2>2
    <2>4. n - 1 \in 1 .. N /\ n - 1 < n
        BY <2>3
    <2>5. n - 1 \notin U
        BY <2>2, <2>4
    <2>6. n - 1 <= f[n - 1] /\ f[n - 1] < f[n] /\ f[n - 1] \in Nat
        BY <2>3, <2>4, <2>5
    <2> QED BY <2>3, <2>6
<1>2. \A n \in 1 .. N : f[n] <= n
    <2> DEFINE U == {i \in 0 .. N - 1 : f[N - i] > N - i}
    <2> SUFFICES ASSUME NEW n \in 1 .. N, f[n] > n PROVE FALSE
        OBVIOUS
    <2>0. N - n \in 0 .. N - 1 /\ N - (N - n) = n
        OBVIOUS
    <2>1. U \subseteq Nat /\ U # {}
        <3>1. f[N - (N - n)] > N - (N - n)
            BY <2>0
        <3>2. N - n \in U
            BY <2>0, <3>1
        <3>3. U \subseteq 0 .. N - 1 /\ 0 .. N - 1 \subseteq Nat
            OBVIOUS
        <3> HIDE DEF U
        <3> QED BY <3>2, <3>3
    <2>2. PICK i \in U : \A j \in U : i <= j
        <3> HIDE DEF U
        <3> QED BY <2>1, LeastNat
    <2>3. i \in 0 .. N - 1 /\ f[N - i] > N - i /\ N - i \in 1 .. N /\ f[N - i] \in Nat /\ f[N - i] <= N
        BY <2>2
    <2>4. i # 0
        BY <2>3
    <2>5. i - 1 \in 0 .. N - 1 /\ N - (i - 1) = N - i + 1 /\ N - i + 1 \in 1 .. N
        BY <2>3, <2>4
    <2>6. i - 1 \notin U
        <3>1. i \in Nat /\ ~(i <= i - 1)
            BY <2>3
        <3> HIDE DEF U
        <3> QED BY <2>2, <3>1
    <2>7. f[N - i + 1] <= N - i + 1 /\ f[N - i + 1] \in Nat
        BY <2>5, <2>6
    <2>8. f[N - i] < f[N - i + 1]
        BY <2>3, <2>5
    <2> QED BY <2>3, <2>7, <2>8
<1> QED BY <1>1, <1>2

(* While a test runs, the n-th stream of the server is the far end of the  *)
(* n-th stream of its client, and exactly one of the two sends: the order  *)
(* in which iperf_create_streams dials survives the backlog, denials and   *)
(* everybody else's connections.                                           *)
THEOREM StreamsPairedAlways == Spec => []StreamsPaired
<1>1. ASSUME ControlInv, FlowInv PROVE StreamsPaired
    <2> USE <1>1
    <2> SUFFICES ASSUME sworkers, NEW n \in 1 .. Len(sstreams)
                 PROVE  /\ sstreams[n].conn = <<Owner(ctrl), n>>
                        /\ sstreams[n].sender = ~ClientSends(cmode[Owner(ctrl)], n)
        <3>1. DOMAIN sstreams = 1 .. Len(sstreams)
            BY ServerFacts DEF ServerTypeOK
        <3> QED BY <3>1 DEF StreamsPaired
    <2> DEFINE c == Owner(ctrl)
               N == Len(sstreams)
               f == [i \in 1 .. N |-> Number(sstreams[i].conn)]
    <2>1. /\ ctrl # NoConn /\ N = StreamsWanted /\ smode = ServerMode(cmode[c])
          /\ spc \notin {"cookie", "params"}
          /\ sstreams[n].sender = (n > StreamsToRec)
        BY DEF FlowInv, ServerStreams
    <2>2. c \in Clients /\ ctrl = Ctrl(c)
        BY <2>1, ServedClient
    <2>3. cmode[c] \in {"SENDER", "RECEIVER", "BIDIRECTIONAL"}
        BY <2>2, ClientFacts, ClientAssumption
    <2>4. N = StreamCount(cmode[c]) /\ N \in Nat
        BY <2>1, <2>2, <2>3, WantedFacts
    <2>5. /\ \A i \in 1 .. N : sstreams[i].conn \in Conns /\ Number(sstreams[i].conn) \in Nat
          /\ \A i \in 1 .. N : Owner(sstreams[i].conn) = c
          /\ \A i, j \in 1 .. N : i < j => Number(sstreams[i].conn) < Number(sstreams[j].conn)
        BY <2>2, DialTypes DEF FlowInv, DialOrder
    <2>6. \A i \in 1 .. N : Number(sstreams[i].conn) <= N
        <3>1. DialledUpTo(c) <= N /\ DialledUpTo(c) \in Int
            BY <2>2, <2>4, DialledBound
        <3>2. \A i \in 1 .. N : Number(sstreams[i].conn) <= DialledUpTo(c)
            BY <2>2 DEF FlowInv, DialBound
        <3> QED BY <2>4, <2>5, <3>1, <3>2
    <2>7. \A i \in 1 .. N : Number(sstreams[i].conn) # 0
        <3>1. DOMAIN sstreams = 1 .. N /\ ServerPlace
            BY ServerFacts DEF ServerTypeOK
        <3> QED BY <3>1 DEF ServerPlace, IsControl, Number
    <2>8. Number(sstreams[n].conn) = n
        <3> HIDE DEF N
        <3>1. /\ \A i \in 1 .. N : f[i] \in Nat /\ 1 <= f[i] /\ f[i] <= N
              /\ \A i, j \in 1 .. N : i < j => f[i] < f[j]
            BY <2>5, <2>6, <2>7
        <3>2. n \in 1 .. N /\ f[n] = Number(sstreams[n].conn)
            BY DEF N
        <3> HIDE DEF f
        <3>3. f[n] = n
            BY <2>4, <3>1, <3>2, IncreasingIsIdentity
        <3> QED BY <3>2, <3>3
    <2>9. sstreams[n].conn = <<c, n>>
        <3>1. sstreams[n].conn \in Clients \X (0 .. MaxStreams) /\ Owner(sstreams[n].conn) = c
            BY <2>5 DEF Conns
        <3> QED BY <2>8, <3>1 DEF Owner, Number
    <2>10. sstreams[n].sender = ~ClientSends(cmode[c], n)
        <3>1. n \in 1 .. N /\ NumStreams \in Nat /\ N \in Nat /\ n \in Nat /\ 1 <= n /\ n <= N
            BY <2>4, ConnectionsAssumption
        <3> HIDE DEF c, N
        <3>2. CASE cmode[c] = "SENDER"
            <4>1. ClientSends(cmode[c], n) /\ ~(n > StreamsToRec)
                BY <2>1, <2>4, <3>1, <3>2
                DEF ClientSends, StreamsToRec, ServerMode, StreamCount
            <4> QED BY <2>1, <4>1
        <3>3. CASE cmode[c] = "RECEIVER"
            <4>1. ~ClientSends(cmode[c], n) /\ n > StreamsToRec
                BY <2>1, <2>4, <3>1, <3>3
                DEF ClientSends, StreamsToRec, ServerMode, StreamCount
            <4> QED BY <2>1, <4>1
        <3>4. CASE cmode[c] = "BIDIRECTIONAL"
            <4>1. ClientSends(cmode[c], n) <=> ~(n > StreamsToRec)
                BY <2>1, <2>4, <3>1, <3>4
                DEF ClientSends, StreamsToRec, ServerMode, StreamCount
            <4>2. ClientSends(cmode[c], n) \in BOOLEAN
                BY <3>4 DEF ClientSends
            <4> QED BY <2>1, <4>1, <4>2
        <3> QED BY <2>3, <3>2, <3>3, <3>4
    <2> QED BY <2>9, <2>10
<1> QED BY <1>1, FlowInvAlways, PTL

-----------------------------------------------------------------------------
(* The refinement of Session, step by step.                                *)
(* A step of client c is its end, or is not seen.                          *)
LEMMA AliveBefore ==
    ASSUME ControlInv, NEW c \in Clients, ClientStep(c) \/ ClientFault(c)
    PROVE  /\ cpc[c] \in ClientAlive /\ DOMAIN cpc' = Clients
           /\ \A d \in Clients : d # c => cpc'[d] = cpc[d]
<1>0. DOMAIN cpc = Clients /\ c \in DOMAIN cpc
    BY DEF ControlInv, TypeOK, ClientTypeOK
<1>1. cpc[c] \in ClientAlive
    BY DEF ClientStep, ClientFault, iperf_connect, SendCookie, HandleParamExchange,
           HandleCreateStreams, iperf_create_streams, SendStreamCookie, HandleTestStart,
           HandleTestRunning, TestDone, HandleExchangeResults, get_results,
           HandleDisplayResults, HandleRefusal, ControlClosed, ClientIdle, ClientSigEnd,
           ClientVanishes, Answer, Reads, ClientAlive
<1>2. \E pc : cpc' = [cpc EXCEPT ![c] = pc]
    BY DEF ClientStep, ClientFault, iperf_connect, SendCookie, HandleParamExchange,
           HandleCreateStreams, iperf_create_streams, SendStreamCookie, HandleTestStart,
           HandleTestRunning, TestDone, HandleExchangeResults, get_results,
           HandleDisplayResults, HandleRefusal, ControlClosed, ClientIdle, ClientSigEnd,
           ClientVanishes, Answer, ClientGoes, CleanupAndFail, iperf_client_end, ClientExit
<1> QED BY <1>0, <1>1, <1>2

LEMMA ClientRefines ==
    ASSUME ControlInv, ControlInv', NEW c \in Clients, ClientStep(c) \/ ClientFault(c),
           UNCHANGED srvvars
    PROVE  [S!Next]_(S!sessionVars)
<1>1. Served' = Served /\ Phase' = Phase /\ reported' = reported
    BY DEF Served, Phase, srvvars
<1>2. /\ cpc[c] \in ClientAlive /\ cpc'[c] \in ClientAlive \cup ClientEnded
      /\ \A d \in Clients : d # c => cpc'[d] = cpc[d]
      /\ cpc'[c] = "ok" => c \in reported
    BY <1>1, AliveBefore DEF ControlInv, TypeOK, ClientTypeOK, Reported
<1>3. Outcome(c) = "none" /\ \A d \in Clients : d # c => Outcome(d)' = Outcome(d)
    BY <1>2 DEF Outcome, ClientAlive
<1>4. CASE cpc'[c] \in ClientAlive
    <2>1. Outcome(c)' = "none"
        BY <1>4 DEF Outcome, ClientAlive
    <2>2. [d \in Clients |-> Outcome(d)]' = [d \in Clients |-> Outcome(d)]
        BY <1>3, <2>1
    <2> QED BY <1>1, <2>2 DEF S!sessionVars
<1>5. CASE cpc'[c] \notin ClientAlive
    <2>1. /\ Outcome(c)' \in {"ok", "failed"}
          /\ Outcome(c)' = "ok" => c \in reported
        BY <1>2, <1>5 DEF Outcome, ClientAlive, ClientEnded
    <2>2. [d \in Clients |-> Outcome(d)]'
             = [[d \in Clients |-> Outcome(d)] EXCEPT ![c] = Outcome(c)']
        BY <1>3
    <2>3. S!Finish(c)
        BY <1>1, <1>3, <2>1, <2>2 DEF S!Finish
    <2> QED BY <2>3 DEF S!Next
<1> QED BY <1>4, <1>5

(* What a step of the server is of a session, by what it does to who is    *)
(* served and how far the test is.                                         *)
LEMMA SameOutcomes ==
    ASSUME UNCHANGED clivars
    PROVE  [d \in Clients |-> Outcome(d)]' = [d \in Clients |-> Outcome(d)]
BY DEF Outcome, clivars

LEMMA PhaseFacts ==
    ASSUME ControlInv
    PROVE  /\ ctrl = NoConn => Served = NoConn /\ Phase = "idle"
           /\ ctrl # NoConn => Phase # "idle"
           /\ ctrl # NoConn /\ sstate \in {"IPERF_START", "PARAM_EXCHANGE", "CREATE_STREAMS"}
                 => Phase = "setup"
           /\ ctrl # NoConn /\ sstate = "TEST_RUNNING" => Phase = "running"
           /\ ctrl # NoConn /\ spc = "results" => Phase = "running"
           /\ ctrl # NoConn /\ spc = "display" => Phase = "reported"
           /\ ctrl # NoConn /\ sstate = "DISPLAY_RESULTS" => Phase = "reported"
<1>1. ServerPlace
    BY ServerFacts
<1>2. spc = "display" => sstate = "EXCHANGE_RESULTS"
    BY <1>1 DEF ServerPlace
<1>3. spc = "results" => sstate = "EXCHANGE_RESULTS"
    BY <1>1 DEF ServerPlace
<1> QED BY <1>2, <1>3 DEF Served, Phase

LEMMA StutterRefines ==
    ASSUME ControlInv, UNCHANGED clivars, ctrl' = ctrl, reported' = reported, Phase' = Phase
    PROVE  [S!Next]_(S!sessionVars)
<1>1. Served' = Served
    BY DEF Served
<1> QED BY <1>1, SameOutcomes DEF S!sessionVars

LEMMA GoneRefines ==
    ASSUME ControlInv, UNCHANGED clivars, Gone
    PROVE  [S!Next]_(S!sessionVars)
<1>1. Served' = NoConn /\ Phase' = "idle" /\ reported' = reported
    BY DEF Gone, Served, Phase
<1>2. CASE ctrl = NoConn
    BY <1>1, <1>2, PhaseFacts, SameOutcomes DEF S!sessionVars
<1>3. CASE ctrl # NoConn
    <2>1. S!Release
        BY <1>1, <1>3, PhaseFacts, SameOutcomes DEF S!Release
    <2> QED BY <2>1 DEF S!Next
<1> QED BY <1>2, <1>3

LEMMA BeginsOnce ==
    ASSUME ControlInv, sstate = "CREATE_STREAMS", ctrl # NoConn
    PROVE  Served \in Clients /\ Served \notin reported
<1>1. spc \notin {"cookie", "params"} /\ spc # "display"
    BY ServerFacts DEF ServerPlace
<1>2. Owner(ctrl) \in Clients /\ ctrl = Ctrl(Owner(ctrl)) /\ IsControl(ctrl)
    BY <1>1, ServedClient DEF ServerPlace
<1>4. ServerSent(spc, sstate) = 2
    BY <1>1 DEF ServerSent, ServerByte, ServerMsg, DownRank
<1>5. Owner(ctrl) \notin reported
    BY <1>2, <1>4, ClientFacts DEF Reported
<1>6. Served = Owner(ctrl)
    BY <1>2 DEF Served
<1> QED BY <1>2, <1>5, <1>6

LEMMA ServerRefines ==
    ASSUME ControlInv, ServerStep \/ ServerSigEnd, UNCHANGED clivars
    PROVE  [S!Next]_(S!sessionVars)
<1>0. ServerPlace /\ spc \in ServerPc
    BY ServerFacts DEF ServerTypeOK
<1>c. \A rc, err : CleanedUp(rc, err) => [S!Next]_(S!sessionVars)
    BY GoneRefines DEF CleanedUp
<1>k. ctrl' = ctrl => Served' = Served
    BY DEF Served
<1>1. CASE iperf_server_listen \/ MainLoop
    <2>1. ctrl = NoConn /\ ctrl' = ctrl /\ reported' = reported
        BY <1>0, <1>1 DEF iperf_server_listen, MainLoop, ServerPlace
    <2>2. Phase' = Phase
        BY <2>1 DEF Phase
    <2> QED BY <2>1, <2>2, StutterRefines
<1>2. CASE iperf_accept_free
    <2>1. /\ ctrl = NoConn /\ ctrl' = Head(backlog) /\ Head(backlog) \in Conns
          /\ sstate' = "IPERF_START" /\ spc' = "cookie" /\ reported' = reported
        BY <1>0, <1>2, ServerFacts DEF iperf_accept_free, InLoop, ServerPlace, ServerGoes
    <2>2. ctrl' # NoConn /\ Owner(ctrl') \in Clients
        BY <2>1, ServerFacts DEF Conns, Owner
    <2>3. Served' \in Clients \cup {Stranger}
        BY <2>2 DEF Served
    <2>4. Phase' = "setup" /\ Phase = "idle"
        BY <2>1, <2>2, PhaseFacts DEF Phase
    <2>5. S!Acquire
        BY <2>1, <2>3, <2>4, SameOutcomes DEF S!Acquire
    <2> QED BY <2>5 DEF S!Next
<1>3. CASE iperf_accept_busy \/ iperf_tcp_accept \/ StreamAccepted
    <2>1. /\ ctrl' = ctrl /\ reported' = reported /\ sstate' = sstate
          /\ spc \notin {"display"} /\ spc' \notin {"display"}
        BY <1>3 DEF iperf_accept_busy, iperf_tcp_accept, StreamAccepted, ServerGoes, InLoop
    <2>2. Phase' = Phase
        BY <2>1 DEF Phase
    <2> QED BY <2>1, <2>2, StutterRefines
<1>4. CASE StreamDenied
    <2>1. CASE /\ spc' = "loop" /\ sstate' = sstate /\ ctrl' = ctrl /\ reported' = reported
        <3>1. spc = "stream"
            BY <1>4 DEF StreamDenied
        <3>2. Phase' = Phase
            BY <2>1, <3>1 DEF Phase
        <3> QED BY <2>1, <3>2, StutterRefines
    <2> QED BY <1>4, <1>c, <2>1, StreamShape
<1>5. CASE ReadCookie \/ ParamsRejected \/ Unauthenticated \/ ParamsAccepted
    <2>1. CASE /\ spc' \in {"params", "loop"} /\ sstate' \in {"PARAM_EXCHANGE", "CREATE_STREAMS"}
               /\ ctrl' = ctrl /\ reported' = reported
        <3>1. ctrl # NoConn /\ sstate \in {"IPERF_START", "PARAM_EXCHANGE"}
            BY <1>0, <1>5 DEF ReadCookie, ParamsRejected, Unauthenticated, ParamsAccepted,
                              ServerPlace
        <3>2. Phase' = "setup" /\ Phase = "setup"
            BY <2>1, <3>1, PhaseFacts DEF Phase
        <3> QED BY <2>1, <3>2, StutterRefines
    <2> QED BY <1>5, <1>c, <2>1, EarlyShape
<1>6. CASE LastStreamAccepted
    <2>1. CASE /\ spc' = "loop" /\ sstate' = "TEST_RUNNING" /\ ctrl' = ctrl /\ reported' = reported
        <3>1. sstate = "CREATE_STREAMS" /\ ctrl # NoConn /\ spc = "stream"
            BY <1>0, <1>6 DEF LastStreamAccepted, ServerPlace
        <3>2. Phase = "setup" /\ Phase' = "running"
            BY <2>1, <3>1, PhaseFacts DEF Phase
        <3>3. Served \in Clients /\ Served \notin reported
            BY <3>1, BeginsOnce
        <3>4. S!Begin
            BY <1>k, <2>1, <3>2, <3>3, SameOutcomes DEF S!Begin
        <3> QED BY <3>4 DEF S!Next
    <2> QED BY <1>6, <1>c, <2>1, StreamShape
<1>7. CASE HandleTestEnd
    <2>1. CASE /\ spc' = "results" /\ sstate' = "EXCHANGE_RESULTS"
               /\ ctrl' = ctrl /\ reported' = reported
        <3>1. /\ sstate \in {"CREATE_STREAMS", "TEST_RUNNING"} /\ ctrl # NoConn /\ spc = "loop"
            BY <1>7, TestEndState DEF HandleTestEnd, InLoop
        <3>2. Phase' = "running"
            BY <2>1, <3>1 DEF Phase
        <3>3. CASE sstate = "TEST_RUNNING"
            BY <2>1, <3>1, <3>2, <3>3, PhaseFacts, StutterRefines
        <3>4. CASE sstate = "CREATE_STREAMS"
            <4>1. Served \in Clients /\ Served \notin reported /\ Phase = "setup"
                BY <3>1, <3>4, BeginsOnce, PhaseFacts
            <4>2. S!Begin
                BY <1>k, <2>1, <3>2, <4>1, SameOutcomes DEF S!Begin
            <4> QED BY <4>2 DEF S!Next
        <3> QED BY <3>1, <3>3, <3>4
    <2> QED BY <1>7, <1>c, <2>1, LateShape
<1>8. CASE ExchangeResults
    <2>1. CASE /\ spc' = "display" /\ sstate' = sstate /\ reported' = reported \cup {Owner(ctrl)}
               /\ ctrl' = ctrl
        <3>1. spc = "results" /\ ctrl # NoConn /\ IsControl(ctrl) /\ sstate = "EXCHANGE_RESULTS"
            BY <1>0, <1>8 DEF ExchangeResults, ServerPlace
        <3>2. Phase = "running" /\ Phase' = "reported" /\ Served = Owner(ctrl)
            BY <2>1, <3>1, PhaseFacts DEF Phase, Served
        <3>3. S!Report
            BY <1>k, <2>1, <3>2, SameOutcomes DEF S!Report
        <3> QED BY <3>3 DEF S!Next
    <2> QED BY <1>8, <1>c, <2>1, LateShape
<1>9. CASE SendDisplayResults
    <2>1. CASE /\ spc' = "loop" /\ sstate' = "DISPLAY_RESULTS"
               /\ ctrl' = ctrl /\ reported' = reported
        <3>1. spc = "display" /\ ctrl # NoConn
            BY <1>0, <1>9 DEF SendDisplayResults, ServerPlace
        <3>2. Phase = "reported" /\ Phase' = "reported"
            BY <2>1, <3>1, PhaseFacts DEF Phase
        <3> QED BY <2>1, <3>2, StutterRefines
    <2> QED BY <1>9, <1>c, <2>1, LateShape
<1>10. CASE HandleClientLeaves
    <2>1. /\ spc' = "loop" /\ sstate' = "IPERF_DONE" /\ ctrl' = ctrl /\ reported' = reported
          /\ ctrl # NoConn /\ sstate \in {"CREATE_STREAMS", "TEST_RUNNING", "DISPLAY_RESULTS"}
        BY <1>0, <1>10 DEF HandleClientLeaves, ServerGoes, InLoop, ServerPlace
    <2>2. Phase \in {"setup", "running", "reported"} /\ Phase' = "leaving"
        BY <2>1, PhaseFacts DEF Phase
    <2>3. S!Leave
        BY <1>k, <2>1, <2>2, SameOutcomes DEF S!Leave
    <2> QED BY <2>3 DEF S!Next
<1>11. CASE HandleBadMessage \/ ServerIdle \/ ServerGivesUp \/ ServerDone
    BY <1>11, <1>c, LateShape
<1>12. CASE IdleRestart \/ ServerSigEnd
    <2>1. Gone
        BY <1>12 DEF IdleRestart, ServerSigEnd, ServerGone, Gone
    <2> QED BY <2>1, GoneRefines
<1> QED BY <1>1, <1>2, <1>3, <1>4, <1>5, <1>6, <1>7, <1>8, <1>9, <1>10, <1>11, <1>12
        DEF ServerStep

(* The two processes of iperf_client_api.c and iperf_server_api.c keep the *)
(* promise of Session: one client at a time, whose test is set up, run and *)
(* reported in that order and at most once, and no client that believes in *)
(* a test the server has not reported.                                     *)
THEOREM SessionImplemented == Spec => ImplementsSession
<1>1. Init => S!Init
    <2>1. Init => Served = NoConn /\ Phase = "idle" /\ reported = {}
        BY DEF Init, ServerInit, Served, Phase
    <2>2. Init => [d \in Clients |-> Outcome(d)] = [d \in Clients |-> "none"]
        BY DEF Init, ClientInit, Outcome, ClientAlive
    <2> QED BY <2>1, <2>2 DEF S!Init
<1>2. ControlInv /\ ControlInv' /\ [Next]_vars => [S!Next]_(S!sessionVars)
    <2>1. ASSUME ControlInv, ControlInv', Next PROVE [S!Next]_(S!sessionVars)
        BY <2>1, ClientRefines, ServerRefines DEF Next
    <2>2. ASSUME ControlInv, UNCHANGED vars PROVE [S!Next]_(S!sessionVars)
        <3>1. UNCHANGED clivars /\ ctrl' = ctrl /\ reported' = reported
            BY <2>2 DEF vars, clivars, srvvars
        <3>2. Phase' = Phase
            BY <2>2 DEF vars, srvvars, Phase
        <3> QED BY <2>2, <3>1, <3>2, StutterRefines
    <2> QED BY <2>1, <2>2
<1> QED BY <1>1, <1>2, ControlInvAlways, PTL DEF Spec, ImplementsSession, S!Spec
=============================================================================
