----------------------------- MODULE IperfClient -----------------------------
(***************************************************************************)
(* The iperf3 client: iperf_run_client, its message handler and its ways   *)
(* of ending (src/iperf_client_api.c), the client halves of the parameter  *)
(* and result exchanges and the signal handler (src/iperf_api.c).          *)
(*                                                                         *)
(* cpc[c] is where client c is:                                            *)
(*   start    before iperf_connect        create   in iperf_create_streams *)
(*   dialled  connected, no cookie yet    stream   one stream connected,   *)
(*   loop     the select loop                      its cookie not sent     *)
(*   results  blocked in get_results                                       *)
(*   ok, failed, killed, gone             ended                            *)
(* A client is "gone" when its host stops answering: nothing is closed.    *)
(***************************************************************************)
EXTENDS Connections

CONSTANTS
    Modes,         \* the directions a test may have, as the client sees them
    OptionSets,    \* the sets of TestOption that a test may carry
    Mortals,       \* the processes a signal may end
    Fragile,       \* the clients whose host may stop answering
    Timeouts       \* TRUE when read and idle timeouts may expire

VARIABLES
    cstate,    \* cstate[c]: test->state ("0" before the first message)
    cpc,
    cmode,     \* test->mode: SENDER, RECEIVER (-R) or BIDIRECTIONAL
    copt,      \* what is particular about the test the client asks for
    cstreams,  \* how many streams are on test->streams
    cworkers,  \* the kinds of stream whose worker threads run
    cpeer      \* get_results stored the server's numbers

clivars == <<cstate, cpc, cmode, copt, cstreams, cworkers, cpeer>>

(* -N, -M or -w make the server replace its listening socket; -S sets a    *)
(* type of service; the server refuses the test because of its token, its  *)
(* duration (--server-max-duration) or its rate (--server-bitrate-limit).  *)
TestOption == {"relisten", "tos", "badtoken", "overlong", "overrate"}

ASSUME ClientAssumption ==
    /\ Modes \subseteq {"SENDER", "RECEIVER", "BIDIRECTIONAL"}
    /\ OptionSets \subseteq SUBSET TestOption
    /\ Timeouts \in BOOLEAN

ClientAlive == {"start", "dialled", "loop", "create", "stream", "results"}
ClientEnded == {"ok", "failed", "killed", "gone"}
ClientState == {"0", "IPERF_DONE", "CLIENT_TERMINATE", "TEST_END"} \cup ServerByte

ClientInit ==
    /\ cstate = [c \in Clients |-> "0"]
    /\ cpc = [c \in Clients |-> "start"]
    /\ cmode \in [Clients -> Modes]
    /\ copt \in [Clients -> OptionSets]
    /\ cstreams = [c \in Clients |-> 0]
    /\ cworkers = [c \in Clients |-> {}]
    /\ cpeer = [c \in Clients |-> FALSE]

ClientTypeOK ==
    /\ cstate \in [Clients -> ClientState]
    /\ cpc \in [Clients -> ClientAlive \cup ClientEnded]
    /\ cmode \in [Clients -> Modes]
    /\ copt \in [Clients -> OptionSets]
    /\ cstreams \in [Clients -> 0 .. MaxStreams]
    /\ cworkers \in [Clients -> SUBSET {"send", "recv"}]
    /\ cpeer \in [Clients -> BOOLEAN]

(* iperf_create_streams: how many streams a test has, and which send.  A   *)
(* bidirectional client creates its senders first.                         *)
StreamCount(mode) == IF mode = "BIDIRECTIONAL" THEN 2 * NumStreams ELSE NumStreams
ClientSends(mode, n) ==
    CASE mode = "SENDER" -> TRUE
      [] mode = "RECEIVER" -> FALSE
      [] mode = "BIDIRECTIONAL" -> n <= NumStreams
WorkerKinds(mode) ==
    CASE mode = "SENDER" -> {"send"}
      [] mode = "RECEIVER" -> {"recv"}
      [] mode = "BIDIRECTIONAL" -> {"send", "recv"}

-----------------------------------------------------------------------------
(* Ending.  Every worker is stopped, `msgs` is the last thing written and  *)
(* all sockets of the process are closed; `dn` is what is still unread.    *)
ClientExit(c, pc, state, dn, msgs) ==
    /\ cpc' = [cpc EXCEPT ![c] = pc]
    /\ cstate' = [cstate EXCEPT ![c] = state]
    /\ cworkers' = [cworkers EXCEPT ![c] = {}]
    /\ up' \in SurvivingClose(dn, Written(up, srv, Ctrl(c), msgs), Ctrl(c))
    /\ cli' = [k \in Conns |->
                  IF Owner(k) = c /\ cli[k] = "open" THEN "closed" ELSE cli[k]]
    /\ down' = [k \in Conns |-> IF Owner(k) = c THEN <<>> ELSE down[k]]
    /\ UNCHANGED <<srv, listening, backlog, cmode, copt, cstreams, cpeer>>

(* iperf_client_end sends IPERF_DONE "only if no error in server".         *)
Positive(state) == state \notin {"0", "ACCESS_DENIED", "SERVER_ERROR"}
iperf_client_end(c, pc, state, dn) ==
    ClientExit(c, pc, state, dn, IF Positive(state) THEN <<"IPERF_DONE">> ELSE <<>>)

CleanupAndFail(c, state, dn) == iperf_client_end(c, "failed", state, dn)

(* The rest of a step that goes on in the loop.                            *)
ClientGoes(c, pc, state) ==
    /\ cpc' = [cpc EXCEPT ![c] = pc]
    /\ cstate' = [cstate EXCEPT ![c] = state]
    /\ UNCHANGED <<cmode, copt, cli, srv, listening, backlog>>

-----------------------------------------------------------------------------
(* iperf_connect: dial the control connection, then write the cookie.      *)
iperf_connect(c) ==
    /\ cpc[c] = "start"
    /\ \/ /\ Dialled(Ctrl(c))
          /\ cpc' = [cpc EXCEPT ![c] = "dialled"]
          /\ UNCHANGED <<cstate, cmode, copt, cstreams, cworkers, cpeer>>
       \/ /\ ~listening
          /\ CleanupAndFail(c, cstate[c], down)

SendCookie(c) ==
    /\ cpc[c] = "dialled"
    /\ \/ /\ up' = Written(up, srv, Ctrl(c), <<"cookie">>)
          /\ ClientGoes(c, "loop", cstate[c])
          /\ UNCHANGED <<down, cstreams, cworkers, cpeer>>
       \/ /\ srv[Ctrl(c)] = "closed"
          /\ CleanupAndFail(c, cstate[c], down)

-----------------------------------------------------------------------------
(* iperf_handle_message_client: one action per message.                    *)
Reads(c, m) ==
    /\ cpc[c] = "loop"
    /\ ClientSees(Ctrl(c), m)

(* The message is answered by a payload, after which the client goes to pc.*)
Answer(c, m, payload, pc) ==
    /\ Reads(c, m)
    /\ \/ /\ up' = Written(up, srv, Ctrl(c), <<payload>>)
          /\ down' = Unread(down, Ctrl(c))
          /\ ClientGoes(c, pc, m)
          /\ UNCHANGED <<cstreams, cworkers, cpeer>>
       \/ /\ srv[Ctrl(c)] = "closed"
          /\ CleanupAndFail(c, m, Unread(down, Ctrl(c)))

HandleParamExchange(c) == Answer(c, "PARAM_EXCHANGE", "params", "loop")

HandleCreateStreams(c) ==
    /\ Reads(c, "CREATE_STREAMS")
    /\ down' = Unread(down, Ctrl(c))
    /\ ClientGoes(c, "create", "CREATE_STREAMS")
    /\ UNCHANGED <<up, cstreams, cworkers, cpeer>>

(* TEST_START: iperf_init_test and the timers.                             *)
HandleTestStart(c) ==
    /\ Reads(c, "TEST_START")
    /\ down' = Unread(down, Ctrl(c))
    /\ ClientGoes(c, "loop", "TEST_START")
    /\ UNCHANGED <<up, cstreams, cworkers, cpeer>>

(* TEST_RUNNING: the same pass of the loop creates the worker threads.     *)
HandleTestRunning(c) ==
    /\ Reads(c, "TEST_RUNNING")
    /\ down' = Unread(down, Ctrl(c))
    /\ ClientGoes(c, "loop", "TEST_RUNNING")
    /\ cworkers' = [cworkers EXCEPT ![c] = WorkerKinds(cmode[c])]
    /\ UNCHANGED <<up, cstreams, cpeer>>

(* Faulty variant: the server's results are not read.                      *)
ResultsNotRead(c) == Answer(c, "EXCHANGE_RESULTS", "results", "loop")

(* EXCHANGE_RESULTS: send_results, then get_results.                       *)
HandleExchangeResults(c) == Answer(c, "EXCHANGE_RESULTS", "results", "results")

(* DISPLAY_RESULTS: iperf_client_end; the loop ends, receivers are joined. *)
HandleDisplayResults(c) ==
    /\ Reads(c, "DISPLAY_RESULTS")
    /\ ClientExit(c, "ok", "IPERF_DONE", Unread(down, Ctrl(c)), <<"IPERF_DONE">>)

(* SERVER_TERMINATE, ACCESS_DENIED and SERVER_ERROR end the test; the two  *)
(* integers that follow SERVER_ERROR are read if they are there.           *)
HandleRefusal(c) ==
    \E m \in {"SERVER_TERMINATE", "ACCESS_DENIED", "SERVER_ERROR"} :
        /\ Reads(c, m)
        /\ CleanupAndFail(c, m, Unread(down, Ctrl(c)))

(* read() returned 0 or an error: the state is what it was.                *)
ControlClosed(c) ==
    /\ cpc[c] = "loop"
    /\ ClientSeesEof(Ctrl(c))
    /\ CleanupAndFail(c, cstate[c], down)

-----------------------------------------------------------------------------
(* Faulty variant: a JSON block that does not parse is passed over.        *)
ResultsUnparsed(c) ==
    /\ cpc[c] = "results"
    /\ ClientSees(Ctrl(c), "results")
    /\ down' = Unread(down, Ctrl(c))
    /\ ClientGoes(c, "loop", cstate[c])
    /\ UNCHANGED <<up, cstreams, cworkers, cpeer>>

(* get_results: anything but the results, an end of file and, after        *)
(* nread_read_timeout, silence make it fail.                               *)
get_results(c) ==
    /\ cpc[c] = "results"
    /\ \/ /\ ClientSees(Ctrl(c), "results")
          /\ down' = Unread(down, Ctrl(c))
          /\ cpeer' = [cpeer EXCEPT ![c] = TRUE]
          /\ ClientGoes(c, "loop", cstate[c])
          /\ UNCHANGED <<up, cstreams, cworkers>>
       \/ /\ down[Ctrl(c)] # <<>> /\ ~ClientSees(Ctrl(c), "results")
          /\ CleanupAndFail(c, cstate[c], Unread(down, Ctrl(c)))
       \/ /\ ClientSeesEof(Ctrl(c)) \/ (Timeouts /\ ClientQuiet(Ctrl(c)))
          /\ CleanupAndFail(c, cstate[c], down)

(* iperf_create_streams: protocol->connect of the next stream is           *)
(* iperf_tcp_connect, which dials and then writes the cookie.              *)
iperf_create_streams(c) ==
    LET k == <<c, cstreams[c] + 1>> IN
    /\ cpc[c] = "create"
    /\ \/ /\ Dialled(k)
          /\ cpc' = [cpc EXCEPT ![c] = "stream"]
          /\ UNCHANGED <<cstate, cmode, copt, cstreams, cworkers, cpeer>>
       \/ /\ ~listening
          /\ CleanupAndFail(c, cstate[c], down)

SendStreamCookie(c) ==
    LET n == cstreams[c] + 1
        k == <<c, n>>
    IN
    /\ cpc[c] = "stream"
    /\ \/ /\ up' = Written(up, srv, k, <<"cookie">>)
          /\ cstreams' = [cstreams EXCEPT ![c] = n]
          /\ ClientGoes(c, IF n = StreamCount(cmode[c]) THEN "loop" ELSE "create",
                        cstate[c])
          /\ UNCHANGED <<down, cworkers, cpeer>>
       \/ /\ srv[k] = "closed"
          /\ CleanupAndFail(c, cstate[c], down)

(* Faulty variant: TEST_END is sent before the sender threads are stopped. *)
TestDoneSending(c) ==
    /\ cpc[c] = "loop" /\ cstate[c] = "TEST_RUNNING"
    /\ up' = Written(up, srv, Ctrl(c), <<"TEST_END">>)
    /\ ClientGoes(c, "loop", "TEST_END")
    /\ UNCHANGED <<down, cstreams, cworkers, cpeer>>

(* The end of the test (iperf_run_client's "Is the test done yet?"): the   *)
(* duration, the byte or the block count is reached, the sender threads    *)
(* are cancelled and joined, and only then is TEST_END sent.               *)
TestDone(c) ==
    /\ cpc[c] = "loop" /\ cstate[c] = "TEST_RUNNING"
    /\ \/ /\ cworkers' = [cworkers EXCEPT ![c] = @ \ {"send"}]
          /\ up' = Written(up, srv, Ctrl(c), <<"TEST_END">>)
          /\ ClientGoes(c, "loop", "TEST_END")
          /\ UNCHANGED <<down, cstreams, cpeer>>
       \/ /\ srv[Ctrl(c)] = "closed"
          /\ CleanupAndFail(c, "TEST_END", down)

(* IENOMSG: a client that receives gives up when no block arrives.         *)
ClientIdle(c) ==
    /\ Timeouts
    /\ cpc[c] = "loop" /\ cstate[c] = "TEST_RUNNING" /\ cmode[c] # "SENDER"
    /\ ClientQuiet(Ctrl(c))
    /\ CleanupAndFail(c, cstate[c], down)

(* iperf_got_sigend in the client: CLIENT_TERMINATE if the control socket  *)
(* exists, then exit, from wherever the signal found the process.          *)
ClientSigEnd(c) ==
    /\ c \in Mortals /\ cpc[c] \in ClientAlive
    /\ ClientExit(c, "killed", "CLIENT_TERMINATE", down,
                  IF cpc[c] = "start" THEN <<>> ELSE <<"CLIENT_TERMINATE">>)

(* The client's host disappears: its ends stay open and stay silent.       *)
ClientVanishes(c) ==
    /\ c \in Fragile /\ cpc[c] \in ClientAlive
    /\ cpc' = [cpc EXCEPT ![c] = "gone"]
    /\ cworkers' = [cworkers EXCEPT ![c] = {}]
    /\ UNCHANGED <<cstate, cmode, copt, cstreams, cpeer>>
    /\ UNCHANGED netvars
=============================================================================
