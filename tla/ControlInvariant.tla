--------------------------- MODULE ControlInvariant ---------------------------
(***************************************************************************)
(* The inductive invariant of ControlProtocol.  Its heart is an order: the *)
(* messages of a control connection are numbered in the order in which a   *)
(* test may produce them, and at any time the numbers in flight increase   *)
(* strictly from what the reader has already taken to what the writer has  *)
(* last sent, in both directions.  From it follows that every message of a *)
(* test is sent once, and that nothing is answered twice.                  *)
(***************************************************************************)
EXTENDS ControlProtocol

DownRank == [m \in ServerMsg |->
    IF m = "PARAM_EXCHANGE" THEN 1
    ELSE IF m = "CREATE_STREAMS" THEN 2
    ELSE IF m = "TEST_START" THEN 3
    ELSE IF m = "TEST_RUNNING" THEN 4
    ELSE IF m = "EXCHANGE_RESULTS" THEN 6
    ELSE IF m = "results" THEN 7
    ELSE IF m = "DISPLAY_RESULTS" THEN 8
    ELSE IF m = "errs" THEN 10
    ELSE 9]

UpRank == [m \in ClientMsg |->
    IF m = "cookie" THEN 1
    ELSE IF m = "params" THEN 2
    ELSE IF m = "TEST_END" THEN 3
    ELSE IF m = "results" THEN 4
    ELSE 5]

(* s increases strictly in rank, above lo and up to hi.                    *)
Ascending(R, s, lo, hi) ==
    /\ \A i \in 1 .. Len(s) : lo < R[s[i]] /\ R[s[i]] <= hi
    /\ \A i, j \in 1 .. Len(s) : i < j => R[s[i]] < R[s[j]]

Has(s, m) == \E i \in 1 .. Len(s) : s[i] = m

(* What a client has read and sent, from its state.                        *)
ClientRead(st) ==
    IF st \in ServerByte THEN DownRank[st]
    ELSE IF st = "0" THEN 0 ELSE IF st = "TEST_END" THEN 5 ELSE 10
(* TEST_END is the client's own step, from TEST_RUNNING.                   *)
ClientHeard(st) == IF st = "TEST_END" THEN 4 ELSE ClientRead(st)
ClientSent(pc, st) ==
    IF pc \in {"ok", "failed", "killed"} THEN 5
    ELSE IF pc \in {"start", "dialled"} THEN 0
    ELSE IF st = "0" THEN 1
    ELSE IF st = "TEST_END" THEN 3
    ELSE IF st = "EXCHANGE_RESULTS" THEN 4
    ELSE 2

(* What the server has read from ctrl and sent on it, from its state.      *)
ServerRead(pc, st) ==
    IF st \in {"0", "IPERF_START"} THEN 0
    ELSE IF st = "PARAM_EXCHANGE" THEN 1
    ELSE IF st \in {"CREATE_STREAMS", "TEST_RUNNING"} THEN 2
    ELSE IF st = "EXCHANGE_RESULTS" /\ pc = "results" THEN 3
    ELSE IF st \in {"EXCHANGE_RESULTS", "DISPLAY_RESULTS"} THEN 4
    ELSE 5
ServerSent(pc, st) ==
    IF st \in {"0", "IPERF_START"} THEN 0
    ELSE IF pc = "display" THEN 7
    ELSE IF st \in ServerByte THEN DownRank[st]
    ELSE 8

ReadBy(k) == IF ctrl = k THEN ServerRead(spc, sstate) ELSE 0
SentBy(k) == IF ctrl = k THEN ServerSent(spc, sstate) ELSE 10

InBacklog(k) == \E i \in 1 .. Len(backlog) : backlog[i] = k
Waiting(k) == InBacklog(k) \/ acc = k

-----------------------------------------------------------------------------
(* The server, by where it is.                                             *)
ServerPlace ==
    /\ spc \in {"run", "main", "exited"} => ctrl = NoConn
    /\ spc = "run" => sstate = "0"
    /\ spc = "cookie" => sstate = "IPERF_START" /\ ctrl # NoConn
    /\ spc = "params" => sstate = "PARAM_EXCHANGE" /\ ctrl # NoConn
    /\ spc = "stream" => sstate = "CREATE_STREAMS" /\ ctrl # NoConn
    /\ spc \in {"results", "display"} => sstate = "EXCHANGE_RESULTS" /\ ctrl # NoConn
    /\ spc = "loop" => \/ sstate = "IPERF_START" /\ ctrl = NoConn
                       \/ /\ sstate \in {"CREATE_STREAMS", "TEST_RUNNING",
                                         "DISPLAY_RESULTS", "IPERF_DONE"}
                          /\ ctrl # NoConn
    /\ spc = "stream" <=> acc # NoConn
    /\ ctrl # NoConn /\ ~IsControl(ctrl) => spc \in {"cookie", "params"}
    /\ \A i \in DOMAIN sstreams : ~IsControl(sstreams[i].conn)

(* The client, by where it is.                                             *)
LiveState == {"0", "PARAM_EXCHANGE"} \cup TestState
ClientPlace(c) ==
    /\ cpc[c] \in ClientAlive \cup {"gone"} => cstate[c] \in LiveState /\ cli[Ctrl(c)] # "closed"
    /\ cpc[c] \in {"start", "dialled"} => cstate[c] = "0"
    /\ cpc[c] = "start" => srv[Ctrl(c)] = "none" /\ cli[Ctrl(c)] = "none"
    /\ cli[Ctrl(c)] # "open" => down[Ctrl(c)] = <<>>
    /\ cli[Ctrl(c)] = "open" => cstate[c] \in LiveState
    /\ ClientRead(cstate[c]) < 2 => cstreams[c] = 0
    /\ cpc[c] \in {"create", "stream"} => /\ cstate[c] = "CREATE_STREAMS"
                                         /\ cstreams[c] < StreamCount(cmode[c])

(* A control connection waits, is served or has been closed.               *)
Accounted(c) ==
    LET k == Ctrl(c) IN
    /\ Waiting(k) \/ ctrl = k => srv[k] = "open"
    /\ srv[k] = "open" => Waiting(k) \/ ctrl = k
    /\ ~(Waiting(k) /\ ctrl = k)
    /\ ~(InBacklog(k) /\ acc = k)
    /\ \A i, j \in 1 .. Len(backlog) : backlog[i] = k /\ backlog[j] = k => i = j
    /\ Waiting(k) => /\ down[k] = <<>>
                     /\ cstate[c] \in {"0", "CLIENT_TERMINATE"}
                     /\ c \notin reported

Ordered(c) ==
    LET k == Ctrl(c) IN
    /\ Ascending(DownRank, down[k], ClientRead(cstate[c]), SentBy(k))
    /\ Ascending(UpRank, up[k], ReadBy(k), ClientSent(cpc[c], cstate[c]))
    /\ ReadBy(k) <= ClientSent(cpc[c], cstate[c])

(* A client has heard nothing that its server has not said.                *)
Heard(c) == cli[Ctrl(c)] = "open" => ClientHeard(cstate[c]) <= SentBy(Ctrl(c))

(* A data connection carries a cookie and nothing else to the server.      *)
DataConns == {k \in Conns : ~IsControl(k)}
CookiesOnly == \A k \in DataConns : \A i \in 1 .. Len(up[k]) : up[k][i] = "cookie"

(* What a report, and a client that knows of it, rest on.                  *)
Reported(c) ==
    LET k == Ctrl(c)
        known == c \in reported /\ (cpeer[c] \/ Has(down[k], "results"))
    IN
    /\ Has(down[k], "DISPLAY_RESULTS") => known
    /\ ctrl = k /\ spc = "display" /\ cli[k] = "open" => known
    /\ c \in reported => srv[k] # "none"
    /\ c \in reported /\ ctrl = k => ServerSent(spc, sstate) >= 7
    /\ cpc[c] = "ok" => c \in reported /\ cpeer[c]

(* Where every process is, what it has read and what it has sent agree:    *)
(* whatever was killed, refused, reset or timed out before, no handler     *)
(* meets a message it has met already or one that comes too early.         *)
ControlInv ==
    /\ TypeOK
    /\ ServerPlace
    /\ CookiesOnly
    /\ \A c \in Clients :
          ClientPlace(c) /\ Accounted(c) /\ Ordered(c) /\ Heard(c) /\ Reported(c)

-----------------------------------------------------------------------------
(* Over it, what the streams, the threads and the reports of a test rest   *)
(* on.                                                                     *)

(* Sender threads run in TEST_RUNNING only; a client that is in a test and *)
(* creates no streams has created all of them; its control connection is   *)
(* open from when it has connected until it ends.                          *)
ClientThreads(c) ==
    /\ "send" \in cworkers[c] => cpc[c] = "loop" /\ cstate[c] = "TEST_RUNNING"
    /\ cpc[c] \in {"loop", "results"} /\ cstate[c] \in TestState
          => cstreams[c] = StreamCount(cmode[c])
    /\ cli[Ctrl(c)] = "open" => cpc[c] \in ClientAlive \cup {"gone"}
    /\ cpc[c] \in ClientAlive \ {"start"} => cli[Ctrl(c)] = "open"

(* What may be where in s, which is on its way to client c at pc and in    *)
(* state st, when `rep` have been reported: a payload follows the byte     *)
(* that announces it, or the client has read that byte and is blocked      *)
(* until the payload comes; CREATE_STREAMS comes before the rest of a      *)
(* test; TEST_END, from the client, before the exchange of the results;    *)
(* and the server's numbers come with its report.                          *)
Late == {"EXCHANGE_RESULTS", "results", "DISPLAY_RESULTS"}
Rest == {"TEST_START", "TEST_RUNNING"} \cup Late
InPlace(c, s, pc, st, rep) ==
    \A i \in 1 .. Len(s) :
        /\ s[i] = "errs" => i > 1 /\ s[i - 1] = "SERVER_ERROR"
        /\ s[i] = "results" => /\ c \in rep
                               /\ \/ i > 1 /\ s[i - 1] = "EXCHANGE_RESULTS"
                                  \/ i = 1 /\ pc \in {"results", "gone"}
        /\ s[i] \in Rest => \/ ClientRead(st) >= 2
                            \/ \E j \in 1 .. i : s[j] = "CREATE_STREAMS"
        /\ s[i] \in Late => ClientSent(pc, st) >= 3

(* With it, what both sides have done for a message to be there: the       *)
(* client's results are on their way only to a server that asked for them. *)
InSequence(c) ==
    LET k == Ctrl(c) IN
    /\ InPlace(c, down[k], cpc[c], cstate[c], reported)
    /\ srv[k] = "open" /\ Has(up[k], "results") => ctrl = k /\ ServerSent(spc, sstate) >= 6
    /\ ctrl = k /\ cli[k] = "open" /\ ServerSent(spc, sstate) >= 2
          => ClientRead(cstate[c]) >= 2 \/ Has(down[k], "CREATE_STREAMS")
    /\ cpeer[c] => c \in reported
    /\ cpc[c] = "loop" /\ cstate[c] = "EXCHANGE_RESULTS" => cpeer[c]

(* The streams the server has, by where it is.                             *)
ServerStreams ==
    /\ sstate \in {"CREATE_STREAMS", "TEST_RUNNING"} /\ ctrl # NoConn
          => smode = ServerMode(cmode[Owner(ctrl)])
    /\ sstate = "CREATE_STREAMS" /\ ctrl # NoConn => Len(sstreams) < StreamsWanted /\ ~sworkers
    /\ sstate = "TEST_RUNNING" /\ ctrl # NoConn => sworkers
    /\ spc \in {"run", "cookie", "params"} \/ (spc = "loop" /\ sstate = "IPERF_START")
          => sstreams = <<>> /\ ~sworkers
    /\ sworkers => /\ ctrl # NoConn /\ Len(sstreams) = StreamsWanted
                   /\ smode = ServerMode(cmode[Owner(ctrl)])
    /\ \A n \in 1 .. Len(sstreams) : sstreams[n].sender = (n > StreamsToRec)

(* The data connections of a client, in the order in which it dials them:  *)
(* those the server has taken, the one it is taking, those that wait.      *)
Number(k) == k[2]
OfClient(k, c) == k # NoConn /\ Owner(k) = c
DialOrder(c) ==
    /\ \A i, j \in 1 .. Len(backlog) :
          i < j /\ OfClient(backlog[i], c) /\ OfClient(backlog[j], c)
             => Number(backlog[i]) < Number(backlog[j])
    /\ OfClient(acc, c) => \A j \in 1 .. Len(backlog) :
          OfClient(backlog[j], c) => Number(acc) < Number(backlog[j])
    /\ ctrl = Ctrl(c) => \A n \in 1 .. Len(sstreams) :
          /\ Owner(sstreams[n].conn) = c
          /\ \A m \in 1 .. Len(sstreams) :
                n < m => Number(sstreams[n].conn) < Number(sstreams[m].conn)
          /\ OfClient(acc, c) => Number(sstreams[n].conn) < Number(acc)
          /\ \A j \in 1 .. Len(backlog) :
                OfClient(backlog[j], c) => Number(sstreams[n].conn) < Number(backlog[j])

(* A client dials one stream after the other, and no more than it wants.   *)
DialledUpTo(c) ==
    IF cpc[c] = "create" THEN cstreams[c]
    ELSE IF cpc[c] = "stream" THEN cstreams[c] + 1
    ELSE IF cpc[c] = "start" THEN -1
    ELSE IF cpc[c] \in ClientAlive /\ cstate[c] \in {"0", "PARAM_EXCHANGE"} THEN 0
    ELSE StreamCount(cmode[c])
DialBound(c) ==
    /\ \A i \in 1 .. Len(backlog) :
          OfClient(backlog[i], c) => Number(backlog[i]) <= DialledUpTo(c)
    /\ OfClient(acc, c) => Number(acc) <= DialledUpTo(c)
    /\ ctrl = Ctrl(c) => \A n \in 1 .. Len(sstreams) :
          Number(sstreams[n].conn) <= DialledUpTo(c)

(* A one-off server that has reported a test is on its way out.            *)
OneOffInv ==
    OneOff => /\ \A c, d \in reported : c = d
              /\ reported # {} =>
                    \/ spc \in {"display", "exited"}
                    \/ spc = "loop" /\ sstate \in {"DISPLAY_RESULTS", "IPERF_DONE"}
                    \/ spc = "main" /\ OneOffCounts

FlowInv ==
    /\ ServerStreams
    /\ OneOffInv
    /\ \A c \in Clients : ClientThreads(c) /\ InSequence(c) /\ DialOrder(c) /\ DialBound(c)
=============================================================================
