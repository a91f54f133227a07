----------------------------- MODULE Connections -----------------------------
(***************************************************************************)
(* The TCP connections between iperf3 clients and one iperf3 server, as    *)
(* src/net.c and the socket calls of the client and the server use them.   *)
(*                                                                         *)
(* A connection is a pair <<c, n>>: the control connection of client c is  *)
(* <<c, 0>>, its n-th data stream is <<c, n>>.  Both kinds are dialled to  *)
(* the same listening socket and wait in the same backlog, so the server   *)
(* tells them apart only by the state it is in when it accepts one.        *)
(*                                                                         *)
(* What is written travels in order.  A write to a connection the peer has *)
(* closed is lost, and the writer may or may not be told.  Closing a       *)
(* connection with unread input resets it, and a reset may overtake and    *)
(* destroy the last messages the closing side had written.                 *)
(***************************************************************************)
EXTENDS Naturals, Integers, Sequences, FiniteSets

CONSTANTS
    Clients,       \* the client processes; each one runs a single test
    NumStreams,    \* -P: parallel streams per direction
    NoConn         \* the value -1 of a socket field

ASSUME ConnectionsAssumption ==
    /\ NumStreams \in Nat \ {0}
    /\ NoConn \notin Clients \X Nat

VARIABLES
    cli,        \* cli[k]: the client's end of connection k
    srv,        \* srv[k]: the server's end (a connection in the backlog has one)
    up,         \* up[k]: what the client wrote and the server has not read
    down,       \* down[k]: what the server wrote and the client has not read
    listening,  \* test->listener of the server is open
    backlog     \* connections the kernel completed and the server has not accepted

netvars == <<cli, srv, up, down, listening, backlog>>

(* Bidirectional tests dial 2 * NumStreams data streams.                   *)
MaxStreams == 2 * NumStreams
Conns == Clients \X (0 .. MaxStreams)
Ctrl(c) == <<c, 0>>
Owner(k) == k[1]
IsControl(k) == k[2] = 0

(* The one-byte test states that travel on a control connection.           *)
ClientByte == {"TEST_END", "IPERF_DONE", "CLIENT_TERMINATE"}
ServerByte == {"PARAM_EXCHANGE", "CREATE_STREAMS", "TEST_START", "TEST_RUNNING",
               "EXCHANGE_RESULTS", "DISPLAY_RESULTS", "SERVER_TERMINATE",
               "ACCESS_DENIED", "SERVER_ERROR"}

(* What follows some of them: the 37 byte cookie, the length-prefixed JSON *)
(* of the parameters and of the results, the two integers of an error.     *)
ClientPayload == {"cookie", "params", "results"}
ServerPayload == {"errs", "results"}

ClientMsg == ClientByte \cup ClientPayload
ServerMsg == ServerByte \cup ServerPayload
End == {"none", "open", "closed"}

NetInit ==
    /\ cli = [k \in Conns |-> "none"]
    /\ srv = [k \in Conns |-> "none"]
    /\ up = [k \in Conns |-> <<>>]
    /\ down = [k \in Conns |-> <<>>]
    /\ listening = FALSE
    /\ backlog = <<>>

NetTypeOK ==
    /\ cli \in [Conns -> End]
    /\ srv \in [Conns -> End]
    /\ up \in [Conns -> Seq(ClientMsg)]
    /\ down \in [Conns -> Seq(ServerMsg)]
    /\ listening \in BOOLEAN
    /\ backlog \in Seq(Conns)

-----------------------------------------------------------------------------
(* What a reader of a connection can meet.                                 *)

ServerSees(k, m) == up[k] # <<>> /\ Head(up[k]) = m
ServerSeesEof(k) == up[k] = <<>> /\ cli[k] = "closed"
ServerQuiet(k) == up[k] = <<>> /\ cli[k] = "open"
ClientSees(k, m) == down[k] # <<>> /\ Head(down[k]) = m
ClientSeesEof(k) == down[k] = <<>> /\ srv[k] = "closed"
ClientQuiet(k) == down[k] = <<>> /\ srv[k] = "open"

(* The value of down and of up after Nwrite: the peer must be there.       *)
Written(chan, peer, k, msgs) ==
    IF peer[k] = "open" THEN [chan EXCEPT ![k] = @ \o msgs] ELSE chan

Unread(chan, k) == [chan EXCEPT ![k] = Tail(@)]
Prefixes(s) == {SubSeq(s, 1, n) : n \in 0 .. Len(s)}

(* close() of connection k by the side that reads `in` and writes `out`.   *)
SurvivingClose(in, out, k) ==
    {[out EXCEPT ![k] = s] :
        s \in (IF in[k] = <<>> THEN {out[k]} ELSE Prefixes(out[k]))}

(* connect() to the server's port: refused when nothing listens.           *)
Dialled(k) ==
    /\ listening
    /\ cli' = [cli EXCEPT ![k] = "open"]
    /\ srv' = [srv EXCEPT ![k] = "open"]
    /\ backlog' = Append(backlog, k)
    /\ UNCHANGED <<up, down, listening>>

(* Closing the listening socket resets what waits in its backlog.          *)
BacklogClosed == [k \in Conns |->
    IF \E i \in DOMAIN backlog : backlog[i] = k THEN "closed" ELSE srv[k]]
=============================================================================
