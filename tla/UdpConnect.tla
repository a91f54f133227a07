----------------------------- MODULE UdpConnect ------------------------------
(***************************************************************************)
(* How the streams of a UDP test are "connected" (src/iperf_udp.c, with    *)
(* the loops of iperf_create_streams and iperf_run_server around it).      *)
(*                                                                         *)
(* For each stream the client sends one datagram and waits for one reply.  *)
(* The server has one unconnected socket at a time: it connects it to      *)
(* where the datagram came from, makes a new one, and only then replies.   *)
(* Nothing in a datagram says which test it is for.                        *)
(*                                                                         *)
(* Sizes are in words of 4 bytes, the size of the two messages.  spc is    *)
(* where the server's main thread is: in select(), or in iperf_udp_accept  *)
(* before connect(), netannounce() or write().                             *)
(***************************************************************************)
EXTENDS Integers, Sequences, FiniteSetsExt

CONSTANTS
    StreamCounts,   \* numbers of streams
    UdpModes,       \* modes of the client
    BlockSize,      \* settings->blksize
    BufferSizes,    \* -w, 0: not given
    Kernels,        \* [usual |-> default buffer, most |-> largest one that can be set]
    MaxStrays       \* bound: datagrams of somebody else, or of an earlier test

ASSUME UdpConnectAssumption ==
    /\ StreamCounts \subseteq Nat \ {0} /\ BlockSize \in Nat \ {0}
    /\ BufferSizes \subseteq Nat /\ MaxStrays \in Nat
    /\ Kernels \subseteq [usual : Nat, most : Nat]

VARIABLES
    count, umode, asked,    \* of the test
    kernel,         \* kernel[side]: its buffer sizes
    bufsize,        \* bufsize[side]: settings->socket_bufsize
    buffer,         \* buffer[side][k]: SO_SNDBUF and SO_RCVBUF of its stream k
    cpc, stream,    \* the client: dial, wait, done or failed, at which stream
    got,            \* words it has read for this stream
    cause,          \* why it failed
    spc, peers,     \* the server; whom its sockets are connected to (0: a stray)
    queue,          \* datagrams in its unconnected socket
    msgs, replies,  \* connect messages and replies under way, by stream
    refused,        \* messages that found no socket
    swallowed,      \* messages that were left in a socket connected to another
    strays          \* strays so far

udptest == <<count, umode, asked, kernel>>
client == <<cpc, stream, got, cause>>
network == <<msgs, replies, refused, swallowed, strays>>
cvars == <<udptest, bufsize, buffer, client, spc, peers, queue, network>>

UdpSides == {"c", "s"}

ConnectInit ==
    /\ count \in StreamCounts /\ umode \in UdpModes /\ asked \in BufferSizes
    /\ kernel \in [UdpSides -> Kernels]
    /\ bufsize = [side \in UdpSides |-> asked]
    /\ buffer = [side \in UdpSides |-> <<>>]
    /\ cpc = "dial" /\ stream = 1 /\ got = 0 /\ cause = "none"
    /\ spc = "select" /\ peers = <<>> /\ queue = <<>>
    /\ msgs = {} /\ replies = {} /\ refused = {} /\ swallowed = {} /\ strays = 0

-----------------------------------------------------------------------------
(* Socket buffers.                                                         *)

UDP_BUFFER_EXTRA == 256

(* What the kernel makes of a size that is asked for.                      *)
Actual(side, size) ==
    IF size = 0 THEN kernel[side].usual ELSE 2 * Min({size, kernel[side].most})

(* -1: an error, 1: a block may not fit.                                   *)
iperf_udp_buffercheck(side, size) ==
    IF size > Actual(side, size) THEN -1
    ELSE IF BlockSize > Actual(side, size) THEN 1
    ELSE 0

(* A default that is too small is replaced, for this and the next streams. *)
SizeFor(side) ==
    IF iperf_udp_buffercheck(side, bufsize[side]) = 1 /\ bufsize[side] = 0
    THEN BlockSize + UDP_BUFFER_EXTRA
    ELSE bufsize[side]

BuffersOk(side) == iperf_udp_buffercheck(side, SizeFor(side)) >= 0

SetBuffers(side) ==
    /\ bufsize' = [bufsize EXCEPT ![side] = SizeFor(side)]
    /\ buffer' = IF BuffersOk(side)
                 THEN [buffer EXCEPT ![side] = Append(@, Actual(side, SizeFor(side)))]
                 ELSE buffer

-----------------------------------------------------------------------------
(* The client: iperf_udp_connect for one stream after the other.           *)

Dial ==
    /\ cpc = "dial"
    /\ SetBuffers("c")
    /\ IF BuffersOk("c")
       THEN cpc' = "wait" /\ got' = 0 /\ msgs' = msgs \cup {stream} /\ UNCHANGED cause
       ELSE cpc' = "failed" /\ cause' = "buffer" /\ UNCHANGED <<got, msgs>>
    /\ UNCHANGED <<udptest, stream, spc, peers, queue, replies, refused, swallowed, strays>>

(* recv() takes the reply, ...                                             *)
RecvReply ==
    /\ cpc = "wait" /\ stream \in replies
    /\ replies' = replies \ {stream}
    /\ IF stream = count
       THEN cpc' = "done" /\ UNCHANGED stream
       ELSE cpc' = "dial" /\ stream' = stream + 1
    /\ UNCHANGED <<udptest, bufsize, buffer, got, cause, spc, peers, queue, msgs, refused,
                   swallowed, strays>>

(* ... or the first word of a data packet that overtook it.  Only a        *)
(* reverse test has patience with those; a bidirectional one is not        *)
(* reverse.                                                                *)
MAX_REVERSE_OUT_OF_ORDER_PACKETS == 2
max_len_wait_for_reply ==
    1 + IF umode = "RECEIVER" THEN MAX_REVERSE_OUT_OF_ORDER_PACKETS * BlockSize ELSE 0

RecvOther ==
    /\ cpc = "wait"
    /\ got' = got + 1
    /\ IF got' < max_len_wait_for_reply
       THEN UNCHANGED <<cpc, cause>>
       ELSE cpc' = "failed" /\ cause' = "data"
    /\ UNCHANGED <<udptest, bufsize, buffer, stream, spc, peers, queue, network>>

(* recv() fails: the server's host refused the message ...                 *)
RecvRefused ==
    /\ cpc = "wait" /\ stream \in refused
    /\ cpc' = "failed" /\ cause' = "refused"
    /\ UNCHANGED <<udptest, bufsize, buffer, stream, got, spc, peers, queue, network>>

(* Faulty variant: there is no time-out.                                   *)
NoTimeout == FALSE /\ UNCHANGED cvars

(* ... or SO_RCVTIMEO is over.                                             *)
RecvTimeout ==
    /\ cpc = "wait"
    /\ cpc' = "failed" /\ cause' = "timeout"
    /\ UNCHANGED <<udptest, bufsize, buffer, stream, got, spc, peers, queue, network>>

-----------------------------------------------------------------------------
(* The server.                                                             *)

(* iperf_udp_accept: recvfrom ...                                          *)
Recvfrom ==
    /\ spc = "select" /\ queue # <<>>
    /\ spc' = "connect"
    /\ UNCHANGED <<udptest, bufsize, buffer, client, peers, queue, network>>

Behind == {queue[i] : i \in 2 .. Len(queue)} \ {0, Head(queue)}

(* Faulty variant: the reply goes out before there is a new socket.        *)
ConnectReplies ==
    /\ spc = "connect"
    /\ peers' = Append(peers, Head(queue))
    /\ queue' = <<>>
    /\ swallowed' = swallowed \cup Behind
    /\ SetBuffers("s")
    /\ spc' = IF BuffersOk("s") THEN "announce" ELSE "failed"
    /\ replies' = replies \cup ({Head(queue)} \ {0})
    /\ UNCHANGED <<udptest, client, msgs, refused, strays>>

(* ... connect, which leaves what else is in the queue to this socket; an  *)
(* error of the buffer check ends the test ...                             *)
Connect ==
    /\ spc = "connect"
    /\ peers' = Append(peers, Head(queue))
    /\ queue' = <<>>
    /\ swallowed' = swallowed \cup Behind
    /\ SetBuffers("s")
    /\ spc' = IF BuffersOk("s") THEN "announce" ELSE "failed"
    /\ UNCHANGED <<udptest, client, msgs, replies, refused, strays>>

Announce ==
    /\ spc = "announce"
    /\ spc' = "reply"
    /\ UNCHANGED <<udptest, bufsize, buffer, client, peers, queue, network>>

(* Faulty variant: the reply goes to the client in any case.               *)
ReplyToClient ==
    /\ spc = "reply"
    /\ replies' = replies \cup {stream}
    /\ IF Len(peers) = count
       THEN spc' = "done" /\ queue' = <<>>
       ELSE spc' = "select" /\ UNCHANGED queue
    /\ UNCHANGED <<udptest, bufsize, buffer, client, peers, msgs, refused, swallowed, strays>>

(* ... and the reply.  With the last stream the listener is closed.        *)
Reply ==
    /\ spc = "reply"
    /\ replies' = replies \cup ({peers[Len(peers)]} \ {0})
    /\ IF Len(peers) = count
       THEN spc' = "done" /\ queue' = <<>>
       ELSE spc' = "select" /\ UNCHANGED queue
    /\ UNCHANGED <<udptest, bufsize, buffer, client, peers, msgs, refused, swallowed, strays>>

(* A client that fails closes the control connection.                      *)
ServerEnds ==
    /\ cpc = "failed" /\ spc = "select"
    /\ spc' = "failed" /\ queue' = <<>>
    /\ UNCHANGED <<udptest, bufsize, buffer, client, peers, network>>

-----------------------------------------------------------------------------
(* The network, and the kernel of the server.                              *)

(* There is a socket that takes datagrams from anybody.                    *)
Unconnected == spc \in {"select", "connect", "reply"}

Arrive(k) ==
    /\ k \in msgs
    /\ msgs' = msgs \ {k}
    /\ IF Unconnected
       THEN queue' = Append(queue, k) /\ UNCHANGED refused
       ELSE queue' = queue /\ refused' = refused \cup {k}
    /\ UNCHANGED <<udptest, bufsize, buffer, client, spc, peers, replies, swallowed, strays>>

Stray ==
    /\ strays < MaxStrays /\ Unconnected
    /\ strays' = strays + 1
    /\ queue' = Append(queue, 0)
    /\ UNCHANGED <<udptest, bufsize, buffer, client, spc, peers, msgs, replies, refused,
                   swallowed>>

LoseMessage(k) ==
    /\ k \in msgs \cup replies
    /\ msgs' = msgs \ {k} /\ replies' = replies \ {k}
    /\ UNCHANGED <<udptest, bufsize, buffer, client, spc, peers, queue, refused, swallowed,
                   strays>>

-----------------------------------------------------------------------------
Server == Recvfrom \/ Connect \/ Announce \/ Reply \/ ServerEnds

ConnectNext ==
    \/ Dial \/ RecvReply \/ RecvRefused \/ RecvTimeout
    \/ Server
    \/ \E k \in 1 .. count : Arrive(k) \/ LoseMessage(k)
    \/ Stray

ConnectTypeOK ==
    /\ stream \in 1 .. count /\ got \in 0 .. max_len_wait_for_reply
    /\ cpc \in {"dial", "wait", "done", "failed"}
    /\ cause \in {"none", "buffer", "data", "refused", "timeout"}
    /\ spc \in {"select", "connect", "announce", "reply", "done", "failed"}
    /\ Len(peers) <= count
    /\ msgs \cup replies \cup refused \cup swallowed \subseteq 1 .. count

(* When both sides have all their streams they have the same ones in the   *)
(* same order, although a datagram is not checked and strays are accepted  *)
(* as streams; and a block fits into every buffer that was not sized by    *)
(* the user.                                                               *)
StreamsMatched ==
    cpc = "done" /\ spc = "done" =>
        /\ peers = [k \in 1 .. count |-> k]
        /\ asked = 0 => \A side \in UdpSides, k \in 1 .. count : buffer[side][k] >= BlockSize

(* A client is not turned away without a cause.  Unless there are strays,  *)
(* the server is ready for every message that arrives: none is refused or  *)
(* swallowed while it wants more streams.  And a reply overtaken by no     *)
(* more packets than iperf.h allows for does not fail a reverse test.      *)
FailsForCause ==
    /\ strays = 0 => swallowed = {} /\ (refused # {} => spc = "failed")
    /\ cause = "data" /\ umode = "RECEIVER" => got > MAX_REVERSE_OUT_OF_ORDER_PACKETS
=============================================================================
