------------------------------ MODULE Settings -------------------------------
(***************************************************************************)
(* The settings of a server over the tests of several clients: what the    *)
(* client's options ask for (Options), what send_parameters puts on the    *)
(* control connection, what get_parameters makes of it on top of what the  *)
(* test structure already holds, whether test_is_authorized lets the       *)
(* client in, and what iperf_reset_test leaves for the next one.           *)
(*                                                                         *)
(* The control connection itself is ControlProtocol's; here a message is   *)
(* delivered or the client is gone.                                        *)
(***************************************************************************)
EXTENDS Options

CONSTANTS
    ServerLines,    \* command lines of servers
    ClientLines,    \* command lines of clients
    MaxClients,     \* bound: clients in a row
    MaxTime,        \* bound: the server's clock, in seconds
    ClockOffsets,   \* how far the client's clock may be off
    SegmentSizes    \* what TCP_MAXSEG may say of the control connection, 0: nothing

ASSUME SettingsAssumption ==
    /\ MaxClients \in Nat /\ MaxTime \in Nat
    /\ ClockOffsets \subseteq Int /\ SegmentSizes \subseteq 0 .. MAX_UDP_BLOCKSIZE
    /\ \A argv \in ServerLines \cup ClientLines : CommandLine(argv)

VARIABLES
    test,       \* the server's test
    cli,        \* the test of the client that is being served
    line,       \* its command line
    wire,       \* the parameters under way
    phase,      \* where the two of them are
    clients,    \* clients so far
    now,        \* the server's clock
    admitted    \* when the client being served was let in

vars == <<test, cli, line, wire, phase, clients, now, admitted>>

NoParameters == [f \in {} |-> 0]

Init ==
    /\ test = NewTest /\ cli = NewTest
    /\ line = <<>> /\ wire = NoParameters
    /\ phase = "start" /\ clients = 0 /\ now = 0 /\ admitted = 0

-----------------------------------------------------------------------------
(* main() of the server, and of a client: the role decides which it is.    *)

StartServer(argv) ==
    LET p == iperf_parse_arguments(argv) IN
    /\ phase = "start"
    /\ p.err = "none" => p.test.role = "s"
    /\ phase' = IF p.err = "none" THEN "listen" ELSE "exit"
    /\ test' = p.test
    /\ UNCHANGED <<cli, line, wire, clients, now, admitted>>

StartClient(argv) ==
    LET p == iperf_parse_arguments(argv) IN
    /\ phase = "listen" /\ clients < MaxClients
    /\ p.err = "none" => p.test.role = "c"
    /\ clients' = clients + 1
    /\ phase' = IF p.err = "none" THEN "parsed" ELSE "listen"
    /\ cli' = IF p.err = "none" THEN p.test ELSE cli
    /\ line' = IF p.err = "none" THEN argv ELSE line
    /\ UNCHANGED <<test, wire, now, admitted>>

(* A UDP test without -l fits its datagrams into the control connection's  *)
(* segments.                                                               *)
iperf_connect(mss) ==
    /\ phase = "parsed"
    /\ phase' = "connected"
    /\ cli' = IF cli.protocol = "udp" /\ cli.blksize = 0
              THEN [cli EXCEPT !.blksize = IF mss # 0 THEN mss ELSE 1460]
              ELSE cli
    /\ UNCHANGED <<test, line, wire, clients, now, admitted>>

-----------------------------------------------------------------------------
(* The parameters.                                                         *)

(* The token: who, encrypted with which key and padding, and when.         *)
encode_auth_setting(t, clock) ==
    <<t.client_username, t.client_rsa_pubkey, t.use_pkcs1_padding, clock>>

SentParameters(t) ==
    SentAlways \cup {f \in SentIfSet : t[f] # 0}
        \cup {f \in {"server_affinity"} : t[f] # -1}
        \cup {f \in {"reverse", "bidirectional"} : t[f] = 1}
        \cup {"protocol"}
        \cup {f \in {"authtoken"} : t[f] # <<>>}

send_parameters(offset) ==
    LET token == IF cli.client_username # 0
                 THEN encode_auth_setting(cli, now + offset) ELSE cli.authtoken
        t == [cli EXCEPT !.authtoken = token]
    IN  /\ phase = "connected"
        /\ phase' = "sent"
        /\ cli' = t
        /\ wire' = [f \in SentParameters(t) |-> t[f]]
        /\ UNCHANGED <<test, line, clients, now, admitted>>

(* A field that is absent keeps its value, but for the two counts.         *)
Overwritten(t, m) ==
    [f \in DOMAIN t |->
        IF f \in DOMAIN m THEN m[f] ELSE IF f \in {"bytes", "blocks"} THEN 0 ELSE t[f]]

(* The direction and the protocol go through their setters, and the last   *)
(* lines say once more who has retransmissions.                            *)
WithParameters(t, m) ==
    LET plain == Overwritten(t, [f \in DOMAIN m \ {"reverse", "bidirectional", "protocol"} |-> m[f]])
        proto == set_protocol(plain, m.protocol)
        reverse == IF "reverse" \in DOMAIN m THEN iperf_set_test_reverse(proto) ELSE proto
        bidir == IF "bidirectional" \in DOMAIN m
                 THEN iperf_set_test_bidirectional(reverse) ELSE reverse
    IN  IF bidir.mode # "RECEIVER" /\ bidir.protocol = "tcp"
        THEN [bidir EXCEPT !.sender_has_retransmits = 1]
        ELSE bidir

TooLong(t) ==
    /\ t.max_server_duration > 0
    /\ t.duration + t.omit > t.max_server_duration \/ t.duration = 0

get_parameters ==
    LET fileOverUdp == wire.protocol = "udp" /\ test.diskfile_name # 0
        m == IF fileOverUdp THEN [wire EXCEPT !.protocol = test.protocol] ELSE wire
    IN  /\ phase = "sent"
        /\ test' = WithParameters(test, m)
        /\ phase' = IF fileOverUdp \/ TooLong(test') THEN "refused" ELSE "received"
        /\ wire' = NoParameters
        /\ UNCHANGED <<cli, line, clients, now, admitted>>

-----------------------------------------------------------------------------
(* Admission.                                                              *)

(* The token opens with the server's key and the server's padding.         *)
decode_auth_setting(t) ==
    t.authtoken[2] = t.server_rsa_private_key /\ t.authtoken[3] = t.use_pkcs1_padding

check_authentication(t, clock) ==
    /\ clock - t.authtoken[4] \in -t.server_skew_threshold .. t.server_skew_threshold
    /\ t.authtoken[1] = 1

test_is_authorized ==
    \/ test.server_rsa_private_key = 0 \/ test.server_authorized_users = 0
    \/ /\ test.authtoken # <<>>
       /\ decode_auth_setting(test)
       /\ check_authentication(test, now)

Admit ==
    /\ phase = "received"
    /\ phase' = IF test_is_authorized THEN "running" ELSE "refused"
    /\ admitted' = now
    /\ UNCHANGED <<test, cli, line, wire, clients, now>>

-----------------------------------------------------------------------------
(* The next test: main() resets the structure however the last one ended.  *)
ResetFields ==
    Merged([duration |-> 10, server_affinity |-> -1, num_streams |-> 1,
            blksize |-> DEFAULT_TCP_BLKSIZE, authtoken |-> <<>>,
            role |-> "s", mode |-> "RECEIVER", sender_has_retransmits |-> 0],
           [f \in {"omit", "reverse", "bidirectional", "no_delay", "socket_bufsize",
                   "rate", "fqrate", "burst", "mss", "tos", "dont_fragment", "zerocopy",
                   "skip_rx_copy", "udp_counters_64bit", "title", "extra_data",
                   "congestion", "client_username", "client_rsa_pubkey"} |-> 0])

ResetBut(t, kept) ==
    set_protocol([f \in DOMAIN t |->
                    IF f \in DOMAIN ResetFields \ kept THEN ResetFields[f] ELSE t[f]], "tcp")

(* Faulty variants: a setting, or the token, outlives its client.          *)
ResetKeepsZerocopy(t) == ResetBut(t, {"zerocopy"})

ResetKeepsToken(t) == ResetBut(t, {"authtoken"})

Reset(t) == ResetBut(t, {})

iperf_reset_test ==
    /\ phase \in {"refused", "running"}
    /\ phase' = "listen"
    /\ test' = Reset(test)
    /\ cli' = NewTest /\ line' = <<>> /\ admitted' = 0   \* the client is gone
    /\ UNCHANGED <<wire, clients, now>>

(* The client leaves before its parameters are read.                       *)
ClientLeaves ==
    /\ phase = "connected"
    /\ phase' = "refused"
    /\ UNCHANGED <<test, cli, line, wire, clients, now, admitted>>

Tick ==
    /\ now < MaxTime
    /\ phase \in {"sent", "received"} /\ cli.authtoken # <<>>  \* else no one looks at it
    /\ now' = now + 1
    /\ UNCHANGED <<test, cli, line, wire, phase, clients, admitted>>

Next ==
    \/ \E argv \in ServerLines : StartServer(argv)
    \/ \E argv \in ClientLines : StartClient(argv)
    \/ \E mss \in SegmentSizes : iperf_connect(mss)
    \/ \E offset \in ClockOffsets : send_parameters(offset)
    \/ get_parameters \/ Admit \/ iperf_reset_test \/ ClientLeaves \/ Tick

Spec == Init /\ [][Next]_vars

-----------------------------------------------------------------------------
(* Properties.                                                             *)

Asked(name) == \E i \in DOMAIN line : line[i].name = name

Serving == phase \in {"parsed", "connected", "sent", "received", "running"}

TypeOK ==
    /\ phase \in {"start", "listen", "exit", "parsed", "connected", "sent", "received",
                  "refused", "running"}
    /\ clients \in 0 .. MaxClients /\ now \in 0 .. MaxTime /\ admitted \in 0 .. MaxTime
    /\ \A t \in {test, cli} :
        /\ t.role \in {"none", "s", "c"}
        /\ t.mode \in {"SENDER", "RECEIVER", "BIDIRECTIONAL"}
        /\ t.protocol \in {"tcp", "udp", "sctp", "quic"}
        /\ \A f \in SentAlways \cup SentIfSet \cup LocalFields : t[f] \in Int

(* The direction of a test and the side that reports retransmissions do    *)
(* not depend on the order of the options, although each of -c, -R,        *)
(* --bidir and the protocol options recomputes them from what came before; *)
(* and a test that is accepted has at most one end, a time, a number of    *)
(* bytes or of blocks, also when the bytes are those of a file.            *)
ModeAsAsked ==
    TypeOK /\ (Serving =>
        /\ Cardinality({f \in {"duration", "bytes", "blocks"} : cli[f] # 0}) <= 1
        /\ cli.mode = IF Asked("R") THEN "RECEIVER"
                      ELSE IF Asked("bidir") THEN "BIDIRECTIONAL" ELSE "SENDER"
        /\ (cli.sender_has_retransmits = 1) <=> (cli.mode # "RECEIVER" /\ cli.protocol = "tcp"))

(* What iperf_reset_test does not reset and send_parameters leaves out     *)
(* when it is not set: it stays as an earlier client left it.              *)
Sticky == {"repeating_payload", "get_server_output", "flowlabel", "mptcp", "pacing_timer",
           "quic_port"}

Peer(mode) ==
    IF mode = "SENDER" THEN "RECEIVER" ELSE IF mode = "RECEIVER" THEN "SENDER" ELSE mode

(* Once the server has the parameters the two sides run the same test: the *)
(* same protocol, ends, sizes and socket options, in opposite directions,  *)
(* whatever earlier clients asked this server for; and what the client     *)
(* does ask for it gets even of the settings that are not reset.           *)
SettingsAgree ==
    phase \in {"received", "running"} =>
        /\ \A f \in (SentAlways \cup SentIfSet \cup {"server_affinity", "protocol"}) \ Sticky :
                test[f] = cli[f]
        /\ \A f \in Sticky : cli[f] # 0 => test[f] = cli[f]
        /\ test.mode = Peer(cli.mode)
        /\ (test.sender_has_retransmits = 1) <=> (test.mode # "RECEIVER" /\ test.protocol = "tcp")

(* With authentication on, a client that is served has proved itself: the  *)
(* user and the key are its own options, and its own token was fresh when  *)
(* test_is_authorized looked at it.  No token of an earlier client helps.  *)
AuthorisedAfresh ==
    phase = "running" /\ test.server_rsa_private_key # 0 =>
        /\ cli.client_username = 1 /\ cli.client_rsa_pubkey = test.server_rsa_private_key
        /\ cli.authtoken # <<>>
        /\ admitted - cli.authtoken[4] \in -test.server_skew_threshold .. test.server_skew_threshold
=============================================================================
