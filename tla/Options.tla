------------------------------- MODULE Options -------------------------------
(***************************************************************************)
(* The command line of iperf3 (iperf_parse_arguments, src/iperf_api.c) as  *)
(* a function from a sequence of options to the test they describe.        *)
(*                                                                         *)
(* An option is [name |-> ..., arg |-> a sequence of numbers]; a text is   *)
(* 1, an empty one 0, and -1 a count that does not parse.  An option       *)
(* without an argument carries the number it stores.  A test is the part   *)
(* of struct iperf_test and of its settings that options set, without      *)
(* bitrate_limit_stats_per_interval, which only the rate limit reads.      *)
(* The build has SCTP, MPTCP, MsQuic, OpenSSL and the Linux socket options.*)
(***************************************************************************)
EXTENDS Integers, Sequences, FiniteSets

CONSTANT FileSize       \* st_size of the file of -F

ASSUME FileSizeAssumption == FileSize \in Nat

(* Limits of iperf.h.                                                      *)
MAX_TIME == 86400
MAX_BLOCKSIZE == 1048576
DEFAULT_TCP_BLKSIZE == 131072
DEFAULT_SCTP_BLKSIZE == 65536
UDP_RATE == 1048576
MAX_UDP_BLOCKSIZE == 65535 - 8 - 20
UdpBlocksizes == 16 .. MAX_UDP_BLOCKSIZE
Ports == 1 .. 65535
Intervals == {0} \cup 1 .. 600      \* 0.1 s to 60 s, in tenths
MAX_TCP_BUFFER == 536870912
MAX_MSS == 32 * 1024 - 1
FlowLabels == 1 .. 1048575
PORT == 5201
DEFAULT_PACING_TIMER == 1000
DEFAULT_NO_MSG_RCVD_TIMEOUT == 120000
Text == {0, 1}

-----------------------------------------------------------------------------
(* Direction and protocol.                                                 *)

(* Only a TCP sender of a system with TCP_INFO knows its retransmissions.  *)
check_sender_has_retransmits(t) ==
    [t EXCEPT !.sender_has_retransmits =
        IF t.mode # "RECEIVER" /\ t.protocol = "tcp" THEN 1 ELSE 0]

Direction(role, sends, mode) ==
    IF role = "none" THEN mode
    ELSE IF (role = "c") <=> sends THEN "SENDER" ELSE "RECEIVER"

(* Faulty variant: the role decides alone.                                 *)
RoleAlone(t, role) ==
    check_sender_has_retransmits(
        [t EXCEPT !.role = role, !.mode = Direction(role, TRUE, t.mode)])

iperf_set_test_role(t, role) ==
    check_sender_has_retransmits(
        [t EXCEPT !.role = role,
                  !.mode = IF t.reverse = 0 /\ t.bidirectional = 1 THEN "BIDIRECTIONAL"
                           ELSE Direction(role, t.reverse = 0, t.mode)])

iperf_set_test_reverse(t) ==
    check_sender_has_retransmits(
        [t EXCEPT !.reverse = 1, !.mode = Direction(t.role, FALSE, t.mode)])

iperf_set_test_bidirectional(t) ==
    [t EXCEPT !.bidirectional = 1, !.mode = "BIDIRECTIONAL"]

set_protocol(t, p) == check_sender_has_retransmits([t EXCEPT !.protocol = p])

-----------------------------------------------------------------------------
(* A test before any option: zeroes, and the values of iperf_defaults.     *)

(* Fields that the client sends to the server, and that start at 0.        *)
SentIfSet ==
    {"quic_port", "mss", "no_delay", "mptcp", "socket_bufsize", "blksize", "rate",
     "fqrate", "pacing_timer", "burst", "tos", "flowlabel", "title", "extra_data",
     "congestion", "get_server_output", "udp_counters_64bit", "repeating_payload",
     "zerocopy", "dont_fragment", "skip_rx_copy"}
SentAlways == {"omit", "duration", "bytes", "blocks", "num_streams"}

(* Fields that stay on the side whose options set them.                    *)
LocalFields ==
    {"server_port", "unit_format", "stats_interval", "daemon", "one_off", "verbose",
     "json_output", "json_stream", "json_stream_full_output", "server_hostname",
     "bind_address", "bind_dev", "bind_port", "domain", "xbind_addrs", "timestamps",
     "diskfile_name", "idle_timeout", "max_server_duration", "rcv_timeout",
     "snd_timeout", "cntl_ka", "cntl_ka_keepidle", "cntl_ka_interval", "cntl_ka_count",
     "affinity", "debug", "pidfile", "logfile", "forceflush", "connect_timeout",
     "num_ostreams", "quic_cert_file", "quic_key_file", "quic_key_password",
     "quic_p12_file", "quic_p12_password", "quic_buf_size", "bitrate_limit",
     "bitrate_limit_interval", "server_authorized_users", "server_rsa_private_key",
     "server_skew_threshold", "use_pkcs1_padding", "client_username",
     "client_rsa_pubkey"}

Zeroed ==
    [f \in SentIfSet \cup SentAlways \cup LocalFields |-> 0]

iperf_new_test == Zeroed

Defaults ==
    [server_affinity |-> -1, affinity |-> -1, connect_timeout |-> -1, duration |-> 10,
     num_streams |-> 1, server_port |-> PORT, stats_interval |-> 10,
     bitrate_limit_interval |-> 50, blksize |-> DEFAULT_TCP_BLKSIZE,
     pacing_timer |-> DEFAULT_PACING_TIMER, rcv_timeout |-> DEFAULT_NO_MSG_RCVD_TIMEOUT,
     role |-> "none", mode |-> "RECEIVER", protocol |-> "tcp", authtoken |-> <<>>]

NewTest ==
    [f \in DOMAIN iperf_new_test
            \cup {"server_affinity", "role", "mode", "protocol", "reverse", "bidirectional",
                  "sender_has_retransmits", "authtoken"} |->
        IF f \in DOMAIN Defaults THEN Defaults[f] ELSE 0]

iperf_defaults == set_protocol(NewTest, "tcp")

-----------------------------------------------------------------------------
(* Options that check one argument and store it in one field.  A row is    *)
(* the field, the role that may use the option, the arguments accepted and *)
(* the error of the others.                                                *)
Row(field, who, valid, err) == [field |-> field, who |-> who, valid |-> valid, err |-> err]

Counts == Nat           \* what unit_atoi and unit_atof accept
AtMost(n) == {i \in Int : i <= n}

OutputRows ==
    [p |-> Row("server_port", "any", Ports, "IEBADPORT"),
     f |-> Row("unit_format", "any", 1 .. 8, "IEBADFORMAT"),
     i |-> Row("stats_interval", "any", Intervals, "IEINTERVAL"),
     D |-> Row("daemon", "s", Text, "none"),
     one_off |-> Row("one_off", "s", Text, "none"),
     V |-> Row("verbose", "any", Text, "none"),
     J |-> Row("json_output", "any", Text, "none"),
     json_stream_full_output |-> Row("json_stream_full_output", "any", Text, "none")]

QuicRows ==
    [quic_cert |-> Row("quic_cert_file", "s", Text, "none"),
     quic_key |-> Row("quic_key_file", "s", Text, "none"),
     quic_key_pass |-> Row("quic_key_password", "s", Text, "none"),
     quic_p12 |-> Row("quic_p12_file", "s", Text, "none"),
     quic_p12_pass |-> Row("quic_p12_password", "s", Text, "none"),
     quic_port |-> Row("quic_port", "any", Ports, "IEBADPORT"),
     quic_buf |-> Row("quic_buf_size", "any", Nat \ {0}, "IEBUFSIZE")]

TransferRows ==
    [t |-> Row("duration", "c", 0 .. MAX_TIME, "IEDURATION"),
     n |-> Row("bytes", "c", Counts, "IEUNITVAL"),
     k |-> Row("blocks", "c", Counts, "IEUNITVAL"),
     P |-> Row("num_streams", "c", AtMost(128), "IENUMSTREAMS"),
     w |-> Row("socket_bufsize", "c", AtMost(MAX_TCP_BUFFER), "IEBUFSIZE")]

SocketRows ==
    [bind_dev |-> Row("bind_dev", "any", Text, "none"),
     cport |-> Row("bind_port", "any", Ports, "IEBADPORT"),
     M |-> Row("mss", "c", AtMost(MAX_MSS), "IEMSS"),
     N |-> Row("no_delay", "c", Text, "none"),
     version4 |-> Row("domain", "any", {4}, "none"),
     version6 |-> Row("domain", "any", {6}, "none"),
     S |-> Row("tos", "c", 0 .. 255, "IEBADTOS"),
     dscp |-> Row("tos", "c", 0 .. 255, "IEBADTOS"),
     extra_data |-> Row("extra_data", "c", Text, "none"),
     L |-> Row("flowlabel", "c", FlowLabels, "IESETFLOW"),
     X |-> Row("xbind_addrs", "any", Text, "IESETSCTPBINDX")]

PayloadRows ==
    [Z |-> Row("zerocopy", "c", Text, "IENOSENDFILE"),
     repeating_payload |-> Row("repeating_payload", "c", Text, "none"),
     timestamps |-> Row("timestamps", "any", Text, "none"),
     O |-> Row("omit", "c", 0 .. 600, "IEOMIT"),
     F |-> Row("diskfile_name", "any", {1, 2}, "none")]  \* 1: stat fails, 2: it does not

TimeoutRows ==
    [idle_timeout |-> Row("idle_timeout", "s", 1 .. MAX_TIME, "IEIDLETIMEOUT"),
     server_max_duration |-> Row("max_server_duration", "s", 0 .. MAX_TIME, "IEDURATION"),
     rcv_timeout |-> Row("rcv_timeout", "any", 100 .. MAX_TIME * 1000, "IERCVTIMEOUT"),
     snd_timeout |-> Row("snd_timeout", "any", 0 .. MAX_TIME * 1000, "IESNDTIMEOUT")]

MiscellaneousRows ==
    [T |-> Row("title", "c", Text, "none"),
     C |-> Row("congestion", "c", Text, "none"),
     d |-> Row("debug", "any", Text, "none"),
     I |-> Row("pidfile", "any", Text, "none"),
     logfile |-> Row("logfile", "any", Text, "none"),
     forceflush |-> Row("forceflush", "any", Text, "none"),
     get_server_output |-> Row("get_server_output", "c", Text, "none"),
     udp_counters_64bit |-> Row("udp_counters_64bit", "c", Text, "none"),
     no_fq_socket_pacing |-> Row("fqrate", "c", {0}, "none"),
     fq_rate |-> Row("fqrate", "c", Counts, "IEUNITVAL"),
     dont_fragment |-> Row("dont_fragment", "c", Text, "none")]

(* The two keys and the user's name stay local until the last checks: a    *)
(* key is 1 for the server's pair, 2 for another one, 3 for a file that    *)
(* cannot be loaded; a user is 1 with his password, 2 with a wrong one.    *)
AuthRows ==
    [username |-> Row("client_username", "c", {1, 2}, "none"),
     rsa_public_key_path |-> Row("client_rsa_pubkey", "c", 1 .. 3, "none"),
     rsa_private_key_path |-> Row("server_rsa_private_key", "s", 1 .. 3, "none"),
     authorized_users_path |-> Row("server_authorized_users", "any", {1, 2}, "none"),
     time_skew_threshold |-> Row("server_skew_threshold", "s", Nat \ {0}, "IESKEWTHRESHOLD"),
     use_pkcs1_padding |-> Row("use_pkcs1_padding", "s", Text, "none")]

LastRows ==
    [skip_rx_copy |-> Row("skip_rx_copy", "c", Text, "none"),
     pacing_timer |-> Row("pacing_timer", "c", Counts, "IEUNITVAL"),
     connect_timeout |-> Row("connect_timeout", "c", Counts, "IEUNITVAL")]

(* Two tables in one.                                                      *)
Merged(f, g) ==
    [x \in DOMAIN f \cup DOMAIN g |-> IF x \in DOMAIN f THEN f[x] ELSE g[x]]

Rows ==
    Merged(Merged(Merged(OutputRows, QuicRows), Merged(TransferRows, SocketRows)),
           Merged(Merged(PayloadRows, TimeoutRows),
                  Merged(MiscellaneousRows, Merged(AuthRows, LastRows))))

-----------------------------------------------------------------------------
(* The loop over the options.  Its local variables: the flags that are     *)
(* set, the block size, and the error that made it return.                 *)
Parsing == [test |-> iperf_defaults, err |-> "none", flags |-> {}, blksize |-> 0]

Fail(p, err) == [p EXCEPT !.err = err]

(* The loop goes on with a test and some more flags.                       *)
Takes(p, t, flags) == [p EXCEPT !.test = t, !.flags = @ \cup flags]

Flags(who) ==
    IF who = "s" THEN {"server_flag"} ELSE IF who = "c" THEN {"client_flag"} ELSE {}

(* The flags of single options, which the checks look at.                  *)
OwnFlags(name) ==
    IF name = "t" THEN {"duration_flag"}
    ELSE IF name = "rcv_timeout" THEN {"rcv_timeout_flag"} ELSE {}

Store(p, o, row) ==
    IF o.arg[1] \notin row.valid THEN Fail(p, row.err)
    ELSE Takes(p, [p.test EXCEPT ![row.field] = o.arg[1]], Flags(row.who) \cup OwnFlags(o.name))

(* <host>, <host>%<dev> or <link-local>%<dev>, as 1, 2 and 3: only the     *)
(* second is split.                                                        *)
iperf_parse_hostname(spec) == spec = 2

Host(t, field, spec) ==
    IF iperf_parse_hostname(spec) THEN [t EXCEPT ![field] = 1, !.bind_dev = 1]
    ELSE [t EXCEPT ![field] = spec]

ParseRole(p, o) ==
    IF p.test.role \notin {"none", o.name} THEN Fail(p, "IESERVCLIENT")
    ELSE IF o.name = "s" THEN Takes(p, iperf_set_test_role(p.test, "s"), {})
    ELSE Takes(p, Host(iperf_set_test_role(p.test, "c"), "server_hostname", o.arg[1]), {})

ParseProtocol(p, o) ==
    IF o.name = "u" THEN Takes(p, set_protocol(p.test, "udp"), {"client_flag"})
    ELSE IF o.name = "sctp" THEN Takes(p, set_protocol(p.test, "sctp"), {"client_flag"})
    ELSE IF o.name = "quic" THEN Takes(p, set_protocol(p.test, "quic"), {})
    ELSE Takes(p, [set_protocol(p.test, "tcp") EXCEPT !.mptcp = 1], {})

(* -b rate[/burst].                                                        *)
ParseRate(p, o) ==
    IF Len(o.arg) > 1 /\ o.arg[Len(o.arg)] \notin 1 .. 1000 THEN Fail(p, "IEBURST")
    ELSE IF o.arg[1] \notin Counts THEN Fail(p, "IEUNITVAL")
    ELSE Takes(p, [p.test EXCEPT !.rate = o.arg[1],
                                 !.burst = IF Len(o.arg) > 1 THEN o.arg[2] ELSE @],
               {"client_flag", "rate_flag"})

(* --nstreams has no break: its argument is also taken as that of -b.      *)
ParseNumStreams(p, o) ==
    IF o.arg[1] \notin Counts THEN Fail(p, "IEUNITVAL")
    ELSE ParseRate(Takes(p, [p.test EXCEPT !.num_ostreams = o.arg[1]], {}), o)

ParseBitrateLimit(p, o) ==
    IF Len(o.arg) > 1 /\ o.arg[Len(o.arg)] \notin Intervals THEN Fail(p, "IETOTALINTERVAL")
    ELSE IF o.arg[1] \notin Counts THEN Fail(p, "IEUNITVAL")
    ELSE Takes(p, [p.test EXCEPT !.bitrate_limit = o.arg[1],
                                 !.bitrate_limit_interval = IF Len(o.arg) > 1 THEN o.arg[2] ELSE @],
               {"server_flag"})

ParseLength(p, o) ==
    IF o.arg[1] \notin Counts THEN Fail(p, "IEUNITVAL")
    ELSE [Takes(p, p.test, {"client_flag"}) EXCEPT !.blksize = o.arg[1]]

ParseDirection(p, o) ==
    LET t == p.test IN
    IF (IF o.name = "R" THEN t.bidirectional ELSE t.reverse) = 1 THEN Fail(p, "IEREVERSEBIDIR")
    ELSE Takes(p, IF o.name = "R" THEN iperf_set_test_reverse(t)
                  ELSE iperf_set_test_bidirectional(t),
               {"client_flag"})

(* --cntl-ka[=keepidle[/interval[/count]]].                                *)
ParseKeepalive(p, o) ==
    LET given(i, old) == IF Len(o.arg) >= i THEN o.arg[i] ELSE old
        t == [p.test EXCEPT !.cntl_ka = 1,
                            !.cntl_ka_keepidle = given(1, @),
                            !.cntl_ka_interval = given(2, @),
                            !.cntl_ka_count = given(3, @)]
    IN  IF t.cntl_ka_keepidle # 0
           /\ t.cntl_ka_keepidle <= t.cntl_ka_count * t.cntl_ka_interval
        THEN Fail(p, "IECNTLKA")
        ELSE Takes(p, t, {})

(* -A n[,server's n].                                                      *)
ParseAffinity(p, o) ==
    IF \E i \in DOMAIN o.arg : o.arg[i] \notin 0 .. 1024 THEN Fail(p, "IEAFFINITY")
    ELSE IF Len(o.arg) = 1 THEN Takes(p, [p.test EXCEPT !.affinity = o.arg[1]], {})
    ELSE Takes(p, [p.test EXCEPT !.affinity = o.arg[1], !.server_affinity = o.arg[2]],
               {"client_flag"})

(* One turn of the loop.  --version, --help and an unknown option leave    *)
(* the program.                                                            *)
ParseOption(p, o) ==
    IF o.name \in DOMAIN Rows THEN Store(p, o, Rows[o.name])
    ELSE CASE o.name \in {"s", "c"} -> ParseRole(p, o)
           [] o.name \in {"u", "quic", "sctp", "m"} -> ParseProtocol(p, o)
           [] o.name = "b" -> ParseRate(p, o)
           [] o.name = "nstreams" -> ParseNumStreams(p, o)
           [] o.name = "server_bitrate_limit" -> ParseBitrateLimit(p, o)
           [] o.name = "l" -> ParseLength(p, o)
           [] o.name \in {"R", "bidir"} -> ParseDirection(p, o)
           [] o.name = "B" -> Takes(p, Host(p.test, "bind_address", o.arg[1]), {})
           [] o.name = "cntl_ka" -> ParseKeepalive(p, o)
           [] o.name = "A" -> ParseAffinity(p, o)
           [] o.name = "json_stream" ->
                Takes(p, [p.test EXCEPT !.json_output = 1, !.json_stream = 1], {})
           [] OTHER -> Fail(p, "exit")

ParsedUpTo(argv) ==
    LET parsed[k \in 0 .. Len(argv)] ==
            IF k = 0 THEN Parsing
            ELSE IF parsed[k - 1].err # "none" THEN parsed[k - 1]
            ELSE ParseOption(parsed[k - 1], argv[k])
    IN  parsed

(* What an option with an argument is to getopt_long.                      *)
WithArgument ==
    DOMAIN Rows \cup {"c", "b", "nstreams", "server_bitrate_limit", "l", "B", "A"}

CommandLine(argv) ==
    /\ argv \in Seq([name : STRING, arg : Seq(Int)])
    /\ \A i \in DOMAIN argv : argv[i].name \in WithArgument => argv[i].arg # <<>>

-----------------------------------------------------------------------------
(* The checks after the loop, in their order.                              *)

CheckRole(p) ==
    IF p.test.role = "c" /\ "server_flag" \in p.flags THEN Fail(p, "IESERVERONLY")
    ELSE IF p.test.role = "s" /\ "client_flag" \in p.flags THEN Fail(p, "IECLIENTONLY")
    ELSE p

(* The port after the control port, and a PKCS#12 file made on the spot.   *)
QuicDefaults(p) ==
    LET t == p.test
        next == t.server_port + 1
        bare == t.role = "s" /\ {t.quic_p12_file, t.quic_cert_file, t.quic_key_file} = {0}
    IN  IF t.protocol # "quic" THEN p
        ELSE Takes(p, [t EXCEPT
                !.quic_port = IF @ # 0 THEN @ ELSE IF next \in Ports THEN next ELSE t.server_port,
                !.quic_p12_file = IF bare THEN 1 ELSE @,
                !.quic_p12_password = IF bare THEN 0 ELSE @], {})

CheckClientAuth(p) ==
    LET t == p.test
        credentials == {t.client_username, t.client_rsa_pubkey}
    IN  IF \/ 0 \in credentials /\ credentials # {0}
           \/ t.client_username # 0 /\ t.client_rsa_pubkey = 3
        THEN Fail(p, "IESETCLIENTAUTH")
        ELSE IF {t.server_rsa_private_key, t.server_authorized_users, t.server_skew_threshold} # {0}
        THEN Fail(p, "IESERVERONLY")
        ELSE IF "rcv_timeout_flag" \in p.flags /\ t.mode = "SENDER"
        THEN Fail(p, "IERVRSONLYRCVTIMEOUT") ELSE p

CheckServerAuth(p) ==
    LET t == p.test
        server == {t.server_rsa_private_key, t.server_authorized_users}
    IN  IF 0 \in server /\ server # {0} THEN Fail(p, "IESETSERVERAUTH")
        ELSE IF t.server_authorized_users = 2 THEN Fail(p, "IESERVERAUTHUSERS")
        ELSE IF t.server_rsa_private_key = 3 THEN Fail(p, "IESETSERVERAUTH")
        ELSE IF t.server_rsa_private_key # 0 /\ t.server_skew_threshold = 0
        THEN Takes(p, [t EXCEPT !.server_skew_threshold = 10], {}) ELSE p

CheckAuth(p) ==
    IF p.test.role = "c" THEN CheckClientAuth(p)
    ELSE IF p.test.role = "s" THEN CheckServerAuth(p) ELSE p

CheckBlocksize(p) ==
    LET t == p.test
        udp == t.protocol = "udp"
        size == IF p.blksize # 0 \/ udp THEN p.blksize
                ELSE IF t.protocol = "sctp" THEN DEFAULT_SCTP_BLKSIZE ELSE DEFAULT_TCP_BLKSIZE
    IN  IF t.diskfile_name # 0 /\ udp THEN Fail(p, "IEUDPFILETRANSFER")
        ELSE IF (~udp /\ size <= 0) \/ size > MAX_BLOCKSIZE THEN Fail(p, "IEBLOCKSIZE")
        ELSE IF udp /\ size > 0 /\ size \notin UdpBlocksizes THEN Fail(p, "IEUDPBLOCKSIZE")
        ELSE Takes(p, [t EXCEPT !.blksize = size,
                                !.rate = IF "rate_flag" \in p.flags THEN @
                                         ELSE IF udp THEN UDP_RATE ELSE 0], {})

(* Without another end condition the size of the file of -F is one.        *)
EndBytes(p) ==
    IF /\ p.test.bytes = 0 /\ p.test.blocks = 0 /\ "duration_flag" \notin p.flags
       /\ p.test.diskfile_name = 2 /\ p.test.role = "c"
    THEN FileSize
    ELSE p.test.bytes

CheckEnd(p) ==
    LET bytes == EndBytes(p)
        blocks == p.test.blocks
        counted == bytes # 0 \/ blocks # 0
    IN  IF ("duration_flag" \in p.flags /\ counted) \/ (bytes # 0 /\ blocks # 0)
        THEN Fail(p, "IEENDCONDITIONS")
        ELSE IF p.test.role = "none" THEN Fail(p, "IENOROLE")
        ELSE Takes(p, [p.test EXCEPT !.bytes = bytes, !.duration = IF counted THEN 0 ELSE @], {})

(* The result: the test, and the error if there was one.                   *)
iperf_parse_arguments(argv) ==
    LET after(Check(_), p) == IF p.err = "none" THEN Check(p) ELSE p
        looped == ParsedUpTo(argv)[Len(argv)]
        checked == after(CheckAuth, after(QuicDefaults, after(CheckRole, looped)))
    IN  after(CheckEnd, after(CheckBlocksize, checked))
=============================================================================
