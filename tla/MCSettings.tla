----------------------------- MODULE MCSettings ------------------------------
(* Command lines for TLC: one server line each for the plain server, the   *)
(* limits, the file, QUIC and authentication; client lines with every      *)
(* option alone, before and after -c, and with all pairs and triples of    *)
(* the options that influence each other.                                  *)
EXTENDS Settings

Opt(name, arg) == [name |-> name, arg |-> arg]

(* Every option with an argument it accepts, and its limits' other sides.  *)
Alone ==
    {Opt(o, <<1>>) : o \in {n \in DOMAIN Rows : 1 \in Rows[n].valid}}
    \cup {Opt("version4", <<4>>), Opt("version6", <<6>>), Opt("rcv_timeout", <<100>>),
          Opt("no_fq_socket_pacing", <<0>>), Opt("json_stream", <<1>>), Opt("h", <<>>),
          Opt("B", <<1>>), Opt("B", <<2>>), Opt("B", <<3>>), Opt("sctp", <<>>),
          Opt("nstreams", <<4>>), Opt("b", <<7, 3>>), Opt("b", <<7, 1001>>), Opt("b", <<-1>>),
          Opt("server_bitrate_limit", <<9, 20>>), Opt("server_bitrate_limit", <<9, 601>>),
          Opt("l", <<15>>), Opt("l", <<1048577>>), Opt("cntl_ka", <<10, 3, 3>>),
          Opt("cntl_ka", <<9, 3, 3>>), Opt("A", <<1, 2>>), Opt("A", <<1025>>), Opt("s", <<>>)}
    \cup {Opt("p", <<65535>>), Opt("p", <<65536>>), Opt("t", <<86401>>), Opt("O", <<601>>),
          Opt("i", <<601>>), Opt("L", <<0>>), Opt("P", <<129>>), Opt("S", <<256>>)}

(* Options that meet in a direction, a protocol, an end or a default.      *)
Entangled ==
    {Opt("R", <<1>>), Opt("bidir", <<1>>), Opt("u", <<>>), Opt("m", <<>>), Opt("quic", <<>>),
     Opt("t", <<5>>), Opt("n", <<6>>), Opt("F", <<2>>), Opt("Z", <<1>>),
     Opt("rsa_public_key_path", <<1>>), Opt("username", <<1>>)}

c == Opt("c", <<1>>)

MCClientLines ==
    {<<o, c>> : o \in Alone} \cup {<<c, o>> : o \in Alone}
    \cup {<<c, o1, o2>> : o1 \in Entangled, o2 \in Entangled}
    \cup {<<o1, c, o2>> : o1 \in Entangled, o2 \in Entangled}
    \cup {<<o1, o2, Opt("c", <<2>>)>> : o1 \in Entangled, o2 \in Entangled}
    \cup {<<c, Opt("k", <<7>>), Opt("O", <<3>>)>>, <<c, Opt("username", <<2>>), Opt("rsa_public_key_path", <<1>>)>>,
          <<c, Opt("username", <<1>>), Opt("rsa_public_key_path", <<2>>)>>, <<Opt("u", <<>>)>>}

MCClockOffsets == {-1, 0, 2}

s == Opt("s", <<>>)

MCServerLines ==
    {<<s>>, <<s, Opt("server_max_duration", <<11>>)>>, <<Opt("F", <<2>>), s>>,
     <<s, Opt("quic", <<>>), Opt("p", <<65535>>)>>, <<s, Opt("u", <<>>)>>,
     <<s, Opt("rsa_private_key_path", <<1>>)>>,
     <<s, Opt("rsa_private_key_path", <<1>>), Opt("authorized_users_path", <<1>>),
       Opt("time_skew_threshold", <<1>>)>>}
=============================================================================
