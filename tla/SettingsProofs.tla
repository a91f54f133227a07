---------------------------- MODULE SettingsProofs ----------------------------
(***************************************************************************)
(* The settings of a test for every command line of the server and of its  *)
(* clients, every number of clients and every clock: what a client asks    *)
(* for does not depend on the order of its options, both sides run the     *)
(* same test, and who is served under authentication has proved itself.    *)
(***************************************************************************)
EXTENDS Settings, FiniteSetTheorems, SequenceTheorems, WellFoundedInduction, TLAPS

-----------------------------------------------------------------------------
(* A test: the fields that hold a number, and those that the setters of    *)
(* direction, protocol and token keep.                                     *)

Plain == SentIfSet \cup SentAlways \cup LocalFields \cup {"server_affinity"}
Special == {"role", "mode", "protocol", "reverse", "bidirectional", "sender_has_retransmits",
            "authtoken"}
Fields == Plain \cup Special

IsTest(t) == t = [f \in Fields |-> t[f]] /\ \A f \in Plain : t[f] \in Int

Directed(t) ==
    /\ t.role \in {"none", "s", "c"}
    /\ t.mode \in {"SENDER", "RECEIVER", "BIDIRECTIONAL"}
    /\ t.protocol \in {"tcp", "udp", "sctp", "quic"}
    /\ t.reverse \in {0, 1} /\ t.bidirectional \in {0, 1}

SameSpecial(t, u) == \A f \in Special : u[f] = t[f]

LEMMA SpecialApart == \A f \in Plain : f \notin Special
BY DEF Plain, Special, SentIfSet, SentAlways, LocalFields

LEMMA SetPlain ==
    ASSUME NEW t, IsTest(t), NEW f \in Plain, NEW v \in Int
    PROVE  LET u == [t EXCEPT ![f] = v] IN
           /\ IsTest(u) /\ u[f] = v /\ SameSpecial(t, u)
           /\ \A g \in Plain : g # f => u[g] = t[g]
<1> DEFINE u == [t EXCEPT ![f] = v]
<1>1. t = [g \in Fields |-> t[g]] /\ \A g \in Plain : t[g] \in Int
  BY DEF IsTest
<1>2. f \in Fields
  BY DEF Fields
<1>3. u = [g \in Fields |-> IF g = f THEN v ELSE t[g]]
  BY <1>1, <1>2
<1> HIDE DEF u
<1>4. \A g \in Fields : u[g] = IF g = f THEN v ELSE t[g]
  BY <1>3
<1>5. u = [g \in Fields |-> u[g]]
  BY <1>3, <1>4
<1>6. \A g \in Plain : g \in Fields
  BY DEF Fields
<1>7. \A g \in Special : g \in Fields /\ g # f
  BY SpecialApart DEF Fields
<1>. QED
  BY <1>1, <1>2, <1>4, <1>5, <1>6, <1>7 DEF IsTest, SameSpecial, u

LEMMA SetSpecial ==
    ASSUME NEW t, IsTest(t), NEW f \in Special, NEW v
    PROVE  LET u == [t EXCEPT ![f] = v] IN
           /\ IsTest(u) /\ u[f] = v
           /\ \A g \in Fields : g # f => u[g] = t[g]
<1> DEFINE u == [t EXCEPT ![f] = v]
<1>1. t = [g \in Fields |-> t[g]] /\ \A g \in Plain : t[g] \in Int
  BY DEF IsTest
<1>2. f \in Fields
  BY DEF Fields
<1>3. u = [g \in Fields |-> IF g = f THEN v ELSE t[g]]
  BY <1>1, <1>2
<1> HIDE DEF u
<1>4. \A g \in Fields : u[g] = IF g = f THEN v ELSE t[g]
  BY <1>3
<1>5. u = [g \in Fields |-> u[g]]
  BY <1>3, <1>4
<1>6. \A g \in Plain : g \in Fields /\ g # f
  BY SpecialApart DEF Fields
<1>. QED
  BY <1>1, <1>2, <1>4, <1>5, <1>6 DEF IsTest, u

(* The state of the loop over the options.                                 *)
IsParse(p) == p = [test |-> p.test, err |-> p.err, flags |-> p.flags, blksize |-> p.blksize]

LEMMA Failed ==
    ASSUME NEW p, IsParse(p), NEW e
    PROVE  /\ IsParse(Fail(p, e)) /\ Fail(p, e).test = p.test /\ Fail(p, e).err = e
           /\ Fail(p, e).flags = p.flags /\ Fail(p, e).blksize = p.blksize
BY DEF IsParse, Fail

LEMMA TakesTest ==
    ASSUME NEW p, IsParse(p), NEW t
    PROVE  LET q == [p EXCEPT !.test = t] IN
           /\ IsParse(q) /\ q.test = t /\ q.err = p.err /\ q.flags = p.flags
           /\ q.blksize = p.blksize
BY DEF IsParse

LEMMA TakesFlags ==
    ASSUME NEW p, IsParse(p), NEW s
    PROVE  LET q == [p EXCEPT !.flags = s] IN
           /\ IsParse(q) /\ q.test = p.test /\ q.err = p.err /\ q.flags = s
           /\ q.blksize = p.blksize
BY DEF IsParse

LEMMA Taken ==
    ASSUME NEW p, IsParse(p), NEW t, NEW s
    PROVE  /\ IsParse(Takes(p, t, s)) /\ Takes(p, t, s).test = t /\ Takes(p, t, s).err = p.err
           /\ Takes(p, t, s).flags = p.flags \cup s /\ Takes(p, t, s).blksize = p.blksize
<1> DEFINE a == [p EXCEPT !.test = t]
           g == p.flags \cup s
           b == [a EXCEPT !.flags = g]
<1>1. /\ IsParse(a) /\ a.test = t /\ a.err = p.err /\ a.flags = p.flags
      /\ a.blksize = p.blksize
  BY TakesTest
<1>2. Takes(p, t, s) = b
  BY Zenon DEF Takes
<1> HIDE DEF a
<1>3. IsParse(b) /\ b.test = a.test /\ b.err = a.err /\ b.flags = g /\ b.blksize = a.blksize
  BY <1>1, TakesFlags
<1> HIDE DEF b
<1>. QED
  BY <1>1, <1>2, <1>3

-----------------------------------------------------------------------------
(* The invariant of the loop.                                              *)

(* What only a client's options change, and that is sent when it is not 0. *)
Given == SentIfSet \ (Sticky \cup {"blksize"})

Counting(t) == (t.sender_has_retransmits = 1) <=> (t.mode # "RECEIVER" /\ t.protocol = "tcp")

ModeInv(t) ==
    /\ ~(t.reverse = 1 /\ t.bidirectional = 1)
    /\ t.mode = IF t.bidirectional = 1 THEN "BIDIRECTIONAL"
                ELSE Direction(t.role, t.reverse = 0, "RECEIVER")
    /\ t.role = "c" => Counting(t)

Unasked(t) ==
    /\ \A f \in Given : t[f] = 0
    /\ t["server_affinity"] = -1 /\ t.reverse = 0 /\ t.bidirectional = 0
    /\ t.protocol \notin {"udp", "sctp"}

Untouched(p) ==
    "client_flag" \notin p.flags =>
        Unasked(p.test) /\ p.blksize = 0 /\ "rate_flag" \notin p.flags

ParseInv(p) ==
    /\ IsParse(p) /\ IsTest(p.test) /\ Directed(p.test) /\ p.test.authtoken = <<>>
    /\ p.blksize \in Int /\ ModeInv(p.test) /\ Untouched(p)

AskedIn(argv, k, name) == \E i \in 1 .. k : argv[i].name = name

AskInv(p, argv, k) ==
    p.err = "none" =>
        /\ p.test.reverse = 1 <=> AskedIn(argv, k, "R")
        /\ p.test.bidirectional = 1 <=> AskedIn(argv, k, "bidir")

(* An option that has nothing to do with direction and protocol.           *)
Ordinary(p, q) ==
    /\ IsParse(q) /\ IsTest(q.test) /\ q.blksize \in Int /\ SameSpecial(p.test, q.test)
    /\ "client_flag" \notin q.flags =>
        /\ "client_flag" \notin p.flags /\ q.blksize = p.blksize
        /\ "rate_flag" \in q.flags => "rate_flag" \in p.flags
        /\ \A f \in Given \cup {"server_affinity"} : q.test[f] = p.test[f]

LEMMA SpecialFields ==
    ASSUME NEW t, NEW u, SameSpecial(t, u)
    PROVE  /\ u.role = t.role /\ u.mode = t.mode /\ u.protocol = t.protocol
           /\ u.reverse = t.reverse /\ u.bidirectional = t.bidirectional
           /\ u.sender_has_retransmits = t.sender_has_retransmits /\ u.authtoken = t.authtoken
BY DEF SameSpecial, Special

LEMMA OrdinaryKeeps ==
    ASSUME NEW p, NEW q, ParseInv(p), Ordinary(p, q)
    PROVE  ParseInv(q)
<1>1. /\ q.test.role = p.test.role /\ q.test.mode = p.test.mode
      /\ q.test.protocol = p.test.protocol /\ q.test.reverse = p.test.reverse
      /\ q.test.bidirectional = p.test.bidirectional
      /\ q.test.sender_has_retransmits = p.test.sender_has_retransmits
      /\ q.test.authtoken = p.test.authtoken
  BY SpecialFields DEF Ordinary
<1>2. Directed(q.test)
  BY <1>1 DEF ParseInv, Directed
<1>3. ModeInv(q.test)
  BY <1>1 DEF ParseInv, ModeInv, Counting, Direction
<1>4. Untouched(q)
  BY <1>1 DEF ParseInv, Untouched, Unasked, Ordinary
<1>. QED
  BY <1>1, <1>2, <1>3, <1>4 DEF ParseInv, Ordinary

LEMMA FailOrdinary ==
    ASSUME NEW p, ParseInv(p), NEW e
    PROVE  Ordinary(p, Fail(p, e))
BY Failed DEF ParseInv, Ordinary, SameSpecial

-----------------------------------------------------------------------------
(* The tables of options.                                                  *)

RowOK(row) ==
    /\ row.field \in Plain /\ row.who \in {"any", "s", "c"}
    /\ row.who # "c" => row.field \notin Given \cup {"server_affinity"}

Table(T) == (\A n \in DOMAIN T : RowOK(T[n])) /\ "R" \notin DOMAIN T /\ "bidir" \notin DOMAIN T

LEMMA MergedTables ==
    ASSUME NEW T, NEW U, Table(T), Table(U)
    PROVE  Table(Merged(T, U))
BY DEF Table, Merged

LEMMA RowsKnown == Table(Rows)
<1>1. Table(OutputRows) /\ Table(QuicRows)
  BY DEF Table, OutputRows, QuicRows, RowOK, Row, Plain, Given, Sticky, SentIfSet, SentAlways,
         LocalFields
<1>2. Table(TransferRows)
  BY DEF Table, TransferRows, RowOK, Row, Plain, Given, Sticky, SentIfSet, SentAlways,
         LocalFields
<1>2a. Table(SocketRows)
  BY DEF Table, SocketRows, RowOK, Row, Plain, Given, Sticky, SentIfSet, SentAlways,
         LocalFields
<1>3. Table(PayloadRows) /\ Table(TimeoutRows)
  BY DEF Table, PayloadRows, TimeoutRows, RowOK, Row, Plain, Given, Sticky, SentIfSet, SentAlways,
         LocalFields
<1>4. Table(MiscellaneousRows)
  BY DEF Table, MiscellaneousRows, RowOK, Row, Plain, Given, Sticky, SentIfSet, SentAlways,
         LocalFields
<1>5. Table(AuthRows) /\ Table(LastRows)
  BY DEF Table, AuthRows, LastRows, RowOK, Row, Plain, Given, Sticky, SentIfSet, SentAlways,
         LocalFields
<1>. QED
  BY <1>1, <1>2, <1>2a, <1>3, <1>4, <1>5, MergedTables DEF Rows

(* One argument stored in one field, or two in two.                        *)
LEMMA OneField ==
    ASSUME NEW p, ParseInv(p), NEW f \in Plain, NEW v \in Int, NEW s,
           f \notin Given \cup {"server_affinity"} \/ "client_flag" \in s,
           "rate_flag" \in s => "client_flag" \in s
    PROVE  Ordinary(p, Takes(p, [p.test EXCEPT ![f] = v], s))
<1> DEFINE u == [p.test EXCEPT ![f] = v]
           q == Takes(p, u, s)
<1>1. IsParse(p) /\ IsTest(p.test) /\ p.blksize \in Int
  BY DEF ParseInv
<1>2. /\ IsTest(u) /\ SameSpecial(p.test, u)
      /\ \A g \in Plain : g # f => u[g] = p.test[g]
  BY <1>1, SetPlain
<1> HIDE DEF u
<1>3. IsParse(q) /\ q.test = u /\ q.flags = p.flags \cup s /\ q.blksize = p.blksize
  BY <1>1, Taken
<1> HIDE DEF q
<1>4. \A g \in Given \cup {"server_affinity"} : g \in Plain
  BY DEF Given, Plain
<1>5. Ordinary(p, q)
  BY <1>1, <1>2, <1>3, <1>4 DEF Ordinary
<1>. QED
  BY <1>5 DEF q, u

LEMMA TwoFields ==
    ASSUME NEW p, ParseInv(p), NEW f \in Plain, NEW v \in Int, NEW g \in Plain, NEW w \in Int, NEW s,
           (f \notin Given /\ g \notin Given /\ f # "server_affinity" /\ g # "server_affinity")
                \/ "client_flag" \in s,
           "rate_flag" \in s => "client_flag" \in s
    PROVE  Ordinary(p, Takes(p, [p.test EXCEPT ![f] = v, ![g] = w], s))
<1> DEFINE u == [p.test EXCEPT ![f] = v]
           x == [u EXCEPT ![g] = w]
           q == Takes(p, x, s)
<1>1. IsParse(p) /\ IsTest(p.test) /\ p.blksize \in Int
  BY DEF ParseInv
<1>2. /\ IsTest(u) /\ SameSpecial(p.test, u)
      /\ \A h \in Plain : h # f => u[h] = p.test[h]
  BY <1>1, SetPlain
<1> HIDE DEF u
<1>3. /\ IsTest(x) /\ SameSpecial(u, x)
      /\ \A h \in Plain : h # g => x[h] = u[h]
  BY <1>2, SetPlain
<1> HIDE DEF x
<1>4. IsParse(q) /\ q.test = x /\ q.flags = p.flags \cup s /\ q.blksize = p.blksize
  BY <1>1, Taken
<1> HIDE DEF q
<1>5. \A h \in Given \cup {"server_affinity"} : h \in Plain
  BY DEF Given, Plain
<1>6. SameSpecial(p.test, x)
  BY <1>2, <1>3 DEF SameSpecial
<1>7. Ordinary(p, q)
  BY <1>1, <1>2, <1>3, <1>4, <1>5, <1>6 DEF Ordinary
<1>8. q = Takes(p, [p.test EXCEPT ![f] = v, ![g] = w], s)
  BY Zenon DEF q, x, u
<1>. QED
  BY <1>7, <1>8

LEMMA PlainNames ==
    /\ {"rate", "burst", "num_ostreams", "bitrate_limit", "bitrate_limit_interval", "affinity",
        "server_affinity", "json_output", "json_stream", "server_hostname", "bind_address",
        "bind_dev", "cntl_ka", "cntl_ka_keepidle", "cntl_ka_interval", "cntl_ka_count", "mptcp",
        "quic_port", "quic_p12_file", "quic_p12_password", "server_skew_threshold", "blksize",
        "bytes", "blocks", "duration"} \subseteq Plain
    /\ {"num_ostreams", "bitrate_limit", "bitrate_limit_interval", "affinity", "json_output",
        "json_stream", "server_hostname", "bind_address", "bind_dev", "cntl_ka", "mptcp",
        "cntl_ka_keepidle", "cntl_ka_interval", "cntl_ka_count", "quic_port", "quic_p12_file",
        "quic_p12_password", "server_skew_threshold", "blksize", "bytes", "blocks", "duration",
        "server_affinity"} \cap Given = {}
BY DEF Plain, Given, Sticky, SentIfSet, SentAlways, LocalFields

-----------------------------------------------------------------------------
(* The options that check an argument and store it.                        *)

IsOption(o) ==
    o.arg \in Seq(Int) /\ (o.name \in WithArgument => o.arg # <<>>)

LEMMA Arguments ==
    ASSUME NEW o, IsOption(o), o.name \in WithArgument
    PROVE  /\ Len(o.arg) \in Nat /\ Len(o.arg) >= 1 /\ o.arg[1] \in Int
           /\ Len(o.arg) > 1 => o.arg[2] \in Int
<1>1. o.arg \in Seq(Int) /\ o.arg # <<>>
  BY DEF IsOption
<1>2. Len(o.arg) \in Nat /\ Len(o.arg) >= 1
  BY <1>1, EmptySeq
<1>. QED
  BY <1>1, <1>2, ElementOfSeq

LEMMA OrdinaryTwice ==
    ASSUME NEW p, NEW q, NEW r, Ordinary(p, q), Ordinary(q, r)
    PROVE  Ordinary(p, r)
BY DEF Ordinary, SameSpecial

LEMMA StoreOrdinary ==
    ASSUME NEW p, ParseInv(p), NEW o, IsOption(o), o.name \in DOMAIN Rows
    PROVE  Ordinary(p, Store(p, o, Rows[o.name]))
<1> DEFINE row == Rows[o.name]
           s == Flags(row.who) \cup OwnFlags(o.name)
<1>1. RowOK(row)
  BY RowsKnown DEF Table
<1>2. o.arg[1] \in Int
  BY Arguments DEF WithArgument
<1>3. "client_flag" \in s <=> row.who = "c"
  BY <1>1 DEF Flags, OwnFlags, RowOK
<1>4. "rate_flag" \notin s
  BY DEF Flags, OwnFlags
<1>5. row.field \in Plain /\ (row.field \notin Given \cup {"server_affinity"} \/ "client_flag" \in s)
  BY <1>1, <1>3 DEF RowOK
<1>6. Store(p, o, row) = IF o.arg[1] \notin row.valid THEN Fail(p, row.err)
                         ELSE Takes(p, [p.test EXCEPT ![row.field] = o.arg[1]], s)
  BY DEF Store
<1> HIDE DEF row, s
<1>7. Ordinary(p, Fail(p, row.err))
  BY FailOrdinary
<1>8. Ordinary(p, Takes(p, [p.test EXCEPT ![row.field] = o.arg[1]], s))
  BY <1>2, <1>4, <1>5, OneField
<1>9. Ordinary(p, Store(p, o, row))
  BY <1>6, <1>7, <1>8
<1>. QED
  BY <1>9 DEF row

LEMMA RateOrdinary ==
    ASSUME NEW p, ParseInv(p), NEW o, IsOption(o), o.name \in WithArgument
    PROVE  Ordinary(p, ParseRate(p, o))
<1> DEFINE b == IF Len(o.arg) > 1 THEN o.arg[2] ELSE p.test["burst"]
           v == o.arg[1]
           s == {"client_flag", "rate_flag"}
           q == Takes(p, [p.test EXCEPT !["rate"] = v, !["burst"] = b], s)
<1>1. "rate" \in Plain /\ "burst" \in Plain
  BY PlainNames
<1>2. v \in Int /\ b \in Int
  BY <1>1, Arguments DEF ParseInv, IsTest
<1>3. "client_flag" \in s
  OBVIOUS
<1>4. ParseRate(p, o) \in {Fail(p, "IEBURST"), Fail(p, "IEUNITVAL"), q}
  BY DEF ParseRate
<1> HIDE DEF b, v, s
<1>5. Ordinary(p, q)
  BY <1>1, <1>2, <1>3, TwoFields
<1>. QED
  BY <1>4, <1>5, FailOrdinary

LEMMA NumStreamsOrdinary ==
    ASSUME NEW p, ParseInv(p), NEW o, IsOption(o), o.name \in WithArgument
    PROVE  Ordinary(p, ParseNumStreams(p, o))
<1> DEFINE v == o.arg[1]
           s == {}
           q == Takes(p, [p.test EXCEPT !["num_ostreams"] = v], s)
<1>1. "num_ostreams" \in Plain /\ "num_ostreams" \notin Given \cup {"server_affinity"}
  BY PlainNames
<1>2. v \in Int
  BY Arguments
<1>3. "rate_flag" \notin s
  OBVIOUS
<1>4. ParseNumStreams(p, o) = IF v \notin Counts THEN Fail(p, "IEUNITVAL") ELSE ParseRate(q, o)
  BY DEF ParseNumStreams
<1> HIDE DEF v, s
<1>5. Ordinary(p, q)
  BY <1>1, <1>2, <1>3, OneField
<1> HIDE DEF q
<1>6. Ordinary(q, ParseRate(q, o))
  BY <1>5, OrdinaryKeeps, RateOrdinary
<1>7. Ordinary(p, ParseRate(q, o))
  BY <1>5, <1>6, OrdinaryTwice
<1>. QED
  BY <1>4, <1>7, FailOrdinary

LEMMA BitrateLimitOrdinary ==
    ASSUME NEW p, ParseInv(p), NEW o, IsOption(o), o.name \in WithArgument
    PROVE  Ordinary(p, ParseBitrateLimit(p, o))
<1> DEFINE b == IF Len(o.arg) > 1 THEN o.arg[2] ELSE p.test["bitrate_limit_interval"]
           v == o.arg[1]
           s == {"server_flag"}
           q == Takes(p, [p.test EXCEPT !["bitrate_limit"] = v, !["bitrate_limit_interval"] = b], s)
<1>1. /\ "bitrate_limit" \in Plain /\ "bitrate_limit_interval" \in Plain
      /\ "bitrate_limit" \notin Given /\ "bitrate_limit_interval" \notin Given
  BY PlainNames
<1>2. v \in Int /\ b \in Int
  BY <1>1, Arguments DEF ParseInv, IsTest
<1>3. "rate_flag" \notin s
  OBVIOUS
<1>4. ParseBitrateLimit(p, o) \in {Fail(p, "IETOTALINTERVAL"), Fail(p, "IEUNITVAL"), q}
  BY DEF ParseBitrateLimit
<1> HIDE DEF b, v, s
<1>5. Ordinary(p, q)
  BY <1>1, <1>2, <1>3, TwoFields
<1>. QED
  BY <1>4, <1>5, FailOrdinary

LEMMA LengthOrdinary ==
    ASSUME NEW p, ParseInv(p), NEW o, IsOption(o), o.name \in WithArgument
    PROVE  Ordinary(p, ParseLength(p, o))
<1> DEFINE s == {"client_flag"}
           a == Takes(p, p.test, s)
           q == [a EXCEPT !.blksize = o.arg[1]]
<1>1. IsParse(a) /\ a.test = p.test /\ a.flags = p.flags \cup s
  BY Taken DEF ParseInv
<1>2. ParseLength(p, o) \in {Fail(p, "IEUNITVAL"), q}
  BY DEF ParseLength
<1> HIDE DEF a
<1>3. IsParse(q) /\ q.test = a.test /\ q.flags = a.flags /\ q.blksize = o.arg[1]
  BY <1>1 DEF IsParse
<1>4. o.arg[1] \in Int
  BY Arguments
<1> HIDE DEF q
<1>5. Ordinary(p, q)
  BY <1>1, <1>3, <1>4 DEF Ordinary, ParseInv, SameSpecial
<1>. QED
  BY <1>2, <1>5, FailOrdinary

LEMMA AffinityOrdinary ==
    ASSUME NEW p, ParseInv(p), NEW o, IsOption(o), o.name \in WithArgument
    PROVE  Ordinary(p, ParseAffinity(p, o))
<1> DEFINE v == o.arg[1]
           w == o.arg[2]
           n == {}
           s == {"client_flag"}
           q == Takes(p, [p.test EXCEPT !["affinity"] = v], n)
           r == Takes(p, [p.test EXCEPT !["affinity"] = v, !["server_affinity"] = w], s)
<1>1. /\ "affinity" \in Plain /\ "server_affinity" \in Plain
      /\ "affinity" \notin Given \cup {"server_affinity"}
  BY PlainNames
<1>2. v \in Int /\ (Len(o.arg) # 1 => w \in Int)
  <2>1. Len(o.arg) \in Nat /\ Len(o.arg) >= 1
    BY Arguments
  <2>a. \A m \in Nat : m >= 1 /\ m # 1 => m > 1
    OBVIOUS
  <2>2. Len(o.arg) # 1 => Len(o.arg) > 1
    BY <2>a, <2>1, Zenon
  <2>. QED
    BY <2>2, Arguments
<1>3. "client_flag" \in s /\ "rate_flag" \notin s /\ "rate_flag" \notin n
  OBVIOUS
<1>4. \/ ParseAffinity(p, o) = Fail(p, "IEAFFINITY")
      \/ ParseAffinity(p, o) = q
      \/ ParseAffinity(p, o) = r /\ Len(o.arg) # 1
  <2> DEFINE bad == \E i \in DOMAIN o.arg : o.arg[i] \notin 0 .. 1024
  <2>1. ParseAffinity(p, o) = IF bad THEN Fail(p, "IEAFFINITY") ELSE IF Len(o.arg) = 1 THEN q ELSE r
    BY Zenon DEF ParseAffinity
  <2> HIDE DEF bad, q, r
  <2>. QED
    BY <2>1, Zenon
<1> HIDE DEF v, w, n, s
<1>5. Ordinary(p, q)
  BY <1>1, <1>2, <1>3, OneField
<1>6. Len(o.arg) # 1 => Ordinary(p, r)
  BY <1>1, <1>2, <1>3, TwoFields
<1>. QED
  BY <1>4, <1>5, <1>6, FailOrdinary

(* A test in which only some numbers changed.                              *)
Edited(t, u, S) ==
    IsTest(u) /\ SameSpecial(t, u) /\ \A f \in Plain : f \notin S => u[f] = t[f]

LEMMA EditedTwice ==
    ASSUME NEW t, NEW u, NEW S, Edited(t, u, S), NEW f \in S, f \in Plain, NEW v \in Int
    PROVE  Edited(t, [u EXCEPT ![f] = v], S)
<1> DEFINE x == [u EXCEPT ![f] = v]
<1>1. /\ IsTest(x) /\ SameSpecial(u, x)
      /\ \A h \in Plain : h # f => x[h] = u[h]
  BY SetPlain DEF Edited
<1> HIDE DEF x
<1>2. Edited(t, x, S)
  BY <1>1 DEF Edited, SameSpecial
<1>. QED
  BY <1>2 DEF x

LEMMA EditedOrdinary ==
    ASSUME NEW p, ParseInv(p), NEW u, NEW S, Edited(p.test, u, S),
           S \cap (Given \cup {"server_affinity"}) = {}
    PROVE  Ordinary(p, Takes(p, u, {}))
<1> DEFINE s == {}
           q == Takes(p, u, s)
<1>0. "rate_flag" \notin s
  OBVIOUS
<1> HIDE DEF s
<1>1. IsParse(q) /\ q.test = u /\ q.flags = p.flags \cup s /\ q.blksize = p.blksize
  BY Taken DEF ParseInv
<1> HIDE DEF q
<1>2. \A h \in Given \cup {"server_affinity"} : h \in Plain
  BY DEF Given, Plain
<1>3. Ordinary(p, q)
  BY <1>0, <1>1, <1>2 DEF Ordinary, Edited, ParseInv
<1>. QED
  BY <1>3 DEF q, s

LEMMA KeepaliveOrdinary ==
    ASSUME NEW p, ParseInv(p), NEW o, IsOption(o)
    PROVE  Ordinary(p, ParseKeepalive(p, o))
<1> DEFINE t == p.test
           v == IF Len(o.arg) >= 1 THEN o.arg[1] ELSE t["cntl_ka_keepidle"]
           w == IF Len(o.arg) >= 2 THEN o.arg[2] ELSE t["cntl_ka_interval"]
           x == IF Len(o.arg) >= 3 THEN o.arg[3] ELSE t["cntl_ka_count"]
           a == [t EXCEPT !["cntl_ka"] = 1]
           b == [a EXCEPT !["cntl_ka_keepidle"] = v]
           c == [b EXCEPT !["cntl_ka_interval"] = w]
           d == [c EXCEPT !["cntl_ka_count"] = x]
           S == {"cntl_ka", "cntl_ka_keepidle", "cntl_ka_interval", "cntl_ka_count"}
<1>1. S \subseteq Plain /\ S \cap (Given \cup {"server_affinity"}) = {}
  BY PlainNames
<1>2. v \in Int /\ w \in Int /\ x \in Int
  <2>1. o.arg \in Seq(Int) /\ Len(o.arg) \in Nat
    BY DEF IsOption
  <2>2. \A i \in 1 .. 3 : Len(o.arg) >= i => o.arg[i] \in Int
    BY <2>1, ElementOfSeq
  <2>3. t["cntl_ka_keepidle"] \in Int /\ t["cntl_ka_interval"] \in Int /\ t["cntl_ka_count"] \in Int
    BY <1>1 DEF ParseInv, IsTest
  <2>. QED
    BY <2>2, <2>3
<1>4. \/ ParseKeepalive(p, o) = Fail(p, "IECNTLKA")
      \/ ParseKeepalive(p, o) = Takes(p, d, {})
  BY DEF ParseKeepalive
<1> HIDE DEF v, w, x
<1>5. Edited(t, t, S) /\ IsTest(t)
  BY DEF ParseInv, Edited, SameSpecial
<1>6. /\ "cntl_ka" \in S /\ "cntl_ka_keepidle" \in S
      /\ "cntl_ka_interval" \in S /\ "cntl_ka_count" \in S
  OBVIOUS
<1> HIDE DEF S
<1>7. Edited(t, a, S)
  BY <1>1, <1>5, <1>6, EditedTwice
<1> HIDE DEF a
<1>8. Edited(t, b, S)
  BY <1>1, <1>2, <1>6, <1>7, EditedTwice
<1> HIDE DEF b
<1>9. Edited(t, c, S)
  BY <1>1, <1>2, <1>6, <1>8, EditedTwice
<1> HIDE DEF c
<1>10. Edited(t, d, S)
  BY <1>1, <1>2, <1>6, <1>9, EditedTwice
<1> HIDE DEF d
<1>11. Ordinary(p, Takes(p, d, {}))
  BY <1>1, <1>10, EditedOrdinary
<1>. QED
  BY <1>4, <1>11, FailOrdinary

LEMMA HostEdits ==
    ASSUME NEW t, IsTest(t), NEW f \in {"server_hostname", "bind_address"}, NEW v \in Int
    PROVE  Edited(t, Host(t, f, v), {f, "bind_dev"})
<1> DEFINE S == {f, "bind_dev"}
           a == [t EXCEPT ![f] = v]
           b == [t EXCEPT ![f] = 1]
           c == [b EXCEPT !["bind_dev"] = 1]
<1>1. f \in Plain /\ "bind_dev" \in Plain /\ f \in S /\ "bind_dev" \in S
  BY PlainNames
<1>2. Edited(t, t, S)
  BY DEF Edited, SameSpecial
<1>3. Host(t, f, v) = a \/ Host(t, f, v) = c
  BY Zenon DEF Host
<1> HIDE DEF S
<1>4. Edited(t, a, S)
  BY <1>1, <1>2, EditedTwice
<1>4b. Edited(t, b, S)
  BY <1>1, <1>2, EditedTwice
<1> HIDE DEF a, b
<1>5. Edited(t, c, S)
  BY <1>1, <1>4b, EditedTwice
<1>6. Edited(t, Host(t, f, v), S)
  BY <1>3, <1>4, <1>5
<1>. QED
  BY <1>6 DEF S

LEMMA BindOrdinary ==
    ASSUME NEW p, ParseInv(p), NEW v \in Int
    PROVE  Ordinary(p, Takes(p, Host(p.test, "bind_address", v), {}))
<1>1. Edited(p.test, Host(p.test, "bind_address", v), {"bind_address", "bind_dev"})
  BY HostEdits DEF ParseInv
<1>2. {"bind_address", "bind_dev"} \cap (Given \cup {"server_affinity"}) = {}
  BY PlainNames
<1>. QED
  BY <1>1, <1>2, EditedOrdinary

LEMMA JsonOrdinary ==
    ASSUME NEW p, ParseInv(p)
    PROVE  Ordinary(p, Takes(p, [p.test EXCEPT !.json_output = 1, !.json_stream = 1], {}))
<1>1. /\ "json_output" \in Plain /\ "json_stream" \in Plain
      /\ "json_output" \notin Given /\ "json_stream" \notin Given
  BY PlainNames
<1> DEFINE s == {}
<1>2. "rate_flag" \notin s
  OBVIOUS
<1> HIDE DEF s
<1>3. Ordinary(p, Takes(p, [p.test EXCEPT !["json_output"] = 1, !["json_stream"] = 1], s))
  BY <1>1, <1>2, TwoFields
<1>. QED
  BY <1>3 DEF s

-----------------------------------------------------------------------------
(* The setters of role, direction and protocol.                            *)

(* A test in which only some of the other fields changed.                  *)
Aside(t, u, S) == IsTest(u) /\ \A f \in Fields : f \notin S => u[f] = t[f]

LEMMA SpecialNames ==
    /\ {"role", "mode", "protocol", "reverse", "bidirectional", "sender_has_retransmits",
        "authtoken"} \subseteq Special
    /\ Special \subseteq Fields /\ Plain \subseteq Fields
BY DEF Special, Fields

LEMMA AsideTwice ==
    ASSUME NEW t, NEW u, NEW S, Aside(t, u, S), NEW f \in S, f \in Special, NEW v
    PROVE  LET x == [u EXCEPT ![f] = v] IN
           /\ Aside(t, x, S) /\ x[f] = v
           /\ \A g \in Fields : g # f => x[g] = u[g]
<1> DEFINE x == [u EXCEPT ![f] = v]
<1>1. /\ IsTest(x) /\ x[f] = v
      /\ \A g \in Fields : g # f => x[g] = u[g]
  BY SetSpecial DEF Aside
<1> HIDE DEF x
<1>2. Aside(t, x, S)
  BY <1>1 DEF Aside
<1>. QED
  BY <1>1, <1>2 DEF x

LEMMA AsideItself ==
    ASSUME NEW t, IsTest(t), NEW S
    PROVE  Aside(t, t, S)
BY DEF Aside

LEMMA Retransmits ==
    ASSUME NEW t, NEW u, NEW S, Aside(t, u, S), "sender_has_retransmits" \in S
    PROVE  LET x == check_sender_has_retransmits(u) IN
           /\ Aside(t, x, S) /\ Counting(x)
           /\ \A g \in Fields : g # "sender_has_retransmits" => x[g] = u[g]
<1> DEFINE v == IF u.mode # "RECEIVER" /\ u.protocol = "tcp" THEN 1 ELSE 0
           x == [u EXCEPT !["sender_has_retransmits"] = v]
<1>1. check_sender_has_retransmits(u) = x
  BY DEF check_sender_has_retransmits
<1>2. (v = 1) <=> (u.mode # "RECEIVER" /\ u.protocol = "tcp")
  OBVIOUS
<1> HIDE DEF v
<1>3. /\ Aside(t, x, S) /\ x["sender_has_retransmits"] = v
      /\ \A g \in Fields : g # "sender_has_retransmits" => x[g] = u[g]
  BY AsideTwice, SpecialNames
<1> HIDE DEF x
<1>4. x.mode = u.mode /\ x.protocol = u.protocol
  BY <1>3, SpecialNames
<1>5. Counting(x)
  BY <1>2, <1>3, <1>4 DEF Counting
<1>. QED
  BY <1>1, <1>3, <1>5

LEMMA ProtocolSet ==
    ASSUME NEW t, IsTest(t), NEW c
    PROVE  LET x == set_protocol(t, c) IN
           /\ Aside(t, x, {"protocol", "sender_has_retransmits"})
           /\ x.protocol = c /\ Counting(x)
<1> DEFINE S == {"protocol", "sender_has_retransmits"}
           u == [t EXCEPT !["protocol"] = c]
           x == check_sender_has_retransmits(u)
<1>1. set_protocol(t, c) = x
  BY DEF set_protocol
<1>2. "protocol" \in S /\ "sender_has_retransmits" \in S
  OBVIOUS
<1> HIDE DEF S
<1>3. Aside(t, u, S) /\ u["protocol"] = c
  BY <1>2, AsideItself, AsideTwice, SpecialNames
<1> HIDE DEF u
<1>4. /\ Aside(t, x, S) /\ Counting(x)
      /\ \A g \in Fields : g # "sender_has_retransmits" => x[g] = u[g]
  BY <1>2, <1>3, Retransmits
<1> HIDE DEF x
<1>5. x.protocol = c
  BY <1>3, <1>4, SpecialNames
<1>. QED
  BY <1>1, <1>4, <1>5 DEF S

LEMMA RoleSet ==
    ASSUME NEW t, IsTest(t), NEW r
    PROVE  LET x == iperf_set_test_role(t, r) IN
           /\ Aside(t, x, {"role", "mode", "sender_has_retransmits"})
           /\ x.role = r /\ Counting(x)
           /\ x.mode = IF t.reverse = 0 /\ t.bidirectional = 1 THEN "BIDIRECTIONAL"
                       ELSE Direction(r, t.reverse = 0, t.mode)
<1> DEFINE S == {"role", "mode", "sender_has_retransmits"}
           m == IF t.reverse = 0 /\ t.bidirectional = 1 THEN "BIDIRECTIONAL"
                ELSE Direction(r, t.reverse = 0, t.mode)
           a == [t EXCEPT !["role"] = r]
           u == [a EXCEPT !["mode"] = m]
           x == check_sender_has_retransmits(u)
<1>1. iperf_set_test_role(t, r) = x
  BY Zenon DEF iperf_set_test_role
<1>2. "role" \in S /\ "mode" \in S /\ "sender_has_retransmits" \in S
  OBVIOUS
<1> HIDE DEF S, m
<1>3. Aside(t, a, S) /\ a["role"] = r
  BY <1>2, AsideItself, AsideTwice, SpecialNames
<1> HIDE DEF a
<1>4. Aside(t, u, S) /\ u["mode"] = m /\ \A g \in Fields : g # "mode" => u[g] = a[g]
  BY <1>2, <1>3, AsideTwice, SpecialNames
<1> HIDE DEF u
<1>5. /\ Aside(t, x, S) /\ Counting(x)
      /\ \A g \in Fields : g # "sender_has_retransmits" => x[g] = u[g]
  BY <1>2, <1>4, Retransmits
<1> HIDE DEF x
<1>6. x.role = r /\ x.mode = m
  BY <1>3, <1>4, <1>5, SpecialNames
<1>. QED
  BY <1>1, <1>5, <1>6 DEF S, m

LEMMA ReverseSet ==
    ASSUME NEW t, IsTest(t)
    PROVE  LET x == iperf_set_test_reverse(t) IN
           /\ Aside(t, x, {"reverse", "mode", "sender_has_retransmits"})
           /\ x.reverse = 1 /\ Counting(x) /\ x.mode = Direction(t.role, FALSE, t.mode)
<1> DEFINE S == {"reverse", "mode", "sender_has_retransmits"}
           m == Direction(t.role, FALSE, t.mode)
           a == [t EXCEPT !["reverse"] = 1]
           u == [a EXCEPT !["mode"] = m]
           x == check_sender_has_retransmits(u)
<1>1. iperf_set_test_reverse(t) = x
  BY Zenon DEF iperf_set_test_reverse
<1>2. "reverse" \in S /\ "mode" \in S /\ "sender_has_retransmits" \in S
  OBVIOUS
<1> HIDE DEF S, m
<1>3. Aside(t, a, S) /\ a["reverse"] = 1
  BY <1>2, AsideItself, AsideTwice, SpecialNames
<1> HIDE DEF a
<1>4. Aside(t, u, S) /\ u["mode"] = m /\ \A g \in Fields : g # "mode" => u[g] = a[g]
  BY <1>2, <1>3, AsideTwice, SpecialNames
<1> HIDE DEF u
<1>5. /\ Aside(t, x, S) /\ Counting(x)
      /\ \A g \in Fields : g # "sender_has_retransmits" => x[g] = u[g]
  BY <1>2, <1>4, Retransmits
<1> HIDE DEF x
<1>6. x.reverse = 1 /\ x.mode = m
  BY <1>3, <1>4, <1>5, SpecialNames
<1>. QED
  BY <1>1, <1>5, <1>6 DEF S, m

LEMMA BidirectionalSet ==
    ASSUME NEW t, IsTest(t)
    PROVE  LET x == iperf_set_test_bidirectional(t) IN
           /\ Aside(t, x, {"bidirectional", "mode"})
           /\ x.bidirectional = 1 /\ x.mode = "BIDIRECTIONAL"
<1> DEFINE S == {"bidirectional", "mode"}
           a == [t EXCEPT !["bidirectional"] = 1]
           x == [a EXCEPT !["mode"] = "BIDIRECTIONAL"]
<1>1. iperf_set_test_bidirectional(t) = x
  BY Zenon DEF iperf_set_test_bidirectional
<1>2. "bidirectional" \in S /\ "mode" \in S
  OBVIOUS
<1> HIDE DEF S
<1>3. Aside(t, a, S) /\ a["bidirectional"] = 1
  BY <1>2, AsideItself, AsideTwice, SpecialNames
<1> HIDE DEF a
<1>4. /\ Aside(t, x, S) /\ x["mode"] = "BIDIRECTIONAL"
      /\ \A g \in Fields : g # "mode" => x[g] = a[g]
  BY <1>2, <1>3, AsideTwice, SpecialNames
<1> HIDE DEF x
<1>6. x.bidirectional = 1
  BY <1>3, <1>4, SpecialNames
<1>. QED
  BY <1>1, <1>4, <1>6 DEF S

(* An option that changes them.                                            *)
LEMMA SteeredKeeps ==
    ASSUME NEW p, ParseInv(p), NEW u, NEW s,
           IsTest(u), Directed(u), u.authtoken = <<>>, ModeInv(u), "rate_flag" \notin s,
           \A f \in Given \cup {"server_affinity"} : u[f] = p.test[f],
           \/ "client_flag" \in s
           \/ /\ u.reverse = p.test.reverse /\ u.bidirectional = p.test.bidirectional
              /\ u.protocol = p.test.protocol \/ u.protocol \notin {"udp", "sctp"}
    PROVE  ParseInv(Takes(p, u, s))
<1> DEFINE q == Takes(p, u, s)
<1>1. IsParse(q) /\ q.test = u /\ q.flags = p.flags \cup s /\ q.blksize = p.blksize
  BY Taken DEF ParseInv
<1> HIDE DEF q
<1>2. Untouched(q)
  BY <1>1 DEF ParseInv, Untouched, Unasked
<1>3. ParseInv(q)
  BY <1>1, <1>2 DEF ParseInv
<1>. QED
  BY <1>3 DEF q

LEMMA GivenPlain == Given \cup {"server_affinity"} \subseteq Plain
BY DEF Given, Plain

LEMMA AsideFields ==
    ASSUME NEW t, NEW u, NEW S, Aside(t, u, S)
    PROVE  /\ "role" \notin S => u.role = t.role
           /\ "mode" \notin S => u.mode = t.mode
           /\ "protocol" \notin S => u.protocol = t.protocol
           /\ "reverse" \notin S => u.reverse = t.reverse
           /\ "bidirectional" \notin S => u.bidirectional = t.bidirectional
           /\ "sender_has_retransmits" \notin S => u.sender_has_retransmits = t.sender_has_retransmits
           /\ "authtoken" \notin S => u.authtoken = t.authtoken
           /\ S \subseteq Special => \A f \in Plain : u[f] = t[f]
<1>1. \A f \in Plain : f \in Fields /\ f \notin Special
  BY SpecialApart, SpecialNames
<1>. QED
  BY <1>1, SpecialNames DEF Aside

LEMMA RoleKeeps ==
    ASSUME NEW p, ParseInv(p), NEW o, IsOption(o), o.name \in {"s", "c"}
    PROVE  LET q == ParseRole(p, o) IN
           /\ ParseInv(q)
           /\ q.test.reverse = p.test.reverse /\ q.test.bidirectional = p.test.bidirectional
<1> DEFINE t == p.test
           S == {"role", "mode", "sender_has_retransmits"}
           r == iperf_set_test_role(t, o.name)
           h == Host(r, "server_hostname", o.arg[1])
           n == {}
<1>0. IsTest(t) /\ Directed(t) /\ ModeInv(t) /\ t.authtoken = <<>> /\ IsParse(p)
  BY DEF ParseInv
<1>1. \E e : \/ ParseRole(p, o) = Fail(p, e)
             \/ o.name = "s" /\ ParseRole(p, o) = Takes(p, r, n)
             \/ o.name = "c" /\ ParseRole(p, o) = Takes(p, h, n)
  BY DEF ParseRole
<1>2. /\ Aside(t, r, S) /\ r.role = o.name /\ Counting(r)
      /\ r.mode = IF t.reverse = 0 /\ t.bidirectional = 1 THEN "BIDIRECTIONAL"
                  ELSE Direction(o.name, t.reverse = 0, t.mode)
  BY <1>0, RoleSet
<1> HIDE DEF r
<1>3. S \subseteq Special
  BY SpecialNames
<1>4. /\ r.protocol = t.protocol /\ r.reverse = t.reverse /\ r.bidirectional = t.bidirectional
      /\ r.authtoken = t.authtoken
  BY <1>2, AsideFields
<1>5. \A f \in Plain : r[f] = t[f]
  BY <1>2, <1>3, AsideFields
<1>6. IsTest(r) /\ Directed(r) /\ ModeInv(r)
  <2>1. IsTest(r)
    BY <1>2 DEF Aside
  <2>2. Directed(r)
    BY <1>0, <1>2, <1>4 DEF Directed, Direction
  <2>3. ModeInv(r)
    BY <1>0, <1>2, <1>4 DEF Directed, Direction, ModeInv
  <2>. QED
    BY <2>1, <2>2, <2>3
<1>7. "rate_flag" \notin n
  OBVIOUS
<1> HIDE DEF n, S
<1>8. ParseInv(Takes(p, r, n)) /\ Takes(p, r, n).test = r
  <2>1. \A f \in Given \cup {"server_affinity"} : r[f] = t[f]
    BY <1>5, GivenPlain
  <2>2. ParseInv(Takes(p, r, n))
    BY <2>1, <1>0, <1>4, <1>6, <1>7, SteeredKeeps
  <2>. QED
    BY <2>2, <1>0, Taken
<1>9. o.name = "c" => ParseInv(Takes(p, h, n)) /\ Takes(p, h, n).test = h
                      /\ h.reverse = t.reverse /\ h.bidirectional = t.bidirectional
  <2> SUFFICES ASSUME o.name = "c"
               PROVE  ParseInv(Takes(p, h, n)) /\ Takes(p, h, n).test = h
                      /\ h.reverse = t.reverse /\ h.bidirectional = t.bidirectional
    OBVIOUS
  <2>1. o.arg[1] \in Int
    BY Arguments DEF WithArgument
  <2>2. Edited(r, h, {"server_hostname", "bind_dev"})
    BY <1>6, <2>1, HostEdits
  <2> HIDE DEF h
  <2>3. /\ h.role = r.role /\ h.mode = r.mode /\ h.protocol = r.protocol
        /\ h.reverse = r.reverse /\ h.bidirectional = r.bidirectional
        /\ h.sender_has_retransmits = r.sender_has_retransmits /\ h.authtoken = r.authtoken
    BY <2>2, SpecialFields DEF Edited
  <2>4. \A f \in Given \cup {"server_affinity"} : h[f] = t[f]
    BY <2>2, <1>5, GivenPlain, PlainNames DEF Edited
  <2>5. Directed(h)
    BY <2>3, <1>6 DEF Directed
  <2>6. ModeInv(h)
    BY <2>3, <1>6 DEF ModeInv, Counting
  <2>7. IsTest(h)
    BY <2>2 DEF Edited
  <2>8. ParseInv(Takes(p, h, n))
    BY <2>3, <2>4, <2>5, <2>6, <2>7, <1>0, <1>4, <1>7, SteeredKeeps
  <2>. QED
    BY <2>3, <2>8, <1>0, <1>4, Taken
<1>10. \A e : ParseInv(Fail(p, e)) /\ Fail(p, e).test = t
  BY FailOrdinary, OrdinaryKeeps, <1>0, Failed
<1> HIDE DEF h
<1>. QED
  BY <1>1, <1>4, <1>8, <1>9, <1>10

LEMMA ProtocolKeeps ==
    ASSUME NEW p, ParseInv(p), NEW o, o.name \in {"u", "quic", "sctp", "m"}
    PROVE  LET q == ParseProtocol(p, o) IN
           /\ ParseInv(q)
           /\ q.test.reverse = p.test.reverse /\ q.test.bidirectional = p.test.bidirectional
<1> DEFINE t == p.test
           S == {"protocol", "sender_has_retransmits"}
<1>0. IsTest(t) /\ Directed(t) /\ ModeInv(t) /\ t.authtoken = <<>> /\ IsParse(p)
  BY DEF ParseInv
<1>1. ASSUME NEW c \in {"tcp", "udp", "sctp", "quic"}, NEW u, NEW s,
             u = set_protocol(t, c) \/ Edited(set_protocol(t, c), u, {"mptcp"}),
             "rate_flag" \notin s, c \in {"udp", "sctp"} => "client_flag" \in s
      PROVE  /\ ParseInv(Takes(p, u, s)) /\ Takes(p, u, s).test = u
             /\ u.reverse = t.reverse /\ u.bidirectional = t.bidirectional
  <2> DEFINE r == set_protocol(t, c)
  <2>1. Aside(t, r, S) /\ r.protocol = c /\ Counting(r)
    BY <1>0, ProtocolSet
  <2> HIDE DEF r
  <2>2. S \subseteq Special
    BY SpecialNames
  <2>3. /\ r.role = t.role /\ r.mode = t.mode /\ r.reverse = t.reverse
        /\ r.bidirectional = t.bidirectional /\ r.authtoken = t.authtoken
    BY <2>1, AsideFields
  <2>4. \A f \in Plain : r[f] = t[f]
    BY <2>1, <2>2, AsideFields
  <2>5. IsTest(r) /\ Directed(r) /\ ModeInv(r)
    BY <2>1, <2>3, <1>0 DEF Aside, Directed, ModeInv, Direction
  <2>6. u = r \/ Edited(r, u, {"mptcp"})
    BY <1>1 DEF r
  <2>7. /\ u.role = r.role /\ u.mode = r.mode /\ u.protocol = r.protocol
        /\ u.reverse = r.reverse /\ u.bidirectional = r.bidirectional
        /\ u.sender_has_retransmits = r.sender_has_retransmits /\ u.authtoken = r.authtoken
    BY <2>6, SpecialFields DEF Edited
  <2>8. \A f \in Given \cup {"server_affinity"} : u[f] = t[f]
    BY <2>4, <2>6, GivenPlain, PlainNames DEF Edited
  <2>9. Directed(u) /\ ModeInv(u) /\ IsTest(u)
    BY <2>5, <2>6, <2>7 DEF Directed, ModeInv, Counting, Edited, Direction
  <2>10. ParseInv(Takes(p, u, s))
    BY <2>1, <2>3, <2>7, <2>8, <2>9, <1>0, <1>1, SteeredKeeps
  <2>. QED
    BY <2>3, <2>7, <2>10, <1>0, Taken
<1> DEFINE n == {}
           s == {"client_flag"}
           m == [set_protocol(t, "tcp") EXCEPT !["mptcp"] = 1]
<1>2. Edited(set_protocol(t, "tcp"), m, {"mptcp"})
  <2> DEFINE r == set_protocol(t, "tcp")
  <2>1. IsTest(r)
    BY <1>0, ProtocolSet DEF Aside
  <2> HIDE DEF r
  <2>2. Edited(r, r, {"mptcp"})
    BY <2>1 DEF Edited, SameSpecial
  <2>3. Edited(r, [r EXCEPT !["mptcp"] = 1], {"mptcp"})
    BY <2>2, EditedTwice, PlainNames
  <2>. QED
    BY <2>3 DEF r
<1>3. \/ ParseProtocol(p, o) = Takes(p, set_protocol(t, "udp"), s)
      \/ ParseProtocol(p, o) = Takes(p, set_protocol(t, "sctp"), s)
      \/ ParseProtocol(p, o) = Takes(p, set_protocol(t, "quic"), n)
      \/ ParseProtocol(p, o) = Takes(p, m, n)
  BY DEF ParseProtocol
<1>4. "rate_flag" \notin n /\ "rate_flag" \notin s /\ "client_flag" \in s
  OBVIOUS
<1> HIDE DEF n, s, m
<1>. QED
  BY <1>1, <1>2, <1>3, <1>4

LEMMA DirectionKeeps ==
    ASSUME NEW p, ParseInv(p), NEW o, o.name \in {"R", "bidir"}
    PROVE  LET q == ParseDirection(p, o) IN
           /\ ParseInv(q)
           /\ p.err = "none" /\ q.err = "none" =>
                /\ q.test.reverse = IF o.name = "R" THEN 1 ELSE p.test.reverse
                /\ q.test.bidirectional = IF o.name = "bidir" THEN 1 ELSE p.test.bidirectional
<1> DEFINE t == p.test
           r == iperf_set_test_reverse(t)
           b == iperf_set_test_bidirectional(t)
           s == {"client_flag"}
           S == {"reverse", "mode", "sender_has_retransmits"}
           B == {"bidirectional", "mode"}
<1>0. IsTest(t) /\ Directed(t) /\ ModeInv(t) /\ t.authtoken = <<>> /\ IsParse(p)
  BY DEF ParseInv
<1>1. \/ ParseDirection(p, o) = Fail(p, "IEREVERSEBIDIR")
      \/ o.name = "R" /\ t.bidirectional # 1 /\ ParseDirection(p, o) = Takes(p, r, s)
      \/ o.name = "bidir" /\ t.reverse # 1 /\ ParseDirection(p, o) = Takes(p, b, s)
  BY DEF ParseDirection
<1>2. /\ Aside(t, r, S)
      /\ r.reverse = 1 /\ Counting(r) /\ r.mode = Direction(t.role, FALSE, t.mode)
  BY <1>0, ReverseSet
<1>3. Aside(t, b, B) /\ b.bidirectional = 1 /\ b.mode = "BIDIRECTIONAL"
  BY <1>0, BidirectionalSet
<1> HIDE DEF r, b
<1>4. S \subseteq Special /\ B \subseteq Special
  BY SpecialNames
<1>5. /\ r.role = t.role /\ r.protocol = t.protocol /\ r.bidirectional = t.bidirectional
      /\ r.authtoken = t.authtoken
  BY <1>2, AsideFields
<1>6. /\ b.role = t.role /\ b.protocol = t.protocol /\ b.reverse = t.reverse
      /\ b.authtoken = t.authtoken /\ b.sender_has_retransmits = t.sender_has_retransmits
  BY <1>3, AsideFields
<1>7. \A f \in Given \cup {"server_affinity"} : r[f] = t[f] /\ b[f] = t[f]
  BY <1>2, <1>3, <1>4, AsideFields, GivenPlain
<1>8. "rate_flag" \notin s /\ "client_flag" \in s
  OBVIOUS
<1> HIDE DEF s, S, B
<1>9. t.bidirectional # 1 => ParseInv(Takes(p, r, s)) /\ Takes(p, r, s).test = r
  <2> SUFFICES ASSUME t.bidirectional # 1
               PROVE  ParseInv(Takes(p, r, s)) /\ Takes(p, r, s).test = r
    OBVIOUS
  <2>1. IsTest(r)
    BY <1>2 DEF Aside
  <2>2. Directed(r)
    BY <1>0, <1>2, <1>5 DEF Directed, Direction
  <2>3. ModeInv(r)
    BY <1>0, <1>2, <1>5 DEF Directed, Direction, ModeInv
  <2>4. ParseInv(Takes(p, r, s))
    BY <2>1, <2>2, <2>3, <1>0, <1>5, <1>7, <1>8, SteeredKeeps
  <2>. QED
    BY <2>4, <1>0, Taken
<1>10. t.reverse # 1 => ParseInv(Takes(p, b, s)) /\ Takes(p, b, s).test = b
  <2> SUFFICES ASSUME t.reverse # 1
               PROVE  ParseInv(Takes(p, b, s)) /\ Takes(p, b, s).test = b
    OBVIOUS
  <2>1. IsTest(b)
    BY <1>3 DEF Aside
  <2>2. Directed(b)
    BY <1>0, <1>3, <1>6 DEF Directed
  <2>3. t.role = "c" => t.mode # "RECEIVER"
    BY <1>0 DEF ModeInv, Direction, Directed
  <2>4. ModeInv(b)
    BY <2>3, <1>0, <1>3, <1>6 DEF ModeInv, Counting
  <2>5. ParseInv(Takes(p, b, s))
    BY <2>1, <2>2, <2>4, <1>0, <1>6, <1>7, <1>8, SteeredKeeps
  <2>. QED
    BY <2>5, <1>0, Taken
<1>11. \A e : ParseInv(Fail(p, e)) /\ Fail(p, e).err = e
  BY FailOrdinary, OrdinaryKeeps, <1>0, Failed
<1>12. CASE ParseDirection(p, o) = Fail(p, "IEREVERSEBIDIR")
  BY <1>11, <1>12
<1>13. CASE o.name = "R" /\ t.bidirectional # 1 /\ ParseDirection(p, o) = Takes(p, r, s)
  BY <1>2, <1>5, <1>9, <1>13
<1>14. CASE o.name = "bidir" /\ t.reverse # 1 /\ ParseDirection(p, o) = Takes(p, b, s)
  BY <1>3, <1>6, <1>10, <1>14
<1>. QED
  BY <1>1, <1>12, <1>13, <1>14

(* One turn of the loop.                                                   *)
LEMMA OptionKeeps ==
    ASSUME NEW p, ParseInv(p), NEW o, IsOption(o), p.err = "none"
    PROVE  LET q == ParseOption(p, o) IN
           /\ ParseInv(q)
           /\ q.err = "none" =>
                /\ q.test.reverse = IF o.name = "R" THEN 1 ELSE p.test.reverse
                /\ q.test.bidirectional = IF o.name = "bidir" THEN 1 ELSE p.test.bidirectional
<1> DEFINE q == ParseOption(p, o)
           json == Takes(p, [p.test EXCEPT !.json_output = 1, !.json_stream = 1], {})
           bind == Takes(p, Host(p.test, "bind_address", o.arg[1]), {})
<1>1. \/ o.name \in DOMAIN Rows /\ q = Store(p, o, Rows[o.name])
      \/ o.name \in {"s", "c"} /\ q = ParseRole(p, o)
      \/ o.name \in {"u", "quic", "sctp", "m"} /\ q = ParseProtocol(p, o)
      \/ o.name = "b" /\ q = ParseRate(p, o)
      \/ o.name = "nstreams" /\ q = ParseNumStreams(p, o)
      \/ o.name = "server_bitrate_limit" /\ q = ParseBitrateLimit(p, o)
      \/ o.name = "l" /\ q = ParseLength(p, o)
      \/ o.name \in {"R", "bidir"} /\ q = ParseDirection(p, o)
      \/ o.name = "B" /\ q = bind
      \/ o.name = "cntl_ka" /\ q = ParseKeepalive(p, o)
      \/ o.name = "A" /\ q = ParseAffinity(p, o)
      \/ o.name = "json_stream" /\ q = json
      \/ q = Fail(p, "exit")
  BY DEF ParseOption
<1>2. o.name \in {"R", "bidir"} => o.name \notin DOMAIN Rows
  BY RowsKnown DEF Table
<1> HIDE DEF q
<1>3. ASSUME Ordinary(p, q)
      PROVE  ParseInv(q) /\ q.test.reverse = p.test.reverse
             /\ q.test.bidirectional = p.test.bidirectional
  BY <1>3, OrdinaryKeeps, SpecialFields DEF Ordinary
<1>4. CASE o.name \in DOMAIN Rows /\ q = Store(p, o, Rows[o.name])
  <2>1. Ordinary(p, q)
    BY <1>4, StoreOrdinary
  <2>. QED
    BY <2>1, <1>2, <1>3, <1>4 DEF q
<1>5. CASE o.name \in {"s", "c"} /\ q = ParseRole(p, o)
  BY <1>5, RoleKeeps DEF q
<1>6. CASE o.name \in {"u", "quic", "sctp", "m"} /\ q = ParseProtocol(p, o)
  BY <1>6, ProtocolKeeps DEF q
<1>7. CASE o.name \in {"R", "bidir"} /\ q = ParseDirection(p, o)
  BY <1>7, DirectionKeeps DEF q
<1>8. CASE o.name \in {"b", "nstreams", "server_bitrate_limit", "l", "A", "B", "cntl_ka", "json_stream"}
           /\ Ordinary(p, q)
  <2>1. o.name # "R" /\ o.name # "bidir"
    BY <1>8
  <2>. QED
    BY <2>1, <1>3, <1>8 DEF q
<1>9. CASE o.name \in {"b", "nstreams", "server_bitrate_limit", "l", "A", "B"}
           /\ (\/ q = ParseRate(p, o) \/ q = ParseNumStreams(p, o) \/ q = ParseBitrateLimit(p, o)
               \/ q = ParseLength(p, o) \/ q = ParseAffinity(p, o) \/ q = bind)
  <2>1. o.name \in WithArgument
    BY <1>9 DEF WithArgument
  <2>2. o.arg[1] \in Int
    BY <2>1, Arguments
  <2>3. Ordinary(p, bind)
    BY <2>2, BindOrdinary
  <2>4. Ordinary(p, q)
    BY <2>1, <2>3, <1>9, RateOrdinary, NumStreamsOrdinary, BitrateLimitOrdinary, LengthOrdinary,
       AffinityOrdinary
  <2>. QED
    BY <2>4, <1>8, <1>9
<1>10. CASE o.name \in {"cntl_ka", "json_stream"} /\ (q = ParseKeepalive(p, o) \/ q = json)
  <2>1. Ordinary(p, q)
    BY <1>10, KeepaliveOrdinary, JsonOrdinary
  <2>. QED
    BY <2>1, <1>8, <1>10
<1>11. CASE q = Fail(p, "exit")
  <2>1. ParseInv(q)
    BY <1>11, FailOrdinary, OrdinaryKeeps
  <2>2. q.err = "exit"
    BY <1>11, Failed DEF ParseInv
  <2>. QED
    BY <2>1, <2>2 DEF q
<1>. QED
  BY <1>1, <1>4, <1>5, <1>6, <1>7, <1>9, <1>10, <1>11

(* The test before any option.                                             *)
LEMMA BlankTest ==
    /\ IsTest(NewTest) /\ \A f \in Given : NewTest[f] = 0
    /\ NewTest.role = "none" /\ NewTest.mode = "RECEIVER" /\ NewTest.reverse = 0
    /\ NewTest.bidirectional = 0 /\ NewTest.authtoken = <<>> /\ NewTest["server_affinity"] = -1
    /\ NewTest.protocol = "tcp"
<1> DEFINE t == NewTest
<1>1. DOMAIN iperf_new_test = SentIfSet \cup SentAlways \cup LocalFields
  BY DEF iperf_new_test, Zeroed
<1>2. DOMAIN iperf_new_test \cup {"server_affinity", "role", "mode", "protocol",
                      "reverse", "bidirectional", "sender_has_retransmits", "authtoken"} = Fields
  BY <1>1 DEF Fields, Plain, Special
<1>3. t = [f \in Fields |-> IF f \in DOMAIN Defaults THEN Defaults[f] ELSE 0]
  BY <1>2 DEF NewTest
<1>4. \A f \in Fields : t[f] = IF f \in DOMAIN Defaults THEN Defaults[f] ELSE 0
  BY <1>3
<1>5. t = [f \in Fields |-> t[f]]
  BY <1>3, <1>4
<1>6. DOMAIN Defaults =
        {"server_affinity", "affinity", "connect_timeout", "duration", "num_streams", "server_port",
         "stats_interval", "bitrate_limit_interval", "blksize", "pacing_timer", "rcv_timeout",
         "role", "mode", "protocol", "authtoken"}
  BY DEF Defaults
<1>7. PORT \in Int /\ DEFAULT_TCP_BLKSIZE \in Int /\ DEFAULT_PACING_TIMER \in Int
      /\ DEFAULT_NO_MSG_RCVD_TIMEOUT \in Int
  BY DEF PORT, DEFAULT_TCP_BLKSIZE, DEFAULT_PACING_TIMER, DEFAULT_NO_MSG_RCVD_TIMEOUT
<1>8. /\ Defaults["server_affinity"] = -1 /\ Defaults["role"] = "none"
      /\ Defaults["mode"] = "RECEIVER" /\ Defaults["protocol"] = "tcp"
      /\ Defaults["authtoken"] = <<>>
      /\ \A f \in DOMAIN Defaults : f \notin Special => Defaults[f] \in Int
  BY <1>7 DEF Defaults, Special
<1>9. IsTest(t)
  <2>1. \A f \in Plain : t[f] \in Int
    BY <1>4, <1>8, SpecialApart, SpecialNames
  <2>. QED
    BY <2>1, <1>5 DEF IsTest
<1>10. /\ t.role = "none" /\ t.mode = "RECEIVER" /\ t.reverse = 0 /\ t.bidirectional = 0
       /\ t.authtoken = <<>> /\ t["server_affinity"] = -1 /\ t.protocol = "tcp"
  BY <1>4, <1>6, <1>8, SpecialNames, PlainNames
<1>11. \A f \in Given : t[f] = 0
  <2>1. \A f \in Given : f \notin DOMAIN Defaults /\ f \in Fields
    BY <1>6 DEF Given, Sticky, SentIfSet, Fields, Plain
  <2>. QED
    BY <2>1, <1>4
<1>. QED
  BY <1>9, <1>10, <1>11

LEMMA FirstTest == ParseInv(Parsing) /\ Parsing.err = "none"
                   /\ Parsing.test.reverse = 0 /\ Parsing.test.bidirectional = 0
<1> DEFINE t == NewTest
           u == iperf_defaults
           S == {"protocol", "sender_has_retransmits"}
<1>9. IsTest(t) /\ \A f \in Given : t[f] = 0
  BY BlankTest
<1>10. /\ t.role = "none" /\ t.mode = "RECEIVER" /\ t.reverse = 0 /\ t.bidirectional = 0
       /\ t.authtoken = <<>> /\ t["server_affinity"] = -1
  BY BlankTest
<1> HIDE DEF t
<1>12. Aside(t, u, S) /\ u.protocol = "tcp" /\ Counting(u)
  BY <1>9, ProtocolSet DEF iperf_defaults, t
<1> HIDE DEF u
<1>13. S \subseteq Special
  BY SpecialNames
<1>14. /\ u.role = t.role /\ u.mode = t.mode /\ u.reverse = t.reverse
       /\ u.bidirectional = t.bidirectional /\ u.authtoken = t.authtoken
       /\ \A f \in Plain : u[f] = t[f]
  BY <1>12, <1>13, AsideFields
<1>15. IsTest(u) /\ Directed(u) /\ ModeInv(u)
  BY <1>10, <1>12, <1>14 DEF Aside, Directed, ModeInv, Direction
<1>16. Unasked(u)
  BY <1>9, <1>10, <1>12, <1>14, GivenPlain DEF Unasked
<1>17. /\ Parsing.test = u /\ Parsing.err = "none" /\ Parsing.flags = {} /\ Parsing.blksize = 0
       /\ IsParse(Parsing)
  BY DEF Parsing, u, IsParse
<1>. QED
  BY <1>10, <1>14, <1>15, <1>16, <1>17 DEF ParseInv, Untouched

(* What holds at the first of some numbers, and at each whose predecessor  *)
(* it holds at, holds at all of them.                                      *)
LEMMA Upwards ==
    ASSUME NEW S, NEW a \in Nat, NEW b \in Nat, a \in S,
           \A k \in a + 1 .. b : k - 1 \in S => k \in S
    PROVE  \A k \in a .. b : k \in S
<1> DEFINE U == {k \in a .. b : k \notin S}
<1> DEFINE less == OpToRel(<, Nat)
<1>1. SUFFICES ASSUME U # {} PROVE FALSE
  OBVIOUS
<1>2. U \subseteq Nat
  OBVIOUS
<1>3. IsWellFoundedOn(less, Nat)
  BY NatLessThanWellFounded
<1>4. PICK m \in U : \A n \in U : <<n, m>> \notin less
  <2> HIDE DEF less, U
  <2>. QED
    BY <1>1, <1>2, <1>3, WFMin
<1>5. m \in a .. b /\ m \notin S
  OBVIOUS
<1>6. m # a /\ m \in a + 1 .. b
  BY <1>5
<1>7. m - 1 \in U
  BY <1>5, <1>6
<1>8. <<m - 1, m>> \in less
  BY <1>5, <1>6, <1>7 DEF OpToRel
<1>. QED
  BY <1>4, <1>7, <1>8


(* The loop is what its recursion says.                                    *)
ParseStep(p, o) == IF p.err # "none" THEN p ELSE ParseOption(p, o)

LoopUpTo(f, argv, n) ==
    f = [k \in 0 .. n |-> IF k = 0 THEN Parsing
                          ELSE IF f[k - 1].err # "none" THEN f[k - 1]
                          ELSE ParseOption(f[k - 1], argv[k])]

LEMMA OneMoreOption ==
    ASSUME NEW argv, NEW n \in Nat, n # 0, NEW f, LoopUpTo(f, argv, n - 1)
    PROVE  \E g : LoopUpTo(g, argv, n)
<1> DEFINE v == IF f[n - 1].err # "none" THEN f[n - 1] ELSE ParseOption(f[n - 1], argv[n])
           g == [k \in 0 .. n |-> IF k = n THEN v ELSE f[k]]
<1>1. \A k \in 0 .. n - 1 : g[k] = f[k]
  BY DEF LoopUpTo
<1>2. \A k \in 0 .. n - 1 : f[k] = IF k = 0 THEN Parsing
                                   ELSE IF f[k - 1].err # "none" THEN f[k - 1]
                                   ELSE ParseOption(f[k - 1], argv[k])
  BY DEF LoopUpTo
<1>3. g[n] = v
  OBVIOUS
<1>4. \A k \in 1 .. n : k - 1 \in 0 .. n - 1
  OBVIOUS
<1>5. ASSUME NEW k \in 0 .. n
      PROVE  g[k] = IF k = 0 THEN Parsing
                    ELSE IF g[k - 1].err # "none" THEN g[k - 1]
                    ELSE ParseOption(g[k - 1], argv[k])
  <2> HIDE DEF g
  <2>1. CASE k = n
    <3>1. g[k - 1] = f[k - 1]
      BY <1>1, <1>4, <2>1
    <3>. QED
      BY <1>3, <2>1, <3>1
  <2>2. CASE k = 0
    BY <1>1, <1>2, <2>2
  <2>3. CASE k # n /\ k # 0
    <3>1. k \in 0 .. n - 1 /\ k \in 1 .. n
      BY <2>3
    <3>2. g[k - 1] = f[k - 1] /\ g[k] = f[k]
      BY <1>1, <1>4, <3>1
    <3> HIDE DEF v
    <3>. QED
      BY <1>2, <2>3, <3>1, <3>2
  <2>. QED
    BY <2>1, <2>2, <2>3
<1>6. g = [k \in 0 .. n |-> g[k]]
  OBVIOUS
<1> HIDE DEF g, v
<1>7. LoopUpTo(g, argv, n)
  BY <1>5, <1>6 DEF LoopUpTo
<1>. QED
  BY <1>7

LEMMA LoopExists ==
    ASSUME NEW argv, Len(argv) \in Nat
    PROVE  \E f : LoopUpTo(f, argv, Len(argv))
<1> DEFINE N == Len(argv)
           S == {k \in 0 .. N : \E f : LoopUpTo(f, argv, k)}
<1>0. N \in Nat /\ 0 \in Nat
  OBVIOUS
<1> HIDE DEF N
<1>1. 0 \in 0 .. N
  BY <1>0
<1>2. 0 \in S
  <2> DEFINE f == [k \in 0 .. 0 |-> Parsing]
  <2>1. f = [k \in 0 .. 0 |-> IF k = 0 THEN Parsing
                              ELSE IF f[k - 1].err # "none" THEN f[k - 1]
                              ELSE ParseOption(f[k - 1], argv[k])]
    OBVIOUS
  <2> HIDE DEF f
  <2>2. LoopUpTo(f, argv, 0)
    BY <2>1 DEF LoopUpTo
  <2>. QED
    BY <1>1, <2>2
<1>3. ASSUME NEW k \in 0 + 1 .. N, k - 1 \in S
      PROVE  k \in S
  <2>1. PICK f : LoopUpTo(f, argv, k - 1)
    BY <1>3
  <2>2. k \in Nat /\ k # 0 /\ k \in 0 .. N
    BY <1>0
  <2>3. \E g : LoopUpTo(g, argv, k)
    BY <2>1, <2>2, OneMoreOption
  <2>. QED
    BY <2>2, <2>3
<1>4. N \in S
  <2> HIDE DEF S
  <2>1. \A k \in 0 .. N : k \in S
    BY <1>0, <1>2, <1>3, Upwards
  <2>. QED
    BY <1>0, <2>1
<1>. QED
  BY <1>4 DEF N

LEMMA LoopUnfold ==
    ASSUME NEW argv, Len(argv) \in Nat
    PROVE  /\ ParsedUpTo(argv)[0] = Parsing
           /\ \A k \in 1 .. Len(argv) :
                ParsedUpTo(argv)[k] = ParseStep(ParsedUpTo(argv)[k - 1], argv[k])
<1> DEFINE P == ParsedUpTo(argv)
<1>1. LoopUpTo(P, argv, Len(argv))
  BY LoopExists DEF ParsedUpTo, LoopUpTo
<1> HIDE DEF P
<1>3. P[0] = Parsing /\ \A k \in 1 .. Len(argv) : P[k] = ParseStep(P[k - 1], argv[k])
  BY <1>1 DEF LoopUpTo, ParseStep
<1>. QED
  BY <1>3 DEF P

(* The whole loop.                                                         *)
LEMMA LoopKeeps ==
    ASSUME NEW argv, CommandLine(argv)
    PROVE  LET p == ParsedUpTo(argv)[Len(argv)] IN
           ParseInv(p) /\ AskInv(p, argv, Len(argv))
<1> DEFINE N == Len(argv)
           P == ParsedUpTo(argv)
           S == {k \in 0 .. N : ParseInv(P[k]) /\ AskInv(P[k], argv, k)}
<1>1. N \in Nat /\ 0 \in Nat /\ 0 \in 0 .. N
  BY DEF CommandLine
<1>2. P[0] = Parsing /\ \A k \in 1 .. N : P[k] = ParseStep(P[k - 1], argv[k])
  BY <1>1, LoopUnfold
<1>3. \A k \in 1 .. N : IsOption(argv[k])
  <2>1. argv \in Seq([name : STRING, arg : Seq(Int)]) /\ DOMAIN argv = 1 .. N
    BY DEF CommandLine
  <2>2. \A k \in 1 .. N : argv[k] \in [name : STRING, arg : Seq(Int)]
    BY <2>1, ElementOfSeq
  <2>. QED
    BY <2>1, <2>2 DEF CommandLine, IsOption
<1> HIDE DEF P, N
<1>4. 0 \in S
  <2>1. ParseInv(P[0]) /\ P[0].test.reverse = 0 /\ P[0].test.bidirectional = 0
    BY <1>2, FirstTest
  <2>2. AskInv(P[0], argv, 0)
    BY <2>1 DEF AskInv, AskedIn
  <2>. QED
    BY <2>1, <2>2, <1>1
<1>5. ASSUME NEW k \in 0 + 1 .. N, k - 1 \in S
      PROVE  k \in S
  <2> DEFINE p == P[k - 1]
             q == P[k]
             o == argv[k]
  <2>1. k \in 1 .. N /\ k \in 0 .. N
    BY <1>1
  <2>2. ParseInv(p) /\ AskInv(p, argv, k - 1)
    BY <1>5
  <2>3. q = ParseStep(p, o) /\ IsOption(o)
    BY <1>2, <1>3, <2>1
  <2>4. \A name : AskedIn(argv, k, name) <=> AskedIn(argv, k - 1, name) \/ o.name = name
    BY <2>1, <1>1 DEF AskedIn
  <2> HIDE DEF p, q, o
  <2>5. p.err # "none" => ParseInv(q) /\ AskInv(q, argv, k)
    BY <2>2, <2>3 DEF ParseStep, AskInv
  <2>6. ASSUME p.err = "none"
        PROVE  ParseInv(q) /\ AskInv(q, argv, k)
    <3>1. q = ParseOption(p, o)
      BY <2>3, <2>6 DEF ParseStep
    <3>2. /\ ParseInv(q)
          /\ q.err = "none" =>
                /\ q.test.reverse = IF o.name = "R" THEN 1 ELSE p.test.reverse
                /\ q.test.bidirectional = IF o.name = "bidir" THEN 1 ELSE p.test.bidirectional
      BY <2>2, <2>3, <2>6, <3>1, OptionKeeps
    <3>3. AskInv(q, argv, k)
      BY <2>2, <2>4, <2>6, <3>2 DEF AskInv
    <3>. QED
      BY <3>2, <3>3
  <2>7. ParseInv(q) /\ AskInv(q, argv, k)
    BY <2>5, <2>6
  <2>. QED
    BY <2>1, <2>7 DEF q
<1>6. N \in S
  <2> HIDE DEF S
  <2>1. \A k \in 0 .. N : k \in S
    BY <1>1, <1>4, <1>5, Upwards
  <2>. QED
    BY <1>1, <2>1
<1>. QED
  BY <1>6 DEF N, P

-----------------------------------------------------------------------------
(* The checks after the loop.                                              *)

(* A check fails, or edits some numbers of the test.                       *)
Checked(p, q, S) ==
    /\ ParseInv(q) /\ Edited(p.test, q.test, S) /\ q.flags = p.flags

LEMMA CheckNames ==
    {"server_port", "diskfile_name", "server_rsa_private_key", "server_authorized_users",
     "client_username", "client_rsa_pubkey", "use_pkcs1_padding", "omit", "num_streams",
     "max_server_duration"} \subseteq Plain
BY DEF Plain, SentAlways, LocalFields

LEMMA CheckFails ==
    ASSUME NEW p, ParseInv(p), NEW e, NEW S
    PROVE  Checked(p, Fail(p, e), S) /\ Fail(p, e).err = e
<1>1. ParseInv(Fail(p, e))
  BY FailOrdinary, OrdinaryKeeps
<1>2. Fail(p, e).test = p.test /\ Fail(p, e).err = e /\ Fail(p, e).flags = p.flags
  BY Failed DEF ParseInv
<1>. QED
  BY <1>1, <1>2 DEF Checked, Edited, SameSpecial, ParseInv

LEMMA CheckPasses ==
    ASSUME NEW p, ParseInv(p), NEW S
    PROVE  Checked(p, p, S)
BY DEF Checked, Edited, SameSpecial, ParseInv

LEMMA CheckEdits ==
    ASSUME NEW p, ParseInv(p), NEW u, NEW S, Edited(p.test, u, S),
           S \cap (Given \cup {"server_affinity"}) = {}
    PROVE  LET q == Takes(p, u, {}) IN
           Checked(p, q, S) /\ q.test = u /\ q.err = p.err
<1> DEFINE s == {}
           q == Takes(p, u, s)
<1>1. ParseInv(q)
  BY EditedOrdinary, OrdinaryKeeps
<1>2. p.flags \cup s = p.flags
  OBVIOUS
<1> HIDE DEF s
<1>3. q.test = u /\ q.err = p.err /\ q.flags = p.flags \cup s
  BY Taken DEF ParseInv
<1> HIDE DEF q
<1>4. Checked(p, q, S)
  BY <1>1, <1>2, <1>3 DEF Checked
<1>. QED
  BY <1>3, <1>4 DEF q, s

LEMMA RoleChecked ==
    ASSUME NEW p, ParseInv(p)
    PROVE  LET q == CheckRole(p) IN
           /\ Checked(p, q, {})
           /\ q.err = "none" =>
                p.err = "none" /\ (q.test.role = "s" => "client_flag" \notin q.flags)
<1>1. \/ CheckRole(p) = Fail(p, "IESERVERONLY") \/ CheckRole(p) = Fail(p, "IECLIENTONLY")
      \/ CheckRole(p) = p /\ (p.test.role = "s" => "client_flag" \notin p.flags)
  BY DEF CheckRole
<1>. QED
  BY <1>1, CheckFails, CheckPasses

LEMMA QuicChecked ==
    ASSUME NEW p, ParseInv(p)
    PROVE  LET q == QuicDefaults(p) IN
           Checked(p, q, {"quic_port", "quic_p12_file", "quic_p12_password"}) /\ q.err = p.err
<1> DEFINE t == p.test
           S == {"quic_port", "quic_p12_file", "quic_p12_password"}
           bare == t.role = "s" /\ {t.quic_p12_file, t.quic_cert_file, t.quic_key_file} = {0}
           v == IF t["quic_port"] # 0 THEN t["quic_port"]
                ELSE IF t["server_port"] + 1 \in Ports THEN t["server_port"] + 1 ELSE t["server_port"]
           w == IF bare THEN 1 ELSE t["quic_p12_file"]
           x == IF bare THEN 0 ELSE t["quic_p12_password"]
           a == [t EXCEPT !["quic_port"] = v]
           b == [a EXCEPT !["quic_p12_file"] = w]
           c == [b EXCEPT !["quic_p12_password"] = x]
<1>1. S \subseteq Plain /\ S \cap (Given \cup {"server_affinity"}) = {}
  BY PlainNames
<1>2. v \in Int /\ w \in Int /\ x \in Int
  <2>1. \A f \in S \cup {"server_port"} : t[f] \in Int
    BY <1>1, CheckNames DEF ParseInv, IsTest
  <2> HIDE DEF bare
  <2>. QED
    BY <2>1
<1>3. QuicDefaults(p) = p \/ QuicDefaults(p) = Takes(p, c, {})
  BY DEF QuicDefaults
<1> HIDE DEF v, w, x
<1>5. Edited(t, t, S)
  BY DEF ParseInv, Edited, SameSpecial
<1>6. "quic_port" \in S /\ "quic_p12_file" \in S /\ "quic_p12_password" \in S
  OBVIOUS
<1> HIDE DEF S
<1>7. Edited(t, a, S)
  BY <1>1, <1>2, <1>5, <1>6, EditedTwice
<1> HIDE DEF a
<1>8. Edited(t, b, S)
  BY <1>1, <1>2, <1>6, <1>7, EditedTwice
<1> HIDE DEF b
<1>9. Edited(t, c, S)
  BY <1>1, <1>2, <1>6, <1>8, EditedTwice
<1> HIDE DEF c
<1>10. Checked(p, Takes(p, c, {}), S) /\ Takes(p, c, {}).err = p.err
  BY <1>1, <1>9, CheckEdits
<1>11. Checked(p, QuicDefaults(p), S) /\ QuicDefaults(p).err = p.err
  BY <1>3, <1>10, CheckPasses
<1>. QED
  BY <1>11 DEF S

LEMMA AuthChecked ==
    ASSUME NEW p, ParseInv(p)
    PROVE  LET q == CheckAuth(p) IN
           /\ Checked(p, q, {"server_skew_threshold"})
           /\ q.err = "none" =>
                /\ p.err = "none"
                /\ q.test.role = "s" /\ q.test["server_rsa_private_key"] # 0 =>
                    q.test["server_authorized_users"] # 0
<1> DEFINE t == p.test
           S == {"server_skew_threshold"}
           u == [t EXCEPT !["server_skew_threshold"] = 10]
           q == CheckAuth(p)
           Keyed == t["server_rsa_private_key"] # 0 => t["server_authorized_users"] # 0
<1>1. \/ t.role # "s" /\ q = p
      \/ \E e \in {"IESETCLIENTAUTH", "IESERVERONLY", "IERVRSONLYRCVTIMEOUT", "IESETSERVERAUTH",
                   "IESERVERAUTHUSERS"} : q = Fail(p, e)
      \/ t.role = "s" /\ Keyed /\ (q = p \/ q = Takes(p, u, {}))
  BY DEF CheckAuth, CheckClientAuth, CheckServerAuth
<1>2. S \subseteq Plain /\ S \cap (Given \cup {"server_affinity"}) = {}
  BY PlainNames
<1>3. Edited(t, t, S) /\ "server_skew_threshold" \in S
  BY DEF ParseInv, Edited, SameSpecial
<1>4. "server_rsa_private_key" \in Plain /\ "server_authorized_users" \in Plain
      /\ "server_rsa_private_key" \notin S /\ "server_authorized_users" \notin S
  BY CheckNames
<1> HIDE DEF S, q
<1>5. Edited(t, u, S)
  BY <1>2, <1>3, EditedTwice
<1> HIDE DEF u
<1>6. Checked(p, Takes(p, u, {}), S) /\ Takes(p, u, {}).err = p.err
  BY <1>2, <1>5, CheckEdits
<1>7. Checked(p, q, S)
  BY <1>1, <1>6, CheckFails, CheckPasses
<1>8. q.err = "none" => p.err = "none"
  BY <1>1, <1>6, CheckFails
<1>9. /\ q.test.role = t.role
      /\ q.test["server_rsa_private_key"] = t["server_rsa_private_key"]
      /\ q.test["server_authorized_users"] = t["server_authorized_users"]
  BY <1>4, <1>7, SpecialFields DEF Checked, Edited
<1>10. q.err = "none" /\ t.role = "s" => Keyed
  BY <1>1, CheckFails
<1>. QED
  BY <1>7, <1>8, <1>9, <1>10 DEF S, q

LEMMA BlocksizeChecked ==
    ASSUME NEW p, ParseInv(p)
    PROVE  LET q == CheckBlocksize(p) IN
           /\ Checked(p, q, {"blksize", "rate"})
           /\ q.err = "none" =>
                p.err = "none" /\ (q.test["blksize"] # 0 \/ q.test.protocol = "udp")
<1> DEFINE t == p.test
           S == {"blksize", "rate"}
           udp == t.protocol = "udp"
           size == IF p.blksize # 0 \/ udp THEN p.blksize
                   ELSE IF t.protocol = "sctp" THEN DEFAULT_SCTP_BLKSIZE ELSE DEFAULT_TCP_BLKSIZE
           rate == IF "rate_flag" \in p.flags THEN t["rate"] ELSE IF udp THEN UDP_RATE ELSE 0
           a == [t EXCEPT !["blksize"] = size]
           b == [a EXCEPT !["rate"] = rate]
           s == {}
           r == Takes(p, b, s)
           q == CheckBlocksize(p)
<1>1. S \subseteq Plain /\ "blksize" \in S /\ "rate" \in S
  BY PlainNames
<1>2. size \in Int /\ rate \in Int /\ (~udp /\ p.blksize = 0 => size > 0)
  <2>1. t["rate"] \in Int /\ p.blksize \in Int
    BY <1>1 DEF ParseInv, IsTest
  <2>2. /\ DEFAULT_SCTP_BLKSIZE \in Int /\ DEFAULT_TCP_BLKSIZE \in Int /\ UDP_RATE \in Int
        /\ DEFAULT_SCTP_BLKSIZE > 0 /\ DEFAULT_TCP_BLKSIZE > 0
    BY DEF DEFAULT_SCTP_BLKSIZE, DEFAULT_TCP_BLKSIZE, UDP_RATE
  <2>. QED
    BY <2>1, <2>2
<1>3. \/ \E e \in {"IEUDPFILETRANSFER", "IEBLOCKSIZE", "IEUDPBLOCKSIZE"} : q = Fail(p, e)
      \/ q = r /\ (udp \/ size # 0)
  <2>1. (~udp /\ size <= 0) \/ udp \/ size # 0
    BY <1>2
  <2>2. q = IF t.diskfile_name # 0 /\ udp THEN Fail(p, "IEUDPFILETRANSFER")
            ELSE IF (~udp /\ size <= 0) \/ size > MAX_BLOCKSIZE THEN Fail(p, "IEBLOCKSIZE")
            ELSE IF udp /\ size > 0 /\ size \notin UdpBlocksizes THEN Fail(p, "IEUDPBLOCKSIZE")
            ELSE r
    BY Zenon DEF CheckBlocksize
  <2> HIDE DEF size, rate, q, r, udp
  <2>. QED
    BY <2>1, <2>2
<1>4. rate = 0 \/ udp \/ "rate_flag" \in p.flags
  OBVIOUS
<1>5. p.flags \cup s = p.flags /\ Edited(t, t, S)
  BY DEF ParseInv, Edited, SameSpecial
<1> HIDE DEF size, rate, S, s, q
<1>6. Edited(t, a, S)
  BY <1>1, <1>2, <1>5, EditedTwice
<1>6a. a["blksize"] = size
  <2>1. IsTest(t) /\ "blksize" \in Plain
    BY <1>1 DEF ParseInv
  <2>2. DOMAIN t = Fields /\ "blksize" \in Fields
    BY <2>1, SpecialNames DEF IsTest
  <2> HIDE DEF t
  <2>. QED
    BY <2>2
<1> HIDE DEF a
<1>7. Edited(t, b, S)
  BY <1>1, <1>2, <1>6, EditedTwice
<1>7a. b["rate"] = rate /\ b["blksize"] = a["blksize"]
  <2>1. IsTest(a) /\ "rate" \in Plain /\ "blksize" \in Plain /\ "rate" # "blksize"
    BY <1>1, <1>6 DEF Edited
  <2>2. b["rate"] = rate
    <3>1. DOMAIN a = Fields /\ "rate" \in Fields
      BY <2>1, SpecialNames DEF IsTest
    <3>. QED
      BY <3>1
  <2>3. \A g \in Plain : g # "rate" => b[g] = a[g]
    BY <2>1, <1>2, SetPlain
  <2>. QED
    BY <2>1, <2>2, <2>3
<1> HIDE DEF b
<1>8. r.test = b /\ r.err = p.err /\ r.flags = p.flags /\ IsParse(r) /\ r.blksize = p.blksize
  <2>1. IsParse(p)
    BY DEF ParseInv
  <2>2. /\ r.test = b /\ r.err = p.err /\ r.flags = p.flags \cup s /\ IsParse(r)
        /\ r.blksize = p.blksize
    BY <2>1, Taken
  <2> HIDE DEF r
  <2>. QED
    BY <2>2, <1>5
<1> HIDE DEF r
<1>9. /\ b.role = t.role /\ b.mode = t.mode /\ b.protocol = t.protocol
      /\ b.reverse = t.reverse /\ b.bidirectional = t.bidirectional
      /\ b.sender_has_retransmits = t.sender_has_retransmits /\ b.authtoken = t.authtoken
  BY <1>7, SpecialFields DEF Edited
<1>10. ParseInv(r)
  <2>1. Directed(b) /\ ModeInv(b) /\ IsTest(b)
    BY <1>7, <1>9 DEF ParseInv, Directed, ModeInv, Counting, Direction, Edited
  <2>2. "client_flag" \notin p.flags => Unasked(b)
    <3> SUFFICES ASSUME "client_flag" \notin p.flags PROVE Unasked(b)
      OBVIOUS
    <3>1. Unasked(t) /\ "rate_flag" \notin p.flags
      BY DEF ParseInv, Untouched
    <3>2. b["rate"] = 0
      BY <3>1, <1>4, <1>7a DEF Unasked
    <3>3. \A f \in Given \cup {"server_affinity"} : f # "rate" => b[f] = t[f]
      <4>1. "blksize" \notin Given
        BY PlainNames
      <4>. QED
        BY <4>1, <1>7, GivenPlain DEF Edited, S
    <3>4. \A f \in Given : b[f] = 0
      BY <3>1, <3>2, <3>3 DEF Unasked
    <3>. QED
      BY <3>1, <3>3, <3>4, <1>9 DEF Unasked
  <2>. QED
    BY <2>1, <2>2, <1>8, <1>9 DEF ParseInv, Untouched
<1>11. Checked(p, r, S)
  BY <1>7, <1>8, <1>10 DEF Checked
<1>12. Checked(p, q, S)
  BY <1>3, <1>11, CheckFails
<1>13. q.err = "none" => q = r /\ (udp \/ size # 0)
  BY <1>3, CheckFails
<1>14. q.err = "none" => p.err = "none" /\ (q.test["blksize"] # 0 \/ q.test.protocol = "udp")
  BY <1>13, <1>8, <1>9, <1>6a, <1>7a
<1>. QED
  BY <1>12, <1>14 DEF S, q

(* At most one end.                                                        *)
OneEnd(t) ==
    /\ t["duration"] # 0 => t["bytes"] = 0 /\ t["blocks"] = 0
    /\ t["bytes"] # 0 => t["blocks"] = 0

LEMMA EndChecked ==
    ASSUME NEW p, ParseInv(p)
    PROVE  LET q == CheckEnd(p) IN
           /\ Checked(p, q, {"bytes", "duration"})
           /\ q.err = "none" => p.err = "none" /\ OneEnd(q.test)
<1> DEFINE t == p.test
           S == {"bytes", "duration"}
           bytes == EndBytes(p)
           blocks == t["blocks"]
           counted == bytes # 0 \/ blocks # 0
           d == IF counted THEN 0 ELSE t["duration"]
           a == [t EXCEPT !["bytes"] = bytes]
           b == [a EXCEPT !["duration"] = d]
           r == Takes(p, b, {})
           q == CheckEnd(p)
<1>1. S \subseteq Plain /\ "bytes" \in S /\ "duration" \in S
      /\ S \cap (Given \cup {"server_affinity"}) = {}
  BY PlainNames
<1>2. bytes \in Int /\ d \in Int
  <2>1. t["bytes"] \in Int /\ t["duration"] \in Int
    BY <1>1 DEF ParseInv, IsTest
  <2>. QED
    BY <2>1, FileSizeAssumption DEF EndBytes
<1>3. \/ q = Fail(p, "IEENDCONDITIONS") \/ q = Fail(p, "IENOROLE")
      \/ q = r /\ ~(bytes # 0 /\ blocks # 0)
  BY DEF CheckEnd
<1>4. Edited(t, t, S)
  BY DEF ParseInv, Edited, SameSpecial
<1>5. d # 0 => bytes = 0 /\ blocks = 0
  OBVIOUS
<1>5a. "blocks" \in Plain /\ "blocks" \notin S
  BY PlainNames
<1> HIDE DEF bytes, d, S, q
<1>6. Edited(t, a, S) /\ a["bytes"] = bytes
  <2>1. Edited(t, a, S)
    BY <1>1, <1>2, <1>4, EditedTwice
  <2>. QED
    BY <2>1, <1>1, <1>2, SetPlain DEF ParseInv
<1> HIDE DEF a
<1>7. Edited(t, b, S) /\ b["duration"] = d /\ b["bytes"] = a["bytes"]
  <2>1. Edited(t, b, S)
    BY <1>1, <1>2, <1>6, EditedTwice
  <2>2. IsTest(a) /\ "bytes" \in Plain /\ "duration" \in Plain /\ "bytes" # "duration"
    BY <1>1, <1>6 DEF Edited
  <2>. QED
    BY <2>1, <2>2, <1>2, SetPlain
<1>8. b["blocks"] = blocks
  BY <1>5a, <1>7 DEF Edited
<1> HIDE DEF b
<1>9. Checked(p, r, S) /\ r.test = b /\ r.err = p.err
  BY <1>1, <1>7, CheckEdits
<1> HIDE DEF r
<1>10. Checked(p, q, S)
  BY <1>3, <1>9, CheckFails
<1>11. q.err = "none" => q = r /\ ~(bytes # 0 /\ blocks # 0)
  BY <1>3, CheckFails
<1>12. q.err = "none" => p.err = "none" /\ OneEnd(q.test)
  BY <1>5, <1>6, <1>7, <1>8, <1>9, <1>11 DEF OneEnd
<1>. QED
  BY <1>10, <1>12 DEF S, q

-----------------------------------------------------------------------------
(* What a command line makes of a test.                                    *)

AskedFor(t, argv) ==
    /\ t.reverse = 1 <=> AskedIn(argv, Len(argv), "R")
    /\ t.bidirectional = 1 <=> AskedIn(argv, Len(argv), "bidir")

ClientTest(t, argv) ==
    /\ IsTest(t) /\ Directed(t) /\ t.role = "c" /\ ModeInv(t) /\ OneEnd(t) /\ AskedFor(t, argv)

Keyed(t) == t["server_rsa_private_key"] # 0 => t["server_authorized_users"] # 0

ServerTest(t) == IsTest(t) /\ Directed(t) /\ t.role = "s" /\ Keyed(t)

(* A server that no client has told anything.                              *)
Idle(t) == ServerTest(t) /\ Unasked(t) /\ t.mode = "RECEIVER" /\ t.authtoken = <<>>

LEMMA CheckedFields ==
    ASSUME NEW p, NEW q, NEW S, Checked(p, q, S)
    PROVE  /\ ParseInv(q) /\ q.flags = p.flags
           /\ q.test.role = p.test.role /\ q.test.protocol = p.test.protocol
           /\ q.test.reverse = p.test.reverse /\ q.test.bidirectional = p.test.bidirectional
           /\ \A f \in Plain : f \notin S => q.test[f] = p.test[f]
BY SpecialFields DEF Checked, Edited

LEMMA ArgumentsParsed ==
    ASSUME NEW argv, CommandLine(argv)
    PROVE  LET p == iperf_parse_arguments(argv) IN
           /\ IsTest(p.test) /\ Directed(p.test)
           /\ p.err = "none" /\ p.test.role = "c" =>
                /\ ClientTest(p.test, argv) /\ p.test.authtoken = <<>>
                /\ p.test["blksize"] # 0 \/ p.test.protocol = "udp"
           /\ p.err = "none" /\ p.test.role = "s" => Idle(p.test)
<1> DEFINE looped == ParsedUpTo(argv)[Len(argv)]
           role == IF looped.err = "none" THEN CheckRole(looped) ELSE looped
           quic == IF role.err = "none" THEN QuicDefaults(role) ELSE role
           auth == IF quic.err = "none" THEN CheckAuth(quic) ELSE quic
           size == IF auth.err = "none" THEN CheckBlocksize(auth) ELSE auth
           p == IF size.err = "none" THEN CheckEnd(size) ELSE size
<1>1. iperf_parse_arguments(argv) = p
  BY DEF iperf_parse_arguments
<1>2. ParseInv(looped) /\ AskInv(looped, argv, Len(argv))
  BY LoopKeeps
<1> HIDE DEF looped
<1>3. /\ Checked(looped, role, {})
      /\ role.err = "none" =>
            looped.err = "none" /\ (role.test.role = "s" => "client_flag" \notin role.flags)
  BY <1>2, RoleChecked, CheckPasses
<1>4. ParseInv(role)
  BY <1>3 DEF Checked
<1> HIDE DEF role
<1>5. /\ Checked(role, quic, {"quic_port", "quic_p12_file", "quic_p12_password"})
      /\ quic.err = role.err /\ ParseInv(quic)
  <2>1. Checked(role, quic, {"quic_port", "quic_p12_file", "quic_p12_password"})
    BY <1>4, QuicChecked, CheckPasses
  <2>2. quic.err = role.err
    BY <1>4, QuicChecked
  <2>. QED
    BY <2>1, <2>2 DEF Checked
<1> HIDE DEF quic
<1>6. /\ ParseInv(auth)
      /\ auth.err = "none" =>
            /\ role.err = "none" /\ Checked(quic, auth, {"server_skew_threshold"})
            /\ auth.test.role = "s" => Keyed(auth.test)
  BY <1>4, <1>5, AuthChecked DEF Checked, Keyed
<1> HIDE DEF auth
<1>7. /\ ParseInv(size)
      /\ size.err = "none" =>
            /\ auth.err = "none" /\ Checked(auth, size, {"blksize", "rate"})
            /\ size.test["blksize"] # 0 \/ size.test.protocol = "udp"
  BY <1>6, BlocksizeChecked DEF Checked
<1> HIDE DEF size
<1>8. /\ ParseInv(p)
      /\ p.err = "none" =>
            size.err = "none" /\ Checked(size, p, {"bytes", "duration"}) /\ OneEnd(p.test)
  BY <1>7, EndChecked DEF Checked
<1> HIDE DEF p
<1>9. IsTest(p.test) /\ Directed(p.test) /\ p.test.authtoken = <<>> /\ ModeInv(p.test)
  BY <1>8 DEF ParseInv
<1>10. ASSUME p.err = "none"
       PROVE  /\ p.test.role = role.test.role /\ p.flags = role.flags
              /\ AskedFor(p.test, argv) /\ OneEnd(p.test)
              /\ p.test["blksize"] # 0 \/ p.test.protocol = "udp"
              /\ p.test.role = "s" => Keyed(p.test) /\ "client_flag" \notin p.flags
  <2>1. /\ size.err = "none" /\ auth.err = "none" /\ role.err = "none" /\ looped.err = "none"
        /\ OneEnd(p.test)
    BY <1>3, <1>6, <1>7, <1>8, <1>10
  <2>2. /\ p.test.role = size.test.role /\ p.test.protocol = size.test.protocol
        /\ p.test.reverse = size.test.reverse /\ p.test.bidirectional = size.test.bidirectional
        /\ p.flags = size.flags
        /\ \A f \in Plain : f \notin {"bytes", "duration"} => p.test[f] = size.test[f]
    BY <1>8, <2>1, <1>10, CheckedFields
  <2>3. /\ size.test.role = auth.test.role /\ size.test.protocol = auth.test.protocol
        /\ size.test.reverse = auth.test.reverse /\ size.test.bidirectional = auth.test.bidirectional
        /\ size.flags = auth.flags
        /\ \A f \in Plain : f \notin {"blksize", "rate"} => size.test[f] = auth.test[f]
    BY <1>7, <2>1, CheckedFields
  <2>4. /\ auth.test.role = quic.test.role
        /\ auth.test.reverse = quic.test.reverse /\ auth.test.bidirectional = quic.test.bidirectional
        /\ auth.flags = quic.flags
    BY <1>6, <2>1, CheckedFields
  <2>5. /\ quic.test.role = role.test.role
        /\ quic.test.reverse = role.test.reverse /\ quic.test.bidirectional = role.test.bidirectional
        /\ quic.flags = role.flags
    BY <1>5, CheckedFields
  <2>6. /\ role.test.reverse = looped.test.reverse
        /\ role.test.bidirectional = looped.test.bidirectional
    BY <1>3, CheckedFields
  <2>7. AskedFor(p.test, argv)
    BY <2>1, <2>2, <2>3, <2>4, <2>5, <2>6, <1>2 DEF AskInv, AskedFor
  <2>8. /\ p.test["blksize"] = size.test["blksize"]
        /\ p.test["server_rsa_private_key"] = auth.test["server_rsa_private_key"]
        /\ p.test["server_authorized_users"] = auth.test["server_authorized_users"]
    BY <2>2, <2>3, PlainNames, CheckNames
  <2>9. p.test.role = "s" => Keyed(p.test)
    BY <2>1, <2>2, <2>3, <2>8, <1>6 DEF Keyed
  <2>10. p.test["blksize"] # 0 \/ p.test.protocol = "udp"
    BY <2>1, <2>2, <2>8, <1>7
  <2>11. p.test.role = role.test.role /\ p.flags = role.flags
    BY <2>2, <2>3, <2>4, <2>5
  <2>. QED
    BY <2>1, <2>7, <2>9, <2>10, <2>11, <1>3
<1>11. ASSUME p.err = "none", p.test.role = "c"
       PROVE  /\ ClientTest(p.test, argv) /\ p.test.authtoken = <<>>
              /\ p.test["blksize"] # 0 \/ p.test.protocol = "udp"
  BY <1>9, <1>10, <1>11 DEF ClientTest
<1>12. ASSUME p.err = "none", p.test.role = "s"
       PROVE  Idle(p.test)
  <2>1. Unasked(p.test) /\ Keyed(p.test)
    BY <1>8, <1>10, <1>12 DEF ParseInv, Untouched
  <2>2. p.test.mode = "RECEIVER"
    BY <2>1, <1>9, <1>12 DEF Unasked, ModeInv, Direction
  <2>. QED
    BY <2>1, <2>2, <1>9, <1>12 DEF Idle, ServerTest
<1>. QED
  BY <1>1, <1>9, <1>11, <1>12

-----------------------------------------------------------------------------
(* The parameters on the wire, and what the server makes of them.          *)

(* The parameters of a client, with some protocol.                         *)
Carries(m, c) ==
    /\ DOMAIN m = SentParameters(c)
    /\ \A f \in SentParameters(c) : f # "protocol" => m[f] = c[f]
    /\ m["protocol"] \in {"tcp", "udp", "sctp", "quic"}

Directions == {"reverse", "bidirectional", "protocol"}

LEMMA SentKnown ==
    ASSUME NEW c
    PROVE  /\ "protocol" \in SentParameters(c)
           /\ "reverse" \in SentParameters(c) <=> c["reverse"] = 1
           /\ "bidirectional" \in SentParameters(c) <=> c["bidirectional"] = 1
           /\ "authtoken" \in SentParameters(c) <=> c["authtoken"] # <<>>
           /\ "server_affinity" \in SentParameters(c) <=> c["server_affinity"] # -1
           /\ \A f \in SentAlways : f \in SentParameters(c)
           /\ \A f \in SentIfSet : c[f] # 0 => f \in SentParameters(c)
           /\ SentParameters(c) \subseteq Plain \cup {"protocol", "reverse", "bidirectional", "authtoken"}
           /\ "server_rsa_private_key" \notin SentParameters(c)
           /\ "server_authorized_users" \notin SentParameters(c)
           /\ "server_skew_threshold" \notin SentParameters(c)
BY DEF SentParameters, SentAlways, SentIfSet, Plain, LocalFields

Received(t, m) == Overwritten(t, [f \in DOMAIN m \ Directions |-> m[f]])

LEMMA OverwrittenPlain ==
    ASSUME NEW t, IsTest(t), NEW c, IsTest(c), NEW m, Carries(m, c)
    PROVE  LET x == Received(t, m) IN
           /\ IsTest(x)
           /\ \A f \in Plain : x[f] = IF f \in SentParameters(c) THEN c[f] ELSE t[f]
           /\ \A f \in Special : x[f] = IF f = "authtoken" /\ c["authtoken"] # <<>>
                                        THEN c["authtoken"] ELSE t[f]
<1> DEFINE K == DOMAIN m \ Directions
           w == [f \in K |-> m[f]]
           x == Overwritten(t, w)
<1>1. DOMAIN t = Fields /\ (\A f \in Plain : t[f] \in Int) /\ \A f \in Plain : c[f] \in Int
  BY DEF IsTest
<1>2. DOMAIN w = K /\ \A f \in K : w[f] = m[f]
  OBVIOUS
<1>3. K = SentParameters(c) \ Directions
  BY DEF Carries
<1>4. \A f \in K : m[f] = c[f]
  BY <1>3 DEF Carries, Directions
<1> HIDE DEF w, K
<1>5. x = [f \in Fields |-> IF f \in K THEN w[f] ELSE IF f \in {"bytes", "blocks"} THEN 0 ELSE t[f]]
  BY <1>1, <1>2 DEF Overwritten
<1> HIDE DEF x
<1>6. \A f \in Fields : x[f] = IF f \in K THEN c[f] ELSE IF f \in {"bytes", "blocks"} THEN 0 ELSE t[f]
  BY <1>2, <1>4, <1>5
<1>7. DOMAIN x = Fields /\ x = [f \in Fields |-> x[f]]
  BY <1>5
<1>8. \A f \in Plain : f \notin Directions /\ f \in Fields
  BY SpecialApart, SpecialNames DEF Directions
<1>9. \A f \in {"bytes", "blocks"} : f \in K
  <2>1. "bytes" \in SentAlways /\ "blocks" \in SentAlways
    BY DEF SentAlways
  <2>. QED
    BY <2>1, <1>3, SentKnown DEF Directions
<1>10. \A f \in Plain : x[f] = IF f \in SentParameters(c) THEN c[f] ELSE t[f]
  BY <1>3, <1>6, <1>8, <1>9
<1>11. IsTest(x)
  <2>1. \A f \in Plain : x[f] \in Int
    BY <1>1, <1>10
  <2>. QED
    BY <2>1, <1>7 DEF IsTest
<1>12. \A f \in Special : f \in K <=> f = "authtoken" /\ c["authtoken"] # <<>>
  <2>1. \A f \in Special : f \notin Plain
    BY SpecialApart
  <2>. QED
    BY <2>1, <1>3, SentKnown DEF Directions
<1>13. \A f \in Special : f \notin {"bytes", "blocks"} /\ f \in Fields
  BY SpecialNames DEF Special
<1>14. \A f \in Special : x[f] = IF f = "authtoken" /\ c["authtoken"] # <<>>
                                 THEN c["authtoken"] ELSE t[f]
  BY <1>6, <1>12, <1>13
<1>. QED
  BY <1>10, <1>11, <1>14 DEF x, w, K, Received

LEMMA Parameters ==
    ASSUME NEW t, Idle(t), NEW c, IsTest(c), Directed(c), ModeInv(c), c.role = "c",
           NEW m, Carries(m, c)
    PROVE  LET x == WithParameters(t, m) IN
           /\ ServerTest(x) /\ x.protocol = m["protocol"] /\ x.authtoken = c.authtoken
           /\ x.mode = Peer(c.mode) /\ Counting(x)
           /\ \A f \in Plain : x[f] = IF f \in SentParameters(c) THEN c[f] ELSE t[f]
<1> DEFINE plain == Received(t, m)
           proto == set_protocol(plain, m["protocol"])
           rev == IF "reverse" \in DOMAIN m THEN iperf_set_test_reverse(proto) ELSE proto
           bidir == IF "bidirectional" \in DOMAIN m THEN iperf_set_test_bidirectional(rev) ELSE rev
           x == IF bidir.mode # "RECEIVER" /\ bidir.protocol = "tcp"
                THEN [bidir EXCEPT !["sender_has_retransmits"] = 1] ELSE bidir
<1>1. WithParameters(t, m) = x
  BY DEF WithParameters, Directions, Received
<1>2. /\ IsTest(t) /\ Directed(t) /\ t.role = "s" /\ Keyed(t) /\ t.mode = "RECEIVER"
      /\ t.authtoken = <<>> /\ t.reverse = 0 /\ t.bidirectional = 0
  BY DEF Idle, ServerTest, Unasked
<1>3. /\ IsTest(plain)
      /\ \A f \in Plain : plain[f] = IF f \in SentParameters(c) THEN c[f] ELSE t[f]
      /\ \A f \in Special : plain[f] = IF f = "authtoken" /\ c["authtoken"] # <<>>
                                       THEN c["authtoken"] ELSE t[f]
  BY <1>2, OverwrittenPlain
<1> HIDE DEF plain
<1>4. /\ plain.role = "s" /\ plain.mode = "RECEIVER" /\ plain.authtoken = c.authtoken
      /\ plain.reverse = 0 /\ plain.bidirectional = 0
  BY <1>2, <1>3, SpecialNames
<1>5. /\ "reverse" \in DOMAIN m <=> c.reverse = 1
      /\ "bidirectional" \in DOMAIN m <=> c.bidirectional = 1
      /\ m["protocol"] \in {"tcp", "udp", "sctp", "quic"}
  BY SentKnown DEF Carries
<1>6. /\ Aside(plain, proto, {"protocol", "sender_has_retransmits"})
      /\ proto.protocol = m["protocol"] /\ Counting(proto)
  BY <1>3, ProtocolSet
<1> HIDE DEF proto
<1>7. /\ proto.role = "s" /\ proto.mode = "RECEIVER" /\ proto.authtoken = c.authtoken
      /\ proto.reverse = 0 /\ proto.bidirectional = 0 /\ IsTest(proto)
      /\ \A f \in Plain : proto[f] = plain[f]
  <2>1. {"protocol", "sender_has_retransmits"} \subseteq Special
    BY SpecialNames
  <2>2. IsTest(proto)
    BY <1>6 DEF Aside
  <2>3. \A f \in Plain : proto[f] = plain[f]
    BY <2>1, <1>6, AsideFields
  <2>. QED
    BY <2>2, <2>3, <1>4, <1>6, AsideFields
<1>8. /\ rev.role = "s" /\ rev.protocol = m["protocol"] /\ rev.authtoken = c.authtoken
      /\ rev.reverse \in {0, 1} /\ rev.bidirectional = 0 /\ IsTest(rev) /\ Counting(rev)
      /\ rev.mode = IF c.reverse = 1 THEN "SENDER" ELSE "RECEIVER"
      /\ \A f \in Plain : rev[f] = plain[f]
  <2> DEFINE r == iperf_set_test_reverse(proto)
             S == {"reverse", "mode", "sender_has_retransmits"}
  <2>1. /\ Aside(proto, r, S)
        /\ r.reverse = 1 /\ Counting(r) /\ r.mode = Direction(proto.role, FALSE, proto.mode)
    BY <1>7, ReverseSet
  <2> HIDE DEF r
  <2>2. S \subseteq Special
    BY SpecialNames
  <2>3. /\ r.role = "s" /\ r.protocol = m["protocol"] /\ r.authtoken = c.authtoken
        /\ r.bidirectional = 0
    BY <2>1, <1>6, <1>7, AsideFields
  <2>4. \A f \in Plain : r[f] = plain[f]
    BY <2>1, <2>2, <1>7, AsideFields
  <2>5. r.mode = "SENDER"
    BY <2>1, <1>7 DEF Direction
  <2>6. IsTest(r)
    BY <2>1 DEF Aside
  <2>7. rev = IF c.reverse = 1 THEN r ELSE proto
    BY <1>5 DEF r
  <2> HIDE DEF rev
  <2>8. CASE c.reverse = 1
    BY <2>1, <2>3, <2>4, <2>5, <2>6, <2>7, <2>8
  <2>9. CASE c.reverse # 1
    BY <2>7, <2>9, <1>6, <1>7
  <2>. QED
    BY <2>8, <2>9
<1> HIDE DEF rev
<1>9. c.mode \in {"SENDER", "RECEIVER", "BIDIRECTIONAL"} /\ ~(c.reverse = 1 /\ c.bidirectional = 1)
      /\ c.mode = IF c.bidirectional = 1 THEN "BIDIRECTIONAL"
                  ELSE IF c.reverse = 1 THEN "RECEIVER" ELSE "SENDER"
  BY DEF Directed, ModeInv, Direction
<1>10. /\ bidir.role = "s" /\ bidir.protocol = m["protocol"] /\ bidir.authtoken = c.authtoken
       /\ bidir.reverse \in {0, 1} /\ bidir.bidirectional \in {0, 1} /\ IsTest(bidir)
       /\ bidir.mode = Peer(c.mode)
       /\ bidir.mode = "RECEIVER" \/ bidir.protocol # "tcp" => Counting(bidir)
       /\ \A f \in Plain : bidir[f] = plain[f]
  <2> DEFINE r == iperf_set_test_bidirectional(rev)
             S == {"bidirectional", "mode"}
  <2>1. Aside(rev, r, S) /\ r.bidirectional = 1 /\ r.mode = "BIDIRECTIONAL"
    BY <1>8, BidirectionalSet
  <2> HIDE DEF r
  <2>2. S \subseteq Special
    BY SpecialNames
  <2>3. /\ r.role = "s" /\ r.protocol = m["protocol"] /\ r.authtoken = c.authtoken
        /\ r.reverse = rev.reverse /\ r.sender_has_retransmits = rev.sender_has_retransmits
    BY <2>1, <1>8, AsideFields
  <2>4. \A f \in Plain : r[f] = plain[f]
    BY <2>1, <2>2, <1>8, AsideFields
  <2>5. IsTest(r)
    BY <2>1 DEF Aside
  <2>6. r.protocol # "tcp" => Counting(r)
    BY <2>3, <1>8 DEF Counting
  <2>7. bidir = IF c.bidirectional = 1 THEN r ELSE rev
    BY <1>5 DEF r
  <2> HIDE DEF bidir
  <2>8. CASE c.bidirectional = 1
    BY <2>1, <2>3, <2>4, <2>5, <2>6, <2>7, <2>8, <1>8, <1>9 DEF Peer
  <2>9. CASE c.bidirectional # 1
    BY <2>7, <2>9, <1>8, <1>9 DEF Peer
  <2>. QED
    BY <2>8, <2>9
<1> HIDE DEF bidir
<1>11. /\ x.role = "s" /\ x.protocol = m["protocol"] /\ x.authtoken = c.authtoken
       /\ x.reverse \in {0, 1} /\ x.bidirectional \in {0, 1} /\ IsTest(x)
       /\ x.mode = Peer(c.mode) /\ Counting(x)
       /\ \A f \in Plain : x[f] = plain[f]
  <2> DEFINE r == [bidir EXCEPT !["sender_has_retransmits"] = 1]
             S == {"sender_has_retransmits"}
  <2>1. Aside(bidir, r, S) /\ r["sender_has_retransmits"] = 1
    BY <1>10, AsideItself, AsideTwice, SpecialNames
  <2>2. S \subseteq Special
    BY SpecialNames
  <2> HIDE DEF r
  <2>3. /\ r.role = "s" /\ r.protocol = m["protocol"] /\ r.authtoken = c.authtoken
        /\ r.reverse = bidir.reverse /\ r.bidirectional = bidir.bidirectional
        /\ r.mode = bidir.mode
    BY <2>1, <1>10, AsideFields
  <2>4. \A f \in Plain : r[f] = plain[f]
    BY <2>1, <2>2, <1>10, AsideFields
  <2>5. IsTest(r)
    BY <2>1 DEF Aside
  <2>6. bidir.mode # "RECEIVER" /\ bidir.protocol = "tcp" => Counting(r)
    BY <2>1, <2>3, <1>10 DEF Counting
  <2>7. x = IF bidir.mode # "RECEIVER" /\ bidir.protocol = "tcp" THEN r ELSE bidir
    BY DEF r
  <2> HIDE DEF x
  <2>8. CASE bidir.mode # "RECEIVER" /\ bidir.protocol = "tcp"
    BY <2>3, <2>4, <2>5, <2>6, <2>7, <2>8, <1>10
  <2>9. CASE ~(bidir.mode # "RECEIVER" /\ bidir.protocol = "tcp")
    BY <2>7, <2>9, <1>10
  <2>. QED
    BY <2>8, <2>9
<1> HIDE DEF x
<1>12. ServerTest(x)
  <2>1. Directed(x)
    BY <1>5, <1>9, <1>11 DEF Directed, Peer
  <2>2. /\ x["server_rsa_private_key"] = t["server_rsa_private_key"]
        /\ x["server_authorized_users"] = t["server_authorized_users"]
    BY <1>3, <1>11, SentKnown, CheckNames
  <2>3. Keyed(x)
    BY <2>2, <1>2 DEF Keyed
  <2>. QED
    BY <2>1, <2>3, <1>11 DEF ServerTest
<1>. QED
  BY <1>1, <1>3, <1>11, <1>12

(* What the two sides agree on, for a test and a client's.                 *)
Agree(t, c) ==
    /\ \A f \in (SentAlways \cup SentIfSet \cup {"server_affinity", "protocol"}) \ Sticky : t[f] = c[f]
    /\ \A f \in Sticky : c[f] # 0 => t[f] = c[f]
    /\ t.mode = Peer(c.mode)
    /\ Counting(t)

LEMMA ParametersAgree ==
    ASSUME NEW t, Idle(t), NEW c, IsTest(c), Directed(c), ModeInv(c), c.role = "c",
           c["blksize"] # 0, NEW m, Carries(m, c), m["protocol"] = c["protocol"]
    PROVE  Agree(WithParameters(t, m), c)
<1> DEFINE x == WithParameters(t, m)
<1>1. /\ x.protocol = m["protocol"] /\ x.mode = Peer(c.mode) /\ Counting(x)
      /\ \A f \in Plain : x[f] = IF f \in SentParameters(c) THEN c[f] ELSE t[f]
  BY Parameters
<1> HIDE DEF x
<1>2. SentAlways \cup SentIfSet \cup {"server_affinity"} \subseteq Plain
  BY DEF Plain
<1>3. \A f \in SentAlways : x[f] = c[f]
  BY <1>1, <1>2, SentKnown
<1>4. \A f \in SentIfSet : c[f] # 0 => x[f] = c[f]
  BY <1>1, <1>2, SentKnown
<1>5. \A f \in SentIfSet \ Sticky : f = "blksize" \/ f \in Given
  BY DEF Given
<1>6. \A f \in Given : x[f] = c[f]
  <2>1. \A f \in Given : t[f] = 0 /\ f \in SentIfSet
    BY DEF Idle, Unasked, Given
  <2>2. \A f \in Given : c[f] = 0 => x[f] = 0
    BY <2>1, <1>1, <1>2
  <2>. QED
    BY <2>1, <2>2, <1>4
<1>7. x["blksize"] = c["blksize"]
  <2>1. "blksize" \in SentIfSet
    BY DEF SentIfSet
  <2>. QED
    BY <2>1, <1>4
<1>8. x["server_affinity"] = c["server_affinity"]
  BY <1>1, <1>2, SentKnown DEF Idle, Unasked
<1>9. \A f \in Sticky : f \in SentIfSet
  BY DEF Sticky, SentIfSet
<1>10. \A f \in (SentAlways \cup SentIfSet \cup {"server_affinity", "protocol"}) \ Sticky : x[f] = c[f]
  BY <1>1, <1>3, <1>5, <1>6, <1>7, <1>8
<1>11. \A f \in Sticky : c[f] # 0 => x[f] = c[f]
  BY <1>4, <1>9
<1>12. Agree(x, c)
  BY <1>1, <1>10, <1>11 DEF Agree
<1>. QED
  BY <1>12 DEF x

LEMMA ResetIdle ==
    ASSUME NEW t, ServerTest(t)
    PROVE  Idle(Reset(t))
<1> DEFINE Z == {"omit", "reverse", "bidirectional", "no_delay", "socket_bufsize",
                 "rate", "fqrate", "burst", "mss", "tos", "dont_fragment", "zerocopy",
                 "skip_rx_copy", "udp_counters_64bit", "title", "extra_data",
                 "congestion", "client_username", "client_rsa_pubkey"}
           N == {"duration", "server_affinity", "num_streams", "blksize", "authtoken",
                 "role", "mode", "sender_has_retransmits"}
           R == ResetFields
           u == [f \in DOMAIN t |-> IF f \in DOMAIN R THEN R[f] ELSE t[f]]
           x == set_protocol(u, "tcp")
<1>1. Reset(t) = x
  BY DEF Reset, ResetBut
<1>2. DOMAIN R = N \cup Z
  BY DEF ResetFields, Merged
<1>3. /\ \A f \in Z : R[f] = 0
      /\ R["duration"] = 10 /\ R["server_affinity"] = -1 /\ R["num_streams"] = 1
      /\ R["blksize"] = DEFAULT_TCP_BLKSIZE /\ R["authtoken"] = <<>> /\ R["role"] = "s"
      /\ R["mode"] = "RECEIVER" /\ R["sender_has_retransmits"] = 0
  BY DEF ResetFields, Merged
<1>4. DOMAIN t = Fields /\ (\A f \in Plain : t[f] \in Int) /\ Keyed(t)
  BY DEF ServerTest, IsTest
<1> HIDE DEF R
<1>5. u = [f \in Fields |-> IF f \in N \cup Z THEN R[f] ELSE t[f]]
  BY <1>2, <1>4
<1> HIDE DEF u
<1>6. \A f \in Fields : u[f] = IF f \in N \cup Z THEN R[f] ELSE t[f]
  BY <1>5
<1>7. IsTest(u)
  <2>1. u = [f \in Fields |-> u[f]]
    BY <1>5
  <2>2. DEFAULT_TCP_BLKSIZE \in Int
    BY DEF DEFAULT_TCP_BLKSIZE
  <2>3. \A f \in Plain : f \in N \cup Z => R[f] \in Int
    <3>1. \A f \in Plain : f \notin Special
      BY SpecialApart
    <3>2. "authtoken" \in Special /\ "role" \in Special /\ "mode" \in Special
      BY SpecialNames
    <3>. QED
      BY <3>1, <3>2, <2>2, <1>3
  <2>4. \A f \in Plain : u[f] \in Int
    BY <2>3, <1>4, <1>6, SpecialNames
  <2>. QED
    BY <2>1, <2>4 DEF IsTest
<1>8. /\ u.role = "s" /\ u.mode = "RECEIVER" /\ u.reverse = 0 /\ u.bidirectional = 0
      /\ u.authtoken = <<>>
  BY <1>3, <1>6, SpecialNames
<1>9. \A f \in Given : u[f] = 0
  <2>1. \A f \in Given : f \in Z /\ f \in Fields
    BY DEF Given, Sticky, SentIfSet, Fields, Plain
  <2>2. \A f \in Z : f \notin N
    OBVIOUS
  <2> HIDE DEF Z, N
  <2>. QED
    BY <2>1, <2>2, <1>3, <1>6
<1>10. u["server_affinity"] = -1
  BY <1>3, <1>6, PlainNames, SpecialNames
<1>11. /\ u["server_rsa_private_key"] = t["server_rsa_private_key"]
       /\ u["server_authorized_users"] = t["server_authorized_users"]
  BY <1>6, CheckNames, SpecialNames
<1>12. Aside(u, x, {"protocol", "sender_has_retransmits"}) /\ x.protocol = "tcp"
  BY <1>7, ProtocolSet
<1> HIDE DEF x, Z, N
<1>13. \A f \in Plain : x[f] = u[f]
  <2>1. {"protocol", "sender_has_retransmits"} \subseteq Special
    BY SpecialNames
  <2>. QED
    BY <2>1, <1>12, AsideFields
<1>14. /\ x.role = "s" /\ x.mode = "RECEIVER" /\ x.reverse = 0 /\ x.bidirectional = 0
       /\ x.authtoken = <<>> /\ IsTest(x)
  BY <1>8, <1>12, AsideFields DEF Aside
<1>15. Directed(x)
  BY <1>12, <1>14 DEF Directed
<1>16. Unasked(x)
  BY <1>9, <1>10, <1>12, <1>13, <1>14, GivenPlain DEF Unasked
<1>17. Keyed(x)
  BY <1>4, <1>11, <1>13, CheckNames DEF Keyed
<1>18. Idle(x)
  BY <1>14, <1>15, <1>16, <1>17 DEF Idle, ServerTest
<1>. QED
  BY <1>1, <1>18

-----------------------------------------------------------------------------
(* The invariant.                                                          *)

Phases == {"start", "listen", "exit", "parsed", "connected", "sent", "received", "refused",
           "running"}

(* The token is empty, or the client made it of its own options.           *)
OwnToken(c) ==
    \/ c["authtoken"] = <<>>
    \/ \E clock \in Int :
        c["authtoken"] = <<c["client_username"], c["client_rsa_pubkey"], c["use_pkcs1_padding"], clock>>

Bounded ==
    /\ phase \in Phases /\ clients \in 0 .. MaxClients
    /\ now \in 0 .. MaxTime /\ admitted \in 0 .. MaxTime

Tests == IsTest(test) /\ Directed(test) /\ IsTest(cli) /\ Directed(cli)

(* The server has heard of nobody until it has read the parameters.        *)
ServerSide ==
    /\ phase \in {"listen", "parsed", "connected", "sent"} => Idle(test)
    /\ phase \in {"received", "refused", "running"} => ServerTest(test)

ClientSide ==
    /\ Serving => CommandLine(line) /\ ClientTest(cli, line)
    /\ phase \in {"parsed", "connected"} => cli["authtoken"] = <<>>
    /\ phase = "parsed" => cli["blksize"] # 0 \/ cli["protocol"] = "udp"
    /\ phase \in {"connected", "sent", "received", "running"} => cli["blksize"] # 0
    /\ phase \in {"sent", "received", "running"} => OwnToken(cli)

BothSides ==
    /\ phase = "sent" => wire = [f \in SentParameters(cli) |-> cli[f]]
    /\ phase \in {"received", "running"} => Agree(test, cli) /\ test["authtoken"] = cli["authtoken"]

(* Who runs under authentication had a fresh token when it was let in.     *)
Fresh(t, clock) ==
    /\ t["authtoken"] # <<>> /\ t["authtoken"][1] = 1
    /\ t["authtoken"][2] = t["server_rsa_private_key"]
    /\ clock - t["authtoken"][4] \in -t["server_skew_threshold"] .. t["server_skew_threshold"]

LetIn == phase = "running" /\ test["server_rsa_private_key"] # 0 => Fresh(test, admitted)

Inv == Bounded /\ Tests /\ ServerSide /\ ClientSide /\ BothSides /\ LetIn

LEMMA Numbers ==
    MaxClients \in Nat /\ MaxTime \in Nat /\ ClockOffsets \subseteq Int
    /\ SegmentSizes \subseteq 0 .. MAX_UDP_BLOCKSIZE
BY SettingsAssumption

LEMMA CommandLines ==
    ASSUME NEW argv, argv \in ServerLines \/ argv \in ClientLines
    PROVE  CommandLine(argv)
BY SettingsAssumption, Zenon

LEMMA InvInit ==
    ASSUME Init
    PROVE  Inv
<1>1. IsTest(NewTest) /\ Directed(NewTest)
  BY BlankTest DEF Directed
<1>2. Tests
  BY <1>1 DEF Init, Tests
<1>3. Bounded
  BY Numbers DEF Init, Bounded, Phases
<1>4. phase = "start"
  BY DEF Init
<1>. QED
  BY <1>2, <1>3, <1>4 DEF Inv, ServerSide, ClientSide, BothSides, LetIn, Serving

LEMMA StartServerKeeps ==
    ASSUME Inv, NEW argv \in ServerLines, StartServer(argv)
    PROVE  Inv'
<1> DEFINE p == iperf_parse_arguments(argv)
<1>1. CommandLine(argv)
  BY CommandLines
<1>2. /\ IsTest(p.test) /\ Directed(p.test)
      /\ p.err = "none" /\ p.test.role = "s" => Idle(p.test)
  BY <1>1, ArgumentsParsed
<1>3. /\ p.err = "none" => p.test.role = "s"
      /\ phase' = IF p.err = "none" THEN "listen" ELSE "exit"
      /\ test' = p.test /\ cli' = cli /\ line' = line /\ wire' = wire
      /\ clients' = clients /\ now' = now /\ admitted' = admitted
  BY DEF StartServer
<1> HIDE DEF p
<1>4. phase' \in {"listen", "exit"} /\ (phase' = "listen" => Idle(test'))
  BY <1>2, <1>3
<1>5. Tests'
  BY <1>2, <1>3 DEF Inv, Tests
<1>6. Bounded'
  BY <1>3, <1>4 DEF Inv, Bounded, Phases
<1>7. ServerSide' /\ ClientSide' /\ BothSides' /\ LetIn'
  BY <1>4 DEF ServerSide, ClientSide, BothSides, LetIn, Serving
<1>. QED
  BY <1>5, <1>6, <1>7 DEF Inv

LEMMA StartClientKeeps ==
    ASSUME Inv, NEW argv \in ClientLines, StartClient(argv)
    PROVE  Inv'
<1> DEFINE p == iperf_parse_arguments(argv)
<1>1. CommandLine(argv)
  BY CommandLines
<1>2. /\ IsTest(p.test) /\ Directed(p.test)
      /\ p.err = "none" /\ p.test.role = "c" =>
            /\ ClientTest(p.test, argv) /\ p.test.authtoken = <<>>
            /\ p.test["blksize"] # 0 \/ p.test.protocol = "udp"
  BY <1>1, ArgumentsParsed
<1>3. /\ phase = "listen" /\ clients < MaxClients
      /\ p.err = "none" => p.test.role = "c"
      /\ clients' = clients + 1
      /\ phase' = IF p.err = "none" THEN "parsed" ELSE "listen"
      /\ cli' = IF p.err = "none" THEN p.test ELSE cli
      /\ line' = IF p.err = "none" THEN argv ELSE line
      /\ test' = test /\ wire' = wire /\ now' = now /\ admitted' = admitted
  BY DEF StartClient
<1> HIDE DEF p
<1>4. Idle(test')
  BY <1>3 DEF Inv, ServerSide
<1>5. Tests'
  BY <1>2, <1>3 DEF Inv, Tests
<1>6. Bounded'
  BY <1>3, Numbers DEF Inv, Bounded, Phases
<1>7. CASE p.err = "none"
  <2>1. /\ phase' = "parsed" /\ cli' = p.test /\ line' = argv /\ p.test.role = "c"
    BY <1>3, <1>7
  <2>2. /\ ClientTest(cli', line') /\ CommandLine(line') /\ cli'["authtoken"] = <<>>
        /\ cli'["blksize"] # 0 \/ cli'["protocol"] = "udp"
    BY <1>1, <1>2, <1>7, <2>1
  <2>3. ClientSide'
    BY <2>1, <2>2 DEF ClientSide
  <2>4. ServerSide' /\ BothSides' /\ LetIn'
    BY <1>4, <2>1 DEF ServerSide, BothSides, LetIn
  <2>. QED
    BY <1>5, <1>6, <2>3, <2>4 DEF Inv
<1>8. CASE p.err # "none"
  <2>1. phase' = "listen"
    BY <1>3, <1>8
  <2>2. ServerSide' /\ ClientSide' /\ BothSides' /\ LetIn'
    BY <1>4, <2>1 DEF ServerSide, ClientSide, BothSides, LetIn, Serving
  <2>. QED
    BY <1>5, <1>6, <2>2 DEF Inv
<1>. QED
  BY <1>7, <1>8

LEMMA ConnectKeeps ==
    ASSUME Inv, NEW mss \in SegmentSizes, iperf_connect(mss)
    PROVE  Inv'
<1> DEFINE v == IF mss # 0 THEN mss ELSE 1460
           u == [cli EXCEPT !["blksize"] = v]
<1>1. v \in Int /\ v # 0
  BY Numbers
<1>2. /\ phase = "parsed" /\ phase' = "connected" /\ test' = test /\ line' = line /\ wire' = wire
      /\ clients' = clients /\ now' = now /\ admitted' = admitted
  BY DEF iperf_connect
<1>3. cli' = IF cli.protocol = "udp" /\ cli.blksize = 0 THEN u ELSE cli
  BY DEF iperf_connect
<1>4. /\ IsTest(cli) /\ Directed(cli) /\ ClientTest(cli, line) /\ CommandLine(line)
      /\ cli["authtoken"] = <<>> /\ Idle(test)
      /\ cli["blksize"] # 0 \/ cli["protocol"] = "udp"
  BY <1>2 DEF Inv, Tests, ClientSide, ServerSide, Serving
<1> HIDE DEF v
<1>5. /\ IsTest(u) /\ SameSpecial(cli, u) /\ \A f \in Plain : f # "blksize" => u[f] = cli[f]
  BY <1>1, <1>4, SetPlain, PlainNames
<1>6. u["blksize"] = v
  <2>1. DOMAIN cli = Fields /\ "blksize" \in Fields
    BY <1>4, SpecialNames, PlainNames DEF IsTest
  <2>. QED
    BY <2>1
<1> HIDE DEF u
<1>7. /\ u.role = cli.role /\ u.mode = cli.mode /\ u.protocol = cli.protocol
      /\ u.reverse = cli.reverse /\ u.bidirectional = cli.bidirectional
      /\ u.sender_has_retransmits = cli.sender_has_retransmits /\ u.authtoken = cli.authtoken
  BY <1>5, SpecialFields
<1>8. ClientTest(u, line) /\ Directed(u)
  <2>1. Directed(u)
    BY <1>4, <1>7 DEF Directed
  <2>2. ModeInv(u)
    BY <1>4, <1>7 DEF ClientTest, ModeInv, Counting
  <2>3. OneEnd(u)
    BY <1>4, <1>5, PlainNames DEF ClientTest, OneEnd
  <2>4. AskedFor(u, line)
    BY <1>4, <1>7 DEF ClientTest, AskedFor
  <2>. QED
    BY <2>1, <2>2, <2>3, <2>4, <1>4, <1>5, <1>7 DEF ClientTest
<1>9. /\ ClientTest(cli', line') /\ IsTest(cli') /\ Directed(cli') /\ cli'["authtoken"] = <<>>
      /\ cli'["blksize"] # 0
  BY <1>1, <1>2, <1>3, <1>4, <1>5, <1>6, <1>7, <1>8
<1>10. Tests'
  BY <1>2, <1>9 DEF Inv, Tests
<1>11. Bounded'
  BY <1>2 DEF Inv, Bounded, Phases
<1>12. ClientSide'
  BY <1>2, <1>4, <1>9 DEF ClientSide
<1>13. ServerSide' /\ BothSides' /\ LetIn'
  BY <1>2, <1>4 DEF ServerSide, BothSides, LetIn
<1>. QED
  BY <1>10, <1>11, <1>12, <1>13 DEF Inv

LEMMA SendKeeps ==
    ASSUME Inv, NEW offset \in ClockOffsets, send_parameters(offset)
    PROVE  Inv'
<1> DEFINE token == IF cli.client_username # 0
                    THEN encode_auth_setting(cli, now + offset) ELSE cli.authtoken
           u == [cli EXCEPT !["authtoken"] = token]
<1>1. /\ phase = "connected" /\ phase' = "sent" /\ test' = test /\ line' = line
      /\ clients' = clients /\ now' = now /\ admitted' = admitted
      /\ cli' = u /\ wire' = [f \in SentParameters(u) |-> u[f]]
  BY DEF send_parameters
<1>2. /\ IsTest(cli) /\ Directed(cli) /\ ClientTest(cli, line) /\ CommandLine(line)
      /\ cli["authtoken"] = <<>> /\ Idle(test) /\ cli["blksize"] # 0
  BY <1>1 DEF Inv, Tests, ClientSide, ServerSide, Serving
<1>3. now + offset \in Int
  BY Numbers DEF Inv, Bounded
<1>4. \/ token = <<>>
      \/ \E clock \in Int : token = <<cli["client_username"], cli["client_rsa_pubkey"],
                                      cli["use_pkcs1_padding"], clock>>
  BY <1>2, <1>3 DEF encode_auth_setting
<1> HIDE DEF token
<1>5. Aside(cli, u, {"authtoken"}) /\ u["authtoken"] = token
  <2>1. Aside(cli, cli, {"authtoken"}) /\ "authtoken" \in Special
    BY <1>2, AsideItself, SpecialNames
  <2>2. DOMAIN cli = Fields /\ "authtoken" \in Fields
    BY <2>1, <1>2, SpecialNames DEF IsTest
  <2>3. u["authtoken"] = token
    BY <2>2
  <2>. QED
    BY <2>1, <2>3, AsideTwice
<1> HIDE DEF u
<1>6. /\ u.role = cli.role /\ u.mode = cli.mode /\ u.protocol = cli.protocol
      /\ u.reverse = cli.reverse /\ u.bidirectional = cli.bidirectional
      /\ u.sender_has_retransmits = cli.sender_has_retransmits
  BY <1>5, AsideFields
<1>7. \A f \in Plain : u[f] = cli[f]
  <2>1. {"authtoken"} \subseteq Special
    BY SpecialNames
  <2>. QED
    BY <2>1, <1>5, AsideFields
<1>8. IsTest(u) /\ ClientTest(u, line) /\ Directed(u) /\ u["blksize"] # 0
  <2>1. Directed(u)
    BY <1>2, <1>6 DEF Directed
  <2>2. ModeInv(u)
    BY <1>2, <1>6 DEF ClientTest, ModeInv, Counting
  <2>3. OneEnd(u)
    BY <1>2, <1>7, PlainNames DEF ClientTest, OneEnd
  <2>4. AskedFor(u, line)
    BY <1>2, <1>6 DEF ClientTest, AskedFor
  <2>5. IsTest(u)
    BY <1>5 DEF Aside
  <2>6. u["blksize"] # 0
    BY <1>2, <1>7, PlainNames
  <2>. QED
    BY <2>1, <2>2, <2>3, <2>4, <2>5, <2>6, <1>2, <1>6 DEF ClientTest
<1>9. OwnToken(u)
  <2>1. /\ u["client_username"] = cli["client_username"]
        /\ u["client_rsa_pubkey"] = cli["client_rsa_pubkey"]
        /\ u["use_pkcs1_padding"] = cli["use_pkcs1_padding"]
    BY <1>7, CheckNames
  <2>. QED
    BY <2>1, <1>4, <1>5 DEF OwnToken
<1>10. Tests'
  BY <1>1, <1>8 DEF Inv, Tests
<1>11. Bounded'
  BY <1>1 DEF Inv, Bounded, Phases
<1>12. ClientSide'
  BY <1>1, <1>2, <1>8, <1>9 DEF ClientSide
<1>13. ServerSide' /\ BothSides' /\ LetIn'
  BY <1>1, <1>2 DEF ServerSide, BothSides, LetIn
<1>. QED
  BY <1>10, <1>11, <1>12, <1>13 DEF Inv

LEMMA GetKeeps ==
    ASSUME Inv, get_parameters
    PROVE  Inv'
<1> DEFINE over == wire.protocol = "udp" /\ test.diskfile_name # 0
           w == [wire EXCEPT !["protocol"] = test.protocol]
           m == IF over THEN w ELSE wire
<1>1. /\ phase = "sent" /\ test' = WithParameters(test, m)
      /\ phase' \in {"refused", "received"} /\ (phase' = "received" => ~over)
      /\ cli' = cli /\ line' = line /\ clients' = clients /\ now' = now /\ admitted' = admitted
  BY DEF get_parameters
<1>2. /\ IsTest(cli) /\ Directed(cli) /\ ClientTest(cli, line) /\ CommandLine(line) /\ Idle(test)
      /\ cli["blksize"] # 0 /\ OwnToken(cli) /\ wire = [f \in SentParameters(cli) |-> cli[f]]
  BY <1>1 DEF Inv, Tests, ClientSide, ServerSide, BothSides, Serving
<1>3. cli.role = "c" /\ ModeInv(cli) /\ test.protocol \in {"tcp", "udp", "sctp", "quic"}
      /\ cli.protocol \in {"tcp", "udp", "sctp", "quic"}
  BY <1>2 DEF ClientTest, Idle, ServerTest, Directed
<1>4. Carries(wire, cli) /\ wire["protocol"] = cli["protocol"]
  BY <1>2, <1>3, SentKnown DEF Carries
<1>5. Carries(w, cli)
  <2>1. /\ DOMAIN wire = SentParameters(cli) /\ "protocol" \in SentParameters(cli)
        /\ \A f \in SentParameters(cli) : wire[f] = cli[f]
    BY <1>2, SentKnown
  <2>2. DOMAIN w = SentParameters(cli) /\ w["protocol"] = test.protocol
    BY <2>1
  <2>3. \A f \in SentParameters(cli) : f # "protocol" => w[f] = cli[f]
    BY <2>1
  <2> HIDE DEF w
  <2>. QED
    BY <2>2, <2>3, <1>3 DEF Carries
<1> HIDE DEF w
<1>6. Carries(m, cli) /\ (~over => m = wire)
  BY <1>4, <1>5
<1> HIDE DEF m, over
<1>7. ServerTest(test') /\ test'["authtoken"] = cli["authtoken"]
  BY <1>1, <1>2, <1>3, <1>6, Parameters
<1>8. phase' = "received" => Agree(test', cli)
  <2> SUFFICES ASSUME phase' = "received" PROVE Agree(test', cli)
    OBVIOUS
  <2>1. Carries(m, cli) /\ m["protocol"] = cli["protocol"]
    BY <1>1, <1>4, <1>6
  <2>2. Agree(WithParameters(test, m), cli)
    BY <2>1, <1>2, <1>3, ParametersAgree
  <2>. QED
    BY <2>2, <1>1
<1>9. Tests'
  BY <1>1, <1>2, <1>7 DEF Tests, ServerTest
<1>10. Bounded'
  BY <1>1 DEF Inv, Bounded, Phases
<1>11. ServerSide'
  BY <1>1, <1>7 DEF ServerSide
<1>12. ClientSide'
  BY <1>1, <1>2 DEF ClientSide, Serving
<1>13. BothSides'
  BY <1>1, <1>7, <1>8 DEF BothSides
<1>14. LetIn'
  BY <1>1 DEF LetIn
<1>. QED
  BY <1>9, <1>10, <1>11, <1>12, <1>13, <1>14 DEF Inv

LEMMA AdmitKeeps ==
    ASSUME Inv, Admit
    PROVE  Inv'
<1>1. /\ phase = "received" /\ phase' = IF test_is_authorized THEN "running" ELSE "refused"
      /\ admitted' = now /\ test' = test /\ cli' = cli /\ line' = line /\ wire' = wire
      /\ clients' = clients /\ now' = now
  BY DEF Admit
<1>2. ServerTest(test) /\ Keyed(test)
  BY <1>1 DEF Inv, ServerSide, ServerTest
<1>3. phase' \in {"running", "refused"}
  BY <1>1
<1>4. phase' = "running" /\ test["server_rsa_private_key"] # 0 => Fresh(test, now)
  BY <1>1, <1>2 DEF test_is_authorized, Keyed, Fresh, decode_auth_setting, check_authentication
<1>5. Tests'
  BY <1>1 DEF Inv, Tests
<1>6. Bounded'
  BY <1>1, <1>3 DEF Inv, Bounded, Phases
<1>7. ServerSide'
  BY <1>1, <1>2, <1>3 DEF ServerSide
<1>8. ClientSide'
  BY <1>1, <1>3 DEF Inv, ClientSide, Serving
<1>9. BothSides'
  BY <1>1, <1>3 DEF Inv, BothSides
<1>10. LetIn'
  BY <1>1, <1>4 DEF LetIn
<1>. QED
  BY <1>5, <1>6, <1>7, <1>8, <1>9, <1>10 DEF Inv

LEMMA ResetKeeps ==
    ASSUME Inv, iperf_reset_test
    PROVE  Inv'
<1>1. /\ phase \in {"refused", "running"} /\ phase' = "listen" /\ test' = Reset(test)
      /\ cli' = NewTest /\ admitted' = 0 /\ clients' = clients /\ now' = now
  BY DEF iperf_reset_test
<1>2. ServerTest(test)
  BY <1>1 DEF Inv, ServerSide
<1>3. Idle(test')
  BY <1>1, <1>2, ResetIdle
<1>4. IsTest(NewTest) /\ Directed(NewTest)
  BY BlankTest DEF Directed
<1>5. Tests'
  BY <1>1, <1>3, <1>4 DEF Tests, Idle, ServerTest
<1>6. Bounded'
  BY <1>1, Numbers DEF Inv, Bounded, Phases
<1>7. ServerSide' /\ ClientSide' /\ BothSides' /\ LetIn'
  BY <1>1, <1>3 DEF ServerSide, ClientSide, BothSides, LetIn, Serving
<1>. QED
  BY <1>5, <1>6, <1>7 DEF Inv

LEMMA LeavesKeeps ==
    ASSUME Inv, ClientLeaves
    PROVE  Inv'
<1>1. /\ phase = "connected" /\ phase' = "refused" /\ test' = test /\ cli' = cli
      /\ clients' = clients /\ now' = now /\ admitted' = admitted
  BY DEF ClientLeaves
<1>2. ServerTest(test)
  BY <1>1 DEF Inv, ServerSide, Idle
<1>3. Tests'
  BY <1>1 DEF Inv, Tests
<1>4. Bounded'
  BY <1>1 DEF Inv, Bounded, Phases
<1>5. ServerSide' /\ ClientSide' /\ BothSides' /\ LetIn'
  BY <1>1, <1>2 DEF ServerSide, ClientSide, BothSides, LetIn, Serving
<1>. QED
  BY <1>3, <1>4, <1>5 DEF Inv

LEMMA TickKeeps ==
    ASSUME Inv, Tick
    PROVE  Inv'
<1>1. /\ phase' = phase /\ test' = test /\ cli' = cli /\ line' = line /\ wire' = wire
      /\ clients' = clients /\ admitted' = admitted /\ now < MaxTime /\ now' = now + 1
  BY DEF Tick
<1>2. Bounded'
  BY <1>1, Numbers DEF Inv, Bounded
<1>3. Tests' /\ ServerSide' /\ ClientSide'
  BY <1>1 DEF Inv, Tests, ServerSide, ClientSide, Serving
<1>4. BothSides' /\ LetIn'
  BY <1>1 DEF Inv, BothSides, LetIn
<1>. QED
  BY <1>2, <1>3, <1>4 DEF Inv

LEMMA StutterKeeps ==
    ASSUME Inv, UNCHANGED vars
    PROVE  Inv'
<1>1. /\ phase' = phase /\ test' = test /\ cli' = cli /\ line' = line /\ wire' = wire
      /\ clients' = clients /\ admitted' = admitted /\ now' = now
  BY DEF vars
<1>2. Bounded' /\ Tests' /\ ServerSide' /\ ClientSide'
  BY <1>1 DEF Inv, Bounded, Tests, ServerSide, ClientSide, Serving
<1>3. BothSides' /\ LetIn'
  BY <1>1 DEF Inv, BothSides, LetIn
<1>. QED
  BY <1>2, <1>3 DEF Inv

-----------------------------------------------------------------------------
(* The theorems.                                                           *)

(* The settings of both sides keep their invariant whatever command lines, *)
(* segment sizes and clocks the server and its clients have.               *)
THEOREM SettingsInvariant == Spec => []Inv
<1>1. Init => Inv
  BY InvInit
<1>2. Inv /\ [Next]_vars => Inv'
  BY StartServerKeeps, StartClientKeeps, ConnectKeeps, SendKeeps, GetKeeps, AdmitKeeps,
     ResetKeeps, LeavesKeeps, TickKeeps, StutterKeeps DEF Next
<1>. QED
  BY <1>1, <1>2, PTL DEF Spec

LEMMA AskedInLine ==
    ASSUME NEW argv, CommandLine(argv), NEW name
    PROVE  AskedIn(argv, Len(argv), name) <=> \E i \in DOMAIN argv : argv[i].name = name
<1>1. DOMAIN argv = 1 .. Len(argv)
  BY DEF CommandLine
<1>. QED
  BY <1>1 DEF AskedIn

LEMMA AtMostOne ==
    ASSUME NEW t, OneEnd(t)
    PROVE  Cardinality({f \in {"duration", "bytes", "blocks"} : t[f] # 0}) <= 1
<1> DEFINE S == {f \in {"duration", "bytes", "blocks"} : t[f] # 0}
<1>1. \A f, g \in S : f = g
  BY DEF OneEnd
<1>2. CASE S = {}
  BY <1>2, FS_EmptySet
<1>3. CASE S # {}
  <2>1. PICK f \in S : TRUE
    BY <1>3
  <2>2. S = {f}
    BY <1>1, <2>1
  <2> HIDE DEF S
  <2>3. Cardinality(S) = 1
    BY <2>2, FS_Singleton
  <2>. QED
    BY <2>3 DEF S
<1>. QED
  BY <1>2, <1>3

(* The direction of a client, the side that reports retransmissions and    *)
(* its only end are what the set of its options says, for every command    *)
(* line: the order of -c, -R, --bidir and the protocol does not matter to  *)
(* iperf_parse_arguments.                                                  *)
THEOREM ModeAsAskedAlways == Spec => []ModeAsAsked
<1>1. Inv => ModeAsAsked
  <2> SUFFICES ASSUME Inv PROVE ModeAsAsked
    OBVIOUS
  <2>1. TypeOK
    <3>1. SentAlways \cup SentIfSet \cup LocalFields \subseteq Plain
      BY DEF Plain
    <3>2. \A t \in {test, cli} : IsTest(t) /\ Directed(t)
      BY DEF Inv, Tests
    <3>3. \A t \in {test, cli} : \A f \in SentAlways \cup SentIfSet \cup LocalFields : t[f] \in Int
      BY <3>1, <3>2 DEF IsTest
    <3>4. \A t \in {test, cli} :
            /\ t.role \in {"none", "s", "c"}
            /\ t.mode \in {"SENDER", "RECEIVER", "BIDIRECTIONAL"}
            /\ t.protocol \in {"tcp", "udp", "sctp", "quic"}
      BY <3>2 DEF Directed
    <3>. QED
      BY <3>3, <3>4 DEF TypeOK, Inv, Bounded, Phases
  <2>2. ASSUME Serving
        PROVE  /\ Cardinality({f \in {"duration", "bytes", "blocks"} : cli[f] # 0}) <= 1
               /\ cli.mode = IF Asked("R") THEN "RECEIVER"
                             ELSE IF Asked("bidir") THEN "BIDIRECTIONAL" ELSE "SENDER"
               /\ (cli.sender_has_retransmits = 1) <=> (cli.mode # "RECEIVER" /\ cli.protocol = "tcp")
    <3>1. CommandLine(line) /\ ClientTest(cli, line)
      BY <2>2 DEF Inv, ClientSide
    <3>2. /\ OneEnd(cli) /\ ModeInv(cli) /\ cli.role = "c" /\ AskedFor(cli, line)
          /\ Directed(cli)
      BY <3>1 DEF ClientTest
    <3>3. /\ cli.reverse = 1 <=> Asked("R")
          /\ cli.bidirectional = 1 <=> Asked("bidir")
      BY <3>1, <3>2, AskedInLine DEF AskedFor, Asked
    <3>4. Cardinality({f \in {"duration", "bytes", "blocks"} : cli[f] # 0}) <= 1
      BY <3>2, AtMostOne
    <3>5. cli.mode = IF Asked("R") THEN "RECEIVER"
                     ELSE IF Asked("bidir") THEN "BIDIRECTIONAL" ELSE "SENDER"
      BY <3>2, <3>3 DEF ModeInv, Direction, Directed
    <3>6. Counting(cli)
      BY <3>2 DEF ModeInv
    <3>. QED
      BY <3>4, <3>5, <3>6 DEF Counting
  <2>. QED
    BY <2>1, <2>2 DEF ModeAsAsked
<1>. QED
  BY <1>1, SettingsInvariant, PTL

(* Client and server run the same test in opposite directions once the     *)
(* server has the parameters, whatever earlier clients asked for: what     *)
(* send_parameters leaves out is what iperf_reset_test puts back.          *)
THEOREM SettingsAgreeAlways == Spec => []SettingsAgree
<1>1. Inv => SettingsAgree
  BY DEF Inv, BothSides, SettingsAgree, Agree, Counting
<1>. QED
  BY <1>1, SettingsInvariant, PTL

(* Under authentication only a client runs whose own options made a token  *)
(* that was fresh when test_is_authorized looked at it.                    *)
THEOREM AuthorisedAfreshAlways == Spec => []AuthorisedAfresh
<1>1. Inv => AuthorisedAfresh
  <2> SUFFICES ASSUME Inv, phase = "running", test["server_rsa_private_key"] # 0
               PROVE  /\ cli.client_username = 1
                      /\ cli.client_rsa_pubkey = test.server_rsa_private_key
                      /\ cli.authtoken # <<>>
                      /\ admitted - cli.authtoken[4]
                            \in -test.server_skew_threshold .. test.server_skew_threshold
    BY DEF AuthorisedAfresh
  <2>1. Fresh(test, admitted) /\ test["authtoken"] = cli["authtoken"] /\ OwnToken(cli)
    BY DEF Inv, LetIn, BothSides, ClientSide
  <2>2. cli["authtoken"] # <<>> /\ cli["authtoken"][1] = 1
        /\ cli["authtoken"][2] = test["server_rsa_private_key"]
        /\ admitted - cli["authtoken"][4]
                \in -test["server_skew_threshold"] .. test["server_skew_threshold"]
    BY <2>1 DEF Fresh
  <2>3. PICK clock \in Int :
            cli["authtoken"] = <<cli["client_username"], cli["client_rsa_pubkey"],
                                 cli["use_pkcs1_padding"], clock>>
    BY <2>1, <2>2 DEF OwnToken
  <2>4. cli["authtoken"][1] = cli["client_username"] /\ cli["authtoken"][2] = cli["client_rsa_pubkey"]
    BY <2>3
  <2>. QED
    BY <2>2, <2>4
<1>. QED
  BY <1>1, SettingsInvariant, PTL

=============================================================================
