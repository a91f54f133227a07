-------------------------- MODULE QuicAcceptProofs ---------------------------
(***************************************************************************)
(* Proofs about QuicSetup, for any number of streams and any size of the   *)
(* pipe: no wake-up is lost, each stream has one owner until the test is   *)
(* torn down, and no callback meets a context that was freed.              *)
(***************************************************************************)
EXTENDS QuicSetup, FiniteSetTheorems, SequenceTheorems, TLAPS

-----------------------------------------------------------------------------
(* The inductive invariant.                                                *)

(* Nothing is in a queue twice.                                            *)
Distinct(q) == \A i, j \in 1 .. Len(q) : q[i] = q[j] => i = j

(* Until iperf_quic_free_test frees the first context.                     *)
Serving == mpc \notin {"clear", "conn", "destroy", "ended"}

(* The pipe is there while somebody may have to be woken.                  *)
WakeInv ==
    /\ mpc \in {"select", "read", "deq", "attach", "close"} => pipeopen
    /\ mpc = "select" /\ aq # <<>> => pipe > 0 \/ cbpc = "notify"

(* An id waits for its iperf_stream only between iperf_quic_accept and     *)
(* iperf_quic_attach_stream.                                               *)
MapInv == IF mpc = "attach" THEN Len(map) = 1 ELSE map = <<>>

(* What has a context was started, ...                                     *)
KnownInv ==
    /\ ToSet(aq) \cup ToSet(map) \cup ToSet(data) \cup freed \subseteq started
    /\ cbpc # "idle" => cbs \in started

(* ... and the places a started stream can be at exclude each other.       *)
Enqueuing == IF cbpc = "enq" THEN {cbs} ELSE {}
PlacesInv ==
    Serving =>
        /\ freed = {}
        /\ Distinct(aq) /\ Distinct(data)
        /\ started = ToSet(aq) \cup ToSet(map) \cup ToSet(data) \cup Enqueuing
        /\ ToSet(aq) \cap (ToSet(map) \cup ToSet(data) \cup Enqueuing) = {}
        /\ ToSet(map) \cap (ToSet(data) \cup Enqueuing) = {}
        /\ ToSet(data) \cap Enqueuing = {}

(* The end of the connection is the end of its callbacks.                  *)
ClosedInv ==
    /\ freed \cap hopen = {}
    /\ mpc \in {"destroy", "ended"} => conn = "closed" /\ hopen = {} /\ cbpc = "idle"

AcceptInv ==
    TypeOK /\ WakeInv /\ MapInv /\ KnownInv /\ PlacesInv /\ ClosedInv /\ opened \subseteq Streams

-----------------------------------------------------------------------------
(* What a queue holds after it has grown or shrunk.                        *)

LEMMA QueueFacts ==
    ASSUME NEW S, NEW q \in Seq(S)
    PROVE  /\ Len(q) \in Nat /\ DOMAIN q = 1 .. Len(q) /\ ToSet(q) = {q[i] : i \in 1 .. Len(q)}
           /\ \A i \in 1 .. Len(q) : q[i] \in S
           /\ (q = <<>>) <=> (Len(q) = 0)
<1>1. Len(q) \in Nat /\ DOMAIN q = 1 .. Len(q)
    BY LenProperties
<1>2. \A i \in 1 .. Len(q) : q[i] \in S
    BY ElementOfSeq
<1>3. (q = <<>>) <=> (Len(q) = 0)
    BY <1>1, EmptySeq
<1> QED
    BY <1>1, <1>2, <1>3 DEF ToSet

LEMMA EmptyQueue == ToSet(<<>>) = {} /\ Distinct(<<>>) /\ Len(<<>>) = 0
<1>1. <<>> \in Seq({}) /\ Len(<<>>) = 0
    BY EmptySeq
<1>2. DOMAIN <<>> = 1 .. Len(<<>>)
    BY <1>1, LenProperties
<1>3. DOMAIN <<>> = {}
    BY <1>1, <1>2
<1> QED
    BY <1>1, <1>3 DEF ToSet, Distinct

(* r is the queue q of elements of S with e behind it.                     *)
Grown(S, q, e, r) ==
    /\ r \in Seq(S) /\ r # <<>> /\ Len(r) = Len(q) + 1
    /\ ToSet(r) = ToSet(q) \cup {e}
    /\ Distinct(q) /\ e \notin ToSet(q) => Distinct(r)

LEMMA QueueAppend ==
    ASSUME NEW S, NEW q \in Seq(S), NEW e \in S
    PROVE  Grown(S, q, e, Append(q, e))
<1> DEFINE r == Append(q, e)
<1>1. /\ r \in Seq(S) /\ r # <<>> /\ Len(r) = Len(q) + 1
      /\ \A i \in 1 .. Len(q) : r[i] = q[i]
      /\ r[Len(q) + 1] = e
    BY AppendProperties
<1> HIDE DEF r
<1>2. Len(q) \in Nat /\ ToSet(q) = {q[i] : i \in 1 .. Len(q)}
    BY QueueFacts
<1>3. ToSet(r) = {r[i] : i \in 1 .. Len(r)}
    BY <1>1, QueueFacts
<1>4. /\ \A i \in 1 .. Len(r) : i \in 1 .. Len(q) \/ i = Len(q) + 1
      /\ \A i \in 1 .. Len(q) : i \in 1 .. Len(r)
      /\ Len(q) + 1 \in 1 .. Len(r)
    BY <1>1, <1>2
<1>5. ToSet(r) = ToSet(q) \cup {e}
  <2>1. ASSUME NEW x \in ToSet(r)
        PROVE  x \in ToSet(q) \cup {e}
    <3>1. PICK i \in 1 .. Len(r) : x = r[i]
      BY <1>3
    <3> QED
      BY <1>1, <1>2, <1>4, <3>1
  <2>2. ASSUME NEW x \in ToSet(q) \cup {e}
        PROVE  x \in ToSet(r)
    <3>1. CASE x = e
      BY <1>1, <1>3, <1>4, <3>1
    <3>2. CASE x \in ToSet(q)
      <4>1. PICK i \in 1 .. Len(q) : x = q[i]
        BY <1>2, <3>2
      <4> QED
        BY <1>1, <1>3, <1>4, <4>1
    <3> QED
      BY <3>1, <3>2
  <2> QED
    BY <2>1, <2>2
<1>6. ASSUME Distinct(q), e \notin ToSet(q), NEW i \in 1 .. Len(r), NEW j \in 1 .. Len(r),
             r[i] = r[j]
      PROVE  i = j
  <2>1. \A k \in 1 .. Len(q) : q[k] # e
    BY <1>2, <1>6
  <2> QED
    BY <1>1, <1>4, <1>6, <2>1 DEF Distinct
<1> QED
    BY <1>1, <1>5, <1>6 DEF r, Distinct, Grown

LEMMA QueueTail ==
    ASSUME NEW S, NEW q \in Seq(S), q # <<>>, Distinct(q)
    PROVE  /\ Head(q) \in S /\ Tail(q) \in Seq(S)
           /\ ToSet(q) = {Head(q)} \cup ToSet(Tail(q))
           /\ Distinct(Tail(q)) /\ Head(q) \notin ToSet(Tail(q))
<1> DEFINE r == Tail(q)
           h == Head(q)
<1>1. /\ h \in S /\ r \in Seq(S) /\ Len(r) = Len(q) - 1
      /\ \A i \in 1 .. Len(r) : r[i] = q[i + 1]
    BY HeadTailProperties
<1>2. /\ Len(q) \in Nat /\ Len(q) # 0 /\ ToSet(q) = {q[i] : i \in 1 .. Len(q)}
    BY QueueFacts
<1>3. h = q[1]
    BY <1>2
<1> HIDE DEF r, h
<1>4. ToSet(r) = {r[i] : i \in 1 .. Len(r)} /\ Len(r) \in Nat
    BY <1>1, QueueFacts
<1>5. /\ \A i \in 1 .. Len(r) : i + 1 \in 1 .. Len(q) /\ i + 1 # 1
      /\ \A i \in 1 .. Len(q) : i = 1 \/ i - 1 \in 1 .. Len(r)
      /\ \A i \in 1 .. Len(q) : (i - 1) + 1 = i
      /\ 1 \in 1 .. Len(q)
    BY <1>1, <1>2, <1>4
<1>6. ToSet(q) = {h} \cup ToSet(r)
  <2>1. ASSUME NEW x \in ToSet(q)
        PROVE  x \in {h} \cup ToSet(r)
    <3>1. PICK i \in 1 .. Len(q) : x = q[i]
      BY <1>2
    <3>2. CASE i = 1
      BY <1>3, <3>1, <3>2
    <3>3. CASE i - 1 \in 1 .. Len(r)
      <4>1. r[i - 1] = q[i]
        BY <1>1, <1>5, <3>3
      <4> QED
        BY <1>4, <3>1, <3>3, <4>1
    <3> QED
      BY <1>5, <3>2, <3>3
  <2>2. ASSUME NEW x \in {h} \cup ToSet(r)
        PROVE  x \in ToSet(q)
    <3>1. CASE x = h
      BY <1>2, <1>3, <1>5, <3>1
    <3>2. CASE x \in ToSet(r)
      <4>1. PICK i \in 1 .. Len(r) : x = r[i]
        BY <1>4, <3>2
      <4> QED
        BY <1>1, <1>2, <1>5, <4>1
    <3> QED
      BY <3>1, <3>2
  <2> QED
    BY <2>1, <2>2
<1>7. Distinct(r)
  <2> SUFFICES ASSUME NEW i \in 1 .. Len(r), NEW j \in 1 .. Len(r), r[i] = r[j]
               PROVE  i = j
    BY DEF Distinct
  <2>1. i + 1 = j + 1
    BY <1>1, <1>5 DEF Distinct
  <2> QED
    BY <2>1
<1>8. h \notin ToSet(r)
  <2> SUFFICES ASSUME NEW i \in 1 .. Len(r), r[i] = h
               PROVE  FALSE
    BY <1>4
  <2>1. i + 1 = 1
    BY <1>1, <1>3, <1>5 DEF Distinct
  <2> QED
    BY <1>5, <2>1
<1> QED
    BY <1>1, <1>6, <1>7, <1>8 DEF r, h

(* A queue of one: what it holds, and what is left without it.             *)
LEMMA QueueOfOne ==
    ASSUME NEW S, NEW q \in Seq(S), Len(q) = 1
    PROVE  Last(q) \in S /\ ToSet(q) = {Last(q)} /\ Front(q) = <<>> /\ Distinct(q)
<1>1. Last(q) = q[1] /\ ToSet(q) = {q[1]} /\ q[1] \in S
    BY QueueFacts DEF Last
<1>2. Front(q) \in Seq(S) /\ Len(Front(q)) = 0
    BY SubSeqProperties DEF Front
<1>3. Front(q) = <<>>
    BY <1>2, QueueFacts
<1> QED
    BY <1>1, <1>3 DEF Distinct

(* How often a stream is in a queue that holds nothing twice.              *)
LEMMA QueueCount ==
    ASSUME NEW S, NEW q \in Seq(S), Distinct(q), NEW x
    PROVE  Cardinality({i \in DOMAIN q : q[i] = x}) = IF x \in ToSet(q) THEN 1 ELSE 0
<1>1. DOMAIN q = 1 .. Len(q) /\ ToSet(q) = {q[i] : i \in 1 .. Len(q)}
    BY QueueFacts
<1>2. CASE x \in ToSet(q)
  <2>1. PICK i \in 1 .. Len(q) : q[i] = x
    BY <1>1, <1>2
  <2>2. {j \in DOMAIN q : q[j] = x} = {i}
    BY <1>1, <2>1 DEF Distinct
  <2> QED
    BY <1>2, <2>2, FS_Singleton
<1>3. CASE x \notin ToSet(q)
  <2>1. {j \in DOMAIN q : q[j] = x} = {}
    BY <1>1, <1>3
  <2> QED
    BY <1>3, <2>1, FS_EmptySet
<1> QED
    BY <1>2, <1>3

-----------------------------------------------------------------------------
LEMMA AcceptInit == SetupInit => AcceptInv
<1> SUFFICES ASSUME SetupInit PROVE AcceptInv
    OBVIOUS
<1>1. /\ started = {} /\ hopen = {} /\ fin = {} /\ conn = "up" /\ freed = {} /\ opened = {}
      /\ aq = <<>> /\ map = <<>> /\ data = <<>> /\ pipe = 0 /\ pipeopen = TRUE
      /\ lock = "none" /\ cbpc = "idle" /\ cbs \in Streams /\ mpc = "select"
    BY DEF SetupInit, Init
<1>2. <<>> \in Seq(Streams)
    BY EmptySeq
<1>3. pipeopen \in BOOLEAN /\ pipeopen
    BY <1>1, Zenon
<1>4. TypeOK
    BY <1>1, <1>2, <1>3, QuicAcceptAssumption DEF TypeOK
<1>5. WakeInv /\ MapInv
    BY <1>1, <1>3 DEF WakeInv, MapInv
<1>6. KnownInv /\ PlacesInv /\ ClosedInv
    BY <1>1, EmptyQueue DEF KnownInv, PlacesInv, ClosedInv, Enqueuing
<1> QED
    BY <1>1, <1>4, <1>5, <1>6 DEF AcceptInv

LEMMA AcceptStarted ==
    ASSUME AcceptInv, NEW s \in opened, PeerStreamStarted(s), UNCHANGED cvars
    PROVE  AcceptInv'
<1> USE DEF AcceptInv
<1>1. /\ cbpc = "idle" /\ conn = "up" /\ s \notin started
      /\ started' = started \cup {s} /\ hopen' = hopen \cup {s} /\ cbpc' = "enq" /\ cbs' = s
      /\ UNCHANGED <<fin, conn, aq, map, data, freed, pipe, pipeopen, lock, mpc, opened>>
      /\ s \in Streams
    BY DEF PeerStreamStarted, queues, pipes, cvars
<1>2. TypeOK'
    BY <1>1 DEF TypeOK
<1>3. WakeInv' /\ MapInv'
    BY <1>1 DEF WakeInv, MapInv
<1>4. KnownInv'
    BY <1>1 DEF KnownInv
<1>5. PlacesInv'
    BY <1>1 DEF PlacesInv, Enqueuing, Serving
<1>6. ClosedInv'
    BY <1>1 DEF ClosedInv, TypeOK
<1> QED
    BY <1>1, <1>2, <1>3, <1>4, <1>5, <1>6

LEMMA AcceptEnq == AcceptInv /\ accept_enq /\ UNCHANGED cvars => AcceptInv'
<1> SUFFICES ASSUME AcceptInv, accept_enq, UNCHANGED cvars PROVE AcceptInv'
    OBVIOUS
<1> USE DEF AcceptInv
<1>1. /\ cbpc = "enq" /\ lock' = "cb" /\ aq' = Append(aq, cbs) /\ cbpc' = "notify"
      /\ UNCHANGED <<started, hopen, fin, conn, map, data, freed, pipe, pipeopen, cbs, mpc, opened>>
      /\ cbs \in Streams /\ cbs \in started /\ aq \in Seq(Streams)
    BY DEF accept_enq, msquic, pipes, cvars, TypeOK, KnownInv
<1>2. /\ aq' \in Seq(Streams) /\ ToSet(aq') = ToSet(aq) \cup {cbs}
      /\ Distinct(aq) /\ cbs \notin ToSet(aq) => Distinct(aq')
    BY <1>1, QueueAppend DEF Grown
<1>3. TypeOK'
    BY <1>1, <1>2 DEF TypeOK
<1>4. WakeInv' /\ MapInv'
    BY <1>1 DEF WakeInv, MapInv
<1>5. KnownInv'
    BY <1>1, <1>2 DEF KnownInv
<1>6. PlacesInv'
  <2>1. Enqueuing = {cbs} /\ Enqueuing' = {}
    BY <1>1 DEF Enqueuing
  <2> QED
    BY <1>1, <1>2, <2>1 DEF PlacesInv, Serving
<1>7. ClosedInv'
    BY <1>1 DEF ClosedInv
<1> QED
    BY <1>1, <1>3, <1>4, <1>5, <1>6, <1>7

LEMMA AcceptNotify == AcceptInv /\ notify_pipe /\ UNCHANGED cvars => AcceptInv'
<1> SUFFICES ASSUME AcceptInv, notify_pipe, UNCHANGED cvars PROVE AcceptInv'
    OBVIOUS
<1> USE DEF AcceptInv
<1>1. /\ cbpc = "notify" /\ cbpc' = "idle" /\ lock' = "none"
      /\ pipe' = (IF pipeopen /\ pipe < PipeSize THEN pipe + 1 ELSE pipe)
      /\ UNCHANGED <<started, hopen, fin, conn, aq, map, data, freed, pipeopen, cbs, mpc, opened>>
    BY DEF notify_pipe, msquic, queues, cvars
<1>2. /\ pipe' \in 0 .. PipeSize /\ (pipeopen => pipe' > 0)
    BY <1>1, QuicAcceptAssumption DEF TypeOK
<1>3. TypeOK'
    BY <1>1, <1>2 DEF TypeOK
<1>4. WakeInv' /\ MapInv'
    BY <1>1, <1>2 DEF WakeInv, MapInv
<1>5. KnownInv' /\ PlacesInv' /\ ClosedInv'
    BY <1>1 DEF KnownInv, PlacesInv, ClosedInv, Enqueuing, Serving
<1> QED
    BY <1>1, <1>3, <1>4, <1>5

LEMMA AcceptShutdown ==
    ASSUME AcceptInv, UNCHANGED cvars, ConnShutdown \/ \E s \in Streams : StreamShutdown(s)
    PROVE  AcceptInv'
<1> USE DEF AcceptInv
<1>1. /\ hopen' \subseteq hopen /\ fin' \subseteq fin \cup hopen /\ conn' = "shut"
      /\ conn # "closed" /\ cbpc = "idle"
      /\ UNCHANGED <<started, aq, map, data, freed, pipe, pipeopen, lock, cbpc, cbs, mpc, opened>>
    BY DEF ConnShutdown, StreamShutdown, queues, pipes, cbvars, cvars
<1>2. TypeOK'
    BY <1>1 DEF TypeOK
<1>3. WakeInv' /\ MapInv' /\ KnownInv'
    BY <1>1 DEF WakeInv, MapInv, KnownInv
<1>4. PlacesInv'
    BY <1>1 DEF PlacesInv, Enqueuing, Serving
<1>5. ClosedInv'
    BY <1>1 DEF ClosedInv
<1> QED
    BY <1>1, <1>2, <1>3, <1>4, <1>5

(* The steps of the main thread that move no stream.                       *)
LEMMA AcceptWalkOn ==
    ASSUME AcceptInv, UNCHANGED cvars, Select \/ ReadByte \/ CloseListener \/ TestOver
    PROVE  AcceptInv'
<1> USE DEF AcceptInv
<1>1. /\ UNCHANGED <<started, hopen, fin, conn, aq, map, data, freed, lock, cbpc, cbs, opened>>
      /\ \/ mpc = "select" /\ mpc' = "read" /\ pipe' = pipe /\ pipeopen' = pipeopen
         \/ /\ mpc = "read" /\ mpc' = "deq" /\ pipe' = (IF pipe > 0 THEN pipe - 1 ELSE 0)
            /\ pipeopen' = pipeopen
         \/ mpc = "close" /\ mpc' = "running" /\ pipe' = 0 /\ pipeopen' = FALSE
         \/ mpc \in {"select", "running"} /\ mpc' = "walk" /\ pipe' = pipe /\ pipeopen' = pipeopen
    BY DEF Select, ReadByte, CloseListener, TestOver, msquic, queues, pipes, cbvars, cvars
<1>2. pipe' \in 0 .. PipeSize
    BY <1>1, QuicAcceptAssumption DEF TypeOK
<1>3. pipeopen' \in BOOLEAN
    BY <1>1, Zenon DEF TypeOK
<1>4. TypeOK'
    BY <1>1, <1>2, <1>3 DEF TypeOK
<1>5. WakeInv' /\ MapInv'
    BY <1>1 DEF WakeInv, MapInv
<1>6. KnownInv' /\ PlacesInv' /\ ClosedInv'
    BY <1>1 DEF KnownInv, PlacesInv, ClosedInv, Enqueuing, Serving
<1> QED
    BY <1>1, <1>4, <1>5, <1>6

LEMMA AcceptDeq == AcceptInv /\ accept_deq /\ UNCHANGED cvars => AcceptInv'
<1> SUFFICES ASSUME AcceptInv, accept_deq, UNCHANGED cvars PROVE AcceptInv'
    OBVIOUS
<1> USE DEF AcceptInv
<1>1. /\ mpc = "deq" /\ map = <<>> /\ aq \in Seq(Streams) /\ Distinct(aq)
      /\ UNCHANGED <<started, hopen, fin, conn, data, freed, pipe, pipeopen, lock, cbpc, cbs, opened>>
    BY DEF accept_deq, msquic, pipes, cbvars, cvars, TypeOK, MapInv, PlacesInv, Serving
<1>2. CASE aq = <<>>
  <2>1. mpc' = "select" /\ aq' = aq /\ map' = map
    BY <1>2 DEF accept_deq
  <2>2. TypeOK' /\ WakeInv' /\ MapInv'
    BY <1>1, <1>2, <2>1 DEF TypeOK, WakeInv, MapInv
  <2>3. KnownInv' /\ PlacesInv' /\ ClosedInv'
    BY <1>1, <2>1 DEF KnownInv, PlacesInv, ClosedInv, Enqueuing, Serving
  <2> QED
    BY <1>1, <2>2, <2>3
<1>3. CASE aq # <<>>
  <2> DEFINE h == Head(aq)
  <2>1. mpc' = "attach" /\ map' = Append(map, h) /\ aq' = Tail(aq)
    BY <1>3 DEF accept_deq
  <2>2. /\ h \in Streams /\ aq' \in Seq(Streams) /\ ToSet(aq) = {h} \cup ToSet(aq')
        /\ Distinct(aq') /\ h \notin ToSet(aq')
    BY <1>1, <1>3, <2>1, QueueTail
  <2> HIDE DEF h
  <2>3. map' \in Seq(Streams) /\ ToSet(map') = {h} /\ Len(map') = 1 /\ ToSet(map) = {}
    <3>1. map \in Seq(Streams) /\ Len(map) = 0 /\ ToSet(map) = {}
      BY <1>1, EmptyQueue DEF TypeOK
    <3>2. map \in Seq(Streams)
      BY <3>1
    <3>3. h \in Streams
      BY <2>2
    <3>4. Grown(Streams, map, h, map')
      BY <2>1, <3>2, <3>3, QueueAppend
    <3> QED
      BY <3>1, <3>4 DEF Grown
  <2>4. TypeOK'
    BY <1>1, <2>1, <2>2, <2>3 DEF TypeOK
  <2>5. WakeInv' /\ MapInv'
    BY <1>1, <2>1, <2>3 DEF WakeInv, MapInv
  <2>6. KnownInv'
    BY <1>1, <2>2, <2>3 DEF KnownInv
  <2>7. PlacesInv'
    <3>1. Enqueuing' = Enqueuing /\ Serving
      BY <1>1 DEF Enqueuing, Serving
    <3> QED
      BY <1>1, <2>2, <2>3, <3>1 DEF PlacesInv
  <2>8. ClosedInv'
    BY <1>1, <2>1 DEF ClosedInv
  <2> QED
    BY <1>1, <2>4, <2>5, <2>6, <2>7, <2>8
<1> QED
    BY <1>2, <1>3

LEMMA AcceptAttach == AcceptInv /\ AttachStream /\ UNCHANGED cvars => AcceptInv'
<1> SUFFICES ASSUME AcceptInv, AttachStream, UNCHANGED cvars PROVE AcceptInv'
    OBVIOUS
<1> USE DEF AcceptInv
<1> DEFINE c == Last(map)
<1>1. /\ mpc = "attach" /\ mpc' \in {"close", "read"}
      /\ data' = Append(data, c) /\ map' = Front(map)
      /\ UNCHANGED <<started, hopen, fin, conn, aq, freed, pipe, pipeopen, lock, cbpc, cbs, opened>>
    BY DEF AttachStream, Attached, msquic, pipes, cbvars, cvars
<1>2. /\ c \in Streams /\ ToSet(map) = {c} /\ map' = <<>>
    BY <1>1, QueueOfOne DEF TypeOK, MapInv
<1> HIDE DEF c
<1>3. /\ data' \in Seq(Streams) /\ ToSet(data') = ToSet(data) \cup {c}
      /\ Distinct(data) /\ c \notin ToSet(data) => Distinct(data')
    BY <1>1, <1>2, QueueAppend DEF TypeOK, Grown
<1>4. map' \in Seq(Streams) /\ ToSet(map') = {}
    BY <1>2, EmptySeq, EmptyQueue
<1>5. TypeOK'
    BY <1>1, <1>3, <1>4 DEF TypeOK
<1>6. WakeInv' /\ MapInv'
    BY <1>1, <1>2 DEF WakeInv, MapInv
<1>7. KnownInv'
    BY <1>1, <1>2, <1>3, <1>4 DEF KnownInv
<1>8. PlacesInv'
  <2>1. Enqueuing' = Enqueuing /\ Serving
    BY <1>1 DEF Enqueuing, Serving
  <2> QED
    BY <1>1, <1>2, <1>3, <1>4, <2>1 DEF PlacesInv
<1>9. ClosedInv'
    BY <1>1 DEF ClosedInv
<1> QED
    BY <1>1, <1>5, <1>6, <1>7, <1>8, <1>9

(* iperf_quic_free_test, step by step.                                     *)
LEMMA AcceptTeardown ==
    ASSUME AcceptInv, UNCHANGED cvars,
           FreeWaiting \/ ClearQueue \/ CloseConnection \/ ResetTest
    PROVE  AcceptInv'
<1> USE DEF AcceptInv
<1>1. <<>> \in Seq(Streams) /\ ToSet(<<>>) = {}
    BY EmptySeq, EmptyQueue
<1>2. UNCHANGED opened
    BY DEF cvars
<1>3. CASE FreeWaiting
  <2>1. /\ mpc = "walk" /\ mpc' = "clear" /\ hopen' = hopen \ Waiting /\ map' = <<>>
        /\ freed' = freed \cup Waiting
        /\ UNCHANGED <<started, fin, conn, aq, data, pipe, pipeopen, lock, cbpc, cbs>>
    BY <1>3 DEF FreeWaiting, pipes, cbvars
  <2>2. Waiting \subseteq started
    BY DEF Waiting, KnownInv
  <2>3. TypeOK'
    BY <1>1, <2>1, <2>2 DEF TypeOK
  <2>4. WakeInv' /\ MapInv' /\ PlacesInv'
    BY <2>1 DEF WakeInv, MapInv, PlacesInv, Serving
  <2>5. KnownInv'
    BY <1>1, <2>1, <2>2 DEF KnownInv
  <2>6. ClosedInv'
    BY <2>1 DEF ClosedInv
  <2> QED
    BY <1>2, <2>3, <2>4, <2>5, <2>6
<1>4. CASE ClearQueue
  <2>1. /\ mpc = "clear" /\ mpc' = "conn" /\ aq' = <<>>
        /\ UNCHANGED <<started, hopen, fin, conn, map, data, freed, pipe, pipeopen, lock, cbpc, cbs>>
    BY <1>4 DEF ClearQueue, msquic, pipes, cbvars
  <2>2. TypeOK'
    BY <1>1, <2>1 DEF TypeOK
  <2>3. WakeInv' /\ MapInv' /\ PlacesInv' /\ ClosedInv'
    BY <2>1 DEF WakeInv, MapInv, PlacesInv, Serving, ClosedInv
  <2>4. KnownInv'
    BY <1>1, <2>1 DEF KnownInv
  <2> QED
    BY <1>2, <2>2, <2>3, <2>4
<1>5. CASE CloseConnection
  <2>1. /\ mpc = "conn" /\ mpc' = "destroy" /\ cbpc = "idle" /\ conn' = "closed" /\ hopen' = {}
        /\ fin' = fin \cup hopen
        /\ UNCHANGED <<started, aq, map, data, freed, pipe, pipeopen, lock, cbpc, cbs>>
    BY <1>5 DEF CloseConnection, queues, pipes, cbvars
  <2>2. TypeOK'
    BY <2>1 DEF TypeOK
  <2>3. WakeInv' /\ MapInv' /\ PlacesInv' /\ ClosedInv' /\ KnownInv'
    BY <2>1 DEF WakeInv, MapInv, PlacesInv, Serving, ClosedInv, KnownInv
  <2> QED
    BY <1>2, <2>2, <2>3
<1>6. CASE ResetTest
  <2>1. /\ mpc = "destroy" /\ mpc' = "ended" /\ pipeopen' = FALSE /\ pipe' = 0
        /\ freed' = freed \cup ToSet(data) /\ data' = <<>>
        /\ UNCHANGED <<started, hopen, fin, conn, aq, map, lock, cbpc, cbs>>
    BY <1>6 DEF ResetTest, msquic, cbvars
  <2>2. pipeopen' \in BOOLEAN /\ pipe' \in 0 .. PipeSize
    <3>1. pipeopen' \in BOOLEAN
      BY <2>1, Zenon
    <3> QED
      BY <2>1, <3>1, QuicAcceptAssumption
  <2>3. TypeOK'
    BY <1>1, <2>1, <2>2 DEF TypeOK, KnownInv
  <2>4. WakeInv' /\ MapInv' /\ PlacesInv'
    BY <2>1 DEF WakeInv, MapInv, PlacesInv, Serving
  <2>5. KnownInv'
    BY <1>1, <2>1 DEF KnownInv
  <2>6. ClosedInv'
    BY <2>1 DEF ClosedInv
  <2> QED
    BY <1>2, <2>3, <2>4, <2>5, <2>6
<1> QED
    BY <1>3, <1>4, <1>5, <1>6

LEMMA AcceptStep == AcceptInv /\ [SetupNext]_qvars => AcceptInv'
<1> SUFFICES ASSUME AcceptInv, [SetupNext]_qvars PROVE AcceptInv'
    OBVIOUS
<1>1. CASE ServerNext
    BY <1>1, AcceptStarted, AcceptEnq, AcceptNotify, AcceptShutdown, AcceptWalkOn, AcceptDeq,
        AcceptAttach, AcceptTeardown DEF ServerNext, Main
<1>2. CASE UNCHANGED vars /\ opened' \subseteq Streams
    BY <1>2 DEF vars, msquic, queues, pipes, cbvars, AcceptInv, TypeOK, WakeInv, MapInv, KnownInv,
        PlacesInv, ClosedInv, Enqueuing, Serving
<1>3. CASE Connected \/ Shutdown \/ ClientMain
  <2>1. UNCHANGED vars /\ opened' \subseteq Streams
    BY <1>3 DEF Connected, Shutdown, ClientMain, ConnectionStart, Check, HandshakeTimeout,
        StreamStart, AcceptInv
  <2> QED
    BY <1>2, <2>1
<1>4. CASE UNCHANGED qvars
    BY <1>2, <1>4 DEF qvars, cvars, AcceptInv
<1> QED
    BY <1>1, <1>3, <1>4 DEF SetupNext

LEMMA AcceptInvariant == SetupSpec => []AcceptInv
    BY AcceptInit, AcceptStep, PTL DEF SetupSpec

-----------------------------------------------------------------------------
(* The main thread does not sleep in select() over a stream that           *)
(* accept_enq has queued: the byte of notify_pipe is there or on its way,  *)
(* even when the pipe was full.                                            *)
THEOREM WakeupNotLost == SetupSpec => []NoLostWakeup
<1>1. AcceptInv => NoLostWakeup
    BY DEF AcceptInv, WakeInv, NoLostWakeup
<1> QED
    BY AcceptInvariant, <1>1, PTL

(* A context passes from conn_cb to the accept queue, to the map and to    *)
(* one iperf_stream without being lost or held twice.                      *)
THEOREM EachOwnedOnce == SetupSpec => []OwnedOnce
<1>1. AcceptInv => OwnedOnce
  <2> SUFFICES ASSUME AcceptInv, Serving, NEW s \in started
               PROVE  Copies(s) = 1
    BY DEF OwnedOnce, Serving
  <2>1. aq \in Seq(Streams) /\ map \in Seq(Streams) /\ data \in Seq(Streams)
    BY DEF AcceptInv, TypeOK
  <2>2. Distinct(aq) /\ Distinct(map) /\ Distinct(data) /\ freed = {}
    BY <2>1, EmptyQueue, QueueOfOne DEF AcceptInv, PlacesInv, MapInv
  <2>3. /\ Cardinality({i \in DOMAIN aq : aq[i] = s}) = IF s \in ToSet(aq) THEN 1 ELSE 0
        /\ Cardinality({i \in DOMAIN map : map[i] = s}) = IF s \in ToSet(map) THEN 1 ELSE 0
        /\ Cardinality({i \in DOMAIN data : data[i] = s}) = IF s \in ToSet(data) THEN 1 ELSE 0
    BY <2>1, <2>2, QueueCount
  <2>4. (cbpc = "enq" /\ cbs = s) <=> s \in Enqueuing
    BY DEF Enqueuing
  <2>5. /\ s \in ToSet(aq) \cup ToSet(map) \cup ToSet(data) \cup Enqueuing
        /\ ToSet(aq) \cap (ToSet(map) \cup ToSet(data) \cup Enqueuing) = {}
        /\ ToSet(map) \cap (ToSet(data) \cup Enqueuing) = {}
        /\ ToSet(data) \cap Enqueuing = {}
    BY DEF AcceptInv, PlacesInv
  <2> HIDE DEF Enqueuing
  <2> QED
    BY <2>2, <2>3, <2>4, <2>5 DEF Copies
<1> QED
    BY AcceptInvariant, <1>1, PTL

(* The handle of a context is closed before quic_sc_free, and              *)
(* iperf_quic_free_test destroys the context of the test only when conn_cb *)
(* and stream_cb have returned for the last time.                          *)
THEOREM FreedAfterCallbacks == SetupSpec => []NoCallbackAfterFree
<1>1. AcceptInv => NoCallbackAfterFree
    BY DEF AcceptInv, ClosedInv, NoCallbackAfterFree
<1> QED
    BY AcceptInvariant, <1>1, PTL
=============================================================================
