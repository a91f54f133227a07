-------------------------- MODULE QuicStreamProofs ---------------------------
(***************************************************************************)
(* Proofs about QuicStream, for every block size, limit of pending sends   *)
(* and length of a burst: the places among the pending sends, the locks of *)
(* workers that are gone, and the bytes both ends count.                   *)
(***************************************************************************)
EXTENDS QuicStream, SequenceTheorems, WellFoundedInduction, TLAPS

-----------------------------------------------------------------------------
(* The inductive invariant.                                                *)

(* Cancellation is off from the call of iperf_quic_send to the moment the  *)
(* block is counted, and so is the worker's own lock never left behind;    *)
(* what was given to StreamSend is counted, but for the block in between.  *)
SenderInv ==
    /\ slock <=> spc = "cond"
    /\ scancel => spc \notin {"lock", "cond", "asleep", "submit", "count"}
    /\ spc \in {"lock", "cond", "asleep", "submit", "count", "ret"} => burst >= 1
    /\ submitted = bytes_sent + (IF spc = "count" THEN Block ELSE 0)

ReceiverInv ==
    /\ rlock <=> rpc = "cond"
    /\ rcancel => rpc \notin {"lock", "cond", "asleep"}

(* Every byte that was received is counted, copied, queued or dropped.     *)
BytesInv ==
    /\ delivered <= submitted
    /\ bytes_received + queued + (IF rpc = "ret" THEN got ELSE 0) <= delivered

(* QueueInOrder, with the order of any two chunks.                         *)
Chunk == [from : Nat, to : Nat]
ChunksInv ==
    /\ chunks \in Seq(Chunk)
    /\ \A i, j \in DOMAIN chunks : i < j => chunks[i].to < chunks[j].from
    /\ QueueInOrder

CountersInv == PendingMatches /\ SenderInv /\ ReceiverInv /\ BytesInv
StreamInv == CountersInv /\ ChunksInv

-----------------------------------------------------------------------------
(* A set of natural numbers that is not empty has a least element.         *)
LEMMA LessWellFounded == IsWellFoundedOn({p \in Nat \X Nat : p[1] < p[2]}, Nat)
    BY NatLessThanWellFounded, Zenon DEF OpToRel

LEMMA MinOfNats ==
    ASSUME NEW S, S \subseteq Nat, S # {}
    PROVE  Min(S) \in S /\ \A y \in S : Min(S) <= y
<1>1. PICK x \in S : \A y \in S : <<y, x>> \notin {p \in Nat \X Nat : p[1] < p[2]}
    BY LessWellFounded, WFMin
<1>2. ASSUME NEW y \in S
      PROVE  x <= y
  <2>1. y \in Nat /\ x \in Nat
    OBVIOUS
  <2>2. y < x => <<y, x>> \in {p \in Nat \X Nat : p[1] < p[2]}
    BY <2>1
  <2> QED
    BY <1>1, <2>1, <2>2
<1> QED
    BY <1>2 DEF Min

(* Chunks are in order: none is empty, and each begins where the one       *)
(* before ends.                                                            *)
Ordered(cs) ==
    /\ \A i \in 1 .. Len(cs) : cs[i].from \in Nat /\ cs[i].to \in Nat /\ cs[i].from <= cs[i].to
    /\ \A i \in 1 .. Len(cs) : i < Len(cs) => cs[i + 1].from = cs[i].to + 1
    /\ \A i, j \in 1 .. Len(cs) : i < j => cs[i].to < cs[j].from

(* Chunks in order of the bytes from first to last.                        *)
InOrder(cs, first, last) ==
    /\ cs \in Seq(Chunk) /\ cs # <<>> /\ Ordered(cs)
    /\ cs[1].from = first /\ cs[Len(cs)].to = last

LEMMA ChunksOrdered ==
    ASSUME ChunksInv
    PROVE  /\ Ordered(chunks) /\ Len(chunks) \in Nat /\ DOMAIN chunks = 1 .. Len(chunks)
           /\ chunks = <<>> => queued = 0
           /\ chunks # <<>> => /\ Len(chunks) >= 1 /\ Head(chunks) = chunks[1]
                               /\ chunks[Len(chunks)].to = delivered
                               /\ queued = delivered - chunks[1].from + 1
<1>1. /\ Len(chunks) \in Nat /\ DOMAIN chunks = 1 .. Len(chunks)
      /\ \A i \in 1 .. Len(chunks) : chunks[i] \in Chunk
    BY LenProperties, ElementOfSeq DEF ChunksInv
<1>2. Ordered(chunks)
    BY <1>1 DEF Ordered, ChunksInv, QueueInOrder, Chunk
<1>3. chunks # <<>> => Len(chunks) >= 1 /\ Head(chunks) = chunks[1]
    BY <1>1, EmptySeq DEF ChunksInv
<1> QED
    BY <1>1, <1>2, <1>3 DEF ChunksInv, QueueInOrder, Last

LEMMA OrderedChunks ==
    ASSUME NEW cs \in Seq(Chunk), Ordered(cs), NEW d \in Nat, NEW q,
           cs = <<>> => q = 0,
           cs # <<>> => cs[Len(cs)].to = d /\ q = d - cs[1].from + 1,
           chunks' = cs, delivered' = d, queued' = q
    PROVE  ChunksInv'
<1>1. Len(cs) \in Nat /\ DOMAIN cs = 1 .. Len(cs)
    BY LenProperties
<1>2. cs # <<>> => Last(cs) = cs[Len(cs)] /\ Head(cs) = cs[1]
    BY <1>1, EmptySeq DEF Last
<1>3. \A i, j \in DOMAIN cs : i < j => cs[i].to < cs[j].from
    BY <1>1 DEF Ordered
<1>4. \A i \in DOMAIN cs :
        /\ cs[i].from <= cs[i].to
        /\ i < Len(cs) => cs[i + 1].from = cs[i].to + 1
    BY <1>1 DEF Ordered
<1>5. IF cs = <<>> THEN q = 0 ELSE Last(cs).to = d /\ q = d - Head(cs).from + 1
    BY <1>2
<1> QED
    BY <1>3, <1>4, <1>5 DEF ChunksInv, QueueInOrder

LEMMA RestLength ==
    ASSUME NEW k \in Nat, NEW m \in 1 .. k
    PROVE  k - m + 1 \in Nat /\ k - m + 1 >= 1 /\ m + (k - m + 1) - 1 = k
    OBVIOUS

(* A copy that ends in chunk m leaves the chunks from there on, in order.  *)
LeftOf(cs, m, next) ==
    [SubSeq(cs, m, Len(cs)) EXCEPT ![1] = [from |-> next, to |-> cs[m].to]]

LEMMA CopyKeepsOrder ==
    ASSUME NEW cs \in Seq(Chunk), Ordered(cs), NEW m \in 1 .. Len(cs), NEW next \in Nat,
           cs[m].to >= next,
           NEW ds, ds = LeftOf(cs, m, next)
    PROVE  InOrder(ds, next, cs[Len(cs)].to)
<1> DEFINE rest == SubSeq(cs, m, Len(cs))
           new == [from |-> next, to |-> cs[m].to]
<1>1. Len(cs) \in Nat /\ m \in Nat /\ m <= Len(cs) /\ m >= 1
    BY LenProperties
<1>2. /\ rest \in Seq(Chunk) /\ Len(rest) = Len(cs) - m + 1
      /\ \A i \in 1 .. Len(cs) - m + 1 : rest[i] = cs[m + i - 1]
    BY <1>1, SubSeqProperties
<1>3. new \in Chunk /\ new.from = next /\ new.to = cs[m].to
    BY <1>1 DEF Chunk, Ordered
<1> HIDE DEF rest, new
<1>4. ds = [rest EXCEPT ![1] = new]
    BY DEF rest, new, LeftOf
<1> DEFINE n == Len(cs) - m + 1
<1>6. n \in Nat /\ n >= 1 /\ m + n - 1 = Len(cs)
    BY <1>1, RestLength
<1>5. /\ ds \in Seq(Chunk) /\ Len(ds) = n
      /\ ds[1] = new
      /\ \A i \in 2 .. n : ds[i] = cs[m + i - 1]
  <2>1. Len(rest) >= 1
    BY <1>2, <1>6
  <2>2. /\ ds \in Seq(Chunk) /\ Len(ds) = Len(rest)
        /\ ds[1] = new
        /\ \A j \in 2 .. Len(rest) : ds[j] = rest[j]
    <3>1. rest \in [1 .. Len(rest) -> Chunk] /\ Len(rest) \in Nat
      BY <1>2, LenProperties
    <3>2. /\ ds \in [1 .. Len(rest) -> Chunk] /\ ds[1] = new
          /\ \A j \in 2 .. Len(rest) : ds[j] = rest[j]
      BY <1>3, <1>4, <2>1, <3>1
    <3>3. ds \in Seq(Chunk)
      BY <3>1, <3>2, SeqDef
    <3>4. Len(ds) = Len(rest)
      BY <3>1, <3>2, <3>3, LenProperties
    <3> QED
      BY <3>2, <3>3, <3>4
  <2> QED
    BY <1>2, <1>6, <2>1, <2>2
<1>7. /\ ds[1].from = next
      /\ \A i \in 1 .. n : ds[i].to = cs[m + i - 1].to
      /\ \A i \in 2 .. n : ds[i].from = cs[m + i - 1].from
    BY <1>1, <1>3, <1>5
<1>8. \A i \in 1 .. n : m + i - 1 \in 1 .. Len(cs)
    BY <1>1
<1> HIDE DEF n
<1>9. \A i \in 1 .. n : ds[i].from \in Nat /\ ds[i].to \in Nat /\ ds[i].from <= ds[i].to
  <2> TAKE i \in 1 .. n
  <2>1. CASE i = 1
    BY <2>1, <1>1, <1>7, <1>8 DEF Ordered
  <2>2. CASE i \in 2 .. n
    <3>1. m + i - 1 \in 1 .. Len(cs)
      BY <1>8
    <3> QED
      BY <2>2, <3>1, <1>7 DEF Ordered
  <2> QED
    BY <2>1, <2>2, <1>6
<1>10. \A i \in 1 .. n : i < n => ds[i + 1].from = ds[i].to + 1
  <2> SUFFICES ASSUME NEW i \in 1 .. n, i < n
               PROVE  ds[i + 1].from = ds[i].to + 1
    OBVIOUS
  <2>1. ds[i].to = cs[m + i - 1].to /\ ds[i + 1].from = cs[m + i].from
    BY <1>1, <1>6, <1>7
  <2>2. m + i - 1 \in 1 .. Len(cs) /\ m + i - 1 < Len(cs) /\ m + i - 1 + 1 = m + i
    BY <1>1, <1>6
  <2>3. cs[m + i].from = cs[m + i - 1].to + 1
    BY <2>2 DEF Ordered
  <2> QED
    BY <2>1, <2>3
<1>11. \A i, j \in 1 .. n : i < j => ds[i].to < ds[j].from
  <2> SUFFICES ASSUME NEW i \in 1 .. n, NEW j \in 1 .. n, i < j
               PROVE  ds[i].to < ds[j].from
    OBVIOUS
  <2>1. ds[i].to = cs[m + i - 1].to /\ ds[j].from = cs[m + j - 1].from
    BY <1>1, <1>6, <1>7
  <2>2. m + i - 1 \in 1 .. Len(cs) /\ m + j - 1 \in 1 .. Len(cs) /\ m + i - 1 < m + j - 1
    BY <1>1, <1>6
  <2> QED
    BY <2>1, <2>2 DEF Ordered
<1>12. Ordered(ds)
    BY <1>5, <1>9, <1>10, <1>11 DEF Ordered
<1>13. ds[Len(ds)].to = cs[Len(cs)].to
  <2>1. n \in 1 .. n
    BY <1>6
  <2> QED
    BY <1>5, <1>6, <1>7, <2>1
<1>14. ds # <<>>
    BY <1>5, <1>6, EmptySeq
<1> QED
    BY <1>5, <1>7, <1>12, <1>13, <1>14 DEF InOrder

(* The chunks that are left after a copy are in order and begin with the   *)
(* first byte that was not copied.                                         *)
LEMMA AfterCopyInOrder ==
    ASSUME ChunksInv, delivered \in Nat, queued \in Nat, chunks # <<>>,
           NEW n \in 1 .. queued, chunks' = AfterCopy(n), queued' = queued - n,
           UNCHANGED delivered
    PROVE  ChunksInv'
<1> DEFINE next == chunks[1].from + n
           left == {i \in DOMAIN chunks : chunks[i].to >= next}
           m == Min(left)
           c == chunks[m]
           copied == IF left = {} THEN <<>>
                     ELSE [SubSeq(chunks, m, Len(chunks)) EXCEPT
                        ![1] = [from |-> IF c.from < next THEN next ELSE c.from, to |-> c.to]]
<1>1. /\ Ordered(chunks) /\ Len(chunks) \in Nat /\ DOMAIN chunks = 1 .. Len(chunks)
      /\ Len(chunks) >= 1 /\ Head(chunks) = chunks[1]
      /\ chunks[Len(chunks)].to = delivered
      /\ queued = delivered - chunks[1].from + 1
      /\ chunks \in Seq(Chunk)
    BY ChunksOrdered DEF ChunksInv
<1>2. chunks' = copied
    BY <1>1 DEF AfterCopy
<1>3. next \in Nat /\ next <= delivered + 1
    BY <1>1 DEF Ordered
<1>4. left \subseteq Nat
    BY <1>1
<1>5. left # {} => m \in left /\ \A i \in left : m <= i
    BY <1>4, MinOfNats
<1>6. \A i \in 1 .. Len(chunks) : (i \in left) <=> (chunks[i].to >= next)
    BY <1>1
<1> HIDE DEF left, m, next
<1>7. CASE left = {}
  <2>1. chunks[Len(chunks)].to < next
    <3>1. Len(chunks) \in 1 .. Len(chunks) /\ Len(chunks) \notin left
      BY <1>1, <1>7
    <3>2. ~(chunks[Len(chunks)].to >= next)
      BY <1>6, <3>1
    <3> QED
      BY <1>1, <1>3, <3>2
  <2>2. queued' = 0
    BY <1>1, <1>3, <2>1 DEF next, Ordered
  <2>3. chunks' = <<>>
    BY <1>2, <1>7
  <2>4. <<>> \in Seq(Chunk) /\ Ordered(<<>>)
    BY EmptySeq DEF Ordered
  <2>5. delivered' = delivered /\ delivered \in Nat
    OBVIOUS
  <2> QED
    BY <2>2, <2>3, <2>4, <2>5, OrderedChunks, Zenon
<1>8. CASE left # {}
  <2>1. /\ m \in 1 .. Len(chunks) /\ chunks[m].to >= next
        /\ \A i \in 1 .. m - 1 : chunks[i].to < next
    <3>1. m \in 1 .. Len(chunks)
      BY <1>1, <1>5, <1>8 DEF left
    <3>2. ASSUME NEW i \in 1 .. m - 1
          PROVE  chunks[i].to < next
      <4>1. i \in 1 .. Len(chunks) /\ i \notin left
        BY <3>1, <1>1, <1>5, <1>8
      <4> QED
        BY <4>1, <1>1, <1>3, <1>6 DEF Ordered
    <3> QED
      BY <3>1, <3>2, <1>5, <1>6, <1>8
  (* The first chunk that is left begins no later than the next byte.      *)
  <2>2. chunks[m].from <= next
    <3>1. CASE m = 1
      BY <3>1, <1>1 DEF next, Ordered
    <3>2. CASE m > 1
      <4>1. m - 1 \in 1 .. Len(chunks) /\ m - 1 < Len(chunks) /\ (m - 1) + 1 = m
        BY <3>2, <2>1, <1>1
      <4>2. chunks[m].from = chunks[m - 1].to + 1 /\ chunks[m - 1].to \in Nat
        BY <4>1, <1>1 DEF Ordered
      <4>3. chunks[m - 1].to < next
        BY <3>2, <2>1, <1>1
      <4> QED
        BY <4>2, <4>3, <1>3
    <3> QED
      BY <3>1, <3>2, <2>1
  <2>3. (IF c.from < next THEN next ELSE c.from) = next
    BY <2>1, <2>2, <1>1, <1>3 DEF Ordered
  <2>4. chunks' = [SubSeq(chunks, m, Len(chunks)) EXCEPT ![1] = [from |-> next, to |-> chunks[m].to]]
    BY <1>2, <1>8, <2>3
  <2>5. /\ chunks' \in Seq(Chunk) /\ chunks' # <<>> /\ Ordered(chunks')
        /\ chunks'[1].from = next /\ chunks'[Len(chunks')].to = delivered
    <3> DEFINE ds == chunks'
    <3>1. ds = LeftOf(chunks, m, next)
      BY <2>4 DEF LeftOf
    <3> HIDE DEF ds
    <3>2. InOrder(ds, next, chunks[Len(chunks)].to)
      <4>1. chunks \in Seq(Chunk) /\ Ordered(chunks)
        BY <1>1
      <4>2. m \in 1 .. Len(chunks) /\ next \in Nat /\ chunks[m].to >= next
        BY <1>3, <2>1
      <4> QED
        BY <4>1, <4>2, <3>1, CopyKeepsOrder, Zenon
    <3> QED
      BY <1>1, <3>2, Zenon DEF ds, InOrder
  <2>6. queued' = delivered - chunks'[1].from + 1
    BY <2>5, <1>1 DEF next, Ordered
  <2> QED
    BY <2>5, <2>6, OrderedChunks
<1> QED
    BY <1>7, <1>8

(* A buffer of MsQuic's is the next chunk.                                 *)
LEMMA AppendKeepsOrder ==
    ASSUME NEW cs \in Seq(Chunk), Ordered(cs), NEW d \in Nat, NEW n \in Nat \ {0},
           cs # <<>> => cs[Len(cs)].to = d,
           NEW new \in Chunk, new.from = d + 1, new.to = d + n
    PROVE  /\ cs = <<>> => InOrder(Append(cs, new), d + 1, d + n)
           /\ cs # <<>> => InOrder(Append(cs, new), cs[1].from, d + n)
<1> DEFINE ds == Append(cs, new)
<1>1. Len(cs) \in Nat /\ (cs = <<>> <=> Len(cs) = 0)
    BY LenProperties, EmptySeq
<1>2. new \in Chunk /\ new.from = d + 1 /\ new.to = d + n
    OBVIOUS
<1>3. /\ ds \in Seq(Chunk) /\ ds # <<>> /\ Len(ds) = Len(cs) + 1
      /\ \A i \in 1 .. Len(cs) : ds[i] = cs[i]
      /\ ds[Len(cs) + 1] = new
    BY <1>1, <1>2, AppendProperties
<1> HIDE DEF ds
<1>4. \A i \in 1 .. Len(cs) : cs[i].from \in Nat /\ cs[i].to \in Nat /\ cs[i].to <= d
  <2> TAKE i \in 1 .. Len(cs)
  <2>1. /\ cs[i].from \in Nat /\ cs[i].to \in Nat /\ cs[Len(cs)].to = d
        /\ cs[Len(cs)].from <= cs[Len(cs)].to /\ cs[Len(cs)].from \in Nat
        /\ i < Len(cs) => cs[i].to < cs[Len(cs)].from
    BY <1>1 DEF Ordered
  <2>2. i = Len(cs) \/ i < Len(cs)
    BY <1>1
  <2> QED
    BY <2>1, <2>2
<1>5. \A i \in 1 .. Len(ds) : ds[i].from \in Nat /\ ds[i].to \in Nat /\ ds[i].from <= ds[i].to
  <2> TAKE i \in 1 .. Len(ds)
  <2>1. i \in 1 .. Len(cs) \/ i = Len(cs) + 1
    BY <1>1, <1>3
  <2>2. CASE i \in 1 .. Len(cs)
    BY <2>2, <1>3 DEF Ordered
  <2>3. CASE i = Len(cs) + 1
    BY <2>3, <1>2, <1>3
  <2> QED
    BY <2>1, <2>2, <2>3
<1>6. \A i \in 1 .. Len(ds) : i < Len(ds) => ds[i + 1].from = ds[i].to + 1
  <2> SUFFICES ASSUME NEW i \in 1 .. Len(ds), i < Len(ds)
               PROVE  ds[i + 1].from = ds[i].to + 1
    OBVIOUS
  <2>1. i \in 1 .. Len(cs) /\ ds[i] = cs[i] /\ (i < Len(cs) \/ i = Len(cs))
    BY <1>1, <1>3
  <2>2. CASE i < Len(cs)
    <3>1. i + 1 \in 1 .. Len(cs)
      BY <2>1, <2>2, <1>1
    <3> QED
      BY <2>1, <2>2, <3>1, <1>3 DEF Ordered
  <2>3. CASE i = Len(cs)
    BY <2>1, <2>3, <1>1, <1>2, <1>3
  <2> QED
    BY <2>1, <2>2, <2>3
<1>7. \A i, j \in 1 .. Len(ds) : i < j => ds[i].to < ds[j].from
  <2> SUFFICES ASSUME NEW i \in 1 .. Len(ds), NEW j \in 1 .. Len(ds), i < j
               PROVE  ds[i].to < ds[j].from
    OBVIOUS
  <2>1. i \in 1 .. Len(cs) /\ ds[i] = cs[i] /\ (j \in 1 .. Len(cs) \/ j = Len(cs) + 1)
    BY <1>1, <1>3
  <2>2. CASE j \in 1 .. Len(cs)
    BY <2>1, <2>2, <1>3 DEF Ordered
  <2>3. CASE j = Len(cs) + 1
    BY <2>1, <2>3, <1>2, <1>3, <1>4
  <2> QED
    BY <2>1, <2>2, <2>3
<1>8. Ordered(ds)
    BY <1>5, <1>6, <1>7 DEF Ordered
<1>9. ds[Len(ds)].to = d + n
    BY <1>1, <1>2, <1>3
<1>10. /\ cs = <<>> => ds[1].from = d + 1
       /\ cs # <<>> => ds[1].from = cs[1].from
    BY <1>1, <1>2, <1>3
<1> QED
    BY <1>3, <1>8, <1>9, <1>10 DEF ds, InOrder

LEMMA ReceiveInOrder ==
    ASSUME ChunksInv, delivered \in Nat, queued \in Nat,
           NEW n \in Nat \ {0}, Receive(n)
    PROVE  ChunksInv'
<1> DEFINE new == [from |-> delivered + 1, to |-> delivered + n]
<1>1. /\ Ordered(chunks) /\ chunks \in Seq(Chunk)
      /\ chunks = <<>> => queued = 0
      /\ chunks # <<>> => /\ Len(chunks) >= 1 /\ Len(chunks) \in Nat
                          /\ chunks[Len(chunks)].to = delivered
                          /\ queued = delivered - chunks[1].from + 1
    BY ChunksOrdered DEF ChunksInv
<1>2. /\ chunks' = Append(chunks, new)
      /\ delivered' = delivered + n /\ queued' = queued + n
    BY DEF Receive
<1>3. /\ chunks = <<>> => InOrder(chunks', delivered + 1, delivered + n)
      /\ chunks # <<>> => InOrder(chunks', chunks[1].from, delivered + n)
  <2>1. new \in Chunk /\ new.from = delivered + 1 /\ new.to = delivered + n
    BY DEF Chunk
  <2> HIDE DEF new
  <2>2. /\ chunks \in Seq(Chunk) /\ Ordered(chunks) /\ delivered \in Nat /\ n \in Nat \ {0}
        /\ chunks # <<>> => chunks[Len(chunks)].to = delivered
    BY <1>1
  <2>3. /\ chunks = <<>> => InOrder(Append(chunks, new), delivered + 1, delivered + n)
        /\ chunks # <<>> => InOrder(Append(chunks, new), chunks[1].from, delivered + n)
    BY <2>1, <2>2, AppendKeepsOrder, Zenon
  <2> QED
    BY <1>2, <2>3
<1>4. delivered + n \in Nat /\ n \in Nat
    OBVIOUS
<1>5. queued + n = (delivered + n) - chunks'[1].from + 1
  <2>1. CASE chunks = <<>>
    BY <1>1, <1>3, <1>4, <2>1 DEF InOrder
  <2>2. CASE chunks # <<>>
    <3>1. 1 \in 1 .. Len(chunks) /\ chunks[1].from \in Nat
      BY <1>1, <2>2 DEF Ordered
    <3>2. chunks'[1].from = chunks[1].from /\ queued = delivered - chunks[1].from + 1
      BY <1>1, <1>3, <2>2 DEF InOrder
    <3> QED
      BY <3>1, <3>2, <1>4
  <2> QED
    BY <2>1, <2>2
<1> QED
  <2> DEFINE ds == chunks'
  <2>1. /\ ds \in Seq(Chunk) /\ ds # <<>> /\ Ordered(ds) /\ chunks' = ds
        /\ ds[Len(ds)].to = delivered + n /\ queued + n = (delivered + n) - ds[1].from + 1
    BY <1>3, <1>5 DEF InOrder
  <2> HIDE DEF ds
  <2> QED
    BY <1>2, <1>4, <2>1, OrderedChunks, Zenon

-----------------------------------------------------------------------------
LEMMA ConstantsPositive ==
    /\ Block \in Nat /\ Block >= 1 /\ MaxPending \in Nat /\ MaxPending >= 1
    /\ Multisend \in Nat /\ Multisend >= 1
    BY QuicStreamAssumption

LEMMA StreamInit == Init => StreamInv
<1> SUFFICES ASSUME Init PROVE StreamInv
    OBVIOUS
<1>1. {slock, rlock, scancel, rcancel, sfin, rfin, sdone, rdone} \subseteq BOOLEAN
    BY Zenon DEF Init
<1>2. {flight, submitted, delivered, queued, bytes_sent, bytes_received} \subseteq Nat
    BY DEF Init
<1>3. burst \in 0 .. Multisend /\ got \in 0 .. Block /\ pending \in 0 .. MaxPending
    BY ConstantsPositive DEF Init
<1>4. TypeOK
    BY <1>1, <1>2, <1>3 DEF Init, TypeOK, Pcs
<1>5. PendingMatches
    BY <1>4 DEF Init, PendingMatches
<1>6. SenderInv /\ ReceiverInv /\ BytesInv
    BY DEF Init, SenderInv, ReceiverInv, BytesInv
<1>7. ChunksInv
    BY EmptySeq DEF Init, ChunksInv, QueueInOrder
<1> QED
    BY <1>5, <1>6, <1>7 DEF StreamInv, CountersInv

(* Every step keeps the counters in step, one action at a time.            *)
LEMMA CountersStep == StreamInv /\ [Next]_vars => CountersInv'
<1> SUFFICES ASSUME StreamInv, [Next]_vars
             PROVE  CountersInv'
    OBVIOUS
<1> USE ConstantsPositive
    DEF StreamInv, CountersInv, PendingMatches, TypeOK, SenderInv, ReceiverInv, BytesInv, Pcs,
        sender, receiver, sctx, rctx, net, ends, counts
<1>1. CASE SendLoop
    BY <1>1 DEF SendLoop
<1>2. CASE SendCall
  <2>0. /\ spc = "call"
        /\ UNCHANGED <<slock, burst, receiver, sctx, rctx, net, ends, counts>>
    BY <1>2 DEF SendCall
  <2>1. CASE BurstOver
    BY <2>0, <2>1 DEF BurstOver
  <2>2. CASE burst > 0 /\ spc' = "lock" /\ scancel' = FALSE
    <3>1. {slock, rlock, scancel, rcancel, sfin, rfin, sdone, rdone}' \subseteq BOOLEAN
      BY <2>0, <2>2, Zenon
    <3>2. TypeOK'
      BY <2>0, <2>2, <3>1
    <3>3. PendingMatches'
      BY <2>0, <2>2, <3>2
    <3>4. SenderInv' /\ ReceiverInv' /\ BytesInv'
      BY <2>0, <2>2
    <3> QED
      BY <3>3, <3>4
  <2> QED
    BY <1>2, <2>1, <2>2 DEF SendCall
<1>3. CASE SendLock
    BY <1>3 DEF SendLock
<1>4. CASE SendCond
  <2>1. /\ spc = "cond" /\ slock' = FALSE
        /\ UNCHANGED <<burst, receiver, sfin, rctx, net, ends, counts>>
    BY <1>4 DEF SendCond
  <2>2. CASE spc' = "asleep" /\ UNCHANGED <<scancel, pending>>
    BY <2>1, <2>2
  <2>3. CASE spc' = "ret" /\ scancel' = TRUE /\ UNCHANGED pending
    <3>1. {slock, rlock, scancel, rcancel, sfin, rfin, sdone, rdone}' \subseteq BOOLEAN
      BY <2>1, <2>3, Zenon
    <3>2. TypeOK'
      BY <2>1, <2>3, <3>1
    <3>3. PendingMatches'
      BY <2>1, <2>3, <3>2
    <3>4. SenderInv' /\ ReceiverInv' /\ BytesInv'
      BY <2>1, <2>3
    <3> QED
      BY <3>3, <3>4
  <2>4. CASE /\ ~Throttled /\ spc' = "submit" /\ pending' = pending + 1
             /\ UNCHANGED scancel
    <3>1. {slock, rlock, scancel, rcancel, sfin, rfin, sdone, rdone}' \subseteq BOOLEAN
      BY <2>1, <2>4, Zenon
    <3>2. pending' \in 0 .. MaxPending /\ pending' = pending + 1
      BY <2>4 DEF Throttled
    <3>3. spc' = "submit" /\ UNCHANGED scancel
      BY <2>4
    <3>4. TypeOK'
      BY <2>1, <3>1, <3>2, <3>3
    <3>5. PendingMatches'
      BY <2>1, <3>2, <3>3, <3>4
    <3>6. SenderInv' /\ ReceiverInv' /\ BytesInv'
      BY <2>1, <3>3
    <3> QED
      BY <3>5, <3>6
  <2>5. \/ spc' = "asleep" /\ UNCHANGED <<scancel, pending>>
        \/ spc' = "ret" /\ scancel' = TRUE /\ UNCHANGED pending
        \/ /\ ~Throttled /\ spc' = "submit" /\ pending' = pending + 1
           /\ UNCHANGED scancel
    BY <1>4, Zenon DEF SendCond
  <2> QED
    BY <2>2, <2>3, <2>4, <2>5, Zenon
<1>5. CASE SendTimeout
    BY <1>5 DEF SendTimeout
<1>6. CASE StreamSend
    BY <1>6 DEF StreamSend, Accepted
<1>7. CASE StreamSendFailed
    BY <1>7 DEF StreamSendFailed
<1>8. CASE CountSent
    BY <1>8 DEF CountSent
<1>9. CASE SendReturn
    BY <1>9 DEF SendReturn
<1>10. CASE RecvLoop
    BY <1>10 DEF RecvLoop
<1>11. CASE RecvLock
    BY <1>11 DEF RecvLock
<1>12. CASE RecvTimeout
    BY <1>12 DEF RecvTimeout, RecvDeadline
<1>13. CASE RecvReturn
    BY <1>13 DEF RecvReturn
<1>14. CASE SendComplete
    BY <1>14 DEF SendComplete, SenderWoken
<1>15. CASE SenderShutdown
    BY <1>15 DEF SenderShutdown, SenderWoken
<1>16. CASE ReceiverShutdown
    BY <1>16 DEF ReceiverShutdown, ReceiverWoken
<1>17. CASE ConnLost
    BY <1>17 DEF ConnLost
<1>18. CASE EndTest
    BY <1>18 DEF EndTest
<1>19. CASE SenderCancelled
    BY <1>19 DEF SenderCancelled
<1>20. CASE TestEnd
    BY <1>20 DEF TestEnd
<1>21. CASE ServerDone
    BY <1>21 DEF ServerDone
<1>22. CASE ReceiverCancelled
    BY <1>22 DEF ReceiverCancelled
(* A copy takes no more than there is, and no more than a block.           *)
<1>23. CASE RecvCond
  <2>1. /\ rpc = "cond" /\ rlock' = FALSE
        /\ UNCHANGED <<sender, sctx, rfin, net, ends, counts>>
    BY <1>23 DEF RecvCond
  <2>2. CASE rpc' = "asleep" /\ UNCHANGED <<rcancel, got, chunks, queued>>
    BY <2>1, <2>2
  <2>3. CASE rpc' = "ret" /\ got' = 0 /\ rcancel' = TRUE /\ UNCHANGED <<chunks, queued>>
    <3>1. {slock, rlock, scancel, rcancel, sfin, rfin, sdone, rdone}' \subseteq BOOLEAN
      BY <2>1, <2>3, Zenon
    <3>2. TypeOK'
      BY <2>1, <2>3, <3>1
    <3>3. PendingMatches'
      BY <2>1, <2>3, <3>2
    <3>4. SenderInv' /\ ReceiverInv' /\ BytesInv'
      BY <2>1, <2>3
    <3> QED
      BY <3>3, <3>4
  <2>4. CASE /\ queued > 0 /\ got' = (IF queued < Block THEN queued ELSE Block)
             /\ queued' = queued - got' /\ rpc' = "ret" /\ rcancel' = TRUE
    <3>1. got' \in 0 .. Block /\ queued' \in Nat /\ queued' + got' = queued
      BY <2>4
    <3>2. rpc' = "ret" /\ rcancel' = TRUE
      BY <2>4
    <3>3. {slock, rlock, scancel, rcancel, sfin, rfin, sdone, rdone}' \subseteq BOOLEAN
      BY <2>1, <3>1, <3>2, Zenon
    <3>4. TypeOK'
      BY <2>1, <3>1, <3>2, <3>3
    <3>5. PendingMatches'
      BY <2>1, <3>1, <3>2, <3>4
    <3>6. SenderInv' /\ ReceiverInv' /\ BytesInv'
      BY <2>1, <3>1, <3>2
    <3> QED
      BY <3>5, <3>6
  <2> QED
    BY <1>23, <2>2, <2>3, <2>4 DEF RecvCond
<1>24. ASSUME NEW n \in 1 .. Block, Receive(n)
      PROVE  CountersInv'
  <2>1. /\ ~rlock /\ delivered + n <= submitted /\ delivered' = delivered + n
        /\ queued' = queued + n /\ ReceiverWoken
        /\ UNCHANGED <<rlock, rcancel, got, sender, sctx, rfin, flight, submitted,
                       conn, ends, counts>>
    BY <1>24 DEF Receive
  <2>2. delivered' \in Nat /\ queued' \in Nat
    BY <2>1
  <2> QED
    BY <2>1, <2>2 DEF ReceiverWoken
<1>25. CASE UNCHANGED vars
    BY <1>25 DEF vars
<1> QED
    BY <1>1, <1>2, <1>3, <1>4, <1>5, <1>6, <1>7, <1>8, <1>9, <1>10, <1>11, <1>12, <1>13, <1>14, <1>15, <1>16, <1>17, <1>18, <1>19, <1>20, <1>21, <1>22, <1>23, <1>24, <1>25
    DEF Next, Sender, Receiver, Callbacks, Main

(* The queue changes only in RECEIVE and in the copy.                      *)
LEMMA ChunksStep == StreamInv /\ [Next]_vars => ChunksInv'
<1> SUFFICES ASSUME StreamInv, [Next]_vars
             PROVE  ChunksInv'
    OBVIOUS
<1>1. delivered \in Nat /\ queued \in Nat
    BY DEF StreamInv, CountersInv, PendingMatches, TypeOK
<1>2. CASE UNCHANGED <<chunks, queued, delivered>>
    BY <1>2 DEF StreamInv, ChunksInv, QueueInOrder
<1>3. CASE RecvCond
  <2>1. CASE queued = 0
    BY <1>2, <1>3, <2>1 DEF RecvCond, net
  <2>2. CASE queued > 0
    <3>1. /\ got' \in 1 .. queued /\ chunks' = AfterCopy(got')
          /\ queued' = queued - got' /\ UNCHANGED delivered
      BY <1>1, <1>3, <2>2, QuicStreamAssumption DEF RecvCond, net
    <3>2. chunks # <<>>
      BY <2>2 DEF StreamInv, ChunksInv, QueueInOrder
    <3> QED
      BY <1>1, <3>1, <3>2, AfterCopyInOrder DEF StreamInv
  <2> QED
    BY <1>1, <2>1, <2>2
<1>4. ASSUME NEW n \in 1 .. Block, Receive(n)
      PROVE  ChunksInv'
    BY <1>1, <1>4, ReceiveInOrder, QuicStreamAssumption DEF StreamInv
<1>5. CASE Sender
    BY <1>2, <1>5 DEF Sender, SendLoop, SendCall, SendLock, SendCond, SendTimeout, StreamSend,
        Accepted, StreamSendFailed, CountSent, SendReturn, rctx, net
<1>6. CASE RecvLoop \/ RecvLock \/ RecvTimeout \/ RecvReturn
    BY <1>2, <1>6 DEF RecvLoop, RecvLock, RecvTimeout, RecvReturn, rctx, net
<1>7. CASE SendComplete \/ SenderShutdown \/ ReceiverShutdown \/ ConnLost \/ EndTest \/ Main
    BY <1>2, <1>7 DEF SendComplete, SenderShutdown, ReceiverShutdown, ConnLost, EndTest, Main,
        SenderCancelled, TestEnd, ServerDone, ReceiverCancelled, rctx, net
<1>8. CASE UNCHANGED vars
    BY <1>2, <1>8 DEF vars, rctx, net
<1> QED
    BY <1>3, <1>4, <1>5, <1>6, <1>7, <1>8 DEF Next, Receiver, Callbacks

LEMMA StreamInvariant == Spec => []StreamInv
<1>1. StreamInv /\ [Next]_vars => StreamInv'
    BY CountersStep, ChunksStep DEF StreamInv
<1> QED
    BY StreamInit, <1>1, PTL DEF Spec

-----------------------------------------------------------------------------
(* pending_sends is what MsQuic holds and the worker is about to submit:   *)
(* iperf_quic_send, SEND_COMPLETE and the shut-down never lose count, but  *)
(* for the place of a StreamSend that failed.                              *)
THEOREM PendingCounted == Spec => []PendingMatches
<1>1. StreamInv => PendingMatches
    BY DEF StreamInv, CountersInv
<1> QED
    BY StreamInvariant, <1>1, PTL

(* No worker of iperf_quic_send or iperf_quic_recv ends, by itself or by   *)
(* pthread_cancel, with sc->lock held.                                     *)
THEOREM LocksReleased == Spec => []NoOrphanLock
<1>1. StreamInv => NoOrphanLock
    BY DEF StreamInv, CountersInv, SenderInv, ReceiverInv, NoOrphanLock
<1> QED
    BY StreamInvariant, <1>1, PTL

(* The receiver never counts a byte that the sender, once it has ended,    *)
(* has not counted, and copies the bytes in the order they were sent.      *)
THEOREM ReceivedAtMostSent == Spec => []ReceivedWereSent
<1>1. StreamInv => ReceivedWereSent
    BY DEF StreamInv, CountersInv, ChunksInv, PendingMatches, TypeOK, SenderInv, BytesInv,
        ReceivedWereSent
<1> QED
    BY StreamInvariant, <1>1, PTL
=============================================================================
