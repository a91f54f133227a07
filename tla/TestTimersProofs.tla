-------------------------- MODULE TestTimersProofs ---------------------------
(***************************************************************************)
(* Proofs about the timers of a test, for any number of tests, every       *)
(* duration, omitted part and interval, and a loop that is late by any     *)
(* amount: the list survives what the procedures do to it in the middle of *)
(* a walk, and the statistics and the reports keep step.                   *)
(***************************************************************************)
EXTENDS TestTimers, SequenceTheorems, WellFoundedInduction, TLAPS

-----------------------------------------------------------------------------
(* The inductive invariant.                                                *)

Struct == [time : Nat, usecs : Nat, periodic : BOOLEAN, proc : Kind \cup {"none"}]
Lists == [timers : Seq(Timer), free_timers : Seq(Timer), tmr : [Timer -> Struct]]
OnceOnly(s) == \A i, j \in DOMAIN s : s[i] = s[j] => i = j
WellFormed(L) ==
    /\ L \in Lists /\ Sorted(L) /\ Disjoint(L)
    /\ OnceOnly(L.timers) /\ OnceOnly(L.free_timers)

Before(L, t, u) ==
    \E i, j \in DOMAIN L.timers : i < j /\ L.timers[i] = t /\ L.timers[j] = u

Periodic == {"stats", "reporter"}
InTest == pc \in {"loop", "run"}

(* The active timers are those of the test, as they were made.             *)
HeldAs(L, h, i, k) ==
    h # NULL =>
        /\ h \in Active(L) /\ L.tmr[h].proc = k
        /\ L.tmr[h].periodic <=> k \in Periodic
        /\ k \in Periodic => L.tmr[h].usecs = i
HandlesInv ==
    /\ handle \in [Kind -> Timer \cup {NULL}]
    /\ \A t \in Active(list) : \E k \in Kind : handle[k] = t
    /\ \A k \in Kind : HeldAs(list, handle[k], interval, k)
    /\ InTest => \A k \in Periodic : handle[k] = NULL <=> interval = 0
    /\ ~InTest => handle = NoHandles

(* The omit timer is due before the test timer, and so runs before it.     *)
OmitInv ==
    /\ InTest /\ duration # 0 /\ handle["test"] = NULL => ~omitting /\ handle["omit"] = NULL
    /\ omitting /\ InTest => handle["omit"] # NULL
    /\ handle["omit"] # NULL /\ handle["test"] # NULL
        => Time(list, handle["omit"]) < Time(list, handle["test"])

(* The stats timer and the reporter timer expire together, the stats timer *)
(* first and nothing between them; or the stats timer has just run, the    *)
(* reporter timer is next, and what expires no later than the stats timer  *)
(* will again is in front of it.  A test that ends between the two leaves  *)
(* a last interval without its report.                                     *)
Others(L, s, r) == Active(L) \ {s, r}
Together(L, s, r) ==
    /\ Time(L, s) = Time(L, r) /\ Before(L, s, r)
    /\ \A t \in Others(L, s, r) : Before(L, t, s) \/ Before(L, r, t)
Between(L, s, r, i) ==
    /\ Time(L, s) = Time(L, r) + i /\ Before(L, r, s)
    /\ \A t \in Others(L, s, r) : Time(L, t) <= Time(L, s) => Before(L, t, s)
PairInv ==
    LET s == handle["stats"]
        r == handle["reporter"]
    IN  InTest /\ interval # 0 =>
        \/ Together(list, s, r) /\ (stats = reports \/ (done /\ stats = reports + 1))
        \/ /\ Between(list, s, r, interval)
           /\ pc = "run" /\ cur = r /\ Expired(list, r, now)
           /\ stats = reports + 1 \/ (done /\ stats = reports)

CountInv ==
    /\ base <= now
    /\ InTest /\ interval = 0 => stats = 0 /\ reports = 0
    /\ InTest /\ interval # 0 /\ ~done =>
        /\ Time(list, handle["stats"]) = base + (stats + 1) * interval
        /\ base + stats * interval <= now

(* The walk is at the head of the list, or at a timer that is not due.     *)
WalkInv ==
    /\ pc # "run" => cur = NULL
    /\ cur # NULL => /\ cur \in Active(list)
                     /\ Expired(list, cur, now) => cur = First(list)

TimersInv ==
    /\ TypeOK /\ WellFormed(list)
    /\ HandlesInv /\ OmitInv /\ PairInv /\ CountInv /\ WalkInv

-----------------------------------------------------------------------------
(* Sequences.                                                              *)

LEMMA LeastNat == ASSUME NEW U, U \subseteq Nat, U # {} PROVE Min(U) \in U /\ \A n \in U : Min(U) <= n
<1> DEFINE less == {p \in Nat \X Nat : p[1] < p[2]}
<1>1. IsWellFoundedOn(less, Nat)
    BY NatLessThanWellFounded, Zenon DEF OpToRel
<1>2. PICK m \in U : \A n \in U : <<n, m>> \notin less
    BY <1>1, WFMin
<1>3. ASSUME NEW n \in U PROVE m <= n
    <2>1. n \in Nat /\ m \in Nat
        OBVIOUS
    <2>2. n < m => <<n, m>> \in less
        BY <2>1
    <2> QED BY <1>2, <2>1, <2>2
<1> QED BY <1>3 DEF Min

LEMMA Joined ==
    ASSUME NEW T, NEW a \in Seq(T), NEW b \in Seq(T), NEW m \in Nat, NEW n \in Nat, m <= n,
           Len(a) = m, Len(b) = n - m
    PROVE  /\ a \o b \in Seq(T) /\ Len(a \o b) = n
           /\ \A i \in 1 .. m : (a \o b)[i] = a[i]
           /\ \A i \in m + 1 .. n : (a \o b)[i] = b[i - m]
    OBVIOUS

LEMMA Inserted ==
    ASSUME NEW T, NEW s \in Seq(T), NEW e \in T, NEW n \in 1 .. Len(s) + 1
    PROVE  /\ InsertAt(s, n, e) \in Seq(T) /\ Len(InsertAt(s, n, e)) = Len(s) + 1
           /\ \A i \in 1 .. n - 1 : InsertAt(s, n, e)[i] = s[i]
           /\ InsertAt(s, n, e)[n] = e
           /\ \A i \in n + 1 .. Len(s) + 1 : InsertAt(s, n, e)[i] = s[i - 1]
<1> DEFINE a == SubSeq(s, 1, n - 1)
           b == SubSeq(s, n, Len(s))
<1>1. a \in Seq(T) /\ Len(a) = n - 1 /\ \A i \in 1 .. n - 1 : a[i] = s[i]
    OBVIOUS
<1>2. b \in Seq(T) /\ Len(b) = Len(s) - n + 1 /\ \A i \in 1 .. Len(s) - n + 1 : b[i] = s[n + i - 1]
    OBVIOUS
<1>3. InsertAt(s, n, e) = (a \o <<e>>) \o b
    BY DEF InsertAt
<1> HIDE DEF a, b
<1>4. /\ a \o <<e>> \in Seq(T) /\ Len(a \o <<e>>) = n /\ (a \o <<e>>)[n] = e
      /\ \A i \in 1 .. n - 1 : (a \o <<e>>)[i] = s[i]
    BY <1>1
<1> DEFINE ab == a \o <<e>>
<1> HIDE DEF ab
<1>5. /\ ab \o b \in Seq(T) /\ Len(ab \o b) = Len(s) + 1
      /\ \A i \in 1 .. n : (ab \o b)[i] = ab[i]
      /\ \A i \in n + 1 .. Len(s) + 1 : (ab \o b)[i] = b[i - n]
    <2>1. ab \in Seq(T) /\ Len(ab) = n
        BY <1>4 DEF ab
    <2>2. b \in Seq(T) /\ Len(b) = (Len(s) + 1) - n /\ Len(s) + 1 \in Nat /\ n <= Len(s) + 1
        BY <1>2
    <2> QED BY <2>1, <2>2, Joined
<1>6. \A i \in n + 1 .. Len(s) + 1 : b[i - n] = s[i - 1]
    BY <1>2
<1> QED BY <1>3, <1>4, <1>5, <1>6 DEF ab

LEMMA Removed ==
    ASSUME NEW T, NEW s \in Seq(T), NEW n \in 1 .. Len(s)
    PROVE  /\ RemoveAt(s, n) \in Seq(T) /\ Len(RemoveAt(s, n)) = Len(s) - 1
           /\ \A i \in 1 .. n - 1 : RemoveAt(s, n)[i] = s[i]
           /\ \A i \in n .. Len(s) - 1 : RemoveAt(s, n)[i] = s[i + 1]
<1> DEFINE a == SubSeq(s, 1, n - 1)
           b == SubSeq(s, n + 1, Len(s))
<1>1. a \in Seq(T) /\ Len(a) = n - 1 /\ \A i \in 1 .. n - 1 : a[i] = s[i]
    OBVIOUS
<1>2. b \in Seq(T) /\ Len(b) = Len(s) - n /\ \A i \in 1 .. Len(s) - n : b[i] = s[n + i]
    OBVIOUS
<1>3. RemoveAt(s, n) = a \o b
    BY DEF RemoveAt
<1> HIDE DEF a, b
<1>4. /\ a \o b \in Seq(T) /\ Len(a \o b) = Len(s) - 1
      /\ \A i \in 1 .. n - 1 : (a \o b)[i] = a[i]
      /\ \A i \in n .. Len(s) - 1 : (a \o b)[i] = b[i - (n - 1)]
    <2>0. a \in Seq(T) /\ b \in Seq(T)
        BY <1>1, <1>2
    <2>1. a \o b \in Seq(T) /\ Len(a \o b) = Len(a) + Len(b)
        BY <2>0, ConcatProperties
    <2>4. Len(a) + Len(b) = Len(s) - 1
        BY <1>1, <1>2
    <2>2. ASSUME NEW i \in 1 .. n - 1 PROVE (a \o b)[i] = a[i]
        BY <1>1, <1>2
    <2>3. ASSUME NEW i \in n .. Len(s) - 1 PROVE (a \o b)[i] = b[i - (n - 1)]
        BY <1>1, <1>2
    <2> QED BY <2>1, <2>2, <2>3, <2>4
<1>5. \A i \in n .. Len(s) - 1 : b[i - (n - 1)] = s[i + 1]
    BY <1>2
<1> QED BY <1>1, <1>3, <1>4, <1>5

-----------------------------------------------------------------------------
(* The order of a list.                                                    *)

LEMMA ListFacts ==
    ASSUME NEW L \in Lists
    PROVE  /\ L.timers \in Seq(Timer) /\ L.free_timers \in Seq(Timer) /\ L.tmr \in [Timer -> Struct]
           /\ Len(L.timers) \in Nat /\ DOMAIN L.timers = 1 .. Len(L.timers)
           /\ \A i \in DOMAIN L.timers : L.timers[i] \in Timer
           /\ \A t : t \in Active(L) <=> \E i \in 1 .. Len(L.timers) : L.timers[i] = t
           /\ \A t : t \in Freed(L) <=> \E i \in 1 .. Len(L.free_timers) : L.free_timers[i] = t
           /\ Active(L) \subseteq Timer /\ Freed(L) \subseteq Timer
           /\ \A t \in Timer : Time(L, t) \in Nat
<1>1. L.timers \in Seq(Timer) /\ L.free_timers \in Seq(Timer) /\ L.tmr \in [Timer -> Struct]
    BY DEF Lists
<1>2. /\ \A t : t \in Active(L) <=> \E i \in 1 .. Len(L.timers) : L.timers[i] = t
      /\ \A t : t \in Freed(L) <=> \E i \in 1 .. Len(L.free_timers) : L.free_timers[i] = t
    BY <1>1 DEF Active, Freed, ToSet
<1>3. \A t \in Timer : Time(L, t) \in Nat
    BY <1>1 DEF Time, Struct
<1>4. /\ Len(L.timers) \in Nat /\ DOMAIN L.timers = 1 .. Len(L.timers)
      /\ \A i \in 1 .. Len(L.timers) : L.timers[i] \in Timer
      /\ \A i \in 1 .. Len(L.free_timers) : L.free_timers[i] \in Timer
    BY <1>1
<1>5. Active(L) \subseteq Timer /\ Freed(L) \subseteq Timer
    BY <1>2, <1>4
<1> QED BY <1>1, <1>2, <1>3, <1>4, <1>5

LEMMA OrderFacts ==
    ASSUME NEW L, WellFormed(L), NEW t, NEW u
    PROVE  /\ Before(L, t, u) => /\ t \in Active(L) /\ u \in Active(L) /\ t # u
                                 /\ ~Before(L, u, t) /\ Time(L, t) <= Time(L, u)
           /\ t \in Active(L) /\ u \in Active(L) /\ t # u => Before(L, t, u) \/ Before(L, u, t)
<1>1. /\ L \in Lists /\ OnceOnly(L.timers) /\ Sorted(L)
    BY DEF WellFormed
<1>2. ASSUME Before(L, t, u)
      PROVE  /\ t \in Active(L) /\ u \in Active(L) /\ t # u
             /\ ~Before(L, u, t) /\ Time(L, t) <= Time(L, u)
    <2>1. PICK i, j \in DOMAIN L.timers : i < j /\ L.timers[i] = t /\ L.timers[j] = u
        BY <1>2 DEF Before
    <2>2. t \in Active(L) /\ u \in Active(L) /\ i \in Nat /\ j \in Nat
        BY <1>1, <2>1, ListFacts
    <2>3. Time(L, t) <= Time(L, u)
        BY <1>1, <2>1 DEF Sorted
    <2>4. t # u
        BY <1>1, <2>1, <2>2 DEF OnceOnly
    <2>5. ASSUME Before(L, u, t) PROVE FALSE
        <3>1. PICK m, n \in DOMAIN L.timers : m < n /\ L.timers[m] = u /\ L.timers[n] = t
            BY <2>5 DEF Before
        <3>2. m = j /\ n = i
            BY <1>1, <2>1, <3>1 DEF OnceOnly
        <3> QED BY <2>1, <2>2, <3>1, <3>2
    <2> QED BY <2>2, <2>3, <2>4, <2>5
<1>3. ASSUME t \in Active(L), u \in Active(L), t # u PROVE Before(L, t, u) \/ Before(L, u, t)
    <2>1. PICK i \in 1 .. Len(L.timers) : L.timers[i] = t
        BY <1>1, <1>3, ListFacts
    <2>2. PICK j \in 1 .. Len(L.timers) : L.timers[j] = u
        BY <1>1, <1>3, ListFacts
    <2>3. i # j /\ i \in DOMAIN L.timers /\ j \in DOMAIN L.timers /\ i \in Nat /\ j \in Nat
        BY <1>1, <1>3, <2>1, <2>2, ListFacts
    <2>4. i < j \/ j < i
        BY <2>3
    <2> QED BY <2>1, <2>2, <2>3, <2>4 DEF Before
<1> QED BY <1>2, <1>3

LEMMA FirstFacts ==
    ASSUME NEW L, WellFormed(L)
    PROVE  /\ First(L) = NULL <=> Active(L) = {}
           /\ First(L) # NULL => /\ First(L) \in Active(L)
                                 /\ \A t \in Active(L) : t # First(L) => Before(L, First(L), t)
           /\ \A t \in Active(L) : (\A u \in Active(L) : u # t => Before(L, t, u)) => t = First(L)
<1>1. L \in Lists
    BY DEF WellFormed
<1>2. CASE L.timers = <<>>
    BY <1>1, <1>2, ListFacts DEF First
<1>3. CASE L.timers # <<>>
    <2>0. Len(L.timers) \in Nat /\ DOMAIN L.timers = 1 .. Len(L.timers)
        BY <1>1, ListFacts
    <2>1. 1 \in 1 .. Len(L.timers) /\ First(L) = L.timers[1]
        BY <1>1, <1>3, ListFacts DEF First
    <2>2. First(L) \in Active(L) /\ First(L) # NULL
        BY <1>1, <2>0, <2>1, ListFacts, TimersAssumption
    <2>3. ASSUME NEW t \in Active(L), t # First(L) PROVE Before(L, First(L), t)
        <3>1. PICK i \in 1 .. Len(L.timers) : L.timers[i] = t
            BY <1>1, ListFacts
        <3>2. i # 1 /\ 1 < i
            BY <2>1, <2>3, <3>1
        <3> QED BY <2>0, <2>1, <3>1, <3>2 DEF Before
    <2>4. ASSUME NEW t \in Active(L), \A u \in Active(L) : u # t => Before(L, t, u)
          PROVE  t = First(L)
        BY <2>2, <2>3, <2>4, OrderFacts
    <2> QED BY <2>2, <2>3, <2>4
<1> QED BY <1>2, <1>3

(* The walk goes from the head of the list to the next of the others.      *)
LEMMA NextFacts ==
    ASSUME NEW L, WellFormed(L), NEW t, t = First(L), t # NULL
    PROVE  \/ NextTimer(L, t) = NULL /\ Active(L) = {t}
           \/ /\ NextTimer(L, t) \in Active(L) \ {t}
              /\ \A u \in Active(L) \ {t, NextTimer(L, t)} : Before(L, NextTimer(L, t), u)
<1>1. L \in Lists /\ OnceOnly(L.timers)
    BY DEF WellFormed
<1>0. Len(L.timers) \in Nat /\ DOMAIN L.timers = 1 .. Len(L.timers)
    BY <1>1, ListFacts
<1>2. 1 \in 1 .. Len(L.timers) /\ t = L.timers[1]
    BY <1>1, ListFacts DEF First
<1>3. Place(L, t) = 1
    BY <1>0, <1>1, <1>2 DEF Place, OnceOnly
<1>4. CASE Len(L.timers) = 1
    <2>1. \A u \in Active(L) : u = t
        BY <1>1, <1>2, <1>4, ListFacts
    <2> QED BY <1>1, <1>2, <1>3, <1>4, <2>1, ListFacts DEF NextTimer
<1>5. CASE Len(L.timers) # 1
    <2>0. 2 \in 1 .. Len(L.timers)
        <3> DEFINE n == Len(L.timers)
        <3>1. n \in Nat /\ 1 \in 1 .. n /\ n # 1
            BY <1>0, <1>2, <1>5
        <3> HIDE DEF n
        <3>2. 2 \in 1 .. n
            BY <3>1
        <3> QED BY <3>2 DEF n
    <2>1. 2 \in 1 .. Len(L.timers) /\ NextTimer(L, t) = L.timers[2]
        <3>1. NextTimer(L, t) = L.timers[1 + 1]
            BY <1>3, <1>5, Zenon DEF NextTimer
        <3> QED BY <2>0, <3>1
    <2>2. NextTimer(L, t) \in Active(L) /\ NextTimer(L, t) # t
        BY <1>0, <1>1, <1>2, <2>1, ListFacts DEF OnceOnly
    <2>3. ASSUME NEW u \in Active(L) \ {t, NextTimer(L, t)} PROVE Before(L, NextTimer(L, t), u)
        <3>1. PICK i \in 1 .. Len(L.timers) : L.timers[i] = u
            BY <1>1, ListFacts
        <3>2. i # 1 /\ i # 2 /\ 2 < i
            BY <1>2, <2>1, <3>1
        <3> QED BY <1>0, <2>1, <3>1, <3>2 DEF Before
    <2> QED BY <2>2, <2>3
<1> QED BY <1>4, <1>5

-----------------------------------------------------------------------------
(* What the routines of timer.c do to a list.                              *)

LEMMA Relisted ==
    ASSUME NEW L \in Lists, NEW s \in Seq(Timer), NEW M, M = [L EXCEPT !.timers = s]
    PROVE  M \in Lists /\ M.timers = s /\ M.tmr = L.tmr /\ M.free_timers = L.free_timers
BY DEF Lists

(* L is as it should be, but for the place of t.                           *)
Loose(L, t) ==
    /\ L \in Lists /\ Disjoint(L) /\ OnceOnly(L.timers) /\ OnceOnly(L.free_timers)
    /\ \A i, j \in DOMAIN L.timers :
            i < j /\ L.timers[i] # t /\ L.timers[j] # t => Time(L, L.timers[i]) <= Time(L, L.timers[j])

LEMMA SuccessorFacts ==
    ASSUME NEW L, WellFormed(L), NEW t \in Timer
    PROVE  /\ Successor(L, t) \in 1 .. Len(L.timers) + 1
           /\ \A i \in 1 .. Len(L.timers) :
                /\ i < Successor(L, t) => Time(L, L.timers[i]) <= Time(L, t)
                /\ i >= Successor(L, t) => Time(L, t) < Time(L, L.timers[i])
<1> DEFINE U == {i \in DOMAIN L.timers : Time(L, t) < Time(L, L.timers[i])}
           n == Len(L.timers)
<1>0. L \in Lists /\ Sorted(L)
    BY DEF WellFormed
<1>1. n \in Nat /\ DOMAIN L.timers = 1 .. n /\ Time(L, t) \in Nat
    BY <1>0, ListFacts
<1>2. \A i \in 1 .. n : Time(L, L.timers[i]) \in Nat
    BY <1>0, ListFacts
<1>3. CASE U = {}
    <2>1. Successor(L, t) = n + 1
        BY <1>3 DEF Successor, FirstOf
    <2> QED BY <1>1, <1>2, <1>3, <2>1
<1>4. CASE U # {}
    <2> DEFINE m == Min(U)
    <2>1. Successor(L, t) = m
        BY <1>4 DEF Successor, FirstOf
    <2>2. U \subseteq Nat
        BY <1>1
    <2>3. m \in U /\ \A i \in U : m <= i
        <3> HIDE DEF U
        <3> QED BY <1>4, <2>2, LeastNat
    <2> HIDE DEF m
    <2>4. m \in 1 .. n /\ Time(L, t) < Time(L, L.timers[m])
        BY <1>1, <2>3
    <2>5. ASSUME NEW i \in 1 .. n, i < m PROVE Time(L, L.timers[i]) <= Time(L, t)
        <3>1. i \notin U
            BY <1>1, <2>3, <2>4, <2>5
        <3> QED BY <1>1, <1>2, <3>1
    <2>6. ASSUME NEW i \in 1 .. n, i >= m PROVE Time(L, t) < Time(L, L.timers[i])
        <3>1. i = m \/ m < i
            BY <2>4, <2>6
        <3>2. Time(L, L.timers[m]) <= Time(L, L.timers[i])
            BY <1>0, <1>1, <1>2, <2>4, <3>1 DEF Sorted
        <3> QED BY <1>1, <1>2, <2>4, <3>2
    <2> QED BY <1>1, <2>1, <2>4, <2>5, <2>6
<1> QED BY <1>3, <1>4

LEMMA AddFacts ==
    ASSUME NEW L, WellFormed(L), NEW t \in Timer, t \notin Active(L), t \notin Freed(L),
           NEW M, M = list_add(L, t)
    PROVE  /\ WellFormed(M) /\ M.tmr = L.tmr /\ M.free_timers = L.free_timers
           /\ Active(M) = Active(L) \cup {t}
           /\ \A u, v \in Active(L) : Before(L, u, v) => Before(M, u, v)
           /\ \A u \in Active(L) : /\ Time(L, u) <= Time(L, t) => Before(M, u, t)
                                   /\ Time(L, t) < Time(L, u) => Before(M, t, u)
<1> DEFINE s == L.timers
           m == Successor(L, t)
           n == Len(s)
           x == InsertAt(s, m, t)
           Moved(i) == IF i < m THEN i ELSE i + 1
           Back(i) == IF i < m THEN i ELSE i - 1
<1>0. /\ L \in Lists /\ Sorted(L) /\ OnceOnly(s) /\ Disjoint(L) /\ OnceOnly(L.free_timers)
    BY DEF WellFormed
<1>1. n \in Nat /\ DOMAIN s = 1 .. n /\ s \in Seq(Timer)
    BY <1>0, ListFacts
<1>2. /\ m \in 1 .. n + 1
      /\ \A i \in 1 .. n : /\ i < m => Time(L, s[i]) <= Time(L, t)
                           /\ i >= m => Time(L, t) < Time(L, s[i])
    BY SuccessorFacts
<1>3. /\ x \in Seq(Timer) /\ Len(x) = n + 1
      /\ \A i \in 1 .. m - 1 : x[i] = s[i]
      /\ x[m] = t
      /\ \A i \in m + 1 .. n + 1 : x[i] = s[i - 1]
    <2>1. s \in Seq(Timer) /\ m \in 1 .. Len(s) + 1
        BY <1>1, <1>2
    <2> HIDE DEF s, m
    <2> QED BY <2>1, Inserted
<1>4. M \in Lists /\ M.timers = x /\ M.tmr = L.tmr /\ M.free_timers = L.free_timers
    BY <1>0, <1>3, Relisted DEF list_add
<1>a. /\ \A i : i \in 1 .. n => s[i] \in Active(L) /\ s[i] # t /\ s[i] \in Timer
      /\ \A u \in Active(L) : \E i \in 1 .. n : s[i] = u
    BY <1>0, ListFacts
<1>b. \A u : u \in Active(M) <=> \E i \in 1 .. n + 1 : x[i] = u
    <2>1. \A u : u \in Active(M) <=> \E i \in 1 .. Len(M.timers) : M.timers[i] = u
        BY <1>4, ListFacts
    <2> HIDE DEF x, n
    <2> QED BY <1>3, <1>4, <2>1
<1>t. \A u : Time(M, u) = Time(L, u)
    BY <1>4 DEF Time
<1>n. Time(L, t) \in Nat /\ \A i \in 1 .. n : Time(L, s[i]) \in Nat
    BY <1>0, <1>a, ListFacts
<1>d. DOMAIN x = 1 .. n + 1
    BY <1>3
<1> HIDE DEF s, m, n, x
<1>5. ASSUME NEW i \in 1 .. n PROVE Moved(i) \in 1 .. n + 1 /\ Moved(i) # m /\ x[Moved(i)] = s[i]
    BY <1>1, <1>2, <1>3
<1>6. ASSUME NEW i \in 1 .. n + 1, i # m
      PROVE  Back(i) \in 1 .. n /\ x[i] = s[Back(i)] /\ i = Moved(Back(i))
    BY <1>1, <1>2, <1>3, <1>6
<1>7. ASSUME NEW i \in 1 .. n, NEW j \in 1 .. n PROVE i < j <=> Moved(i) < Moved(j)
    BY <1>1, <1>2
<1>8. Active(M) = Active(L) \cup {t}
    <2>1. ASSUME NEW u \in Active(M) PROVE u \in Active(L) \cup {t}
        <3>1. PICK i \in 1 .. n + 1 : x[i] = u
            BY <1>b
        <3> QED BY <1>3, <1>6, <1>a, <3>1
    <2>2. ASSUME NEW u \in Active(L) PROVE u \in Active(M)
        <3>1. PICK i \in 1 .. n : s[i] = u
            BY <1>a
        <3>2. Moved(i) \in 1 .. n + 1 /\ x[Moved(i)] = u
            BY <1>5, <3>1
        <3> HIDE DEF Moved
        <3> QED BY <1>b, <3>2
    <2>3. t \in Active(M)
        BY <1>2, <1>3, <1>b
    <2> QED BY <2>1, <2>2, <2>3
<1>9. OnceOnly(x)
    <2> SUFFICES ASSUME NEW i \in 1 .. n + 1, NEW j \in 1 .. n + 1, x[i] = x[j] PROVE i = j
        BY <1>d DEF OnceOnly
    <2>1. CASE i = m \/ j = m
        BY <1>3, <1>6, <1>a, <2>1
    <2>2. CASE i # m /\ j # m
        <3>1. s[Back(i)] = s[Back(j)] /\ Back(i) \in 1 .. n /\ Back(j) \in 1 .. n
            BY <1>6, <2>2
        <3>2. Back(i) = Back(j)
            BY <1>0, <1>1, <3>1 DEF OnceOnly
        <3> QED BY <1>6, <2>2, <3>2
    <2> QED BY <2>1, <2>2
<1>10. ASSUME NEW i \in 1 .. n + 1, NEW j \in 1 .. n + 1, i < j
       PROVE  Time(L, x[i]) <= Time(L, x[j])
    <2>1. CASE i = m
        <3>1. j # m /\ Back(j) >= m
            BY <1>2, <1>10, <2>1
        <3> QED BY <1>2, <1>3, <1>6, <1>n, <2>1, <3>1
    <2>2. CASE j = m
        <3>1. i # m /\ Back(i) < m
            BY <1>2, <1>10, <2>2
        <3> QED BY <1>2, <1>3, <1>6, <1>n, <2>2, <3>1
    <2>3. CASE i # m /\ j # m
        <3>1. Back(i) < Back(j) /\ Back(i) \in 1 .. n /\ Back(j) \in 1 .. n
            BY <1>6, <1>7, <1>10, <2>3
        <3>2. Time(L, s[Back(i)]) <= Time(L, s[Back(j)])
            BY <1>0, <1>1, <3>1 DEF Sorted, s
        <3> QED BY <1>6, <2>3, <3>2
    <2> QED BY <2>1, <2>2, <2>3
<1>11. Sorted(M)
    BY <1>4, <1>10, <1>d, <1>t DEF Sorted
<1>12. Disjoint(M)
    BY <1>0, <1>4, <1>8 DEF Disjoint, Freed
<1>13. WellFormed(M)
    BY <1>0, <1>4, <1>9, <1>11, <1>12 DEF WellFormed
<1>14. ASSUME NEW u \in Active(L), NEW v \in Active(L), Before(L, u, v) PROVE Before(M, u, v)
    <2>1. PICK i, j \in 1 .. n : i < j /\ s[i] = u /\ s[j] = v
        BY <1>1, <1>14 DEF Before, s
    <2>2. Moved(i) < Moved(j) /\ x[Moved(i)] = u /\ x[Moved(j)] = v
          /\ Moved(i) \in 1 .. n + 1 /\ Moved(j) \in 1 .. n + 1
        BY <1>5, <1>7, <2>1
    <2> HIDE DEF Moved
    <2> QED BY <1>4, <1>d, <2>2 DEF Before
<1>15. ASSUME NEW u \in Active(L)
       PROVE  /\ Time(L, u) <= Time(L, t) => Before(M, u, t)
              /\ Time(L, t) < Time(L, u) => Before(M, t, u)
    <2>1. PICK i \in 1 .. n : s[i] = u
        BY <1>a
    <2>2. CASE i < m
        <3>1. Moved(i) < m /\ Moved(i) \in 1 .. n + 1 /\ x[Moved(i)] = u
            BY <1>5, <2>1, <2>2
        <3>2. Before(M, u, t)
            <4> HIDE DEF Moved
            <4> QED BY <1>2, <1>3, <1>4, <1>d, <3>1 DEF Before
        <3>3. Time(L, u) <= Time(L, t)
            BY <1>2, <2>1, <2>2
        <3> QED BY <1>n, <2>1, <3>2, <3>3
    <2>3. CASE i >= m
        <3>1. m < Moved(i) /\ Moved(i) \in 1 .. n + 1 /\ x[Moved(i)] = u
            BY <1>2, <1>5, <2>1, <2>3
        <3>2. Before(M, t, u)
            <4> HIDE DEF Moved
            <4> QED BY <1>2, <1>3, <1>4, <1>d, <3>1 DEF Before
        <3>3. Time(L, t) < Time(L, u)
            BY <1>2, <2>1, <2>3
        <3> QED BY <1>n, <2>1, <3>2, <3>3
    <2> QED BY <1>2, <2>2, <2>3
<1> QED BY <1>4, <1>8, <1>13, <1>14, <1>15

LEMMA RemoveFacts ==
    ASSUME NEW L, NEW t, Loose(L, t), t \in Active(L), NEW M, M = list_remove(L, t)
    PROVE  /\ WellFormed(M) /\ M.tmr = L.tmr /\ M.free_timers = L.free_timers
           /\ Active(M) = Active(L) \ {t}
           /\ \A u, v \in Active(M) : Before(L, u, v) => Before(M, u, v)
<1> DEFINE s == L.timers
           m == Place(L, t)
           n == Len(s)
           x == RemoveAt(s, m)
           Moved(i) == IF i < m THEN i ELSE i - 1
           Back(i) == IF i < m THEN i ELSE i + 1
<1>0. /\ L \in Lists /\ OnceOnly(s) /\ Disjoint(L) /\ OnceOnly(L.free_timers)
      /\ \A i, j \in DOMAIN s : i < j /\ s[i] # t /\ s[j] # t => Time(L, s[i]) <= Time(L, s[j])
    BY DEF Loose
<1>1. n \in Nat /\ DOMAIN s = 1 .. n /\ s \in Seq(Timer)
    BY <1>0, ListFacts
<1>2. m \in 1 .. n /\ s[m] = t
    <2>1. \E i \in DOMAIN s : s[i] = t
        BY <1>0, <1>1, ListFacts
    <2>2. m \in DOMAIN s /\ s[m] = t
        BY <2>1 DEF Place
    <2> QED BY <1>1, <2>2
<1>3. /\ x \in Seq(Timer) /\ Len(x) = n - 1
      /\ \A i \in 1 .. m - 1 : x[i] = s[i]
      /\ \A i \in m .. n - 1 : x[i] = s[i + 1]
    <2>1. s \in Seq(Timer) /\ m \in 1 .. Len(s)
        BY <1>1, <1>2
    <2> HIDE DEF s, m
    <2> QED BY <2>1, Removed
<1>4. M \in Lists /\ M.timers = x /\ M.tmr = L.tmr /\ M.free_timers = L.free_timers
    BY <1>0, <1>3, Relisted DEF list_remove
<1>a. /\ \A i : i \in 1 .. n => s[i] \in Active(L)
      /\ \A u \in Active(L) : \E i \in 1 .. n : s[i] = u
    BY <1>0, ListFacts
<1>b. \A u : u \in Active(M) <=> \E i \in 1 .. n - 1 : x[i] = u
    <2>1. \A u : u \in Active(M) <=> \E i \in 1 .. Len(M.timers) : M.timers[i] = u
        BY <1>4, ListFacts
    <2> HIDE DEF x, n
    <2> QED BY <1>3, <1>4, <2>1
<1>t. \A u : Time(M, u) = Time(L, u)
    BY <1>4 DEF Time
<1>d. DOMAIN x = 1 .. n - 1
    BY <1>3
<1> HIDE DEF s, m, n, x
<1>s. \A i \in 1 .. n : s[i] = t <=> i = m
    BY <1>0, <1>1, <1>2 DEF OnceOnly
<1>5. ASSUME NEW i \in 1 .. n, i # m PROVE Moved(i) \in 1 .. n - 1 /\ x[Moved(i)] = s[i]
    BY <1>1, <1>2, <1>3, <1>5
<1>6. ASSUME NEW i \in 1 .. n - 1
      PROVE  Back(i) \in 1 .. n /\ Back(i) # m /\ x[i] = s[Back(i)]
    BY <1>1, <1>2, <1>3
<1>7. ASSUME NEW i \in 1 .. n, i # m, NEW j \in 1 .. n, j # m, i < j PROVE Moved(i) < Moved(j)
    BY <1>1, <1>2, <1>7
<1>q. ASSUME NEW i \in 1 .. n - 1, NEW j \in 1 .. n - 1
      PROVE  (i < j => Back(i) < Back(j)) /\ (Back(i) = Back(j) => i = j)
    BY <1>1, <1>2
<1>8. Active(M) = Active(L) \ {t}
    <2>1. ASSUME NEW u \in Active(M) PROVE u \in Active(L) \ {t}
        <3>1. PICK i \in 1 .. n - 1 : x[i] = u
            BY <1>b
        <3> QED BY <1>6, <1>a, <1>s, <3>1
    <2>2. ASSUME NEW u \in Active(L), u # t PROVE u \in Active(M)
        <3>1. PICK i \in 1 .. n : s[i] = u
            BY <1>a
        <3>2. Moved(i) \in 1 .. n - 1 /\ x[Moved(i)] = u
            BY <1>5, <1>s, <2>2, <3>1
        <3> HIDE DEF Moved
        <3> QED BY <1>b, <3>2
    <2> QED BY <2>1, <2>2
<1>9. OnceOnly(x)
    <2> SUFFICES ASSUME NEW i \in 1 .. n - 1, NEW j \in 1 .. n - 1, x[i] = x[j] PROVE i = j
        BY <1>d DEF OnceOnly
    <2>1. s[Back(i)] = s[Back(j)] /\ Back(i) \in 1 .. n /\ Back(j) \in 1 .. n
        BY <1>6
    <2>2. Back(i) = Back(j)
        <3> HIDE DEF Back
        <3> QED BY <1>0, <1>1, <2>1 DEF OnceOnly
    <2> QED BY <1>q, <2>2
<1>10. ASSUME NEW i \in 1 .. n - 1, NEW j \in 1 .. n - 1, i < j
       PROVE  Time(L, x[i]) <= Time(L, x[j])
    <2>1. /\ Back(i) < Back(j) /\ Back(i) \in 1 .. n /\ Back(j) \in 1 .. n
          /\ Back(i) # m /\ Back(j) # m
        BY <1>6, <1>q, <1>10
    <2>3. x[i] = s[Back(i)] /\ x[j] = s[Back(j)]
        BY <1>6
    <2> HIDE DEF Back
    <2>2. Time(L, s[Back(i)]) <= Time(L, s[Back(j)])
        BY <1>0, <1>1, <1>s, <2>1
    <2> QED BY <2>2, <2>3
<1>11. Sorted(M)
    BY <1>4, <1>10, <1>d, <1>t DEF Sorted
<1>12. Disjoint(M)
    BY <1>0, <1>4, <1>8 DEF Disjoint, Freed
<1>13. WellFormed(M)
    BY <1>0, <1>4, <1>9, <1>11, <1>12 DEF WellFormed
<1>14. ASSUME NEW u \in Active(M), NEW v \in Active(M), Before(L, u, v) PROVE Before(M, u, v)
    <2>1. PICK i, j \in 1 .. n : i < j /\ s[i] = u /\ s[j] = v
        BY <1>1, <1>14 DEF Before, s
    <2>2. i # m /\ j # m
        BY <1>2, <1>8, <2>1
    <2>3. Moved(i) < Moved(j) /\ x[Moved(i)] = u /\ x[Moved(j)] = v
          /\ Moved(i) \in 1 .. n - 1 /\ Moved(j) \in 1 .. n - 1
        BY <1>5, <1>7, <2>1, <2>2
    <2> HIDE DEF Moved
    <2> QED BY <1>4, <1>d, <2>3 DEF Before
<1> QED BY <1>4, <1>8, <1>13, <1>14

LEMMA WellFormedLoose == ASSUME NEW L, NEW t, WellFormed(L) PROVE Loose(L, t)
BY DEF WellFormed, Loose, Sorted

LEMMA TimedFacts ==
    ASSUME NEW L, WellFormed(L), NEW t \in Timer, NEW x \in Nat, NEW M, M = Timed(L, t, x)
    PROVE  /\ Loose(M, t) /\ M.timers = L.timers /\ M.free_timers = L.free_timers
           /\ M.tmr \in [Timer -> Struct]
           /\ \A u \in Timer : u # t => M.tmr[u] = L.tmr[u]
           /\ M.tmr[t].time = x /\ M.tmr[t].usecs = L.tmr[t].usecs
           /\ M.tmr[t].periodic = L.tmr[t].periodic /\ M.tmr[t].proc = L.tmr[t].proc
<1>1. L \in Lists /\ L.tmr \in [Timer -> Struct] /\ L.tmr[t] \in Struct
    BY ListFacts DEF WellFormed
<1>2. M = [L EXCEPT !.tmr = [L.tmr EXCEPT ![t] = [L.tmr[t] EXCEPT !.time = x]]]
    BY DEF Timed
<1> DEFINE a == [L.tmr[t] EXCEPT !.time = x]
<1>3. /\ a \in Struct /\ a.time = x /\ a.usecs = L.tmr[t].usecs
      /\ a.periodic = L.tmr[t].periodic /\ a.proc = L.tmr[t].proc
    BY <1>1 DEF Struct
<1> HIDE DEF a
<1>4. M = [L EXCEPT !.tmr = [L.tmr EXCEPT ![t] = a]]
    BY <1>2 DEF a
<1> DEFINE f == [L.tmr EXCEPT ![t] = a]
<1>5. f \in [Timer -> Struct] /\ f[t] = a /\ \A u \in Timer : u # t => f[u] = L.tmr[u]
    BY <1>1, <1>3
<1> HIDE DEF f
<1>6. M \in Lists /\ M.timers = L.timers /\ M.free_timers = L.free_timers /\ M.tmr = f
    BY <1>1, <1>4, <1>5 DEF Lists, f
<1>7. Disjoint(M) /\ OnceOnly(M.timers) /\ OnceOnly(M.free_timers)
    BY <1>6 DEF Disjoint, WellFormed, Active, Freed
<1>8. ASSUME NEW i \in DOMAIN M.timers, NEW j \in DOMAIN M.timers,
             i < j, M.timers[i] # t, M.timers[j] # t
      PROVE  Time(M, M.timers[i]) <= Time(M, M.timers[j])
    <2>1. L.timers[i] \in Timer /\ L.timers[j] \in Timer
        BY <1>1, <1>6, ListFacts
    <2>2. Time(L, L.timers[i]) <= Time(L, L.timers[j])
        BY <1>6, <1>8 DEF WellFormed, Sorted
    <2> QED BY <1>5, <1>6, <1>8, <2>1, <2>2 DEF Time
<1>9. Loose(M, t)
    BY <1>6, <1>7, <1>8 DEF Loose
<1> QED BY <1>3, <1>5, <1>6, <1>9

(* tmr_reset, and the second half of a turn of tmr_run: M is L with t moved *)
(* to the time x, behind what expires no later.                            *)
Resorted(L, t, x, M) ==
    /\ WellFormed(M) /\ Active(M) = Active(L)
    /\ \A u \in Timer : u # t => M.tmr[u] = L.tmr[u] /\ Time(M, u) = Time(L, u)
    /\ Time(M, t) = x /\ M.tmr[t].usecs = L.tmr[t].usecs
    /\ M.tmr[t].periodic = L.tmr[t].periodic /\ M.tmr[t].proc = L.tmr[t].proc
    /\ \A u, v \in Active(L) \ {t} : Before(L, u, v) => Before(M, u, v)
    /\ \A u \in Active(L) \ {t} : /\ Time(L, u) <= x => Before(M, u, t)
                                  /\ x < Time(L, u) => Before(M, t, u)

LEMMA ResortFacts ==
    ASSUME NEW L, WellFormed(L), NEW t \in Active(L), NEW x \in Nat,
           NEW M, M = list_resort(Timed(L, t, x), t)
    PROVE  Resorted(L, t, x, M)
<1> DEFINE A == Timed(L, t, x)
           B == list_remove(A, t)
<1>0. t \in Timer /\ L \in Lists /\ Disjoint(L) /\ Active(L) \subseteq Timer
    BY ListFacts DEF WellFormed
<1>1. /\ Loose(A, t) /\ A.timers = L.timers /\ A.free_timers = L.free_timers
      /\ \A u \in Timer : u # t => A.tmr[u] = L.tmr[u]
      /\ A.tmr[t].time = x /\ A.tmr[t].usecs = L.tmr[t].usecs
      /\ A.tmr[t].periodic = L.tmr[t].periodic /\ A.tmr[t].proc = L.tmr[t].proc
    BY <1>0, TimedFacts
<1> HIDE DEF A
<1>2. Active(A) = Active(L) /\ Freed(A) = Freed(L) /\ \A u, v : Before(A, u, v) <=> Before(L, u, v)
    BY <1>1 DEF Active, Freed, Before
<1>3. /\ WellFormed(B) /\ B.tmr = A.tmr /\ B.free_timers = A.free_timers
      /\ Active(B) = Active(A) \ {t}
      /\ \A u, v \in Active(B) : Before(A, u, v) => Before(B, u, v)
    BY <1>1, <1>2, RemoveFacts
<1> HIDE DEF B
<1>4. M = list_add(B, t)
    BY DEF list_resort, A, B
<1>5. Freed(B) = Freed(L) /\ t \notin Active(B) /\ t \notin Freed(B)
    BY <1>0, <1>1, <1>3 DEF Freed, Disjoint
<1>6. /\ WellFormed(M) /\ M.tmr = B.tmr /\ M.free_timers = B.free_timers
      /\ Active(M) = Active(B) \cup {t}
      /\ \A u, v \in Active(B) : Before(B, u, v) => Before(M, u, v)
      /\ \A u \in Active(B) : /\ Time(B, u) <= Time(B, t) => Before(M, u, t)
                              /\ Time(B, t) < Time(B, u) => Before(M, t, u)
    BY <1>0, <1>3, <1>4, <1>5, AddFacts
<1>7. /\ Time(B, t) = x /\ Time(M, t) = x
      /\ \A u \in Timer : u # t => Time(B, u) = Time(L, u) /\ Time(M, u) = Time(L, u) /\ M.tmr[u] = L.tmr[u]
    BY <1>1, <1>3, <1>6 DEF Time
<1>8. M.tmr = A.tmr /\ Active(M) = Active(L)
    BY <1>2, <1>3, <1>6
<1>9. /\ \A u, v \in Active(L) \ {t} : Before(L, u, v) => Before(M, u, v)
      /\ \A u \in Active(L) \ {t} : /\ Time(L, u) <= x => Before(M, u, t)
                                    /\ x < Time(L, u) => Before(M, t, u)
    BY <1>0, <1>2, <1>3, <1>6, <1>7
<1> QED BY <1>1, <1>6, <1>7, <1>8, <1>9 DEF Resorted

LEMMA CancelFacts ==
    ASSUME NEW L, WellFormed(L), NEW t \in Active(L), NEW M, M = tmr_cancel(L, t)
    PROVE  /\ WellFormed(M) /\ M.tmr = L.tmr /\ Active(M) = Active(L) \ {t}
           /\ \A u, v \in Active(M) : Before(L, u, v) => Before(M, u, v)
<1> DEFINE B == list_remove(L, t)
<1>0. t \in Timer /\ L \in Lists /\ Disjoint(L) /\ Active(L) \subseteq Timer
    BY ListFacts DEF WellFormed
<1>1. /\ WellFormed(B) /\ B.tmr = L.tmr /\ B.free_timers = L.free_timers
      /\ Active(B) = Active(L) \ {t}
      /\ \A u, v \in Active(B) : Before(L, u, v) => Before(B, u, v)
    BY WellFormedLoose, RemoveFacts
<1> HIDE DEF B
<1> DEFINE f == B.free_timers
           g == <<t>> \o f
<1>2. B \in Lists /\ f \in Seq(Timer) /\ OnceOnly(f)
    BY <1>1, ListFacts DEF WellFormed
<1>3. M = [B EXCEPT !.free_timers = g]
    BY DEF tmr_cancel, B
<1>f. \A i \in 1 .. Len(f) : f[i] # t
    <2>1. t \notin Freed(B)
        BY <1>0, <1>1 DEF Disjoint, Freed
    <2> QED BY <1>2, <2>1, ListFacts
<1> HIDE DEF f
<1>4. /\ g \in Seq(Timer) /\ Len(g) = Len(f) + 1 /\ g[1] = t
      /\ \A i \in 2 .. Len(f) + 1 : g[i] = f[i - 1]
    BY <1>0, <1>2
<1>5. Len(f) \in Nat /\ DOMAIN f = 1 .. Len(f) /\ DOMAIN g = 1 .. Len(f) + 1
    BY <1>2, <1>4
<1> HIDE DEF g
<1>6. M \in Lists /\ M.timers = B.timers /\ M.tmr = B.tmr /\ M.free_timers = g
    BY <1>2, <1>3, <1>4 DEF Lists
<1>7. OnceOnly(g)
    <2> SUFFICES ASSUME NEW i \in 1 .. Len(f) + 1, NEW j \in 1 .. Len(f) + 1, g[i] = g[j] PROVE i = j
        BY <1>5 DEF OnceOnly
    <2>1. CASE i = 1 \/ j = 1
        BY <1>4, <1>5, <1>f, <2>1
    <2>2. CASE i # 1 /\ j # 1
        <3>1. i - 1 \in 1 .. Len(f) /\ j - 1 \in 1 .. Len(f) /\ f[i - 1] = f[j - 1]
            BY <1>4, <1>5, <2>2
        <3>2. i - 1 = j - 1
            BY <1>2, <1>5, <3>1 DEF OnceOnly
        <3> QED BY <3>2
    <2> QED BY <2>1, <2>2
<1>8. Active(M) = Active(B) /\ \A u, v : Before(M, u, v) <=> Before(B, u, v)
    BY <1>6 DEF Active, Before
<1>9. ASSUME NEW u \in Freed(M) PROVE u \in Freed(B) \cup {t}
    <2>1. PICK i \in 1 .. Len(f) + 1 : g[i] = u
        <3>1. PICK i \in 1 .. Len(M.free_timers) : M.free_timers[i] = u
            BY <1>6, ListFacts
        <3> QED BY <1>4, <1>6, <3>1
    <2>2. CASE i = 1
        BY <1>4, <2>1, <2>2
    <2>3. CASE i # 1
        <3>1. i - 1 \in 1 .. Len(f) /\ f[i - 1] = u
            BY <1>4, <1>5, <2>1, <2>3
        <3> QED BY <1>2, <3>1, ListFacts DEF f
    <2> QED BY <2>2, <2>3
<1>10. Disjoint(M) /\ Sorted(M)
    <2>1. Disjoint(M)
        BY <1>1, <1>8, <1>9 DEF Disjoint, WellFormed
    <2>2. Sorted(M)
        BY <1>1, <1>6 DEF Sorted, WellFormed, Time
    <2> QED BY <2>1, <2>2
<1>11. WellFormed(M)
    BY <1>1, <1>6, <1>7, <1>10 DEF WellFormed
<1> QED BY <1>1, <1>6, <1>8, <1>11

(* tmr_create: M is L with t, behind what expires no later than x.         *)
Added(L, t, x, usecs, periodic, proc, M) ==
    /\ WellFormed(M) /\ t \in Timer /\ t \notin Active(L) /\ Active(M) = Active(L) \cup {t}
    /\ \A u \in Timer : u # t => M.tmr[u] = L.tmr[u] /\ Time(M, u) = Time(L, u)
    /\ Time(M, t) = x /\ M.tmr[t].usecs = usecs
    /\ M.tmr[t].periodic = periodic /\ M.tmr[t].proc = proc
    /\ \A u, v \in Active(L) : Before(L, u, v) => Before(M, u, v)
    /\ \A u \in Active(L) : /\ Time(L, u) <= x => Before(M, u, t)
                            /\ x < Time(L, u) => Before(M, t, u)

LEMMA CreateFacts ==
    ASSUME NEW L, WellFormed(L), Timer \ Active(L) # {},
           NEW at \in Nat, NEW proc \in Kind, NEW usecs \in Nat, NEW periodic \in BOOLEAN,
           NEW t, t = Taken(L), NEW M, M = tmr_create(L, at, proc, usecs, periodic)
    PROVE  Added(L, t, at + usecs, usecs, periodic, proc, M)
<1> DEFINE f == L.free_timers
           g == IF f = <<>> THEN f ELSE Tail(f)
           a == [time |-> at + usecs, usecs |-> usecs, periodic |-> periodic, proc |-> proc]
           tmr == [L.tmr EXCEPT ![t] = a]
           B == [L EXCEPT !.free_timers = g, !.tmr = tmr]
<1>0. /\ L \in Lists /\ f \in Seq(Timer) /\ L.tmr \in [Timer -> Struct] /\ Disjoint(L)
      /\ Active(L) \subseteq Timer /\ OnceOnly(f) /\ OnceOnly(L.timers)
    BY ListFacts DEF WellFormed
<1>1. t \in Timer /\ t \notin Active(L)
    <2>1. CASE f = <<>>
        BY <2>1 DEF Taken
    <2>2. CASE f # <<>>
        <3>1. t = f[1] /\ 1 \in 1 .. Len(f)
            BY <1>0, <2>2 DEF Taken
        <3>2. t \in Freed(L)
            BY <1>0, <3>1, ListFacts
        <3> QED BY <1>0, <3>2, ListFacts DEF Disjoint
    <2> QED BY <2>1, <2>2
<1>2. a \in Struct
    BY DEF Struct
<1>3. a.time = at + usecs /\ a.usecs = usecs /\ a.periodic = periodic /\ a.proc = proc
    OBVIOUS
<1>4. M = list_add(B, t)
    BY DEF tmr_create
<1> HIDE DEF a
<1>5. tmr \in [Timer -> Struct] /\ tmr[t] = a /\ \A u \in Timer : u # t => tmr[u] = L.tmr[u]
    BY <1>0, <1>1, <1>2
<1>6. /\ g \in Seq(Timer) /\ \A i \in DOMAIN g : g[i] # t /\ \E j \in DOMAIN f : f[j] = g[i]
      /\ OnceOnly(g)
    <2>1. CASE f = <<>>
        BY <2>1, <1>0 DEF OnceOnly
    <2>2. CASE f # <<>>
        <3>1. t = f[1] /\ Len(f) \in Nat /\ 1 \in 1 .. Len(f) /\ DOMAIN f = 1 .. Len(f)
            BY <1>0, <2>2 DEF Taken
        <3>2. g \in Seq(Timer) /\ DOMAIN g = 1 .. Len(f) - 1
              /\ \A i \in 1 .. Len(f) - 1 : g[i] = f[i + 1]
            BY <1>0, <2>2
        <3> HIDE DEF f, g
        <3>3. ASSUME NEW i \in 1 .. Len(f) - 1
              PROVE  i + 1 \in 1 .. Len(f) /\ i + 1 # 1 /\ g[i] = f[i + 1]
            BY <3>1, <3>2
        <3>4. \A i \in DOMAIN g : g[i] # t /\ \E j \in DOMAIN f : f[j] = g[i]
            <4> SUFFICES ASSUME NEW i \in 1 .. Len(f) - 1
                         PROVE  g[i] # t /\ \E j \in DOMAIN f : f[j] = g[i]
                BY <3>2
            <4>1. f[i + 1] # f[1]
                BY <1>0, <3>1, <3>3 DEF OnceOnly
            <4>2. i + 1 \in DOMAIN f /\ f[i + 1] = g[i]
                BY <3>1, <3>3
            <4> QED BY <3>1, <4>1, <4>2
        <3>5. OnceOnly(g)
            <4> SUFFICES ASSUME NEW i \in 1 .. Len(f) - 1, NEW j \in 1 .. Len(f) - 1, g[i] = g[j]
                         PROVE  i = j
                BY <3>2 DEF OnceOnly
            <4>1. i + 1 = j + 1
                BY <1>0, <3>1, <3>3 DEF OnceOnly
            <4> QED BY <4>1
        <3> QED BY <3>2, <3>4, <3>5
    <2> QED BY <2>1, <2>2
<1> HIDE DEF g, tmr
<1>7. B \in Lists /\ B.timers = L.timers /\ B.free_timers = g /\ B.tmr = tmr
    BY <1>0, <1>5, <1>6 DEF Lists
<1> HIDE DEF B
<1>8. Active(B) = Active(L) /\ \A u, v : Before(B, u, v) <=> Before(L, u, v)
    BY <1>7 DEF Active, Before
<1>9. Time(B, t) = at + usecs /\ \A u \in Timer : u # t => Time(B, u) = Time(L, u)
    BY <1>3, <1>5, <1>7 DEF Time
<1>10. Sorted(B)
    <2>1. \A i \in DOMAIN L.timers : L.timers[i] \in Timer /\ L.timers[i] # t
        BY <1>0, <1>1, ListFacts
    <2>2. Sorted(L)
        BY DEF WellFormed
    <2> QED BY <1>7, <1>9, <2>1, <2>2 DEF Sorted
<1>11. Freed(B) \subseteq Freed(L) /\ t \notin Freed(B)
    BY <1>6, <1>7 DEF Freed, ToSet
<1>12. WellFormed(B)
    BY <1>0, <1>6, <1>7, <1>8, <1>10, <1>11 DEF WellFormed, Disjoint
<1>13. /\ WellFormed(M) /\ M.tmr = B.tmr /\ Active(M) = Active(B) \cup {t}
       /\ \A u, v \in Active(B) : Before(B, u, v) => Before(M, u, v)
       /\ \A u \in Active(B) : /\ Time(B, u) <= Time(B, t) => Before(M, u, t)
                               /\ Time(B, t) < Time(B, u) => Before(M, t, u)
    BY <1>1, <1>4, <1>8, <1>11, <1>12, AddFacts
<1>14. /\ \A u \in Timer : u # t => M.tmr[u] = L.tmr[u] /\ Time(M, u) = Time(L, u)
       /\ Time(M, t) = at + usecs /\ M.tmr[t] = a
    BY <1>3, <1>5, <1>7, <1>13 DEF Time
<1>15. /\ \A u, v \in Active(L) : Before(L, u, v) => Before(M, u, v)
       /\ \A u \in Active(L) : /\ Time(L, u) <= at + usecs => Before(M, u, t)
                               /\ at + usecs < Time(L, u) => Before(M, t, u)
    BY <1>0, <1>1, <1>8, <1>9, <1>13
<1> QED BY <1>1, <1>3, <1>8, <1>13, <1>14, <1>15 DEF Added

-----------------------------------------------------------------------------
(* The invariant, action by action.                                        *)

LEMMA ConstantTypes ==
    /\ Grace \in Nat /\ Omits \subseteq Nat /\ Durations \subseteq Nat /\ Intervals \subseteq Nat
    /\ MaxTime \in Nat /\ MaxTests \in Nat
BY TestTimersAssumption

LEMMA InvFacts ==
    ASSUME TimersInv
    PROVE  /\ WellFormed(list) /\ list \in Lists /\ Active(list) \subseteq Timer /\ NULL \notin Active(list)
           /\ handle \in [Kind -> Timer \cup {NULL}]
           /\ \A k \in Kind : handle[k] # NULL => handle[k] \in Active(list)
           /\ \A j, k \in Kind : handle[j] = handle[k] /\ handle[j] # NULL => j = k
           /\ \A t \in Active(list) : Time(list, t) \in Nat
           /\ now \in Nat /\ base \in Nat /\ stats \in Nat /\ reports \in Nat /\ interval \in Nat
           /\ omit \in Nat /\ duration \in Nat /\ Grace \in Nat /\ MaxTime \in Nat
<1>1. WellFormed(list) /\ TypeOK /\ HandlesInv
    BY DEF TimersInv
<1>2. list \in Lists
    BY <1>1 DEF WellFormed
<1>3. Active(list) \subseteq Timer /\ NULL \notin Active(list) /\ \A t \in Active(list) : Time(list, t) \in Nat
    BY <1>2, ListFacts, TimersAssumption
<1>4. /\ handle \in [Kind -> Timer \cup {NULL}]
      /\ \A k \in Kind : handle[k] # NULL => handle[k] \in Active(list)
      /\ \A j, k \in Kind : handle[j] = handle[k] /\ handle[j] # NULL => j = k
    BY <1>1 DEF HandlesInv, HeldAs
<1>5. /\ now \in Nat /\ base \in Nat /\ stats \in Nat /\ reports \in Nat /\ interval \in Nat
      /\ omit \in Nat /\ duration \in Nat /\ Grace \in Nat /\ MaxTime \in Nat
    BY <1>1, ConstantTypes DEF TypeOK
<1> QED BY <1>1, <1>2, <1>3, <1>4, <1>5

(* Of TypeOK, what does not follow from the other parts.                   *)
Scalars ==
    /\ now \in 0 .. MaxTime /\ pc \in {"setup", "loop", "run", "ended"}
    /\ done \in BOOLEAN /\ omitting \in BOOLEAN
    /\ stats \in Nat /\ reports \in Nat /\ base \in 0 .. MaxTime
    /\ duration \in Durations \cup {0}
    /\ omit \in Omits \cup {0} /\ interval \in Intervals \cup {0}
    /\ tests \in 0 .. MaxTests

LEMMA TypesFollow ==
    ASSUME Scalars, WellFormed(list), HandlesInv, WalkInv PROVE TypeOK
<1>1. Active(list) \subseteq Timer /\ Freed(list) \subseteq Timer
    BY ListFacts DEF WellFormed
<1>2. handle \in [Kind -> Active(list) \cup {NULL}]
    BY DEF HandlesInv, HeldAs
<1>3. cur \in Timer \cup {NULL}
    BY <1>1 DEF WalkInv
<1> QED BY <1>1, <1>2, <1>3 DEF Scalars, TypeOK

LEMMA TypesFollowNext ==
    ASSUME Scalars', WellFormed(list)', HandlesInv', WalkInv' PROVE TypeOK'
<1>0. list' \in Lists
    BY DEF WellFormed
<1>1. Active(list') \subseteq Timer /\ Freed(list') \subseteq Timer
    BY <1>0, ListFacts
<1>2. handle' \in [Kind -> Active(list') \cup {NULL}]
    BY DEF HandlesInv, HeldAs
<1>3. cur' \in Timer \cup {NULL}
    BY <1>1 DEF WalkInv
<1> QED BY <1>1, <1>2, <1>3 DEF Scalars, TypeOK

LEMMA InitInv == Init => TimersInv
<1> SUFFICES ASSUME Init PROVE TimersInv
    OBVIOUS
<1>1. list = NoTimers
    BY DEF Init
<1>2. list \in Lists
    BY <1>1 DEF NoTimers, Lists, Struct
<1>3. list.timers = <<>> /\ list.free_timers = <<>>
    BY <1>1 DEF NoTimers
<1>4. Active(list) = {} /\ Freed(list) = {}
    BY <1>3 DEF Active, Freed, ToSet
<1>5. WellFormed(list)
    BY <1>2, <1>3, <1>4 DEF WellFormed, Sorted, Disjoint, OnceOnly
<1>6. HandlesInv
    BY <1>4 DEF Init, HandlesInv, HeldAs, NoHandles, InTest
<1>7. OmitInv /\ PairInv /\ CountInv /\ WalkInv
    BY DEF Init, OmitInv, PairInv, CountInv, WalkInv, InTest, NoHandles, Kind
<1>8. Scalars
    <2>1. done \in BOOLEAN /\ omitting \in BOOLEAN
        BY Zenon DEF Init
    <2> QED BY <2>1, TestTimersAssumption DEF Init, Scalars
<1> QED BY <1>5, <1>6, <1>7, <1>8, TypesFollow DEF TimersInv

LEMMA TickInv == ASSUME TimersInv, Tick PROVE TimersInv'
<1>0. /\ pc = "loop" /\ now < MaxTime /\ now' = now + 1 /\ cur = NULL /\ InTest
      /\ UNCHANGED <<list, pc, cur, handle, done, omitting, stats, reports, base, testvars>>
    BY DEF Tick, TimersInv, WalkInv, InTest
<1>1. /\ WellFormed(list)' /\ HandlesInv' /\ OmitInv'
    BY <1>0 DEF TimersInv, HandlesInv, OmitInv, InTest, testvars
<1>2. PairInv'
    BY <1>0 DEF TimersInv, PairInv, InTest, testvars
<1>3. CountInv'
    <2>1. stats * interval \in Nat
        BY InvFacts
    <2> DEFINE c == stats * interval
               d == (stats + 1) * interval
    <2>2. c \in Nat
        BY <2>1
    <2>3. /\ base <= now
          /\ InTest /\ interval = 0 => stats = 0 /\ reports = 0
          /\ InTest /\ interval # 0 /\ ~done => Time(list, handle["stats"]) = base + d /\ base + c <= now
        BY DEF TimersInv, CountInv
    <2> HIDE DEF c, d
    <2>4. base <= now' /\ (base + c <= now => base + c <= now')
        BY <1>0, <2>2, <2>3, InvFacts
    <2>5. /\ InTest' /\ interval' = 0 => stats' = 0 /\ reports' = 0
          /\ InTest' /\ interval' # 0 /\ ~done' => /\ Time(list, handle["stats"])' = base' + d
                                                   /\ base' + c <= now'
        BY <1>0, <2>3, <2>4 DEF testvars, Time
    <2> QED BY <1>0, <2>4, <2>5 DEF CountInv, testvars, c, d
<1>4. WalkInv'
    BY <1>0 DEF WalkInv
<1>5. Scalars'
    BY <1>0, InvFacts DEF Scalars, TimersInv, TypeOK, testvars
<1>6. TypeOK'
    BY <1>1, <1>4, <1>5, TypesFollowNext
<1> QED BY <1>1, <1>2, <1>3, <1>4, <1>6 DEF TimersInv

LEMMA tmr_runInv == ASSUME TimersInv, tmr_run PROVE TimersInv'
<1>0. /\ pc = "loop" /\ pc' = "run" /\ cur' = First(list) /\ First(list) # NULL
      /\ UNCHANGED <<list, now, handle, done, omitting, stats, reports, base, testvars>>
    BY DEF tmr_run, Expired
<1>1. /\ WellFormed(list)' /\ HandlesInv' /\ OmitInv'
    BY <1>0 DEF TimersInv, HandlesInv, OmitInv, InTest, testvars
<1>2. PairInv' /\ CountInv'
    BY <1>0 DEF TimersInv, PairInv, CountInv, InTest, testvars
<1>4. WalkInv'
    BY <1>0, InvFacts, FirstFacts DEF WalkInv
<1>5. Scalars'
    BY <1>0 DEF Scalars, TimersInv, TypeOK, testvars
<1>6. TypeOK'
    BY <1>1, <1>4, <1>5, TypesFollowNext
<1> QED BY <1>1, <1>2, <1>4, <1>6 DEF TimersInv

LEMMA RunEndsInv == ASSUME TimersInv, RunEnds PROVE TimersInv'
<1>0. /\ pc = "run" /\ pc' = "loop" /\ cur' = NULL /\ ~Expired(list, cur, now)
      /\ UNCHANGED <<list, now, handle, done, omitting, stats, reports, base, testvars>>
    BY DEF RunEnds
<1>1. /\ WellFormed(list)' /\ HandlesInv' /\ OmitInv'
    BY <1>0 DEF TimersInv, HandlesInv, OmitInv, InTest, testvars
<1>2. PairInv' /\ CountInv'
    BY <1>0 DEF TimersInv, PairInv, CountInv, InTest, testvars
<1>4. WalkInv'
    BY <1>0 DEF WalkInv
<1>5. Scalars'
    BY <1>0 DEF Scalars, TimersInv, TypeOK, testvars
<1>6. TypeOK'
    BY <1>1, <1>4, <1>5, TypesFollowNext
<1> QED BY <1>1, <1>2, <1>4, <1>6 DEF TimersInv

LEMMA RemainingFacts ==
    ASSUME NEW L, WellFormed(L), NEW k \in Kind, handle[k] = NULL \/ handle[k] \in Active(L),
           NULL \notin Active(L), NEW M, M = Remaining(L, k)
    PROVE  WellFormed(M) /\ Active(M) = Active(L) \ {handle[k]}
BY CancelFacts DEF Remaining

LEMMA CancelTimersInv == ASSUME TimersInv, CancelTimers PROVE TimersInv'
<1> DEFINE A == Remaining(list, "stats")
           B == Remaining(A, "reporter")
           C == Remaining(B, "omit")
<1>0. /\ pc = "loop" /\ pc' \in {"setup", "ended"} /\ list' = Remaining(C, "test")
      /\ handle' = NoHandles /\ cur' = cur /\ done' = FALSE
      /\ UNCHANGED <<now, omitting, stats, reports, base, testvars>>
    BY DEF CancelTimers
<1>1. WellFormed(A) /\ Active(A) = Active(list) \ {handle["stats"]}
    BY InvFacts, RemainingFacts DEF Kind
<1> HIDE DEF A
<1>2. WellFormed(B) /\ Active(B) = Active(A) \ {handle["reporter"]}
    BY <1>1, InvFacts, RemainingFacts DEF Kind
<1> HIDE DEF B
<1>3. WellFormed(C) /\ Active(C) = Active(B) \ {handle["omit"]}
    BY <1>1, <1>2, InvFacts, RemainingFacts DEF Kind
<1> HIDE DEF C
<1>4. WellFormed(list') /\ Active(list') = Active(C) \ {handle["test"]}
    BY <1>0, <1>1, <1>2, <1>3, InvFacts, RemainingFacts DEF Kind
<1>5. Active(list') = {}
    BY <1>1, <1>2, <1>3, <1>4 DEF TimersInv, HandlesInv, Kind
<1>6. ~InTest' /\ WellFormed(list)'
    BY <1>0, <1>4 DEF InTest
<1>7. HandlesInv'
    BY <1>0, <1>5, <1>6 DEF HandlesInv, HeldAs, NoHandles
<1>8. OmitInv'
    BY <1>0, <1>6 DEF TimersInv, OmitInv, NoHandles, Kind
<1>9. PairInv' /\ CountInv'
    BY <1>0, <1>6 DEF TimersInv, PairInv, CountInv
<1>10. WalkInv'
    BY <1>0 DEF TimersInv, WalkInv
<1>11. Scalars'
    <2>1. done' \in BOOLEAN
        BY <1>0, Zenon
    <2> QED BY <1>0, <2>1 DEF Scalars, TimersInv, TypeOK, testvars
<1>12. TypeOK'
    BY <1>6, <1>7, <1>10, <1>11, TypesFollowNext
<1> QED BY <1>6, <1>7, <1>8, <1>9, <1>10, <1>12 DEF TimersInv

(* The end that somebody else sets leaves every timer where it is.         *)
LEMMA TestEndsInv == ASSUME TimersInv, TestEnds PROVE TimersInv'
<1>0. /\ InTest /\ ~done /\ done' = TRUE
      /\ UNCHANGED <<list, now, pc, cur, handle, omitting, stats, reports, base, testvars>>
    BY DEF TestEnds, InTest
<1>1. /\ WellFormed(list)' /\ HandlesInv' /\ OmitInv'
    BY <1>0 DEF TimersInv, HandlesInv, OmitInv, InTest, testvars
<1>2. PairInv'
    BY <1>0 DEF TimersInv, PairInv, InTest, testvars
<1>3. CountInv'
    BY <1>0 DEF TimersInv, CountInv, InTest, testvars
<1>4. WalkInv'
    BY <1>0 DEF TimersInv, WalkInv
<1>5. Scalars'
    <2>1. done' \in BOOLEAN
        BY <1>0, Zenon
    <2> QED BY <1>0, <2>1 DEF Scalars, TimersInv, TypeOK, testvars
<1>6. TypeOK'
    BY <1>1, <1>4, <1>5, TypesFollowNext
<1> QED BY <1>1, <1>2, <1>3, <1>4, <1>6 DEF TimersInv

(* The timer that runs is the one of its kind, and the first of the list.  *)
LEMMA RunningFacts ==
    ASSUME TimersInv, NEW k \in Kind, Running(k)
    PROVE  /\ cur = handle[k] /\ cur # NULL /\ cur \in Active(list) /\ cur = First(list)
           /\ pc = "run" /\ InTest /\ Time(list, cur) <= now
           /\ list.tmr[cur].periodic <=> k \in Periodic
           /\ k \in Periodic => list.tmr[cur].usecs = interval /\ interval # 0
           /\ \A t \in Active(list) : t # cur => Before(list, cur, t) /\ ~Before(list, t, cur)
<1>1. /\ pc = "run" /\ InTest /\ Expired(list, cur, now) /\ cur # NULL /\ Time(list, cur) <= now
      /\ list.tmr[cur].proc = k
    BY DEF Running, Expired, InTest
<1>2. cur \in Active(list) /\ cur = First(list)
    BY <1>1 DEF TimersInv, WalkInv
<1>3. cur = handle[k]
    <2>1. PICK j \in Kind : handle[j] = cur
        BY <1>2 DEF TimersInv, HandlesInv
    <2>2. HeldAs(list, handle[j], interval, j)
        BY DEF TimersInv, HandlesInv
    <2> QED BY <1>1, <2>1, <2>2 DEF HeldAs
<1>4. HeldAs(list, handle[k], interval, k)
    BY DEF TimersInv, HandlesInv
<1>5. k \in Periodic => interval # 0
    BY <1>1, <1>3 DEF TimersInv, HandlesInv
<1>6. /\ list.tmr[cur].periodic <=> k \in Periodic
      /\ k \in Periodic => list.tmr[cur].usecs = interval
    BY <1>1, <1>3, <1>4 DEF HeldAs
<1>7. \A t \in Active(list) : t # cur => Before(list, cur, t) /\ ~Before(list, t, cur)
    BY <1>1, <1>2, InvFacts, FirstFacts, OrderFacts
<1> QED BY <1>1, <1>2, <1>3, <1>5, <1>6, <1>7

(* The stats timer and the reporter timer of a test that has them.         *)
LEMMA PairFacts ==
    ASSUME TimersInv, InTest, interval # 0
    PROVE  /\ handle["stats"] \in Active(list) /\ handle["reporter"] \in Active(list)
           /\ handle["stats"] # NULL /\ handle["reporter"] # NULL
           /\ handle["stats"] # handle["reporter"]
           /\ list.tmr[handle["stats"]].usecs = interval /\ list.tmr[handle["reporter"]].usecs = interval
<1>1. handle["stats"] # NULL /\ handle["reporter"] # NULL
    BY DEF TimersInv, HandlesInv, Periodic
<1>2. HeldAs(list, handle["stats"], interval, "stats") /\ HeldAs(list, handle["reporter"], interval, "reporter")
    BY DEF TimersInv, HandlesInv, Kind
<1> QED BY <1>1, <1>2 DEF HeldAs, Periodic

(* A timer that runs once is cancelled, and the walk goes on at the head.  *)
LEMMA CancelWalk ==
    ASSUME NEW L, WellFormed(L), NEW t, t # NULL, t = First(L), NEW M, M = tmr_cancel(L, t)
    PROVE  \/ NextTimer(L, t) = NULL
           \/ NextTimer(L, t) \in Active(M) /\ NextTimer(L, t) = First(M)
<1> DEFINE n == NextTimer(L, t)
<1>1. t \in Active(L)
    BY FirstFacts
<1>2. /\ WellFormed(M) /\ Active(M) = Active(L) \ {t}
      /\ \A u, v \in Active(M) : Before(L, u, v) => Before(M, u, v)
    BY <1>1, CancelFacts
<1>3. \/ n = NULL
      \/ n \in Active(L) \ {t} /\ \A u \in Active(L) \ {t, n} : Before(L, n, u)
    BY NextFacts
<1> HIDE DEF n
<1>4. n # NULL => n \in Active(M) /\ \A u \in Active(M) : u # n => Before(M, n, u)
    BY <1>2, <1>3
<1>5. n # NULL => n = First(M)
    BY <1>2, <1>4, FirstFacts
<1> QED BY <1>4, <1>5 DEF n

(* A list from which another timer was taken.                              *)
LEMMA TogetherStays ==
    ASSUME NEW L, NEW M, NEW s \in Active(M), NEW r \in Active(M), Together(L, s, r),
           Active(M) \subseteq Active(L), \A t \in Active(M) : Time(M, t) = Time(L, t),
           \A t, u \in Active(M) : Before(L, t, u) => Before(M, t, u)
    PROVE  Together(M, s, r)
<1>1. Time(M, s) = Time(M, r) /\ Before(M, s, r)
    BY DEF Together
<1>2. ASSUME NEW t \in Others(M, s, r) PROVE Before(M, t, s) \/ Before(M, r, t)
    <2>1. t \in Active(M) /\ t \in Others(L, s, r)
        BY DEF Others
    <2> QED BY <2>1 DEF Together
<1> QED BY <1>1, <1>2 DEF Together

LEMMA TestTimerInv == ASSUME TimersInv, TestTimer PROVE TimersInv'
<1> DEFINE T == handle["test"]
           s == handle["stats"]
           r == handle["reporter"]
<1>0. /\ Running("test") /\ handle' = [handle EXCEPT !["test"] = NULL] /\ done' = TRUE
      /\ list' = AfterRun(list, cur, now) /\ cur' = NextTimer(list, cur)
      /\ UNCHANGED <<now, pc, base, omitting, stats, reports, testvars>>
    BY DEF TestTimer, Turned
<1>1. /\ cur = T /\ cur # NULL /\ cur \in Active(list) /\ cur = First(list)
      /\ pc = "run" /\ InTest /\ ~list.tmr[cur].periodic
      /\ \A t \in Active(list) : t # cur => Before(list, cur, t) /\ ~Before(list, t, cur)
    BY <1>0, RunningFacts DEF Kind, Periodic
<1>2. list' = tmr_cancel(list, cur)
    BY <1>0, <1>1 DEF AfterRun
<1>3. /\ WellFormed(list') /\ list'.tmr = list.tmr /\ Active(list') = Active(list) \ {cur}
      /\ \A u, v \in Active(list') : Before(list, u, v) => Before(list', u, v)
    BY <1>1, <1>2, InvFacts, CancelFacts
<1>4. cur' = NULL \/ (cur' \in Active(list') /\ cur' = First(list'))
    BY <1>0, <1>1, <1>2, InvFacts, CancelWalk
<1>t. \A t : Time(list', t) = Time(list, t)
    BY <1>3 DEF Time
<1>h. /\ handle' \in [Kind -> Timer \cup {NULL}] /\ handle'["test"] = NULL
      /\ \A k \in Kind : k # "test" => handle'[k] = handle[k] /\ handle[k] # cur
      /\ interval' = interval /\ InTest'
    BY <1>0, <1>1, InvFacts DEF Kind, testvars, InTest
<1>5. HandlesInv'
    <2>1. \A t \in Active(list') : \E k \in Kind : handle'[k] = t
        BY <1>1, <1>3, <1>h DEF TimersInv, HandlesInv, Kind
    <2>2. \A k \in Kind : HeldAs(list', handle'[k], interval', k)
        BY <1>3, <1>h DEF TimersInv, HandlesInv, HeldAs
    <2>3. \A k \in Periodic : handle'[k] = NULL <=> interval' = 0
        BY <1>1, <1>h DEF TimersInv, HandlesInv, Periodic, Kind
    <2> QED BY <1>h, <2>1, <2>2, <2>3 DEF HandlesInv
<1>6. ~omitting /\ handle["omit"] = NULL
    <2>1. ASSUME handle["omit"] # NULL PROVE FALSE
        <3> DEFINE o == handle["omit"]
        <3>1. o \in Active(list) /\ o # cur
            BY <1>h, <2>1, InvFacts DEF Kind
        <3>2. Time(list, o) < Time(list, cur)
            BY <1>1, <2>1 DEF TimersInv, OmitInv
        <3>3. Time(list, cur) <= Time(list, o)
            BY <1>1, <3>1, InvFacts, OrderFacts
        <3>4. Time(list, o) \in Nat /\ Time(list, cur) \in Nat
            BY <1>1, <3>1, InvFacts
        <3> QED BY <3>2, <3>3, <3>4
    <2> QED BY <1>1, <2>1 DEF TimersInv, OmitInv
<1>7. OmitInv'
    BY <1>0, <1>6, <1>h DEF OmitInv, Kind
<1>8. PairInv'
    <2> SUFFICES ASSUME interval # 0
                 PROVE  Together(list', s, r) /\ (stats = reports \/ stats = reports + 1)
        BY <1>0, <1>h DEF PairInv, Kind
    <2>1. s \in Active(list) /\ r \in Active(list) /\ s # cur /\ r # cur
        BY <1>1, <1>h, PairFacts DEF Kind
    <2>2. Together(list, s, r) /\ (stats = reports \/ stats = reports + 1)
        BY <1>1, <2>1 DEF TimersInv, PairInv
    <2>3. s \in Active(list') /\ r \in Active(list')
        BY <1>3, <2>1
    <2>4. Together(list', s, r)
        BY <1>3, <1>t, <2>2, <2>3, TogetherStays
    <2> QED BY <2>2, <2>4
<1>9. CountInv'
    BY <1>0, <1>1, <1>h DEF TimersInv, CountInv
<1>10. WalkInv'
    BY <1>0, <1>1, <1>4 DEF WalkInv
<1>11. Scalars'
    <2>1. done' \in BOOLEAN
        BY <1>0, Zenon
    <2> QED BY <1>0, <2>1 DEF Scalars, TimersInv, TypeOK, testvars
<1>12. WellFormed(list)'
    BY <1>3
<1>13. TypeOK'
    BY <1>5, <1>10, <1>11, <1>12, TypesFollowNext
<1> QED BY <1>5, <1>7, <1>8, <1>9, <1>10, <1>12, <1>13 DEF TimersInv

LEMMA Distributes ==
    ASSUME NEW m \in Nat, NEW i \in Nat
    PROVE  m * i \in Nat /\ (m + 1) * i = m * i + i /\ (m + 1) * i \in Nat
OBVIOUS

(* What both periodic timers leave alone: p is moved within the list.      *)
LEMMA PeriodicStays ==
    ASSUME TimersInv, NEW k \in Periodic, Running(k), list' = AfterRun(list, cur, now),
           UNCHANGED <<now, pc, base, testvars, handle, done, omitting>>,
           stats' \in Nat, reports' \in Nat
    PROVE  /\ list' = list_resort(Timed(list, cur, Time(list, cur) + interval), cur)
           /\ WellFormed(list)' /\ HandlesInv' /\ OmitInv' /\ Scalars' /\ InTest'
<1>0. k \in Kind
    BY DEF Periodic, Kind
<1>1. /\ cur = handle[k] /\ cur # NULL /\ cur \in Active(list)
      /\ pc = "run" /\ InTest /\ list.tmr[cur].periodic
      /\ list.tmr[cur].usecs = interval /\ interval # 0
    BY <1>0, RunningFacts
<1>2. list' = list_resort(Timed(list, cur, Time(list, cur) + interval), cur)
    BY <1>1 DEF AfterRun
<1>3. Time(list, cur) + interval \in Nat
    BY <1>1, InvFacts
<1>4. /\ WellFormed(list') /\ Active(list') = Active(list)
      /\ \A u \in Timer : u # cur => list'.tmr[u] = list.tmr[u] /\ Time(list', u) = Time(list, u)
      /\ list'.tmr[cur].usecs = list.tmr[cur].usecs
      /\ list'.tmr[cur].periodic = list.tmr[cur].periodic /\ list'.tmr[cur].proc = list.tmr[cur].proc
    <2> DEFINE x == Time(list, cur) + interval
    <2>1. x \in Nat /\ list' = list_resort(Timed(list, cur, x), cur) /\ WellFormed(list)
        BY <1>2, <1>3, InvFacts
    <2> HIDE DEF x
    <2>2. cur \in Active(list)
        BY <1>1
    <2>3. Resorted(list, cur, x, list')
        BY <2>1, <2>2, ResortFacts
    <2> QED BY <2>3 DEF Resorted
<1>5. ASSUME NEW j \in Kind PROVE HeldAs(list', handle[j], interval, j)
    <2>1. HeldAs(list, handle[j], interval, j)
        BY DEF TimersInv, HandlesInv
    <2> QED BY <1>4, <2>1, InvFacts DEF HeldAs
<1>6. HandlesInv'
    BY <1>4, <1>5 DEF TimersInv, HandlesInv, testvars, InTest
<1>7. OmitInv'
    <2>1. ASSUME handle["omit"] # NULL, handle["test"] # NULL
          PROVE  Time(list', handle["omit"]) < Time(list', handle["test"])
        <3>1. handle["omit"] # cur /\ handle["test"] # cur
            BY <1>0, <1>1, <2>1, InvFacts DEF Kind, Periodic
        <3>2. handle["omit"] \in Timer /\ handle["test"] \in Timer
            BY <2>1, InvFacts DEF Kind
        <3>3. Time(list, handle["omit"]) < Time(list, handle["test"])
            BY <2>1 DEF TimersInv, OmitInv
        <3> QED BY <1>4, <3>1, <3>2, <3>3
    <2>2. duration' = duration
        BY DEF testvars
    <2> QED BY <2>1, <2>2 DEF TimersInv, OmitInv, InTest
<1>8. Scalars' /\ InTest'
    BY <1>1 DEF Scalars, TimersInv, TypeOK, testvars, InTest
<1> QED BY <1>2, <1>4, <1>6, <1>7, <1>8

LEMMA StatsTimerInv == ASSUME TimersInv, StatsTimer PROVE TimersInv'
<1> DEFINE s == handle["stats"]
           r == handle["reporter"]
           x == Time(list, s) + interval
<1>0. /\ Running("stats") /\ stats' = (IF done THEN stats ELSE stats + 1)
      /\ list' = AfterRun(list, cur, now) /\ cur' = NextTimer(list, cur)
      /\ UNCHANGED <<now, pc, base, testvars, handle, done, omitting, reports>>
    BY DEF StatsTimer, Turned
<1>1. /\ cur = s /\ cur # NULL /\ s \in Active(list) /\ s = First(list)
      /\ pc = "run" /\ InTest /\ interval # 0 /\ Time(list, s) <= now
      /\ \A t \in Active(list) : t # s => Before(list, s, t) /\ ~Before(list, t, s)
    BY <1>0, RunningFacts DEF Kind, Periodic
<1>2. r \in Active(list) /\ s # r /\ r # NULL
    BY <1>1, PairFacts
<1>3. Together(list, s, r) /\ (stats = reports \/ (done /\ stats = reports + 1))
    BY <1>1, <1>2 DEF TimersInv, PairInv
<1>4. stats' \in Nat /\ reports' \in Nat
    BY <1>0, InvFacts
<1>5. /\ list' = list_resort(Timed(list, s, x), s)
      /\ WellFormed(list)' /\ HandlesInv' /\ OmitInv' /\ Scalars' /\ InTest'
    BY <1>0, <1>1, <1>4, PeriodicStays DEF Periodic
<1>n. x \in Nat /\ Time(list, s) \in Nat /\ Time(list, r) \in Nat /\ Active(list) \subseteq Timer
      /\ WellFormed(list) /\ interval \in Nat /\ now \in Nat
    BY <1>1, <1>2, InvFacts
<1>6. /\ WellFormed(list') /\ Active(list') = Active(list)
      /\ \A u \in Timer : u # s => Time(list', u) = Time(list, u)
      /\ Time(list', s) = x
      /\ \A u, v \in Active(list) \ {s} : Before(list, u, v) => Before(list', u, v)
      /\ \A u \in Active(list) \ {s} : Time(list, u) <= x => Before(list', u, s)
    <2> HIDE DEF x, s
    <2>1. Resorted(list, s, x, list')
        BY <1>1, <1>5, <1>n, ResortFacts
    <2> QED BY <2>1 DEF Resorted
<1>7. cur' = r
    <2>1. \/ NextTimer(list, s) = NULL /\ Active(list) = {s}
          \/ /\ NextTimer(list, s) \in Active(list) \ {s}
             /\ \A u \in Active(list) \ {s, NextTimer(list, s)} : Before(list, NextTimer(list, s), u)
        BY <1>1, <1>n, NextFacts
    <2> DEFINE n == NextTimer(list, s)
    <2>2. n \in Active(list) \ {s} /\ (n # r => Before(list, n, r))
        BY <1>2, <2>1
    <2> HIDE DEF n
    <2>3. n # r => ~Before(list, r, n) /\ n \in Others(list, s, r)
        BY <1>n, <2>2, OrderFacts DEF Others
    <2>4. n = r
        BY <1>1, <1>3, <2>2, <2>3 DEF Together
    <2> QED BY <1>0, <1>1, <2>4 DEF n
<1>8. Time(list, s) = Time(list, r) /\ Time(list', r) = Time(list, r)
    BY <1>2, <1>3, <1>6, <1>n DEF Together
<1>9. Between(list', s, r, interval)
    <2>1. Time(list', s) = Time(list', r) + interval
        BY <1>6, <1>8
    <2>2. Before(list', r, s)
        BY <1>2, <1>6, <1>8, <1>n
    <2>3. ASSUME NEW t \in Others(list', s, r), Time(list', t) <= Time(list', s) PROVE Before(list', t, s)
        <3>1. t \in Active(list) \ {s} /\ t \in Timer /\ Time(list, t) <= x
            BY <1>6, <1>n, <2>3 DEF Others
        <3> QED BY <1>6, <3>1
    <2> QED BY <2>1, <2>2, <2>3 DEF Between
<1>10. PairInv'
    <2>1. Expired(list', r, now)
        BY <1>1, <1>2, <1>8 DEF Expired
    <2>2. stats' = reports + 1 \/ (done /\ stats' = reports)
        BY <1>0, <1>3
    <2>3. handle' = handle /\ pc' = "run" /\ now' = now /\ done' = done /\ reports' = reports
          /\ interval' = interval
        BY <1>0, <1>1 DEF testvars
    <2> QED BY <1>7, <1>9, <2>1, <2>2, <2>3 DEF PairInv
<1>11. CountInv'
    <2> DEFINE c == stats * interval
               d == (stats + 1) * interval
               e == (stats + 1 + 1) * interval
    <2>0. c \in Nat /\ d \in Nat /\ e = d + interval
        BY <1>n, InvFacts, Distributes
    <2>1. base <= now /\ (~done => Time(list, s) = base + d)
        BY <1>1 DEF TimersInv, CountInv
    <2>2. base \in Nat
        BY InvFacts
    <2> HIDE DEF c, d, e
    <2>3. ~done => Time(list', s) = base + e /\ base + d <= now
        BY <1>1, <1>6, <1>n, <2>0, <2>1, <2>2
    <2> QED BY <1>0, <1>1, <2>1, <2>3 DEF CountInv, testvars, d, e
<1>12. WalkInv'
    <2>1. ASSUME NEW u \in Active(list'), u # r PROVE Before(list', r, u)
        <3>1. CASE u = s
            BY <1>9, <3>1 DEF Between
        <3>2. CASE u # s
            <4>1. u \in Active(list) /\ u \in Others(list, s, r)
                BY <1>6, <2>1, <3>2 DEF Others
            <4>2. Before(list, r, u)
                BY <1>1, <1>3, <3>2, <4>1 DEF Together
            <4> QED BY <1>2, <1>6, <3>2, <4>1, <4>2
        <3> QED BY <3>1, <3>2
    <2>2. r = First(list') /\ r \in Active(list')
        BY <1>2, <1>6, <2>1, FirstFacts
    <2> QED BY <1>0, <1>1, <1>7, <2>2 DEF WalkInv
<1>13. TypeOK'
    BY <1>5, <1>12, TypesFollowNext
<1> QED BY <1>5, <1>10, <1>11, <1>12, <1>13 DEF TimersInv

LEMMA ReporterTimerInv == ASSUME TimersInv, ReporterTimer PROVE TimersInv'
<1> DEFINE s == handle["stats"]
           r == handle["reporter"]
           x == Time(list, r) + interval
<1>0. /\ Running("reporter") /\ reports' = (IF done THEN reports ELSE reports + 1)
      /\ list' = AfterRun(list, cur, now) /\ cur' = NextTimer(list, cur)
      /\ UNCHANGED <<now, pc, base, testvars, handle, done, omitting, stats>>
    BY DEF ReporterTimer, Turned
<1>1. /\ cur = r /\ cur # NULL /\ r \in Active(list) /\ r = First(list)
      /\ pc = "run" /\ InTest /\ interval # 0
      /\ \A t \in Active(list) : t # r => Before(list, r, t) /\ ~Before(list, t, r)
    BY <1>0, RunningFacts DEF Kind, Periodic
<1>2. s \in Active(list) /\ s # r
    BY <1>1, PairFacts
<1>3. Between(list, s, r, interval) /\ (stats = reports + 1 \/ (done /\ stats = reports))
    BY <1>1, <1>2 DEF TimersInv, PairInv, Together
<1>4. stats' \in Nat /\ reports' \in Nat
    BY <1>0, InvFacts
<1>5. /\ list' = list_resort(Timed(list, r, x), r)
      /\ WellFormed(list)' /\ HandlesInv' /\ OmitInv' /\ Scalars' /\ InTest'
    BY <1>0, <1>1, <1>4, PeriodicStays DEF Periodic
<1>n. x \in Nat /\ Active(list) \subseteq Timer /\ WellFormed(list)
      /\ \A t \in Active(list) : Time(list, t) \in Nat
    BY <1>1, InvFacts
<1>6. /\ WellFormed(list') /\ Active(list') = Active(list)
      /\ \A u \in Timer : u # r => Time(list', u) = Time(list, u)
      /\ Time(list', r) = x
      /\ \A u, v \in Active(list) \ {r} : Before(list, u, v) => Before(list', u, v)
      /\ \A u \in Active(list) \ {r} : /\ Time(list, u) <= x => Before(list', u, r)
                                       /\ x < Time(list, u) => Before(list', r, u)
    <2> HIDE DEF x, r
    <2>1. Resorted(list, r, x, list')
        BY <1>1, <1>5, <1>n, ResortFacts
    <2> QED BY <2>1 DEF Resorted
<1>7. Time(list, s) = x /\ Time(list', s) = x
    BY <1>2, <1>3, <1>6, <1>n DEF Between
<1>8. Together(list', s, r)
    <2>1. Time(list', s) = Time(list', r) /\ Before(list', s, r)
        BY <1>2, <1>6, <1>7, <1>n
    <2>2. ASSUME NEW t \in Others(list', s, r) PROVE Before(list', t, s) \/ Before(list', r, t)
        <3>1. t \in Active(list) \ {r} /\ t \in Others(list, s, r) /\ Time(list, t) \in Nat
            BY <1>6, <1>n DEF Others
        <3>2. CASE Time(list, t) <= x
            <4>1. Before(list, t, s)
                BY <1>3, <1>7, <3>1, <3>2 DEF Between
            <4> QED BY <1>2, <1>6, <3>1, <4>1
        <3>3. CASE x < Time(list, t)
            BY <1>6, <3>1, <3>3
        <3> HIDE DEF x
        <3> QED BY <1>n, <3>1, <3>2, <3>3
    <2> QED BY <2>1, <2>2 DEF Together
<1>9. PairInv'
    <2>1. stats' = reports' \/ (done' /\ stats' = reports' + 1)
        BY <1>0, <1>3
    <2>2. handle' = handle
        BY <1>0
    <2> QED BY <1>8, <2>1, <2>2 DEF PairInv
<1>10. CountInv'
    <2>1. /\ base <= now
          /\ ~done => /\ Time(list, s) = base + (stats + 1) * interval
                      /\ base + stats * interval <= now
        BY <1>1 DEF TimersInv, CountInv
    <2>2. Time(list', s) = Time(list, s)
        BY <1>7
    <2> QED BY <1>0, <1>1, <2>1, <2>2 DEF CountInv, testvars
<1>11. WalkInv'
    <2> DEFINE n == NextTimer(list, r)
    <2>1. n \in Active(list) \ {r} /\ \A u \in Active(list) \ {r, n} : Before(list, n, u)
        BY <1>1, <1>2, <1>n, NextFacts
    <2> HIDE DEF n
    <2>2. Time(list, n) <= x
        <3>1. CASE n = s
            BY <1>7, <1>n, <2>1, <3>1
        <3>2. CASE n # s
            <4>1. Before(list, n, s)
                BY <1>2, <2>1, <3>2
            <4> QED BY <1>7, <1>n, <4>1, OrderFacts
        <3> QED BY <3>1, <3>2
    <2>3. ASSUME NEW u \in Active(list'), u # n PROVE Before(list', n, u)
        <3>1. CASE u = r
            BY <1>6, <2>1, <2>2, <3>1
        <3>2. CASE u # r
            BY <1>6, <2>1, <2>3, <3>2
        <3> QED BY <3>1, <3>2
    <2>4. n = First(list') /\ n \in Active(list')
        BY <1>6, <2>1, <2>3, FirstFacts
    <2>5. cur' = n
        BY <1>0, <1>1 DEF n
    <2> QED BY <1>0, <1>1, <2>4, <2>5 DEF WalkInv
<1>13. TypeOK'
    BY <1>5, <1>11, TypesFollowNext
<1> QED BY <1>5, <1>9, <1>10, <1>11, <1>13 DEF TimersInv

(* The omit timer with periodic timers to start again.                     *)
LEMMA RestartFacts ==
    ASSUME NEW L, WellFormed(L), NEW s \in Active(L), NEW r \in Active(L), s # r, NEW x \in Nat,
           NEW A, A = list_resort(Timed(L, s, x), s), NEW B, B = list_resort(Timed(A, r, x), r)
    PROVE  /\ WellFormed(B) /\ Active(B) = Active(L)
           /\ \A u \in Timer : u \notin {s, r} => B.tmr[u] = L.tmr[u] /\ Time(B, u) = Time(L, u)
           /\ \A u \in {s, r} : /\ Time(B, u) = x /\ B.tmr[u].usecs = L.tmr[u].usecs
                                /\ B.tmr[u].periodic = L.tmr[u].periodic /\ B.tmr[u].proc = L.tmr[u].proc
           /\ Together(B, s, r)
           /\ \A u \in Others(L, s, r) : Time(L, u) <= x => Before(B, u, s) /\ Before(B, u, r)
<1>0. Active(L) \subseteq Timer /\ s \in Timer /\ r \in Timer /\ \A u \in Active(L) : Time(L, u) \in Nat
    BY ListFacts DEF WellFormed
<1>1. Resorted(L, s, x, A)
    BY ResortFacts
<1>2. r \in Active(A) /\ WellFormed(A)
    BY <1>1 DEF Resorted
<1>3. Resorted(A, r, x, B)
    BY <1>2, ResortFacts
<1> USE DEF Resorted
<1>4. \A u \in Timer : u \notin {s, r} => B.tmr[u] = L.tmr[u] /\ Time(B, u) = Time(L, u)
    BY <1>1, <1>3
<1>5. /\ Time(B, s) = x /\ B.tmr[s].usecs = L.tmr[s].usecs
      /\ B.tmr[s].periodic = L.tmr[s].periodic /\ B.tmr[s].proc = L.tmr[s].proc
      /\ Time(B, r) = x /\ B.tmr[r].usecs = L.tmr[r].usecs
      /\ B.tmr[r].periodic = L.tmr[r].periodic /\ B.tmr[r].proc = L.tmr[r].proc
    BY <1>0, <1>1, <1>3
<1>6. \A u \in Others(L, s, r) : Time(L, u) <= x => Before(B, u, s) /\ Before(B, u, r)
    <2> SUFFICES ASSUME NEW u \in Others(L, s, r), Time(L, u) <= x PROVE Before(B, u, s) /\ Before(B, u, r)
        OBVIOUS
    <2>1. u \in Active(L) /\ u # s /\ u # r /\ u \in Timer /\ Time(A, u) = Time(L, u)
        BY <1>0, <1>1 DEF Others
    <2>2. Before(A, u, s) /\ Before(B, u, r)
        BY <1>1, <1>3, <2>1
    <2> QED BY <1>1, <1>3, <2>1, <2>2
<1>7. Together(B, s, r)
    <2>1. Before(B, s, r)
        BY <1>1, <1>3
    <2>2. ASSUME NEW t \in Others(B, s, r) PROVE Before(B, t, s) \/ Before(B, r, t)
        <3>1. t \in Active(L) /\ t # s /\ t # r /\ t \in Timer /\ Time(A, t) = Time(L, t)
              /\ t \in Others(L, s, r) /\ Time(L, t) \in Nat
            BY <1>0, <1>1, <1>3 DEF Others
        <3>2. x < Time(L, t) => Before(B, r, t)
            BY <1>1, <1>3, <3>1
        <3>3. Time(L, t) <= x \/ x < Time(L, t)
            BY <3>1
        <3> QED BY <1>6, <3>1, <3>2, <3>3
    <2> QED BY <1>5, <2>1, <2>2 DEF Together
<1> QED BY <1>1, <1>3, <1>4, <1>5, <1>6, <1>7

LEMMA OmitTimerInv == ASSUME TimersInv, OmitTimer PROVE TimersInv'
<1> DEFINE T == handle["test"]
           s == handle["stats"]
           r == handle["reporter"]
           o == handle["omit"]
           x == now + interval
           A == Restarted(list, "stats")
           B == Restarted(A, "reporter")
<1>0. /\ Running("omit") /\ handle' = [handle EXCEPT !["omit"] = NULL] /\ omitting' = FALSE
      /\ stats' = 0 /\ reports' = 0 /\ base' = now
      /\ list' = AfterRun(B, cur, now) /\ cur' = NextTimer(list, cur)
      /\ UNCHANGED <<now, pc, done, testvars>>
    BY DEF OmitTimer
<1>1. /\ cur = o /\ cur # NULL /\ o \in Active(list) /\ o = First(list)
      /\ pc = "run" /\ InTest /\ ~list.tmr[o].periodic
    BY <1>0, RunningFacts DEF Kind, Periodic
<1>n. x \in Nat /\ now \in Nat /\ interval \in Nat /\ Active(list) \subseteq Timer /\ WellFormed(list)
      /\ NULL \notin Active(list) /\ o \in Timer
    BY <1>1, InvFacts
<1>2. interval = 0 => s = NULL /\ r = NULL /\ B = list
    BY <1>1 DEF TimersInv, HandlesInv, Restarted, Periodic
<1>3. ASSUME interval # 0
      PROVE  /\ s \in Active(list) /\ r \in Active(list) /\ s # r /\ s # o /\ r # o
             /\ A = list_resort(Timed(list, s, x), s) /\ B = list_resort(Timed(A, r, x), r)
    <2>1. /\ s \in Active(list) /\ r \in Active(list) /\ s # NULL /\ r # NULL /\ s # r
          /\ list.tmr[s].usecs = interval /\ list.tmr[r].usecs = interval
        BY <1>1, <1>3, PairFacts
    <2>2. s # o /\ r # o
        BY <2>1, InvFacts DEF Kind
    <2>3. A = list_resort(Timed(list, s, x), s)
        BY <2>1 DEF Restarted, tmr_reset
    <2> HIDE DEF A, x
    <2>4. Resorted(list, s, x, A)
        BY <1>n, <2>1, <2>3, ResortFacts
    <2>5. A.tmr[r].usecs = interval
        BY <1>n, <2>1, <2>4 DEF Resorted
    <2>6. B = list_resort(Timed(A, r, x), r)
        BY <2>1, <2>5 DEF Restarted, tmr_reset, x
    <2> QED BY <2>1, <2>2, <2>3, <2>6
<1>p. ASSUME interval # 0
      PROVE  /\ WellFormed(B) /\ Active(B) = Active(list)
             /\ \A u \in Timer : u \notin {s, r} => B.tmr[u] = list.tmr[u] /\ Time(B, u) = Time(list, u)
             /\ \A u \in {s, r} : /\ Time(B, u) = x /\ B.tmr[u].usecs = list.tmr[u].usecs
                                  /\ B.tmr[u].periodic = list.tmr[u].periodic
                                  /\ B.tmr[u].proc = list.tmr[u].proc
             /\ Together(B, s, r)
             /\ \A u \in Others(list, s, r) : Time(list, u) <= x => Before(B, u, s) /\ Before(B, u, r)
    <2> HIDE DEF A, B, x, s, r
    <2> QED BY <1>3, <1>n, <1>p, RestartFacts
<1> HIDE DEF A, B
<1>4. /\ WellFormed(B) /\ Active(B) = Active(list)
      /\ \A u \in Timer : u \notin {s, r} => B.tmr[u] = list.tmr[u] /\ Time(B, u) = Time(list, u)
      /\ \A u \in Active(list) : /\ B.tmr[u].usecs = list.tmr[u].usecs
                                 /\ B.tmr[u].periodic = list.tmr[u].periodic
                                 /\ B.tmr[u].proc = list.tmr[u].proc
    BY <1>2, <1>n, <1>p
<1>5. B.tmr[o].periodic = list.tmr[o].periodic
    BY <1>1, <1>4
<1>6. list' = tmr_cancel(B, o)
    BY <1>0, <1>1, <1>5 DEF AfterRun
<1>7. /\ WellFormed(list') /\ list'.tmr = B.tmr /\ Active(list') = Active(list) \ {o}
      /\ \A u, v \in Active(list') : Before(B, u, v) => Before(list', u, v)
    BY <1>1, <1>4, <1>6, CancelFacts
<1>t. \A t : Time(list', t) = Time(B, t)
    BY <1>7 DEF Time
<1>h. /\ handle' \in [Kind -> Timer \cup {NULL}] /\ handle'["omit"] = NULL
      /\ \A k \in Kind : k # "omit" => handle'[k] = handle[k] /\ handle[k] # o
      /\ interval' = interval /\ InTest' /\ handle'["stats"] = s /\ handle'["reporter"] = r
    BY <1>0, <1>1, InvFacts DEF Kind, testvars, InTest
<1>8. HandlesInv'
    <2>1. \A t \in Active(list') : \E k \in Kind : handle'[k] = t
        BY <1>1, <1>7, <1>h DEF TimersInv, HandlesInv, Kind
    <2>2. ASSUME NEW k \in Kind PROVE HeldAs(list', handle'[k], interval', k)
        <3>1. HeldAs(list, handle[k], interval, k)
            BY DEF TimersInv, HandlesInv
        <3> QED BY <1>4, <1>7, <1>h, <3>1 DEF HeldAs
    <2>3. \A k \in Periodic : handle'[k] = NULL <=> interval' = 0
        BY <1>1, <1>h DEF TimersInv, HandlesInv, Periodic, Kind
    <2> QED BY <1>h, <2>1, <2>2, <2>3 DEF HandlesInv
<1>9. OmitInv'
    BY <1>0, <1>h DEF OmitInv
<1>10. PairInv'
    <2> SUFFICES ASSUME interval # 0 PROVE Together(list', s, r)
        BY <1>0, <1>h DEF PairInv
    <2>1. s \in Active(list') /\ r \in Active(list') /\ Active(list') \subseteq Active(B)
        BY <1>3, <1>4, <1>7
    <2> HIDE DEF s, r
    <2> QED BY <1>7, <1>p, <1>t, <2>1, TogetherStays
<1>11. CountInv'
    <2>1. interval # 0 => Time(list', s) = now + interval
        BY <1>p, <1>t
    <2>2. (0 + 1) * interval = interval /\ 0 * interval = 0
        BY <1>n
    <2> QED BY <1>0, <1>h, <1>n, <2>1, <2>2 DEF CountInv
<1>12. WalkInv'
    <2> DEFINE n == NextTimer(list, o)
    <2>1. n = NULL \/ n \in Active(list) \ {o}
        BY <1>1, <1>n, NextFacts
    <2>2. cur' = n
        BY <1>0, <1>1 DEF n
    <2> HIDE DEF n
    <2>3. ASSUME n # NULL, Expired(list', n, now) PROVE n = First(list')
        <3>1. n \in Active(list') /\ n \in Timer /\ n # o
            BY <1>7, <1>n, <2>1, <2>3
        <3>2. n \notin {s, r}
            <4>1. CASE interval = 0
                BY <1>2, <2>3, <4>1
            <4>2. CASE interval # 0
                BY <1>n, <1>p, <1>t, <2>3, <4>2 DEF Expired
            <4> QED BY <4>1, <4>2
        <3>3. Time(list, n) <= now /\ n \in Active(list)
            BY <1>4, <1>7, <1>t, <2>3, <3>1, <3>2 DEF Expired
        <3>4. \A u \in Active(list') : u \in {n, s, r}
            <4>1. PICK k \in Kind : handle[k] = n
                BY <3>3 DEF TimersInv, HandlesInv
            <4>2. k = "test"
                BY <3>1, <3>2, <4>1 DEF Kind
            <4> QED BY <1>7, <4>1, <4>2 DEF TimersInv, HandlesInv, Kind
        <3>5. ASSUME NEW u \in Active(list'), u # n PROVE Before(list', n, u)
            <4>1. u \in {s, r} /\ u # NULL
                BY <1>7, <1>n, <3>4, <3>5
            <4>2. interval # 0
                BY <1>2, <4>1
            <4>3. n \in Others(list, s, r) /\ Time(list, n) <= x
                BY <1>n, <3>2, <3>3, InvFacts DEF Others
            <4>4. Before(B, n, u)
                BY <1>p, <4>1, <4>2, <4>3
            <4> QED BY <1>7, <3>1, <4>4
        <3> QED BY <1>7, <3>1, <3>5, FirstFacts
    <2>4. n # NULL => n \in Active(list')
        BY <1>7, <2>1
    <2> QED BY <1>0, <1>1, <2>2, <2>3, <2>4 DEF WalkInv
<1>13. Scalars'
    <2>1. omitting' \in BOOLEAN
        BY <1>0, Zenon
    <2> QED BY <1>0, <2>1 DEF Scalars, TimersInv, TypeOK, testvars
<1>14. WellFormed(list)'
    BY <1>7
<1>15. TypeOK'
    BY <1>8, <1>12, <1>13, <1>14, TypesFollowNext
<1> QED BY <1>8, <1>9, <1>10, <1>11, <1>12, <1>14, <1>15 DEF TimersInv

(* A timer of a test that may have none of its kind.                       *)
Made(L, h, proc, usecs, periodic, M) ==
    /\ usecs = 0 => h = NULL /\ M = L
    /\ usecs # 0 => Added(L, h, now + usecs, usecs, periodic, proc, M)

MadeWell(L, h, proc, usecs, periodic, M) ==
    /\ Made(L, h, proc, usecs, periodic, M) /\ WellFormed(M)
    /\ h \in Timer \cup {NULL} /\ Active(M) = Active(L) \cup ({h} \ {NULL})
    /\ (h = NULL) <=> (usecs = 0)

LEMMA CreatedFacts ==
    ASSUME NEW L, WellFormed(L), Timer \ Active(L) # {}, now \in Nat,
           NEW proc \in Kind, NEW usecs \in Nat, NEW periodic \in BOOLEAN,
           NEW h, h = HandleOf(L, usecs), NEW M, M = Created(L, proc, usecs, periodic)
    PROVE  MadeWell(L, h, proc, usecs, periodic, M)
<1>1. CASE usecs = 0
    BY <1>1 DEF HandleOf, Created, Made, MadeWell
<1>2. CASE usecs # 0
    <2>1. h = Taken(L) /\ M = tmr_create(L, now, proc, usecs, periodic)
        BY <1>2 DEF HandleOf, Created
    <2>2. Added(L, h, now + usecs, usecs, periodic, proc, M)
        BY <2>1, CreateFacts
    <2>3. /\ WellFormed(M) /\ h \in Timer /\ Active(M) = Active(L) \cup {h}
        BY <2>2 DEF Added
    <2>4. h # NULL
        BY <2>3, TimersAssumption
    <2> QED BY <1>2, <2>2, <2>3, <2>4 DEF Made, MadeWell
<1> QED BY <1>1, <1>2

(* What a later timer of the same test leaves of an earlier one.           *)
LEMMA HeldStays ==
    ASSUME NEW L, WellFormed(L), NEW h, NEW proc, NEW usecs, NEW periodic, NEW M,
           Made(L, h, proc, usecs, periodic, M),
           NEW g, NEW i, NEW k, HeldAs(L, g, i, k)
    PROVE  HeldAs(M, g, i, k)
<1> SUFFICES ASSUME g # NULL PROVE g \in Active(M) /\ M.tmr[g] = L.tmr[g]
    BY DEF HeldAs
<1>1. g \in Active(L) /\ g \in Timer
    BY ListFacts DEF WellFormed, HeldAs
<1> QED BY <1>1 DEF Made, Added

LEMMA HeldNew ==
    ASSUME NEW L, NEW h, NEW k \in Kind, NEW usecs, NEW M,
           Made(L, h, k, usecs, k \in Periodic, M)
    PROVE  HeldAs(M, h, usecs, k)
<1>1. CASE usecs = 0
    BY <1>1 DEF Made, HeldAs
<1>2. CASE usecs # 0
    <2>1. Added(L, h, now + usecs, usecs, k \in Periodic, k, M)
        BY <1>2 DEF Made
    <2> QED BY <2>1 DEF Added, HeldAs
<1> QED BY <1>1, <1>2

(* The pair, as create_client_timers makes it between the other two.       *)
MadePair(L, s, r, i) == Together(L, s, r) /\ Time(L, s) = now + i
LEMMA PairMade ==
    ASSUME NEW L, WellFormed(L), now \in Nat, NEW i \in Nat, i # 0, NEW usecs \in Nat,
           NEW s, NEW A, Made(L, s, "stats", i, TRUE, A), WellFormed(A),
           NEW r, NEW B, Made(A, r, "reporter", i, TRUE, B), WellFormed(B),
           NEW o, NEW M, Made(B, o, "omit", usecs, FALSE, M), WellFormed(M)
    PROVE  MadePair(M, s, r, i)
<1> DEFINE x == now + i
           y == now + usecs
<1>0. x \in Nat /\ y \in Nat
    OBVIOUS
<1>1. Added(L, s, x, i, TRUE, "stats", A) /\ Added(A, r, x, i, TRUE, "reporter", B)
    BY DEF Made
<1>2. usecs # 0 => Added(B, o, y, usecs, FALSE, "omit", M)
    BY DEF Made
<1>3. usecs = 0 => M = B
    BY DEF Made
<1> HIDE DEF x, y
<1>a. /\ Active(L) \subseteq Timer /\ Active(A) \subseteq Timer /\ Active(B) \subseteq Timer
      /\ \A t \in Active(L) : Time(L, t) \in Nat
    BY ListFacts DEF WellFormed
<1>4. /\ s \in Active(A) /\ s \in Active(B) /\ r \in Active(B) /\ s # r
      /\ Time(B, s) = x /\ Time(B, r) = x
    BY <1>1, <1>a DEF Added
<1>5. Together(B, s, r)
    <2>1. Before(B, s, r)
        BY <1>0, <1>1, <1>4 DEF Added
    <2>2. ASSUME NEW t \in Others(B, s, r) PROVE Before(B, t, s) \/ Before(B, r, t)
        <3>1. t \in Active(L) /\ t \in Active(A) /\ t \in Timer /\ t # s /\ t # r
            BY <1>1, <1>a DEF Added, Others
        <3>2. Time(A, t) = Time(L, t) /\ Time(L, t) \in Nat
            BY <1>1, <1>a, <3>1 DEF Added
        <3>3. CASE Time(L, t) <= x
            <4>1. Before(A, t, s)
                BY <1>1, <3>1, <3>3 DEF Added
            <4> QED BY <1>1, <1>4, <3>1, <4>1 DEF Added
        <3>4. CASE x < Time(L, t)
            BY <1>1, <3>1, <3>2, <3>4 DEF Added
        <3> QED BY <1>0, <3>2, <3>3, <3>4
    <2> QED BY <1>4, <2>1, <2>2 DEF Together
<1>6. CASE usecs = 0
    BY <1>3, <1>4, <1>5, <1>6 DEF x, MadePair
<1>7. CASE usecs # 0
    <2>1. Added(B, o, y, usecs, FALSE, "omit", M)
        BY <1>2, <1>7
    <2>2. s # o /\ r # o /\ s \in Timer /\ r \in Timer /\ Time(M, s) = x /\ Time(M, r) = x
        BY <1>4, <1>a, <2>1 DEF Added
    <2>3. Before(M, s, r)
        BY <1>4, <1>5, <2>1 DEF Added, Together
    <2>4. ASSUME NEW t \in Others(M, s, r) PROVE Before(M, t, s) \/ Before(M, r, t)
        <3>1. CASE t = o
            BY <1>0, <1>4, <2>1, <3>1 DEF Added
        <3>2. CASE t # o
            <4>1. t \in Active(B) /\ t \in Others(B, s, r)
                BY <2>1, <3>2 DEF Added, Others
            <4> QED BY <1>4, <1>5, <2>1, <4>1 DEF Added, Together
        <3> QED BY <3>1, <3>2
    <2> QED BY <2>2, <2>3, <2>4 DEF Together, x, MadePair
<1> QED BY <1>6, <1>7

LEMMA CreateTimersInv == ASSUME TimersInv, CreateTimers PROVE TimersInv'
<1> DEFINE d == TestTime(duration', omit')
           i == interval'
           e == omit'
           A == Created(list, "test", d, FALSE)
           B == Created(A, "stats", i, TRUE)
           C == Created(B, "reporter", i, TRUE)
           T == HandleOf(list, d)
           s == HandleOf(A, i)
           r == HandleOf(B, i)
           o == HandleOf(C, e)
<1>0. /\ pc = "setup" /\ pc' = "loop" /\ tests < MaxTests
      /\ duration' \in Durations /\ omit' \in Omits /\ interval' \in Intervals
      /\ done' = FALSE /\ omitting' = (omit' # 0)
      /\ stats' = 0 /\ reports' = 0 /\ base' = now /\ tests' = tests + 1
      /\ UNCHANGED <<now, cur>>
    BY DEF CreateTimers
<1>1. list' = Created(C, "omit", e, FALSE)
    BY DEF CreateTimers
<1>h. /\ handle'["test"] = T /\ handle'["stats"] = s /\ handle'["reporter"] = r /\ handle'["omit"] = o
      /\ handle' = [k \in Kind |-> handle'[k]]
    <2>1. handle' = [k \in Kind |->
                CASE k = "test" -> T [] k = "stats" -> s
                  [] k = "reporter" -> r [] k = "omit" -> o]
        BY DEF CreateTimers
    <2> HIDE DEF T, s, r, o
    <2> QED BY <2>1 DEF Kind
<1>2. /\ d \in Nat /\ i \in Nat /\ e \in Nat /\ now \in Nat
      /\ (d # 0 => e < d) /\ (d = 0 => duration' = 0)
    <2>1. i \in Nat /\ e \in Nat /\ duration' \in Nat /\ Grace \in Nat /\ now \in Nat
        BY <1>0, ConstantTypes, InvFacts
    <2>2. duration' = 0 => d = 0
        BY DEF TestTime
    <2>3. duration' # 0 => d = duration' + e + Grace
        BY DEF TestTime
    <2> HIDE DEF d, e
    <2> QED BY <2>1, <2>2, <2>3
<1>t. /\ T = HandleOf(list, d) /\ s = HandleOf(A, i) /\ r = HandleOf(B, i) /\ o = HandleOf(C, e)
      /\ A = Created(list, "test", d, FALSE) /\ B = Created(A, "stats", i, TRUE)
      /\ C = Created(B, "reporter", i, TRUE)
    OBVIOUS
<1> HIDE DEF d, i, e, A, B, C, T, s, r, o
<1>3. WellFormed(list) /\ Active(list) = {} /\ cur = NULL
    BY <1>0, InvFacts DEF TimersInv, HandlesInv, InTest, NoHandles, WalkInv
<1>m. \A t, u, v \in Timer \cup {NULL} : Timer \ {t, u, v} # {}
    BY TestTimersAssumption
<1>b. /\ TRUE \in BOOLEAN /\ FALSE \in BOOLEAN
      /\ "test" \in Kind /\ "stats" \in Kind /\ "reporter" \in Kind /\ "omit" \in Kind
    BY DEF Kind
<1>4. /\ Made(list, T, "test", d, FALSE, A) /\ WellFormed(A)
      /\ T \in Timer \cup {NULL} /\ Active(A) = {T} \ {NULL} /\ (T = NULL <=> d = 0)
    <2>1. Timer \ Active(list) # {}
        BY <1>3, <1>m
    <2>2. MadeWell(list, T, "test", d, FALSE, A)
        BY <1>2, <1>3, <1>b, <1>t, <2>1, CreatedFacts
    <2> QED BY <1>3, <2>2 DEF MadeWell
<1>5. /\ Made(A, s, "stats", i, TRUE, B) /\ WellFormed(B)
      /\ s \in Timer \cup {NULL} /\ Active(B) = {T, s} \ {NULL} /\ (s = NULL <=> i = 0)
    <2>1. Timer \ Active(A) # {}
        BY <1>4, <1>m
    <2>2. MadeWell(A, s, "stats", i, TRUE, B)
        BY <1>2, <1>4, <1>b, <1>t, <2>1, CreatedFacts
    <2> QED BY <1>4, <2>2 DEF MadeWell
<1>6. /\ Made(B, r, "reporter", i, TRUE, C) /\ WellFormed(C)
      /\ r \in Timer \cup {NULL} /\ Active(C) = {T, s, r} \ {NULL} /\ (r = NULL <=> i = 0)
    <2>1. Timer \ Active(B) # {}
        <3>1. Timer \ {T, s, NULL} # {}
            BY <1>4, <1>5, <1>m
        <3> QED BY <1>5, <3>1
    <2>2. MadeWell(B, r, "reporter", i, TRUE, C)
        BY <1>2, <1>5, <1>b, <1>t, <2>1, CreatedFacts
    <2> QED BY <1>5, <2>2 DEF MadeWell
<1>7. /\ Made(C, o, "omit", e, FALSE, list') /\ WellFormed(list')
      /\ o \in Timer \cup {NULL} /\ Active(list') = {T, s, r, o} \ {NULL} /\ (o = NULL <=> e = 0)
    <2>1. Timer \ Active(C) # {}
        <3>1. Timer \ {T, s, r} # {}
            BY <1>4, <1>5, <1>6, <1>m
        <3> QED BY <1>6, <3>1
    <2>2. MadeWell(C, o, "omit", e, FALSE, list')
        BY <1>1, <1>2, <1>6, <1>b, <1>t, <2>1, CreatedFacts
    <2> QED BY <1>6, <2>2 DEF MadeWell
<1>8. /\ HeldAs(list', T, d, "test") /\ HeldAs(list', s, i, "stats")
      /\ HeldAs(list', r, i, "reporter") /\ HeldAs(list', o, e, "omit")
    <2>1. ("test" \in Periodic) = FALSE /\ ("stats" \in Periodic) = TRUE
          /\ ("reporter" \in Periodic) = TRUE /\ ("omit" \in Periodic) = FALSE
        BY DEF Periodic
    <2>2. HeldAs(A, T, d, "test") /\ HeldAs(B, s, i, "stats")
        BY <1>4, <1>5, <2>1, HeldNew DEF Kind
    <2>3. HeldAs(C, r, i, "reporter") /\ HeldAs(list', o, e, "omit")
        BY <1>6, <1>7, <2>1, HeldNew DEF Kind
    <2>4. HeldAs(B, T, d, "test")
        BY <1>4, <1>5, <2>2, HeldStays
    <2>5. HeldAs(C, T, d, "test") /\ HeldAs(C, s, i, "stats")
        BY <1>5, <1>6, <2>2, <2>4, HeldStays
    <2> QED BY <1>6, <1>7, <2>3, <2>5, HeldStays
<1>9. InTest'
    BY <1>0 DEF InTest
<1>10. HandlesInv'
    <2>1. handle' \in [Kind -> Timer \cup {NULL}]
        BY <1>4, <1>5, <1>6, <1>7, <1>h DEF Kind
    <2>2. \A t \in Active(list') : \E k \in Kind : handle'[k] = t
        BY <1>7, <1>h DEF Kind
    <2>3. \A k \in Kind : HeldAs(list', handle'[k], interval', k)
        BY <1>8, <1>h DEF Kind, HeldAs, Periodic, i
    <2>4. \A k \in Periodic : handle'[k] = NULL <=> interval' = 0
        BY <1>5, <1>6, <1>h DEF Periodic, i
    <2> QED BY <1>9, <2>1, <2>2, <2>3, <2>4 DEF HandlesInv
<1>11. OmitInv'
    <2>1. omit' # 0 => handle'["omit"] # NULL
        BY <1>7, <1>h DEF e
    <2>2. ASSUME o # NULL, T # NULL PROVE Time(list', o) < Time(list', T)
        <3>1. Added(list, T, now + d, d, FALSE, "test", A)
            BY <1>4, <2>2 DEF Made
        <3>2. Added(C, o, now + e, e, FALSE, "omit", list')
            BY <1>7, <2>2 DEF Made
        <3>3. T \in Timer /\ T \in Active(A) /\ T \in Active(B) /\ T \in Active(C)
            BY <1>4, <1>5, <1>6, <2>2
        <3>4. Time(A, T) = now + d
            BY <3>1 DEF Added
        <3>5. Time(B, T) = Time(A, T)
            BY <1>5, <3>3 DEF Made, Added
        <3>6. Time(C, T) = Time(B, T)
            BY <1>6, <3>3 DEF Made, Added
        <3>7. Time(list', T) = Time(C, T) /\ Time(list', o) = now + e
            BY <3>2, <3>3 DEF Added
        <3>8. d # 0 /\ e < d
            BY <1>2, <1>4, <2>2
        <3>9. now + e < now + d
            BY <1>2, <3>8
        <3> QED BY <3>4, <3>5, <3>6, <3>7, <3>9
    <2>3. T = NULL => d = 0
        BY <1>4
    <2>4. T = NULL => duration' = 0
        BY <1>2, <2>3
    <2> QED BY <1>0, <1>h, <2>1, <2>2, <2>4 DEF OmitInv
<1>12. i # 0 => Together(list', s, r) /\ Time(list', s) = now + i
    <2>1. SUFFICES ASSUME i # 0 PROVE MadePair(list', s, r, i)
        BY DEF MadePair
    <2>2. /\ Made(A, s, "stats", i, TRUE, B) /\ WellFormed(A) /\ WellFormed(B)
          /\ Made(B, r, "reporter", i, TRUE, C) /\ WellFormed(C)
          /\ Made(C, o, "omit", e, FALSE, list') /\ WellFormed(list')
        BY <1>4, <1>5, <1>6, <1>7
    <2>3. i \in Nat /\ e \in Nat /\ now \in Nat
        BY <1>2
    <2> QED BY <2>1, <2>2, <2>3, PairMade
<1>13. PairInv'
    BY <1>0, <1>h, <1>12 DEF PairInv, i
<1>14. CountInv'
    <2>1. (0 + 1) * i = i /\ 0 * i = 0
        BY <1>2
    <2> QED BY <1>0, <1>2, <1>h, <1>12, <2>1 DEF CountInv, i
<1>15. WalkInv'
    BY <1>0, <1>3 DEF WalkInv
<1>16. Scalars'
    <2>1. done' \in BOOLEAN /\ omitting' \in BOOLEAN
        BY <1>0, Zenon
    <2>2. tests' \in 0 .. MaxTests
        BY <1>0, ConstantTypes DEF TimersInv, TypeOK
    <2> QED BY <1>0, <2>1, <2>2 DEF Scalars, TimersInv, TypeOK
<1>17. WellFormed(list)'
    BY <1>7
<1>18. TypeOK'
    BY <1>10, <1>15, <1>16, <1>17, TypesFollowNext
<1> QED BY <1>10, <1>11, <1>13, <1>14, <1>15, <1>17, <1>18 DEF TimersInv

-----------------------------------------------------------------------------
(* The invariant, and what it says of a test.                              *)

LEMMA StutterInv == ASSUME TimersInv, UNCHANGED vars PROVE TimersInv'
<1> USE DEF vars, testvars
<1>1. TypeOK' /\ WellFormed(list)'
    BY DEF TimersInv, TypeOK
<1>2. HandlesInv' /\ OmitInv' /\ WalkInv'
    BY DEF TimersInv, HandlesInv, InTest, OmitInv, WalkInv
<1>3. PairInv' /\ CountInv'
    BY DEF TimersInv, PairInv, CountInv, InTest
<1> QED BY <1>1, <1>2, <1>3 DEF TimersInv

LEMMA NextInv == TimersInv /\ [Next]_vars => TimersInv'
<1> SUFFICES ASSUME TimersInv, [Next]_vars PROVE TimersInv'
    OBVIOUS
<1>1. CASE CreateTimers
    BY <1>1, CreateTimersInv
<1>2. CASE Tick
    BY <1>2, TickInv
<1>3. CASE tmr_run
    BY <1>3, tmr_runInv
<1>4. CASE TestTimer
    BY <1>4, TestTimerInv
<1>5. CASE StatsTimer
    BY <1>5, StatsTimerInv
<1>6. CASE ReporterTimer
    BY <1>6, ReporterTimerInv
<1>7. CASE OmitTimer
    BY <1>7, OmitTimerInv
<1>8. CASE RunEnds
    BY <1>8, RunEndsInv
<1>9. CASE CancelTimers
    BY <1>9, CancelTimersInv
<1>10. CASE TestEnds
    BY <1>10, TestEndsInv
<1>11. CASE UNCHANGED vars
    BY <1>11, StutterInv
<1> QED BY <1>1, <1>2, <1>3, <1>4, <1>5, <1>6, <1>7, <1>8, <1>9, <1>10, <1>11 DEF Next, RunStep

(* The list, the handles of the test, the pair of periodic timers, the     *)
(* count of intervals and the place of tmr_run's walk, in every state.     *)
THEOREM TimersInvAlways == Spec => []TimersInv
<1>1. Init => TimersInv
    BY InitInv
<1>2. TimersInv /\ [Next]_vars => TimersInv'
    BY NextInv
<1> QED BY <1>1, <1>2, PTL DEF Spec

(* list_add, list_remove and list_resort keep the list sorted and apart    *)
(* from the free list in the middle of tmr_run's walk, which never steps   *)
(* onto a cancelled timer, and the test's handles hold active timers.      *)
THEOREM ListIntactAlways == Spec => []ListIntact
<1>1. TimersInv => ListIntact
    BY DEF TimersInv, WellFormed, WalkInv, ListIntact
<1> QED BY <1>1, TimersInvAlways, PTL

(* However late the loop is, stats_callback has recorded the interval that *)
(* reporter_callback prints, and no interval is skipped by the reports.    *)
THEOREM StatsBeforeReportAlways == Spec => []StatsBeforeReport
<1>1. TimersInv => StatsBeforeReport
    <2> SUFFICES ASSUME TimersInv, InTest PROVE reports <= stats /\ stats <= reports + 1
        BY DEF StatsBeforeReport, InTest
    <2>1. stats \in Nat /\ reports \in Nat
        BY DEF TimersInv, TypeOK
    <2>2. stats = reports \/ stats = reports + 1
        BY DEF TimersInv, PairInv, CountInv
    <2> QED BY <2>1, <2>2
<1> QED BY <1>1, TimersInvAlways, PTL

(* The number of whole intervals in a time.                                *)
LEMMA WholeIntervals ==
    ASSUME NEW t \in Nat, NEW b \in Nat, NEW n \in Nat, NEW i \in Nat, i # 0,
           b + n * i <= t, t < b + (n + 1) * i
    PROVE  n = (t - b) \div i
<1> DEFINE p == n * i
           x == t - b
           q == x \div i
           m == q * i
<1>1. p \in Nat /\ (n + 1) * i = p + i
    BY Distributes
<1>2. x \in Nat /\ p <= x /\ x < p + i
    BY <1>1
<1> HIDE DEF x
<1>3. q \in Nat /\ m <= x /\ x < m + i
    BY <1>2
<1>4. q <= n
    <2>1. SUFFICES ASSUME n + 1 <= q PROVE FALSE
        BY <1>3
    <2>2. (n + 1) * i <= q * i
        BY <1>3, <2>1
    <2> QED BY <1>1, <1>2, <1>3, <2>2
<1>5. n <= q
    <2>1. SUFFICES ASSUME q + 1 <= n PROVE FALSE
        BY <1>3
    <2>2. (q + 1) * i <= n * i /\ (q + 1) * i = q * i + i
        BY <1>3, <2>1, Distributes
    <2> QED BY <1>1, <1>2, <1>3, <2>2
<1> QED BY <1>3, <1>4, <1>5 DEF x

(* When a pass of the loop has run every expired timer, there have been as *)
(* many statistics as whole intervals since create_client_timers or        *)
(* client_omit_timer_proc: a late pass neither loses nor repeats one.      *)
THEOREM IntervalsCountedAlways == Spec => []IntervalsCounted
<1>1. TimersInv => IntervalsCounted
    <2> SUFFICES ASSUME TimersInv, pc = "loop", ~done, interval # 0,
                        ~Expired(list, First(list), now)
                 PROVE  stats = (now - base) \div interval
        BY DEF IntervalsCounted
    <2> DEFINE s == handle["stats"]
               f == First(list)
    <2>1. /\ now \in Nat /\ base \in Nat /\ stats \in Nat /\ interval \in Nat
          /\ WellFormed(list)
        BY ConstantTypes, InvFacts DEF TimersInv, TypeOK
    <2>2. /\ Time(list, s) = base + (stats + 1) * interval /\ base + stats * interval <= now
        BY DEF TimersInv, CountInv, InTest
    <2>3. Before(list, s, handle["reporter"])
        BY DEF TimersInv, PairInv, Together, InTest
    <2>4. s \in Active(list) /\ f # NULL
        BY <2>1, <2>3, OrderFacts, FirstFacts
    <2>5. f \in Active(list) /\ f \in Timer /\ s \in Timer /\ Time(list, f) \in Nat /\ Time(list, s) \in Nat
        BY <2>1, <2>4, FirstFacts, ListFacts DEF WellFormed
    <2>6. Time(list, f) <= Time(list, s)
        <3>1. CASE f = s
            BY <2>5, <3>1
        <3>2. CASE f # s
            BY <2>1, <2>4, <3>2, FirstFacts, OrderFacts
        <3> QED BY <3>1, <3>2
    <2>7. now < Time(list, f)
        BY <2>1, <2>4, <2>5 DEF Expired
    <2>8. now < base + (stats + 1) * interval
        <3> DEFINE y == base + (stats + 1) * interval
                   z == Time(list, f)
        <3>1. y = Time(list, s) /\ y \in Nat /\ z \in Nat /\ z <= y /\ now < z
            BY <2>2, <2>5, <2>6, <2>7
        <3> HIDE DEF y, z
        <3>2. now < y
            BY <2>1, <3>1
        <3> QED BY <3>2 DEF y
    <2> QED BY <2>1, <2>2, <2>8, WholeIntervals
<1> QED BY <1>1, TimersInvAlways, PTL

(* However late a pass of tmr_run is, the test timer's procedure runs when *)
(* the omit timer's has, so that the time of a test does not run out in    *)
(* its omitted part; and once the timers are cancelled the list is empty:  *)
(* the next test of a server starts with no timer of an earlier one.       *)
THEOREM NoneLeftAlways == Spec => []NoneLeft
<1>1. TimersInv => NoneLeft
    <2> SUFFICES ASSUME TimersInv PROVE NoneLeft
        OBVIOUS
    <2>1. InTest /\ duration # 0 /\ handle["test"] = NULL => ~omitting /\ handle["omit"] = NULL
        BY DEF TimersInv, OmitInv
    <2>2. ASSUME pc \in {"setup", "ended"} PROVE Active(list) = {}
        <3>1. handle = NoHandles
            BY <2>2 DEF TimersInv, HandlesInv, InTest
        <3>2. \A t \in Active(list) : t = NULL
            BY <3>1 DEF TimersInv, HandlesInv, NoHandles
        <3>3. Active(list) \subseteq Timer
            BY DEF TimersInv, TypeOK
        <3> QED BY <3>2, <3>3, TimersAssumption
    <2> QED BY <2>1, <2>2 DEF NoneLeft, InTest
<1> QED BY <1>1, TimersInvAlways, PTL
=============================================================================
