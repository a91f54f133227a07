------------------------------- MODULE Timers --------------------------------
(***************************************************************************)
(* The timer list of src/timer.c: the active timers in the order of their  *)
(* times, and a list of cancelled timers that tmr_create uses again before *)
(* it allocates.                                                           *)
(*                                                                         *)
(* The routines are operators on a list state L, with the links of the two *)
(* lists abstracted to sequences.  Time is a number.                       *)
(***************************************************************************)
EXTENDS Naturals, FiniteSets, SequencesExt

CONSTANTS
    Timer,      \* the memory for timers
    NULL        \* the null pointer

ASSUME TimersAssumption == NULL \notin Timer

NoTimers ==
    [timers |-> <<>>, free_timers |-> <<>>,
     tmr |-> [t \in Timer |-> [time |-> 0, usecs |-> 0, periodic |-> FALSE,
                               proc |-> "none"]]]

Active(L) == ToSet(L.timers)
Freed(L) == ToSet(L.free_timers)
Time(L, t) == L.tmr[t].time

(* list_add puts t in front of the first timer that is later than it, or   *)
(* at the end.                                                             *)
FirstOf(L, places) == IF places = {} THEN Len(L.timers) + 1 ELSE Min(places)

(* Faulty variant: in front of the timers of the same time, too.           *)
BeforeEquals(L, t) ==
    FirstOf(L, {i \in DOMAIN L.timers : Time(L, t) <= Time(L, L.timers[i])})
Successor(L, t) ==
    FirstOf(L, {i \in DOMAIN L.timers : Time(L, t) < Time(L, L.timers[i])})

list_add(L, t) == [L EXCEPT !.timers = InsertAt(@, Successor(L, t), t)]

Place(L, t) == CHOOSE n \in DOMAIN L.timers : L.timers[n] = t
list_remove(L, t) == [L EXCEPT !.timers = RemoveAt(@, Place(L, t))]

(* Faulty variant: the timer is moved in its place.                        *)
NotResorted(L, t) == L
list_resort(L, t) == list_add(list_remove(L, t), t)

(* The timer tmr_create takes: the head of the free list, or new memory.   *)
Taken(L) ==
    IF L.free_timers # <<>> THEN Head(L.free_timers)
    ELSE CHOOSE t \in Timer : t \notin Active(L)

tmr_create(L, now, proc, usecs, periodic) ==
    LET t == Taken(L) IN
    list_add([L EXCEPT
                !.free_timers = IF @ = <<>> THEN @ ELSE Tail(@),
                !.tmr = [@ EXCEPT ![t] = [time |-> now + usecs, usecs |-> usecs,
                                          periodic |-> periodic, proc |-> proc]]], t)

(* L with another time in t.                                               *)
Timed(L, t, time) ==
    [L EXCEPT !.tmr = [L.tmr EXCEPT ![t] = [L.tmr[t] EXCEPT !.time = time]]]

tmr_reset(L, now, t) == list_resort(Timed(L, t, now + L.tmr[t].usecs), t)

tmr_cancel(L, t) ==
    [list_remove(L, t) EXCEPT !.free_timers = <<t>> \o @]

(* The timer that follows t, or NULL.                                      *)
NextTimer(L, t) ==
    LET n == Place(L, t) IN IF n = Len(L.timers) THEN NULL ELSE L.timers[n + 1]
First(L) == IF L.timers = <<>> THEN NULL ELSE Head(L.timers)

Expired(L, t, now) == t # NULL /\ Time(L, t) <= now

(* What tmr_run does with t once its procedure has run: a periodic timer   *)
(* expires next one period after it expired, not after this pass.          *)
(* Faulty variant: one period after this pass.                             *)
AfterRunFromNow(L, t, now) ==
    IF L.tmr[t].periodic
      THEN list_resort(Timed(L, t, now + L.tmr[t].usecs), t)
      ELSE tmr_cancel(L, t)
AfterRun(L, t, now) ==
    IF L.tmr[t].periodic
      THEN list_resort(Timed(L, t, Time(L, t) + L.tmr[t].usecs), t)
      ELSE tmr_cancel(L, t)

(* The active list is sorted, and shares no timer with the free list.      *)
Sorted(L) ==
    \A i, j \in DOMAIN L.timers : i < j => Time(L, L.timers[i]) <= Time(L, L.timers[j])
Disjoint(L) == Active(L) \cap Freed(L) = {}
=============================================================================
