----------------------------- MODULE TestTimers ------------------------------
(***************************************************************************)
(* The timers of a test and the loop that runs them: create_client_timers, *)
(* create_client_omit_timer and their procedures (src/iperf_client_api.c), *)
(* the same of the server (src/iperf_server_api.c, with a grace period on  *)
(* the test timer), and tmr_run (src/timer.c).                             *)
(*                                                                         *)
(* The loop may be late: any number of time units passes between two calls *)
(* of tmr_run, and one pass sees every timer that expired meanwhile.  A    *)
(* procedure may move other timers while tmr_run walks the list.           *)
(***************************************************************************)
EXTENDS Timers

CONSTANTS
    Durations,  \* the values of -t, 0 for a test of so many bytes or blocks
    Omits,      \* the values of -O, 0 when absent
    Intervals,  \* the values of -i (stats_interval, reporter_interval), 0 for none
    Grace,      \* the server's grace_period, 0 in the client
    MaxTime,    \* bound: the clock stops here
    MaxTests    \* bound: how many tests one process runs

ASSUME TestTimersAssumption ==
    /\ {MaxTime, MaxTests} \subseteq Nat \ {0}
    /\ {Grace} \cup Omits \cup Durations \cup Intervals \subseteq Nat
    \* malloc does not fail: there is memory for the four timers of a test
    /\ \A t, u, v \in Timer \cup {NULL} : Timer \ {t, u, v} # {}

VARIABLES
    list,       \* the state of timer.c
    now,        \* the clock
    pc,         \* setup, loop, run (inside tmr_run) or ended
    cur,        \* t of tmr_run
    handle,     \* test->timer, stats_timer, reporter_timer, omit_timer
    done,       \* test->done
    omitting,   \* test->omitting
    stats,      \* runs of the stats timer since the timers were (re)started
    reports,    \* runs of the reporter timer since then
    base,       \* when that was
    duration,   \* test->duration
    omit,       \* test->omit
    interval,   \* test->stats_interval and test->reporter_interval
    tests       \* tests begun

testvars == <<duration, omit, interval, tests>>
vars == <<list, now, pc, cur, handle, done, omitting, stats, reports, base, testvars>>

Kind == {"test", "stats", "reporter", "omit"}
NoHandles == [k \in Kind |-> NULL]

Init ==
    /\ list = NoTimers /\ now = 0 /\ pc = "setup" /\ cur = NULL
    /\ handle = NoHandles
    /\ done = FALSE /\ omitting = FALSE
    /\ stats = 0 /\ reports = 0 /\ base = 0
    /\ duration = 0 /\ omit = 0 /\ interval = 0 /\ tests = 0

(* The types; a handle of the test is null or holds an active timer.       *)
TypeOK ==
    /\ Active(list) \subseteq Timer /\ Freed(list) \subseteq Timer
    /\ now \in 0 .. MaxTime
    /\ pc \in {"setup", "loop", "run", "ended"}
    /\ cur \in Timer \cup {NULL}
    /\ handle \in [Kind -> Active(list) \cup {NULL}]
    /\ done \in BOOLEAN /\ omitting \in BOOLEAN
    /\ stats \in Nat /\ reports \in Nat /\ base \in 0 .. MaxTime
    /\ duration \in Durations \cup {0}
    /\ omit \in Omits \cup {0} /\ interval \in Intervals \cup {0}
    /\ tests \in 0 .. MaxTests

(* When the test timer expires; a test without a duration has none.        *)
TestTime(d, o) == IF d = 0 THEN 0 ELSE d + o + Grace

(* The list with a timer of usecs more, if that is not zero, and its handle.*)
Created(l, proc, usecs, periodic) ==
    IF usecs = 0 THEN l ELSE tmr_create(l, now, proc, usecs, periodic)
HandleOf(l, usecs) == IF usecs = 0 THEN NULL ELSE Taken(l)

(* TEST_START: the test timer, the periodic ones, then the omit timer.     *)
CreateTimers ==
    /\ pc = "setup" /\ tests < MaxTests
    /\ duration' \in Durations /\ omit' \in Omits /\ interval' \in Intervals
    /\ \E l1 \in {Created(list, "test", TestTime(duration', omit'), FALSE)} :
       \E l2 \in {Created(l1, "stats", interval', TRUE)} :
       \E l3 \in {Created(l2, "reporter", interval', TRUE)} :
          /\ list' = Created(l3, "omit", omit', FALSE)
          /\ handle' = [k \in Kind |->
                CASE k = "test" -> HandleOf(list, TestTime(duration', omit'))
                  [] k = "stats" -> HandleOf(l1, interval')
                  [] k = "reporter" -> HandleOf(l2, interval')
                  [] k = "omit" -> HandleOf(l3, omit')]
    /\ pc' = "loop"
    /\ done' = FALSE /\ omitting' = (omit' # 0)
    /\ stats' = 0 /\ reports' = 0 /\ base' = now
    /\ tests' = tests + 1
    /\ UNCHANGED <<now, cur>>

Tick ==
    /\ pc = "loop" /\ now < MaxTime
    /\ now' = now + 1
    /\ UNCHANGED <<list, pc, cur, handle, done, omitting, stats, reports, base, testvars>>

(* A pass of the loop whose select() timed out calls tmr_run.              *)
tmr_run ==
    /\ pc = "loop" /\ Expired(list, First(list), now)
    /\ pc' = "run" /\ cur' = First(list)
    /\ UNCHANGED <<list, now, handle, done, omitting, stats, reports, base, testvars>>

Running(proc) ==
    pc = "run" /\ Expired(list, cur, now) /\ list.tmr[cur].proc = proc

(* The rest of one turn of tmr_run's loop: l is the list as the procedure  *)
(* left it; the timer that comes next was looked up before it ran.         *)
Turned(l) ==
    /\ list' = AfterRun(l, cur, now)
    /\ cur' = NextTimer(list, cur)
    /\ UNCHANGED <<now, pc, base, testvars>>

(* Faulty variant: the end of the test is not recorded.                    *)
TestTimerIgnored ==
    /\ Running("test")
    /\ handle' = [handle EXCEPT !["test"] = NULL]
    /\ Turned(list)
    /\ UNCHANGED <<done, omitting, stats, reports>>

(* test_timer_proc, server_timer_proc.                                     *)
TestTimer ==
    /\ Running("test")
    /\ handle' = [handle EXCEPT !["test"] = NULL]
    /\ done' = TRUE
    /\ Turned(list)
    /\ UNCHANGED <<omitting, stats, reports>>

StatsTimer ==
    /\ Running("stats")
    /\ stats' = IF done THEN stats ELSE stats + 1
    /\ Turned(list)
    /\ UNCHANGED <<handle, done, omitting, reports>>

ReporterTimer ==
    /\ Running("reporter")
    /\ reports' = IF done THEN reports ELSE reports + 1
    /\ Turned(list)
    /\ UNCHANGED <<handle, done, omitting, stats>>

(* A periodic timer of the test, if there is one, starts again.            *)
Restarted(l, k) == IF handle[k] = NULL THEN l ELSE tmr_reset(l, now, handle[k])

(* client_omit_timer_proc: iperf_reset_stats, and the periodic timers      *)
(* start again, stats first.                                               *)
OmitTimer ==
    /\ Running("omit")
    /\ handle' = [handle EXCEPT !["omit"] = NULL]
    /\ omitting' = FALSE
    /\ stats' = 0 /\ reports' = 0 /\ base' = now
    /\ \E l1 \in {Restarted(list, "stats")} :
       \E l2 \in {Restarted(l1, "reporter")} :
          list' = AfterRun(l2, cur, now)
    /\ cur' = NextTimer(list, cur)
    /\ UNCHANGED <<now, pc, done, testvars>>

RunEnds ==
    /\ pc = "run" /\ ~Expired(list, cur, now)
    /\ pc' = "loop" /\ cur' = NULL
    /\ UNCHANGED <<list, now, handle, done, omitting, stats, reports, base, testvars>>

(* test->done is set by somebody else: by the server when TEST_END comes,  *)
(* by the client when it has its bytes or blocks, or by a worker at the end*)
(* of the file of -F, in the middle of tmr_run and in the omitted part     *)
(* too.  The timers stay, and the loop goes on to run them.                *)
TestEnds ==
    /\ pc \in {"loop", "run"} /\ ~done
    /\ done' = TRUE
    /\ UNCHANGED <<list, now, pc, cur, handle, omitting, stats, reports, base, testvars>>

(* The loop is left, at IPERF_DONE or at any moment by an error.           *)
(* cleanup_server, iperf_reset_test and iperf_free_test cancel what the    *)
(* handles still hold, and the next test is not done.                      *)
(* Faulty variant: the omit timer is left.                                 *)
RemainingOmit(l, k) ==
    IF handle[k] = NULL \/ k = "omit" THEN l ELSE tmr_cancel(l, handle[k])
Remaining(l, k) == IF handle[k] = NULL THEN l ELSE tmr_cancel(l, handle[k])
CancelTimers ==
    /\ pc = "loop"
    /\ list' = Remaining(Remaining(Remaining(Remaining(
                   list, "stats"), "reporter"), "omit"), "test")
    /\ handle' = NoHandles
    /\ pc' = IF tests < MaxTests THEN "setup" ELSE "ended"
    /\ done' = FALSE
    /\ UNCHANGED <<now, cur, omitting, stats, reports, base, testvars>>

RunStep == TestTimer \/ StatsTimer \/ ReporterTimer \/ OmitTimer \/ RunEnds
Next == CreateTimers \/ Tick \/ tmr_run \/ RunStep \/ TestEnds \/ CancelTimers

Spec == Init /\ [][Next]_vars
(* The loop goes on and time passes; nothing forces a test to be given up. *)
FairSpec == Spec /\ WF_vars(tmr_run \/ RunStep) /\ WF_vars(Tick) /\ WF_vars(CreateTimers)

-----------------------------------------------------------------------------
(* The list stays sorted and apart from the free list while a procedure    *)
(* moves timers in the middle of tmr_run's walk, and the walk never steps  *)
(* onto a cancelled timer; the handles of the test hold active timers.     *)
ListIntact ==
    /\ TypeOK
    /\ Sorted(list) /\ Disjoint(list)
    /\ cur # NULL => cur \in Active(list)

(* Every report is preceded by the statistics it prints, however late the  *)
(* pass is: iperf_reporter shows the last interval that stats_callback     *)
(* recorded.  The code relies on the order of equal times in the list.     *)
StatsBeforeReport ==
    pc \in {"loop", "run"} => reports <= stats /\ stats <= reports + 1

(* No interval is lost or counted twice: when every expired timer has run, *)
(* there have been as many statistics as intervals since the timers were   *)
(* started, and the omit timer starts them again.                          *)
IntervalsCounted ==
    pc = "loop" /\ ~done /\ interval # 0 /\ ~Expired(list, First(list), now)
        => stats = (now - base) \div interval

(* No timer outlives what it is for.  However late a pass is, the time of  *)
(* a test does not run out in its omitted part: the procedure of the test  *)
(* timer finds the omit timer gone (a test that ends for another reason    *)
(* may still see it fire).  And once the timers are cancelled the list is  *)
(* empty: a later test starts with no timer of an earlier one.             *)
NoneLeft ==
    /\ pc \in {"loop", "run"} /\ duration # 0 /\ handle["test"] = NULL
        => ~omitting /\ handle["omit"] = NULL
    /\ pc \in {"setup", "ended"} => Active(list) = {}

(* The test timer always fires in the end, or the test was given up.       *)
TestTimerFires ==
    (pc = "loop" /\ duration # 0 /\ base + TestTime(duration, omit) <= MaxTime /\ ~done)
        ~> (done \/ pc \in {"setup", "ended"})
=============================================================================
