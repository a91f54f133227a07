\* Two tests in a row, an omitted part, and passes that are late.
SPECIFICATION FairSpec
CONSTANTS
    Timer = {t1, t2, t3, t4, t5}
    NULL = NULL
    Durations = {0, 2}
    Omits = {0, 2, 4}
    Intervals = {0, 1, 2, 3}
    Grace = 0
    MaxTime = 10
    MaxTests = 2
INVARIANTS
    ListIntact
    StatsBeforeReport
    IntervalsCounted
    NoneLeft
PROPERTIES
    TestTimerFires
CHECK_DEADLOCK FALSE
