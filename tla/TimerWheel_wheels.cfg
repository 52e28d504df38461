\* Three wheels: timers move down twice.
SPECIFICATION FairSpec
CONSTANTS
    t1 = t1 t2 = t2
    Timers = {t1, t2}
    SlotNum = 2
    MaxLevel = 3
    TimerMax = 6
    Delays = {0, 3, 7}
    Times <- PastAndFuture
    kMillisecondsPerSecond = 2
    MaxLag = 1
    AgeLimit = 4
INVARIANTS TypeOK OnePlace RunsWhenDue
PROPERTIES EveryTimerRuns
\* The wheels may be stopped.
CHECK_DEADLOCK FALSE
