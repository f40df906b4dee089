\* Three threads race to attach the first handler, and to use the timer while
\* the observable dies; a trap ends the process.
SPECIFICATION TFairSpec
CONSTANTS
    Threads = {t1, t2, t3}
    CancelTimer = CancelTimer
    Handlers = {CancelTimer, h1, h2}
    Observers = {o1, o2, o3}
    None = None
INVARIANTS
    TTypeOK SuspendLedger ReleaseNeverTraps OverResumeNeedsOverlap
    OnceAndNotEarly
PROPERTIES SuspendedNeverFires CancelReclaims AllRunAtDeath DeathReclaims
CHECK_DEADLOCK FALSE
