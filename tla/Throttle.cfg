\* Three windows fit in the time; the signals can arrive in any of them.
SPECIFICATION FairSpec
CONSTANTS
    Delay = 2
    MaxTime = 6
    MaxSignals = 4
INVARIANTS RateBound DropJustified
PROPERTIES SignalRunsCallback
CHECK_DEADLOCK FALSE
