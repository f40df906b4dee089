\* Three generations: one superseded, one cancelled, one that fires.
SPECIFICATION FairSpec
CONSTANTS
    Delay = 2
    MaxSignals = 3
    MaxCancels = 2
INVARIANTS CancelCallsOff
PROPERTIES QuietPeriod LastSignalRuns SourcesReclaimed
CHECK_DEADLOCK FALSE
