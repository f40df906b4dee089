\* Three full levels of a heap, with ties; every size of 16 bits; a target that
\* moves on three times.
SPECIFICATION Spec
CONSTANTS
    Width = 16
    Elements = {1, 2, 3}
    MaxSize = 7
    MaxMoments = 4
INVARIANTS SameContents LeastPowerOrMax SnapshotWithinCall
PROPERTIES PopsExtreme
CHECK_DEADLOCK FALSE
