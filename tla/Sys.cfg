\* Two threads and a table with room for two descriptors, so that it fills up
\* and numbers come back; one change from outside; an error left over from
\* before a call.
CONSTANTS
    t1 = t1
    t2 = t2
    Threads = {t1, t2}
    Uses <- MCUses
    Files = {f1, f2}
    Dir = Dir
    Descriptors = {3, 4}
    MaxPages = 2
    MaxChanges = 1
    MaxErrors = 1
    None = None
SPECIFICATION Spec
SYMMETRY Symmetry
INVARIANTS
    TypeOK
    NoDescriptorLeak
    ClosesItsOwn
    OutcomeAgrees
    MappingMatches
PROPERTY ShrinksOnlyIfDisturbed
CHECK_DEADLOCK FALSE
