\* allocate may also fail in a copy-on-write split.
SPECIFICATION Spec
CONSTANTS
    Width = 2
    Buffers = {x1, x2}
    Storages = {s1, s2}
    Byte = {p}
    Junk = Junk
    None = None
    SplitMayFail = TRUE
    ReallocMoves = FALSE
PROPERTIES WriteKeepsContents
CHECK_DEADLOCK FALSE
