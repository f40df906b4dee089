\* A buffer is written to itself, and reallocate moves its block.
SPECIFICATION Spec
CONSTANTS
    Width = 2
    Buffers = {x1, x2}
    Storages = {s1, s2}
    Byte = {p}
    Junk = Junk
    None = None
    SplitMayFail = FALSE
    ReallocMoves = TRUE
PROPERTIES OverlapIsCopied
CHECK_DEADLOCK FALSE
