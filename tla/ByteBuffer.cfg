\* Sizes of two bits: capacities 0 to 3, every overflow of a size is in reach.
\* Two values tell the bytes of the two buffers apart.
SPECIFICATION Spec
CONSTANTS
    Width = 2
    Buffers = {x1, x2}
    Storages = {s1, s2}
    Byte = {p, q}
    Junk = Junk
    None = None
    SplitMayFail = FALSE
    ReallocMoves = FALSE
SYMMETRY Symmetry
INVARIANTS CursorsInBlock
PROPERTIES RefinesByteQueue WritesAllOrNothing
CHECK_DEADLOCK FALSE
