\* A block can be shared by both threads, split by both at once, and released
\* by both.
SPECIFICATION Spec
CONSTANTS
    Threads = {t1, t2}
    Instances = {i1, i2, i3}
    Blocks = {b1, b2, b3}
    Values = {v1, v2}
    Null = Null
    Nobody = Nobody
    NoValue = NoValue
SYMMETRY Symmetry
INVARIANTS TypeOK RefcountExact NoDangling ExclusiveWrite ValueIsolation DeletionOrdered
CHECK_DEADLOCK FALSE
