SPECIFICATION Spec
CONSTANTS
    Threads = {t1, t2}
    Instances = {i1, i2}
    Blocks = {b1, b2}
    Values = {v1}
    Null = Null
    Nobody = Nobody
    NoValue = NoValue
INVARIANTS MutationOrdered
CHECK_DEADLOCK FALSE
