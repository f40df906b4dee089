\* Two threads are enough.
SPECIFICATION Spec
CONSTANT Threads = {t1, t2}
INVARIANTS NoOverResume
CHECK_DEADLOCK FALSE
