\* Two threads may install while a third one sends; two blocks on top of
\* a compiled method make chains of three layers.
SPECIFICATION FairSpec
CONSTANTS
    Threads = {t1, t2, t3}
    Root = Root
    Mid = Mid
    Sub = Sub
    inMid = inMid
    Classes = {Root, Mid, Sub}
    Lineage <- Line
    Compiled <- Own
    Blocks = {b1, b2}
    Nil = Nil
INVARIANTS TypeOK NoLayerLost CrashNeedsWindow
PROPERTIES SendReturns
CHECK_DEADLOCK FALSE
