SPECIFICATION FairSpec
CONSTANTS
    Thread = {t1, t2, t3}
    Main = t1
    MaxSignals = 4
INVARIANTS
    TypeOK
    RecursionBounded
    NoPrintInRecursion
PROPERTY KillReached
CHECK_DEADLOCK FALSE
