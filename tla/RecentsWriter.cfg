SPECIFICATION FairSpec
CONSTANTS
    c1 = c1
    c2 = c2
    c3 = c3
    Changes = {c1, c2, c3}
    Waiters = {c1, c2}
    ResultsKept = 2
INVARIANTS
    TypeOK
PROPERTIES
    RegisterSpec
    EveryCallerIsTold
CHECK_DEADLOCK FALSE
