CONSTANTS
    Caller = {g1, g2, g3}
    N = 2
    Max <- TwoThenOne
SPECIFICATION FairSpec
INVARIANTS
    Accounting
PROPERTIES
    ImplementsSemaphore
    OperationsFinish
