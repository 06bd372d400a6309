CONSTANTS
    x1 = x1
    x2 = x2
    Conn = {x1, x2}
    Kind <- OneOfEach
    MaxConns = 1
    Nil = Nil
SPECIFICATION FairSpec
INVARIANTS
    ExternalTable
    SlotsLostOnlyByDomain
PROPERTIES
    CloseEndsAll
CHECK_DEADLOCK FALSE
