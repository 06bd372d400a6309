SPECIFICATION FairSpec
CONSTANTS
    Nil = Nil
    Conn = {a, b}
    Announced = {a}
    Loop = {1, 2}
INVARIANTS
    LocalTable
PROPERTIES
    ConnsEnd
    StopIsClean
