CONSTANTS
    t1 = t1
    t2 = t2
    Tunnel = {t1, t2}
    Net <- OneEach
    Closer = {k1, k2}
    PortStart = 1
    PortEnd = 1
    Foreign = {1}
SPECIFICATION ListenerFairSpec
INVARIANTS
    ShutIsLeaving
    FreePortIsLeft
PROPERTIES
    ClosedListenerEnds
CHECK_DEADLOCK FALSE
