SPECIFICATION TunnelFairSpec
CONSTANTS
    Conn = {1, 2}
    Modes <- MCScenario
    MaxFd = 2
    None = None
INVARIANTS
    DescriptorsOwned
PROPERTIES
    TunnelHandlersEnd
CHECK_DEADLOCK FALSE
