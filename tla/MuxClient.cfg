SPECIFICATION ClientFairSpec
CONSTANTS
    MaxDials = 3
    MaxReconnectTries = 1
    Enable0RTT = TRUE
INVARIANTS
    ReconnectIffLost
PROPERTIES
    Reconnects
    ClientStopIsClean
