CONSTANTS
    s1 = s1
    s2 = s2
    Session = {s1, s2}
    a = a
    d = d
    Id = {a}
    Domain = {d}
    PortStart = 1
    PortEnd = 1
    MaxTunnels = 2
    Request <- OneClient
    HealthChecker = HealthChecker
    Stopper = Stopper
    Nil = Nil
SPECIFICATION Spec
INVARIANTS
    NoPortLeak
    PortLostOnlyByDoubleClose
    MappedIsLive
    UnmappedOnlyBySameId
    RouteIsLive
    UnroutedOnlyBySameDomain
    CountSkewedOnlyByDoubleClose
PROPERTIES
    NoReclose
SYMMETRY Symmetry
CHECK_DEADLOCK FALSE
