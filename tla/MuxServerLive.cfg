CONSTANTS
    s1 = s1
    s2 = s2
    Session = {s1, s2}
    a = a
    d = d
    Id = {a}
    Domain = {}
    PortStart = 1
    PortEnd = 1
    MaxTunnels = 1
    Request <- WebRegistrations
    HealthChecker = HealthChecker
    Stopper = Stopper
    Nil = Nil
CHECK_DEADLOCK FALSE
SPECIFICATION FairSpec
PROPERTIES
    AbandonedIsReaped
    ClosedLoopEnds
