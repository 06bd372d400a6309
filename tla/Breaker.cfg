CONSTANTS
    Requester = {c1, c2, c3}
    FailureThreshold = 2
    SuccessThreshold = 2
    MaxRequests = 1
    Free = Free
SPECIFICATION BreakerFairSpec
INVARIANTS
    NoMissedTransition
    TransitionsExclude
PROPERTIES
    HalfOpenResolves
CHECK_DEADLOCK FALSE
