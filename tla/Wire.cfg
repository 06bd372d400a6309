SPECIFICATION Spec
CONSTANTS
    ConnID <- MCConnID
    Request <- MCRequest
    Remote <- MCRemote
    PublicURL <- MCPublicURL
    Payload <- MCPayload
    MaxExtra = 1
    MaxCuts = 1
INVARIANTS
    Registration
    FirstCutHarmless
    ControlStream
    DataStreams
CHECK_DEADLOCK FALSE
