SPECIFICATION FairSpec
CONSTANTS
    ID <- MCID
    Handle = {1, 2}
    Data <- MCData
    None = None
    Uses = {"manager", "pair", "http"}
    PairTypes = {"DATA", "RESPONSE", "CLOSE"}
    MaxFrames = 1
    MaxSent = 2
INVARIANTS
    MuxTable
    FramesExact
    MuxReads
PROPERTIES
    MuxEnds
CHECK_DEADLOCK FALSE
