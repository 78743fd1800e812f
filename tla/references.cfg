SPECIFICATION Spec
CONSTANTS
    PIDs <- MCPIDs
    KindOf <- MCKindOf
    Pools <- MCPools
    Elsewhere = Elsewhere
    None = None
    Workers = {w1, w2}
SYMMETRY Symmetry
INVARIANTS
    DanglesOnlyByRace
    AcceptedIsComplete
    
PROPERTIES
    DecidedRequestsStay
CHECK_DEADLOCK FALSE
