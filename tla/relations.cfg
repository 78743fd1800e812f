SPECIFICATION Spec
CONSTANTS
    d1 = d1
    s1 = s1
    s2 = s2
    Documents = {d1}
    Series = {s1, s2}
    Pools <- MCPools
    InitialRows <- MCInitialRows
    InitialMode <- MCInitialMode
    MaxActions = 2
    MaxEdits = 1
    MaxRequests = 2
    Workers = {w1, w2}
    None = None
SYMMETRY WorkerSymmetry
INVARIANTS
    SecondMultipartOnlyByRace
    DanglesOnlyByRace
    VolumesHaveRelations
    
PROPERTIES
    VolumesLeaveWithRelations
CHECK_DEADLOCK FALSE
