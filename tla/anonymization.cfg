SPECIFICATION FairSpec
CONSTANTS
    l1 = l1
    l2 = l2
    b1 = b1
    d1 = d1
    o1 = o1
    Records = {l1, d1, o1}
    KindOf <- MCKindOf
    MaxFailures = 1
    MaxPuts = 1
    MaxMails = 1
INVARIANTS
    
    LeftOnlyByLag
PROPERTIES
    EventuallyForgotten
CHECK_DEADLOCK FALSE
