SPECIFICATION CatalogueSpec
CONSTANTS
    Files <- MCFiles
    NoPid = 0
    Terms = {"x"}
    MaxValue = 2
    DefaultSize = 2
    SizeLimit = 3
    SizeLinks = {1}
    MaxPage = 2
    FacetLimit = 1
INVARIANTS
    WalkSeesEachOnce
    LinksTellTheCount
    PagesAgreeOnAccess
    PlanIsReady
    
