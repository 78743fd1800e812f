SPECIFICATION FairSpec
CONSTANTS
    d1 = d1
    Patrons = {p1, p2}
    Documents = {d1}
    Items = {i1}
    Loans = {l1}
    Workers = {w1, w2}
    DocumentOf <- OneDocument
    LastDay = 1
    None = None
INVARIANTS
    HitsBelongToTheirLoan
PROPERTIES
    
    ScanLeavesActiveLoans
    
