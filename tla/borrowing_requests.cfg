SPECIFICATION CarefulSpec
CONSTANTS
    p1 = p1
    Requests = {r1, r2}
    Patrons = {p1}
    PatronOf <- OnePatron
    Loans = {l1, l2}
    Workers = {w1,w2}
    MaxAsked = 2
    None = None
SYMMETRY Symmetry
INVARIANTS
    OneActiveLoanPerRequest
    LoanAndRequestAgree
    ExtensionsAreConserved
PROPERTIES
    KeepsItsLoan
CHECK_DEADLOCK FALSE
