SPECIFICATION SerialSpec
CONSTANTS
    d1 = d1
    Patrons = {p1, p2}
    Documents = {d1}
    Items = {i1, i2}
    Loans = {l1, l2, l3}
    Workers = {w1}
    DocumentOf <- OneDocument
    LastDay = 1
    None = None
SYMMETRY Symmetry
INVARIANTS
    OneActiveLoanPerItem
    OneOpenLoanPerPatronAndDocument
    ActiveLoanItemExists
