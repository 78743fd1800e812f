SPECIFICATION CarefulSpec
CONSTANTS
    Loans = {l1, l2}
    LastDay = 3
    Calendars <- AnyCalendar
    Duration = 1
    None = None
SYMMETRY Symmetry
INVARIANTS
    NoLoanForgotten
