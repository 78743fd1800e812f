---------------------------- MODULE MCLoanDates ----------------------------
(* LoanDates on short calendars. *)
EXTENDS LoanDates, TLC

\* the last date is open, the others come in any combination
AnyCalendar == {c \cup {LastDay} : c \in SUBSET Dates}

Symmetry == Permutations(Loans)
=============================================================================
