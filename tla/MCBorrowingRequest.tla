------------------------ MODULE MCBorrowingRequest ------------------------
(* BorrowingRequest on small instances. *)
EXTENDS BorrowingRequest, TLC

CONSTANT p1

\* the requests of one patron
OnePatron == [r \in Requests |-> p1]

\* Requests of one patron, loan PIDs and workers are interchangeable.
Symmetry ==
    Permutations(Requests) \cup Permutations(Loans) \cup Permutations(Workers)
=============================================================================
