--------------------------- MODULE MCCirculation ---------------------------
(* Circulation on small instances. *)
EXTENDS Circulation, TLC

CONSTANT d1

\* every item a copy of the one document
OneDocument == [i \in Items |-> d1]

\* Patrons, items of one document, loan PIDs and workers are interchangeable.
Symmetry ==
    Permutations(Patrons) \cup Permutations(Items)
        \cup Permutations(Loans) \cup Permutations(Workers)
=============================================================================
