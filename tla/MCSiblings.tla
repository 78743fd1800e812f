----------------------------- MODULE MCSiblings -----------------------------
(* SiblingsRelation on small instances. *)
EXTENDS SiblingsRelation, TLC

\* records of one kind, with different languages and editions
AnyTwo == Pids \X Pids

\* one record the others may be related to
First == CHOOSE p \in Pids : TRUE
OnlyFirst == {First} \X Pids

Symmetry == Permutations(Pids) \cup Permutations(Workers)

SymmetryOfOthers == Permutations(Pids \ {First}) \cup Permutations(Workers)
=============================================================================
