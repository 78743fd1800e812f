--------------------------- MODULE SiblingGroups ---------------------------
(***************************************************************************)
(* What the sibling relations of one type promise: the related records     *)
(* form groups, every record in one, and everybody in a group is a sibling *)
(* of everybody else in it. Relating two records joins their groups;       *)
(* removing a relation takes one record out of its group.                  *)
(***************************************************************************)
CONSTANT Pids

VARIABLE group  \* the group of each record, itself included

Init == group = [p \in Pids |-> {p}]

Join(p, q) ==
    LET joined == group[p] \cup group[q]
    IN group' = [r \in Pids |-> IF r \in joined THEN joined ELSE group[r]]

Leave(p) ==
    group' = [r \in Pids |-> IF r = p THEN {p} ELSE group[r] \ {p}]

Next ==
    \/ \E p, q \in Pids : Join(p, q)
    \/ \E p \in Pids : Leave(p)

Spec == Init /\ [][Next]_group
=============================================================================
