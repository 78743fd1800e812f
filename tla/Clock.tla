------------------------------- MODULE Clock -------------------------------
(* The dates a model looks at, and the one it is today. *)
EXTENDS Integers

CONSTANT LastDay  \* bound: the dates 0 .. LastDay

ASSUME LastDayAssumption == LastDay \in Nat

VARIABLE today

Dates == 0 .. LastDay

Tomorrow ==
    /\ today < LastDay
    /\ today' = today + 1
=============================================================================
