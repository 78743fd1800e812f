-------------------------- MODULE MCAnonymization --------------------------
(* Anonymization of a patron with a few records. *)
EXTENDS Anonymization

CONSTANTS l1, l2, b1, d1, o1

MCKindOf ==
    [r \in Records |-> CASE r \in {l1, l2} -> "loan"
                         [] r = b1 -> "borrowing_request"
                         [] r = d1 -> "document_request"
                         [] r = o1 -> "order"]
=============================================================================
