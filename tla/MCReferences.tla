---------------------------- MODULE MCReferences ----------------------------
(* References on small pools of records. *)
EXTENDS References, TLC

MCKindOf ==
    "document" :> "document" @@ "item" :> "item"
    @@ "eitem" :> "eitem" @@ "loan" :> "loan" @@ "request" :> "document_request"
    @@ "order" :> "order" @@ "borrowing" :> "borrowing_request"
    @@ "provider" :> "provider" @@ "shelf" :> "internal_location"
    @@ "location" :> "location"

MCPIDs == DOMAIN MCKindOf

\* every pair that a search of a deletion is for, what document requests want,
\* and an item with a loan that moves between documents
MCPools ==
    {{"document", "eitem"}, {"document", "order"}, {"document", "borrowing"},
     {"document", "request"}, {"order", "request"},
     {"order", "provider"}, {"borrowing", "provider"},
     {"item", "shelf"}, {"shelf", "location"}, {"document", "item", "loan"}}

\* which process is which does not matter
Symmetry == Permutations(Workers)
=============================================================================
