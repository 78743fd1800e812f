------------------------- MODULE MCRecordRelations -------------------------
(* A document and two series. *)
EXTENDS RecordRelations, TLC

CONSTANTS d1, s1, s2

MCPools ==
    {{<<"multipart_monograph", s1, d1>>, <<"multipart_monograph", s2, d1>>},
     {<<"multipart_monograph", s2, d1>>, <<"serial", s1, d1>>},
     {<<"multipart_monograph", s2, d1>>, <<"serial", s2, d1>>},
     {<<"serial", s1, s2>>, <<"sequence", s2, s1>>,
      <<"sequence", d1, s1>>}}

MCInitialRows == {<<"serial", s1, d1>>}

MCInitialMode ==
    [s \in Series |-> IF s = s1 THEN "SERIAL" ELSE "MULTIPART_MONOGRAPH"]

WorkerSymmetry == Permutations(Workers)
=============================================================================
