---------------------------- MODULE MCCatalogue ----------------------------
(* Bundles of up to three documents, some in order and some not. *)
EXTENDS Catalogue

Doc(pid, type, padded, subjects, terms) ==
    [pid |-> pid, sound |-> TRUE, type |-> [value |-> type, padded |-> padded],
     year |-> As(1), source |-> As(0), language |-> <<>>,
     subject |-> subjects, terms |-> terms]

Padded(v) == [value |-> v, padded |-> TRUE]

Ref(p) == [pid |-> p, text |-> TRUE]

Place1 == [pid |-> 11, sound |-> TRUE]
Shelf1 == [pid |-> 12, sound |-> TRUE, refs |-> [s \in {"locations"} |-> Ref(11)]]

EItem(pid, ref, url) ==
    [pid |-> pid, sound |-> TRUE, refs |-> [s \in {"documents"} |-> ref], url |-> url]

Copy(pid, p) ==
    [pid |-> pid, sound |-> TRUE,
     refs |-> [s \in {"documents", "internal_locations"} |->
                 IF s = "documents" THEN Ref(p) ELSE Ref(12)]]

Bundle(docs, eitems, items) ==
    [locations |-> <<Place1>>, internal_locations |-> <<Shelf1>>,
     documents |-> docs, eitems |-> eitems, items |-> items]

A == Doc(1, 1, FALSE, <<As(1)>>, {"x"})
B == Doc(2, 1, TRUE, <<As(1), As(2)>>, {})
C == Doc(3, 2, FALSE, <<As(2), As(2)>>, {"x"})
D == Doc(4, 2, FALSE, <<As(2), As(1)>>, {"x"})
E == Doc(5, 1, FALSE, <<Padded(2)>>, {})

MCFiles ==
    <<Bundle(<<A, C, D>>, <<EItem(21, Ref(1), TRUE), EItem(22, Ref(3), FALSE)>>,
             <<Copy(31, 1)>>),
      Bundle(<<A, B, D>>, <<EItem(21, Ref(4), TRUE)>>, <<>>),
      Bundle(<<A, D, E>>, <<EItem(21, Ref(1), TRUE), EItem(22, Ref(5), TRUE)>>, <<>>),
      Bundle(<<A, E>>, <<EItem(21, [pid |-> 1, text |-> FALSE], TRUE)>>, <<>>),
      Bundle(<<D>>, <<EItem(4, Ref(4), TRUE)>>, <<>>),
      Bundle(<<D>>, <<EItem(21, Ref(1), TRUE)>>, <<>>),
      Bundle(<<A>>, <<>>, <<Copy(31, NoPid)>>),
      [documents |-> <<A, A>>, locations |-> <<Place1>>],
      [locations |-> <<Place1>>],
      [unreadable |-> <<>>],
      <<>> >>
=============================================================================
