---------------------------- MODULE MCLocations ----------------------------
(* Locations on small calendars. *)
EXTENDS Locations

\* as many rules as there are weekdays, or one too few
AnyWeekdays == [1 .. Week -> OpeningWeekday] \cup [1 .. Week - 1 -> OpeningWeekday]

Exceptions == [start_date: Dates, end_date: Dates, is_open: BOOLEAN]

\* closures that nest, touch and overlap, for lists of three
Closings ==
    {[start_date |-> i[1], end_date |-> i[2], is_open |-> FALSE] :
        i \in {<<0, 0>>, <<0, 2>>, <<1, 1>>, <<2, 3>>, <<3, 3>>}}

AnyExceptions ==
    UNION {[1 .. n -> Exceptions] : n \in 0 .. 2} \cup [1 .. 3 -> Closings]
=============================================================================
