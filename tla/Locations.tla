----------------------------- MODULE Locations -----------------------------
(***************************************************************************)
(* A location record and what writes it: the librarian's requests, through *)
(* the loader's checks, and the yearly task that drops past exceptions.   *)
(***************************************************************************)
EXTENDS Closures, Clock

CONSTANTS
    WeekdayLists,    \* bound: the opening_weekdays a request may carry
    ExceptionLists   \* bound: the opening_exceptions a request may carry

\* dates, as numbers, are not before the first of all
OpeningWeekday == [weekday: 0 .. Week - 1, is_open: BOOLEAN]
OpeningException == [start_date: Nat, end_date: Nat, is_open: BOOLEAN]

ASSUME ListsAssumption ==
    /\ WeekdayLists \subseteq Seq(OpeningWeekday)
    /\ ExceptionLists \subseteq Seq(OpeningException)

VARIABLE location

locationVars == <<location, today>>

\* LocationSchemaV1.postload_checks on the weekdays: one rule for each, in
\* whatever order they came
WeekdaysAccepted(weekdays) ==
    /\ \A m, n \in DOMAIN weekdays :
           weekdays[m].weekday = weekdays[n].weekday => m = n
    /\ Len(weekdays) = Week
    /\ \E n \in DOMAIN weekdays : weekdays[n].is_open

\* mutant: an exception may start on the day the one before ends
TouchingExceptionsAccepted(exceptions) ==
    /\ \A n \in DOMAIN exceptions :
           exceptions[n].start_date <= exceptions[n].end_date
    /\ \A n \in 1 .. Len(exceptions) - 1 :
           exceptions[n].end_date <= exceptions[n + 1].start_date

\* ... on the exceptions, once sorted: each is compared with the one before
ExceptionsAccepted(exceptions) ==
    /\ \A n \in DOMAIN exceptions :
           exceptions[n].start_date <= exceptions[n].end_date
    /\ \A n \in 1 .. Len(exceptions) - 1 :
           exceptions[n].end_date < exceptions[n + 1].start_date

\* the same exceptions in any order; sorted by their start is the only one in
\* which neighbours may pass
Orders(exceptions) ==
    {[n \in DOMAIN exceptions |-> exceptions[p[n]]] :
        p \in Bijection(DOMAIN exceptions, DOMAIN exceptions)}

\* the records the loader makes of acceptable bodies
Loaded ==
    {[opening_weekdays |-> weekdays, opening_exceptions |-> exceptions] :
        weekdays \in {w \in WeekdayLists : WeekdaysAccepted(w)},
        exceptions \in {e \in UNION {Orders(x) : x \in ExceptionLists} :
                           ExceptionsAccepted(e)}}

LocationInit ==
    /\ location \in Loaded
    /\ today = 0

\* PUT or PATCH of the record
UpdateLocation ==
    /\ location' \in Loaded \ {location}
    /\ UNCHANGED today

\* the exceptions that do not end before the day
Kept(exceptions, day) ==
    LET kept[n \in 0 .. Len(exceptions)] ==
            IF n = 0 THEN <<>>
            ELSE IF exceptions[n].end_date >= day
            THEN Append(kept[n - 1], exceptions[n])
            ELSE kept[n - 1]
    IN kept[Len(exceptions)]

\* mutant: an exception that ends today is past
CleanEndingExceptions ==
    LET cleaned == Kept(location.opening_exceptions, today + 1)
    IN /\ cleaned # location.opening_exceptions
       /\ location' = [location EXCEPT !.opening_exceptions = cleaned]
       /\ UNCHANGED today

\* clean_locations_past_closures_exceptions
CleanPastExceptions ==
    LET cleaned == Kept(location.opening_exceptions, today)
    IN /\ cleaned # location.opening_exceptions
       /\ location' = [location EXCEPT !.opening_exceptions = cleaned]
       /\ UNCHANGED today

LocationNextDay ==
    /\ Tomorrow
    /\ UNCHANGED location

LocationNext == UpdateLocation \/ CleanPastExceptions \/ LocationNextDay

LocationSpec == LocationInit /\ [][LocationNext]_locationVars

-----------------------------------------------------------------------------
(* Properties.                                                             *)

\* The two readings agree about exceptions, although one lets the first that
\* covers a date decide and the other the last: what the loader compares,
\* neighbours only, and what the task leaves are enough for that.
ExceptionsReadAlike ==
    \A d \in Dates :
        Covering(location, d) # {} =>
            IsOpenOn(location, d) = ~IsClosedOn(location, d)

\* Dropping past exceptions changes no date a loan may still be given.
CleaningKeepsTheCalendar ==
    [][location' # location /\ CleanPastExceptions =>
          \A d \in today .. LastDay :
              /\ IsOpenOn(location', d) = IsOpenOn(location, d)
              /\ IsClosedOn(location', d) = IsClosedOn(location, d)]_locationVars

\* get_closure_periods returns the longest ranges of closed dates between
\* start and end, each once, in order.
PeriodsAreTheClosedRanges ==
    \A start, end \in Dates :
        LET Closed(d) == d \in start .. end /\ IsClosedOn(location, d)
            ranges == {r \in [start: Dates, end: Dates] :
                           /\ r.start <= r.end
                           /\ \A d \in r.start .. r.end : Closed(d)
                           /\ ~Closed(r.start - 1) /\ ~Closed(r.end + 1)}
            periods == ClosurePeriods(location, start, end)
        IN start <= end =>
               /\ {periods[n] : n \in DOMAIN periods} = ranges
               /\ \A n \in 1 .. Len(periods) - 1 :
                      periods[n].end < periods[n + 1].start

\* The date a loan is moved to is the first that is in no closure period ...
AvoidsClosures ==
    \A d \in Dates :
        LET next == FindNextOpenDate(location, d)
        IN next # NoDate =>
               ClosurePeriods(location, d, next) =
                   IF next = d THEN <<>> ELSE <<[start |-> d, end |-> next - 1]>>

\* ... provided the weekdays are listed from Monday on.
AvoidsClosuresInWeekOrder ==
    (\A n \in DOMAIN location.opening_weekdays :
        location.opening_weekdays[n].weekday = n - 1)
    => AvoidsClosures
=============================================================================
