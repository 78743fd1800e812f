------------------------------ MODULE Closures ------------------------------
(***************************************************************************)
(* When a location is open: the functions of closures/api.py, on locations *)
(* as the record stores them. Dates are numbers of days, day 0 a Monday;    *)
(* a weekday's name is its number, Monday 0.                               *)
(*                                                                         *)
(* Two readings of one record live side by side in the code. Loan dates    *)
(* are moved by the first: a weekday's rule is looked up by its position   *)
(* in the list, and the first exception that covers a date decides. The    *)
(* closure periods shown to users come from the second: weekdays by name,  *)
(* and the last exception decides.                                         *)
(***************************************************************************)
EXTENDS Integers, Sequences, FiniteSetsExt

CONSTANTS
    Week,    \* bound: days in a week, 7
    Horizon  \* bound: days find_next_open_date looks at, 365

ASSUME WeekAssumption == Week \in Nat \ {0}
ASSUME HorizonAssumption == Horizon \in Nat

NoDate == -1  \* find_next_open_date raised

Weekday(date) == date % Week

\* _is_in_interval
IsInInterval(date, interval) ==
    interval.start_date <= date /\ date <= interval.end_date

\* the positions of the exceptions that cover the date
Covering(location, date) ==
    {n \in DOMAIN location.opening_exceptions :
        IsInInterval(date, location.opening_exceptions[n])}

-----------------------------------------------------------------------------
(* The first reading.                                                      *)

\* _is_normally_open
IsNormallyOpen(location, date) ==
    location.opening_weekdays[Weekday(date) + 1].is_open

\* _is_open_on, with _is_exceptionally_open
IsOpenOn(location, date) ==
    LET covering == Covering(location, date)
    IN IF covering = {}
       THEN IsNormallyOpen(location, date)
       ELSE location.opening_exceptions[Min(covering)].is_open

\* mutant: the search starts on the next day
FindOpenDateAfter(location, date) ==
    LET open == {d \in date + 1 .. date + Horizon : IsOpenOn(location, d)}
    IN IF open = {} THEN NoDate ELSE Min(open)

\* find_next_open_date
FindNextOpenDate(location, date) ==
    LET open == {d \in date .. date + Horizon - 1 : IsOpenOn(location, d)}
    IN IF open = {} THEN NoDate ELSE Min(open)

-----------------------------------------------------------------------------
(* The second reading.                                                     *)

ClosedWeekdays(location) ==
    {rule.weekday : rule \in {location.opening_weekdays[n] :
        n \in {m \in DOMAIN location.opening_weekdays :
                  ~location.opening_weekdays[m].is_open}}}

\* exception_overrides, or else the weekday
IsClosedOn(location, date) ==
    LET covering == Covering(location, date)
    IN IF covering = {}
       THEN Weekday(date) \in ClosedWeekdays(location)
       ELSE ~location.opening_exceptions[Max(covering)].is_open

\* One turn of the loop: a closed date opens a streak unless one is open, an
\* open date ends it.
Visit(location, walk, date) ==
    IF IsClosedOn(location, date)
    THEN [walk EXCEPT !.streak = IF @ = NoDate THEN date ELSE @]
    ELSE IF walk.streak = NoDate
    THEN walk
    ELSE [periods |-> Append(walk.periods,
                             [start |-> walk.streak, end |-> date - 1]),
          streak |-> NoDate]

\* mutant: a streak still open at the end is lost
FinishedClosurePeriods(location, start, end) ==
    LET walk[date \in start - 1 .. end] ==
            IF date < start
            THEN [periods |-> <<>>, streak |-> NoDate]
            ELSE Visit(location, walk[date - 1], date)
    IN walk[end].periods

\* The loop from start to each date, and the streak still open at the end
ClosurePeriods(location, start, end) ==
    LET walk[date \in start - 1 .. end] ==
            IF date < start
            THEN [periods |-> <<>>, streak |-> NoDate]
            ELSE Visit(location, walk[date - 1], date)
        last == walk[end]
    IN IF last.streak = NoDate
       THEN last.periods
       ELSE Append(last.periods, [start |-> last.streak, end |-> end])
=============================================================================
