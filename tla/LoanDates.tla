----------------------------- MODULE LoanDates -----------------------------
(***************************************************************************)
(* The end dates of the loans of one location's items, and the task that    *)
(* moves them when the location's calendar changes.                        *)
(*                                                                         *)
(* The task runs the night after the change: it takes the active loans from *)
(* the index, one scroll, and moves those that end on a closed day. Each    *)
(* loan it writes is indexed at once but committed with all others at the   *)
(* end; until then the row is locked. Handlers run meanwhile.              *)
(***************************************************************************)
EXTENDS Clock

CONSTANTS
    Loans,
    Calendars,  \* bound: the calendars a librarian may give the location
    Duration,   \* days of a loan, or of its extension
    None        \* no date

ASSUME CalendarsAssumption == Calendars \subseteq SUBSET Dates
ASSUME DurationAssumption == Duration \in Nat
ASSUME NoDateAssumption == None \notin Dates

VARIABLES
    loans,      \* the loan table
    indexed,    \* the latest version of each loan the index was given
    calendar,   \* the dates the location is open on
    scheduled,  \* whether a run of the task awaits the night
    running,    \* whether one is at work
    read,       \* the calendar it read first
    hits,       \* its hits still to come: loan -> end date in the index
    moved,      \* the dates it has written and not committed
    lastRun     \* how the last run ended

\* what the task alone keeps
task == <<running, read, hits, moved, lastRun>>

vars == <<loans, indexed, calendar, scheduled, task, today>>

Active == "ITEM_ON_LOAN"

\* ITEM_RETURNED stands for CANCELLED too
Loan == [state: {"NONE", Active, "ITEM_RETURNED"}, end_date: Dates]

NoDates == [l \in Loans |-> None]

Init ==
    /\ loans = [l \in Loans |-> [state |-> "NONE", end_date |-> 0]]
    /\ indexed = loans
    /\ calendar \in Calendars
    /\ scheduled = FALSE
    /\ running = FALSE
    /\ read = calendar
    /\ hits = NoDates
    /\ moved = NoDates
    /\ lastRun = "SUCCESS"
    /\ today = 0

\* find_next_open_date: no element where it raises
NextOpenDate(open, date) ==
    {d \in open : d >= date /\ \A e \in open : e >= date => d <= e}

-----------------------------------------------------------------------------
(* Handlers: each reads the loan, commits it and indexes it. A row that the *)
(* task has written makes them wait and then fail: the version has changed. *)

Save(l, loan) ==
    /\ moved[l] = None
    /\ loans' = [loans EXCEPT ![l] = loan]
    /\ indexed' = [indexed EXCEPT ![l] = loan]
    /\ UNCHANGED <<calendar, scheduled, task, today>>

\* ILSToItemOnLoan: whatever end date is asked for becomes an open one.
Checkout(l) ==
    /\ loans[l].state = "NONE"
    /\ \E date \in Dates : \E end \in NextOpenDate(calendar, date) :
           Save(l, [state |-> Active, end_date |-> end])

\* An overdue loan is extended from today.
ExtensionStart(l) ==
    IF loans[l].end_date < today THEN today ELSE loans[l].end_date

\* ILSItemOnLoanToItemOnLoan, alone or in a bulk extension, which commits
\* each loan by itself
Extend(l) ==
    /\ loans[l].state = Active
    /\ \E end \in NextOpenDate(calendar, ExtensionStart(l) + Duration) :
           Save(l, [loans[l] EXCEPT !.end_date = end])

\* checkin, or a librarian's cancel
Close(l) ==
    /\ loans[l].state = Active
    /\ Save(l, [loans[l] EXCEPT !.state = "ITEM_RETURNED"])

\* update_dates_loan: any date, open or not
UpdateDatesLoan(l, date) ==
    /\ loans[l].state # "NONE"
    /\ Save(l, [loans[l] EXCEPT !.end_date = date])

-----------------------------------------------------------------------------
(* The calendar and the task.                                              *)

\* mutant: a run that is at work is taken for one that is still to come
ScheduleUnlessRunning == scheduled' = (scheduled \/ ~running)

\* notify_location_updated: of the entries it inspects those of active tasks
\* carry no "request" and are skipped; it schedules a run unless one is
\* scheduled, and there is one either way.
NotifyLocationUpdated == scheduled' = TRUE

UpdateCalendar ==
    /\ calendar' \in Calendars \ {calendar}
    /\ NotifyLocationUpdated
    /\ UNCHANGED <<loans, indexed, task, today>>

\* extend_active_loans_location_closure, from the scroll ...
StartTask ==
    /\ scheduled
    /\ ~running
    /\ scheduled' = FALSE
    /\ running' = TRUE
    /\ read' = calendar
    /\ hits' = [l \in Loans |->
           IF indexed[l].state = Active THEN indexed[l].end_date ELSE None]
    /\ UNCHANGED <<loans, indexed, calendar, moved, lastRun, today>>

\* ... hit by hit: the date comes from the hit and from the location as it is
\* or, the session keeping what it has read, as it was at the first hit ...
MoveHit(l, open) ==
    \E date \in NextOpenDate(open, hits[l]) :
        IF date = hits[l]
        THEN UNCHANGED <<moved, indexed>>
        ELSE /\ moved' = [moved EXCEPT ![l] = date]
             /\ indexed' = [indexed EXCEPT ![l] =
                    [loans[l] EXCEPT !.end_date = date]]

ExtendHit(l) ==
    /\ hits[l] # None
    /\ \E open \in {read, calendar} : MoveHit(l, open)
    /\ hits' = [hits EXCEPT ![l] = None]
    /\ UNCHANGED <<loans, calendar, scheduled, running, read, lastRun, today>>

Committed(l) ==
    IF moved[l] = None
    THEN loans[l]
    ELSE [loans[l] EXCEPT !.end_date = moved[l]]

\* ... to the commit of all.
FinishTask ==
    /\ running
    /\ hits = NoDates
    /\ loans' = [l \in Loans |-> Committed(l)]
    /\ moved' = NoDates
    /\ running' = FALSE
    /\ lastRun' = "SUCCESS"
    /\ UNCHANGED <<indexed, calendar, scheduled, read, hits, today>>

\* A hit without an open date to move to, one whose item is gone, a worker
\* killed: the transaction is rolled back, the index is not. The versions it
\* was given are later than the table's, so it takes none of those until the
\* loan is written again.
AbortTask ==
    /\ running
    /\ hits' = NoDates
    /\ moved' = NoDates
    /\ running' = FALSE
    /\ lastRun' = "FAILURE"
    /\ UNCHANGED <<loans, indexed, calendar, scheduled, read, today>>

NextDay ==
    /\ Tomorrow
    /\ UNCHANGED <<loans, indexed, calendar, scheduled, task>>

-----------------------------------------------------------------------------
\* all but the edits of dates
Work ==
    \/ \E l \in Loans : Checkout(l) \/ Extend(l) \/ Close(l) \/ ExtendHit(l)
    \/ UpdateCalendar
    \/ StartTask
    \/ FinishTask
    \/ AbortTask
    \/ NextDay

Next == Work \/ \E l \in Loans, date \in Dates : UpdateDatesLoan(l, date)

Spec == Init /\ [][Next]_vars

\* Librarians edit dates with the calendar before them.
CarefulNext ==
    Work \/ \E l \in Loans, date \in calendar : UpdateDatesLoan(l, date)

CarefulSpec == Init /\ [][CarefulNext]_vars

-----------------------------------------------------------------------------
(* Properties.                                                             *)

TypeOK ==
    /\ loans \in [Loans -> Loan]
    /\ indexed \in [Loans -> Loan]
    /\ calendar \in Calendars
    /\ read \in Calendars
    /\ scheduled \in BOOLEAN
    /\ running \in BOOLEAN
    /\ hits \in [Loans -> Dates \cup {None}]
    /\ moved \in [Loans -> Dates \cup {None}]
    /\ lastRun \in {"SUCCESS", "FAILURE"}
    /\ today \in Dates

EndsOnClosure(l) == loans[l].state = Active /\ loans[l].end_date \notin calendar

\* something will see to the loans, or is known to have failed to
Attended == scheduled \/ running \/ lastRun = "FAILURE"

\* When a run has succeeded and none is due, no active loan ends on a closed
\* day, whatever was lent, extended or changed in the calendar during the run
\* - but for a loan whose index entry an earlier, failed run left behind.
NoLoanForgotten ==
    \A l \in Loans :
        EndsOnClosure(l) /\ indexed[l] = loans[l] => Attended

\* "Extends all ongoing loans that would end on a closure", all:
EveryLoanMoved == \A l \in Loans : EndsOnClosure(l) => Attended

\* "Extends all ongoing loans that would end on a closure", extends ongoing
\* loans: what the run commits moves end dates of active loans to later days.
OngoingLoansExtended ==
    [][running /\ ~running' =>
          \A l \in Loans :
              loans'[l] # loans[l] =>
                  /\ loans[l].state = Active
                  /\ loans'[l].end_date > loans[l].end_date]_vars
=============================================================================
