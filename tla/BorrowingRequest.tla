------------------------- MODULE BorrowingRequest -------------------------
(***************************************************************************)
(* Inter-library borrowing requests and the loan each gives its patron     *)
(* (ill/api.py, ill/views.py and their loaders).                           *)
(*                                                                         *)
(* The loan is a record of its own, made by circulation's checkout, which  *)
(* commits it; the request that must refer to it is committed afterwards.  *)
(* Extensions go the same way: the loan first, then the request. Between   *)
(* the two commits other handlers run and the worker may die.              *)
(*                                                                         *)
(* All requests here are for one document, so that a search for the        *)
(* patron's request on the document is a search by patron.                 *)
(***************************************************************************)
EXTENDS Integers

CONSTANTS
    Requests,     \* PIDs of borrowing requests
    Patrons,
    PatronOf,     \* [Requests -> Patrons]: request["patron_pid"]
    Loans,        \* PIDs of loans
    Workers,      \* the web workers
    MaxAsked,     \* bound: extensions asked for of one request
    None          \* the value of a field that is not set

ASSUME PatronOfAssumption == PatronOf \in [Requests -> Patrons]
ASSUME NoneAssumption == None \notin Requests \cup Patrons \cup Loans
ASSUME MaxAskedAssumption == MaxAsked \in Nat

VARIABLES
    requests,     \* the borrowing request table
    loans,        \* the loan table
    loanIndex,    \* what a search on the loans index finds, loan by loan
    session,      \* the handler each worker has in flight
    asked,        \* history: how often an extension was asked for
    interrupted   \* history: requests a worker died on between two commits

vars == <<requests, loans, loanIndex, session, asked, interrupted>>

-----------------------------------------------------------------------------
(* Records.                                                                *)

\* Nothing here tells the other statuses apart: CANCELLED stands for PENDING
\* and RETURNED too.
Statuses == {"REQUESTED", "ON_LOAN", "CANCELLED"}

ExtensionStatuses == {"PENDING", "DECLINED"}

\* patron_loan.pid and patron_loan.extension.status; "DELETED" is a record
\* deleted through the REST API
RequestRecord ==
    [status: Statuses \cup {"DELETED"}, loan: Loans \cup {None},
     extension: ExtensionStatuses \cup {"none"}]

LoanStates == {"NONE", "PENDING", "ITEM_ON_LOAN", "ITEM_RETURNED", "CANCELLED"}

\* request: the borrowing request in item_pid; extended: how often the end
\* date was moved by accepting an extension
LoanRecord ==
    [state: LoanStates, patron: Patrons \cup {None},
     request: Requests \cup {None}, extended: Nat]

NoLoan == [state |-> "NONE", patron |-> None, request |-> None, extended |-> 0]

IndexEntry == [state: LoanStates, patron: Patrons \cup {None},
               request: Requests \cup {None}]

\* the fields the searches filter on
Indexed(l) == [state |-> loans[l].state, patron |-> loans[l].patron,
               request |-> loans[l].request]

\* record: the request as the handler read it
Handler ==
    [op: {"create", "attach", "accept", "clear"}, request: Requests,
     record: RequestRecord, loan: Loans \cup {None}]

Idle == [op |-> "idle"]

\* Handlers on a request other than the one-transaction ones
Busy(r) == \E w \in Workers : session[w] # Idle /\ session[w].request = r

-----------------------------------------------------------------------------
(* Searches.                                                               *)

\* mutant: it is asked for loans that are only requested
PendingLoanOn(r) ==
    \E l \in Loans : /\ loanIndex[l].state = "PENDING"
                     /\ loanIndex[l].request = r

\* patron_has_active_loan_on_item and the transition's own question: an active
\* loan whose item_pid is this borrowing request
ActiveLoanOn(r) ==
    \E l \in Loans : /\ loanIndex[l].state = "ITEM_ON_LOAN"
                     /\ loanIndex[l].request = r

\* patron_has_request_on_document
RequestsOf(p) ==
    {l \in Loans : loanIndex[l].patron = p /\ loanIndex[l].state = "PENDING"}

ActiveLoanOrRequestOf(p) ==
    \E l \in Loans : /\ loanIndex[l].patron = p
                     /\ loanIndex[l].state \in {"PENDING", "ITEM_ON_LOAN"}

-----------------------------------------------------------------------------
Init ==
    /\ requests \in
           [Requests -> {[status |-> s, loan |-> None, extension |-> "none"] :
                             s \in Statuses}]
    /\ loans = [l \in Loans |-> NoLoan]
    /\ loanIndex = [l \in Loans |-> Indexed(l)]
    /\ session = [w \in Workers |-> Idle]
    /\ asked = [r \in Requests |-> 0]
    /\ interrupted = {}

-----------------------------------------------------------------------------
(* Giving the patron a loan.                                               *)

\* the view reads the record; the loader wants it REQUESTED, and without loan
PatronLoanCreate(w, r) ==
    /\ session[w] = Idle
    /\ requests[r].status = "REQUESTED"
    /\ requests[r].loan = None
    /\ session' = [session EXCEPT ![w] =
           [op |-> "create", request |-> r, record |-> requests[r],
            loan |-> None]]
    /\ UNCHANGED <<requests, loans, loanIndex, asked, interrupted>>

Lent(l, r) ==
    loans' = [loans EXCEPT ![l] =
        [@ EXCEPT !.state = "ITEM_ON_LOAN", !.patron = PatronOf[r],
                  !.request = r]]

\* mutant: the hit is lent whatever the loan has become
LendStaleHit(w, l, r) ==
    IF RequestsOf(PatronOf[r]) = {}
    THEN loans[l].state = "NONE" /\ Lent(l, r)
    ELSE l \in RequestsOf(PatronOf[r]) /\ Lent(l, r)

\* _checkout_loan: the patron's request on the document, if the index knows of
\* one, read again from the table, or a new loan
LendTo(w, l, r) ==
    /\ IF RequestsOf(PatronOf[r]) = {}
       THEN loans[l].state = "NONE"
       ELSE l \in RequestsOf(PatronOf[r]) /\ loans[l].state = "PENDING"
    /\ Lent(l, r)

\* _PatronLoan.create up to the end of checkout_loan, which commits the loan.
\* The request must still exist to be lent; it is not read again.
CheckoutPatronLoan(w) ==
    LET r == session[w].request IN
    /\ session[w] # Idle /\ session[w].op = "create"
    /\ ~ActiveLoanOn(r)
    /\ requests[r].status # "DELETED"
    /\ \E l \in Loans :
           /\ LendTo(w, l, r)
           /\ session' = [session EXCEPT ![w].op = "attach", ![w].loan = l]
    /\ UNCHANGED <<requests, loanIndex, asked, interrupted>>

\* The rest of _PatronLoan.create, and the view's commit: the copy read at the
\* start is written over whatever the record has become, since the commit in
\* between renewed the version it is compared with.
AttachPatronLoan(w) ==
    LET r == session[w].request IN
    /\ session[w] # Idle /\ session[w].op = "attach"
    /\ requests[r].status # "DELETED"
    /\ requests' = [requests EXCEPT ![r] =
           [session[w].record EXCEPT !.status = "ON_LOAN",
                                     !.loan = session[w].loan]]
    /\ session' = [session EXCEPT ![w] = Idle]
    /\ UNCHANGED <<loans, loanIndex, asked, interrupted>>

-----------------------------------------------------------------------------
(* Extensions.                                                             *)

LoanIsActive(l) == l # None /\ loans[l].state = "ITEM_ON_LOAN"

\* One transaction each, which fails if the record changed since it was read.
RequestExtension(r) ==
    /\ asked[r] < MaxAsked
    /\ requests[r].status = "ON_LOAN"
    /\ requests[r].extension = "none"
    /\ LoanIsActive(requests[r].loan)
    /\ requests' = [requests EXCEPT ![r].extension = "PENDING"]
    /\ asked' = [asked EXCEPT ![r] = @ + 1]
    /\ UNCHANGED <<loans, loanIndex, session, interrupted>>

DeclineExtension(r) ==
    /\ requests[r].status = "ON_LOAN"
    /\ requests[r].extension = "PENDING"
    /\ LoanIsActive(requests[r].loan)
    /\ requests' = [requests EXCEPT ![r].extension = "DECLINED"]
    /\ UNCHANGED <<loans, loanIndex, session, asked, interrupted>>

\* mutant: the loader forgets whether anything was asked
AcceptAnyExtension(w, r) ==
    /\ session[w] = Idle
    /\ requests[r].status = "ON_LOAN"
    /\ requests[r].loan # None
    /\ session' = [session EXCEPT ![w] =
           [op |-> "accept", request |-> r, record |-> requests[r],
            loan |-> requests[r].loan]]
    /\ UNCHANGED <<requests, loans, loanIndex, asked, interrupted>>

AcceptExtension(w, r) ==
    /\ session[w] = Idle
    /\ requests[r].status = "ON_LOAN"
    /\ requests[r].extension = "PENDING"
    /\ requests[r].loan # None
    /\ session' = [session EXCEPT ![w] =
           [op |-> "accept", request |-> r, record |-> requests[r],
            loan |-> requests[r].loan]]
    /\ UNCHANGED <<requests, loans, loanIndex, asked, interrupted>>

\* bound: a request left PENDING by a dead worker may be accepted once more
MaxExtended == MaxAsked + 1

\* validate_loan and the "extend" transition, which commits the loan
ExtendPatronLoan(w) ==
    /\ session[w] # Idle /\ session[w].op = "accept"
    /\ LoanIsActive(session[w].loan)
    /\ loans[session[w].loan].extended < MaxExtended
    /\ loans' = [loans EXCEPT ![session[w].loan].extended = @ + 1]
    /\ session' = [session EXCEPT ![w].op = "clear"]
    /\ UNCHANGED <<requests, loanIndex, asked, interrupted>>

\* the status of the extension is removed from the copy, which is committed
ClearExtension(w) ==
    LET r == session[w].request IN
    /\ session[w] # Idle /\ session[w].op = "clear"
    /\ requests[r].status # "DELETED"
    /\ requests' = [requests EXCEPT ![r] =
           [session[w].record EXCEPT !.extension = "none"]]
    /\ session' = [session EXCEPT ![w] = Idle]
    /\ UNCHANGED <<loans, loanIndex, asked, interrupted>>

\* An error anywhere, or a worker that dies. After the commit of the loan the
\* request is left as it was.
Interrupt(w) ==
    /\ session[w] # Idle
    /\ interrupted' = IF session[w].op \in {"attach", "clear"}
                      THEN interrupted \cup {session[w].request}
                      ELSE interrupted
    /\ session' = [session EXCEPT ![w] = Idle]
    /\ UNCHANGED <<requests, loans, loanIndex, asked>>

-----------------------------------------------------------------------------
(* Librarians edit and delete requests.                                    *)

\* mutant: what the payload does not carry is lost
ReplaceRequest(r, s) ==
    /\ requests[r].status \notin {"DELETED", s}
    /\ requests' = [requests EXCEPT ![r] =
           [status |-> s, loan |-> None, extension |-> "none"]]
    /\ UNCHANGED <<loans, loanIndex, session, asked, interrupted>>

\* PUT: any status, with a reason when it is CANCELLED; preserve_patron_loan
\* puts the loan and the extension of the previous version back
UpdateRequest(r, s) ==
    /\ requests[r].status \notin {"DELETED", s}
    /\ requests' = [requests EXCEPT ![r].status = s]
    /\ UNCHANGED <<loans, loanIndex, session, asked, interrupted>>

DeleteRequest(r) ==
    /\ requests[r].status # "DELETED"
    /\ requests' = [requests EXCEPT ![r].status = "DELETED"]
    /\ UNCHANGED <<loans, loanIndex, session, asked, interrupted>>

-----------------------------------------------------------------------------
(* Circulation, as far as it meets these loans.                            *)

\* request_loan, in one step: its races are those of Circulation
RequestLoan(p) ==
    /\ ~ActiveLoanOrRequestOf(p)
    /\ \E l \in Loans :
           /\ loans[l].state = "NONE"
           /\ loans' = [loans EXCEPT ![l] =
                  [@ EXCEPT !.state = "PENDING", !.patron = p]]
    /\ UNCHANGED <<requests, loanIndex, session, asked, interrupted>>

Checkin(l) ==
    /\ loans[l].state = "ITEM_ON_LOAN"
    /\ loans' = [loans EXCEPT ![l].state = "ITEM_RETURNED"]
    /\ UNCHANGED <<requests, loanIndex, session, asked, interrupted>>

Cancel(l) ==
    /\ loans[l].state \in {"PENDING", "ITEM_ON_LOAN"}
    /\ loans' = [loans EXCEPT ![l].state = "CANCELLED"]
    /\ UNCHANGED <<requests, loanIndex, session, asked, interrupted>>

RefreshLoan(l) ==
    /\ loanIndex[l] # Indexed(l)
    /\ loanIndex' = [loanIndex EXCEPT ![l] = Indexed(l)]
    /\ UNCHANGED <<requests, loans, session, asked, interrupted>>

-----------------------------------------------------------------------------
Begin(w, r) == PatronLoanCreate(w, r) \/ AcceptExtension(w, r)

Others ==
    \/ \E w \in Workers :
           \/ CheckoutPatronLoan(w)
           \/ AttachPatronLoan(w)
           \/ ExtendPatronLoan(w)
           \/ ClearExtension(w)
           \/ Interrupt(w)
    \/ \E r \in Requests :
           \/ RequestExtension(r)
           \/ DeclineExtension(r)
           \/ \E s \in Statuses : UpdateRequest(r, s)
           \/ DeleteRequest(r)
    \/ \E p \in Patrons : RequestLoan(p)
    \/ \E l \in Loans : Checkin(l) \/ Cancel(l) \/ RefreshLoan(l)

Next == (\E w \in Workers, r \in Requests : Begin(w, r)) \/ Others

Spec == Init /\ [][Next]_vars

\* Librarians who do not give one request to two desks at once, nor try again
\* before the search engine shows what became of the first try: everything
\* else - other requests, edits, returns, a lagging index - goes on.
Settled(r) ==
    /\ ~Busy(r)
    /\ \A l \in Loans : loans[l].request = r => loanIndex[l] = Indexed(l)

CarefulNext ==
    (\E w \in Workers, r \in Requests : Settled(r) /\ Begin(w, r)) \/ Others

CarefulSpec == Init /\ [][CarefulNext]_vars

-----------------------------------------------------------------------------
(* Properties.                                                             *)

TypeOK ==
    /\ requests \in [Requests -> RequestRecord]
    /\ loans \in [Loans -> LoanRecord]
    /\ loanIndex \in [Loans -> IndexEntry]
    /\ session \in [Workers -> Handler \cup {Idle}]
    /\ asked \in [Requests -> 0 .. MaxAsked]
    /\ interrupted \subseteq Requests

\* However the two commits are interrupted and tried again, a borrowing
\* request is never out on two loans at once.
OneActiveLoanPerRequest ==
    \A l, m \in Loans :
        /\ loans[l].state = "ITEM_ON_LOAN"
        /\ loans[m].state = "ITEM_ON_LOAN"
        /\ loans[l].request = loans[m].request
        => l = m

\* The loan in patron_loan is one made for that request, and for no other:
\* also where a request of the patron's was turned into the loan.
LoanServesItsRequest ==
    \A r \in Requests, l \in Loans :
        requests[r].loan = l =>
            /\ loans[l].request = r
            /\ loans[l].state \notin {"NONE", "PENDING"}

\* A loan that is out refers to a request that refers to it, or its handler is
\* about to see to it, or died before it could.
LoanIsAttached ==
    \A l \in Loans :
        loans[l].state = "ITEM_ON_LOAN" =>
            LET r == loans[l].request IN
            \/ requests[r].loan = l
            \/ \E w \in Workers : /\ session[w] # Idle
                                  /\ session[w].op = "attach"
                                  /\ session[w].loan = l
            \/ r \in interrupted

\* Loan and borrowing request are committed one after the other, and still end
\* up referring to each other.
LoanAndRequestAgree == LoanServesItsRequest /\ LoanIsAttached

\* Every extension asked for was granted once, or is pending, or was refused
\* as the last one: none is granted twice and none is lost, unless the worker
\* died after it extended the loan. While a handler is at work on the request
\* there is nothing to compare.
ExtensionsAreConserved ==
    \A r \in Requests :
        \/ Busy(r)
        \/ r \in interrupted
        \/ requests[r].loan = None /\ asked[r] = 0
        \/ /\ requests[r].loan # None
           /\ asked[r] = loans[requests[r].loan].extended
                         + IF requests[r].extension = "none" THEN 0 ELSE 1

\* Once a request has its loan no edit, no other handler and no retry takes it
\* away or puts another in its place.
KeepsItsLoan ==
    [][\A r \in Requests :
          requests[r].loan # None => requests'[r].loan = requests[r].loan]_vars
=============================================================================
