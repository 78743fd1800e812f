---------------------------- MODULE Circulation ----------------------------
(***************************************************************************)
(* Loans of physical items, as invenio_app_ils/circulation decides them.   *)
(*                                                                         *)
(* The database tables (loans, items) are the truth; every rule about      *)
(* other loans ("does this patron already have a request?", "is the item   *)
(* out?", "is the document overbooked?") is asked of the search index,     *)
(* whose entries catch up with the tables one record at a time, later.     *)
(* Requesting and checking out are split where the code is: the handler    *)
(* asks the index, then other workers run, then it commits.                *)
(***************************************************************************)
EXTENDS Integers, FiniteSets

CONSTANTS
    Patrons, Documents, Items, Loans,
    DocumentOf,  \* [Items -> Documents]: item["document_pid"]
    Workers,     \* the web workers, one request at a time each
    LastDay,     \* bound: the days 0 .. LastDay
    None         \* the value of a field that is not set

ASSUME DocumentOfAssumption == DocumentOf \in [Items -> Documents]
ASSUME NoneAssumption == None \notin Patrons \cup Documents \cup Items
ASSUME LastDayAssumption == LastDay \in Nat

VARIABLES
    loans,      \* the loan table: PID -> record
    loanIndex,  \* what a search on the loans index finds
    items,      \* the item table: PID -> status, or "DELETED"
    itemIndex,  \* what a search on the items index finds
    session,    \* what each worker has checked and is about to commit
    scan,       \* hits cancel_expired_loan_requests still has to process
    today       \* the current date

vars == <<loans, loanIndex, items, itemIndex, session, scan, today>>

-----------------------------------------------------------------------------
(* Records and states.                                                     *)

Days == 0 .. LastDay

LoanStates == {"NONE", "PENDING", "ITEM_ON_LOAN", "ITEM_RETURNED", "CANCELLED"}
Request == "PENDING"        \* CIRCULATION_STATES_LOAN_REQUEST
Active == "ITEM_ON_LOAN"    \* CIRCULATION_STATES_LOAN_ACTIVE

\* Statuses other than CAN_CIRCULATE and MISSING are told apart by nothing
\* here: FOR_REFERENCE_ONLY stands for IN_BINDING and SCANNING too.
ItemStatuses == {"CAN_CIRCULATE", "FOR_REFERENCE_ONLY", "MISSING", "DELETED"}

LoanRecord ==
    [state: LoanStates, patron: Patrons \cup {None},
     document: Documents \cup {None}, item: Items \cup {None},
     expire: Days]  \* request_expire_date

NoLoan == [state |-> "NONE", patron |-> None, document |-> None,
           item |-> None, expire |-> 0]

Operation ==
    [op: {"idle", "request", "checkout"}, patron: Patrons \cup {None},
     document: Documents \cup {None}, item: Items \cup {None}]

Idle == [op |-> "idle", patron |-> None, document |-> None, item |-> None]

-----------------------------------------------------------------------------
(* Searches: functions of the index, never of the table.                   *)

\* mutant: the search asks for active loans only
HasActiveLoanOnDocument(p, d) ==
    \E l \in Loans : /\ loanIndex[l].patron = p
                     /\ loanIndex[l].document = d
                     /\ loanIndex[l].state = Active

\* patron_has_active_loan_or_request_on_document
HasActiveLoanOrRequestOnDocument(p, d) ==
    \E l \in Loans : /\ loanIndex[l].patron = p
                     /\ loanIndex[l].document = d
                     /\ loanIndex[l].state \in {Request, Active}

\* mutant: the search forgets whose request it is
AnyRequestsOnDocument(p, d) ==
    {l \in Loans : loanIndex[l].document = d /\ loanIndex[l].state = Request}

\* patron_has_request_on_document: the hits, of which the code takes one
RequestsOnDocument(p, d) ==
    {l \in Loans : /\ loanIndex[l].patron = p
                   /\ loanIndex[l].document = d
                   /\ loanIndex[l].state = Request}

\* patron_has_active_loan_on_item
HasActiveLoanOnItem(p, i) ==
    \E l \in Loans : /\ loanIndex[l].patron = p
                     /\ loanIndex[l].item = i
                     /\ loanIndex[l].state = Active

\* mutant: the search asks for requests of the item
ItemRequested(i) ==
    \E l \in Loans : loanIndex[l].item = i /\ loanIndex[l].state = Request

\* any active loan of the item: asked by the item's circulation resolver, by
\* Item.delete and by the checkout transition
ItemOnLoan(i) ==
    \E l \in Loans : loanIndex[l].item = i /\ loanIndex[l].state = Active

LoansInState(d, s) ==
    Cardinality({l \in Loans : /\ loanIndex[l].document = d
                               /\ loanIndex[l].state = s})

\* the document's circulation resolver; all loans here are of ILS items
AvailableItemsForLoan(d) ==
    LET indexed == {i \in Items : DocumentOf[i] = d /\ itemIndex[i] # "DELETED"}
        unavailable == {i \in indexed : itemIndex[i] # "CAN_CIRCULATE"}
    IN Cardinality(indexed) - LoansInState(d, Active) - Cardinality(unavailable)

Overbooked(d) == LoansInState(d, Request) > AvailableItemsForLoan(d)

\* mutant: a request expires a day late
LateExpiredRequests ==
    {l \in Loans : /\ loanIndex[l].state = Request
                   /\ loanIndex[l].expire < today - 1}

\* get_all_expired_loans
ExpiredRequests ==
    {l \in Loans : loanIndex[l].state = Request /\ loanIndex[l].expire < today}

-----------------------------------------------------------------------------
Init ==
    /\ loans = [l \in Loans |-> NoLoan]
    /\ loanIndex = [l \in Loans |-> NoLoan]
    /\ items \in [Items -> ItemStatuses \ {"DELETED"}]
    /\ itemIndex = items
    /\ session = [w \in Workers |-> Idle]
    /\ scan = {}
    /\ today = 0

-----------------------------------------------------------------------------
(* Requesting a loan.                                                      *)

\* request_loan up to the creation of the record: nothing of the patron's on
\* that document in the index.
RequestLoan(w, p, d) ==
    /\ session[w] = Idle
    /\ ~HasActiveLoanOrRequestOnDocument(p, d)
    /\ session' = [session EXCEPT ![w] =
           [op |-> "request", patron |-> p, document |-> d, item |-> None]]
    /\ UNCHANGED <<loans, loanIndex, items, itemIndex, scan, today>>

\* the rest: mint a PID, create the loan, trigger "request", commit.
CommitRequest(w) ==
    /\ session[w].op = "request"
    /\ \E l \in Loans, e \in Days :
           /\ loans[l].state = "NONE"
           /\ e >= today
           /\ loans' = [loans EXCEPT ![l] =
                  [state |-> Request, patron |-> session[w].patron,
                   document |-> session[w].document, item |-> None,
                   expire |-> e]]
    /\ session' = [session EXCEPT ![w] = Idle]
    /\ UNCHANGED <<loanIndex, items, itemIndex, scan, today>>

-----------------------------------------------------------------------------
(* Checking out.                                                           *)

CheckoutOf(p, i) ==
    [op |-> "checkout", patron |-> p, document |-> DocumentOf[i], item |-> i]

\* checkout_loan: with force the item's status is set and committed before
\* the checkout itself is attempted.
CheckoutLoan(w, p, i, force) ==
    /\ session[w] = Idle
    /\ ~HasActiveLoanOnItem(p, i)
    /\ items[i] # "DELETED"
    /\ items' = IF force THEN [items EXCEPT ![i] = "CAN_CIRCULATE"] ELSE items
    /\ session' = [session EXCEPT ![w] = CheckoutOf(p, i)]
    /\ UNCHANGED <<loans, loanIndex, itemIndex, scan, today>>

\* _ensure_item_loanable_via_self_checkout: a MISSING item is put back in
\* circulation whether or not the remaining checks let the checkout go on.
FoundOnShelf(i) ==
    /\ items[i] \in {"CAN_CIRCULATE", "MISSING"}
    /\ items' = [items EXCEPT ![i] = "CAN_CIRCULATE"]

SelfCheckout(w, p, i) ==
    /\ session[w] = Idle
    /\ FoundOnShelf(i)
    /\ session' = IF ItemOnLoan(i) \/ Overbooked(DocumentOf[i])
                  THEN session
                  ELSE [session EXCEPT ![w] = CheckoutOf(p, i)]
    /\ UNCHANGED <<loans, loanIndex, itemIndex, scan, today>>

\* GET /circulation/loans/self-checkout: the barcode is looked up in the
\* items index, then the item goes through the same rules.
SelfCheckoutGetItemByBarcode(i) ==
    /\ itemIndex[i] # "DELETED"
    /\ FoundOnShelf(i)
    /\ UNCHANGED <<loans, loanIndex, itemIndex, session, scan, today>>

\* mutant: the hit is lent as it is, whatever became of the request
LendHit(w, l) ==
    /\ l \in RequestsOnDocument(session[w].patron, session[w].document)
    /\ loans' = [loans EXCEPT ![l] =
           [@ EXCEPT !.state = Active, !.patron = session[w].patron,
                     !.item = session[w].item]]

\* _checkout_loan: a request of the patron's that the index knows of is read
\* again from the table and becomes the loan ...
LendRequest(w, l) ==
    /\ l \in RequestsOnDocument(session[w].patron, session[w].document)
    /\ loans[l].state = Request
    /\ loans' = [loans EXCEPT ![l] =
           [@ EXCEPT !.state = Active, !.patron = session[w].patron,
                     !.item = session[w].item]]

\* ... or, the index knowing of none, a loan is created.
LendNew(w, l) ==
    /\ RequestsOnDocument(session[w].patron, session[w].document) = {}
    /\ loans[l].state = "NONE"
    /\ loans' = [loans EXCEPT ![l] =
           [state |-> Active, patron |-> session[w].patron,
            document |-> session[w].document, item |-> session[w].item,
            expire |-> 0]]

\* The transition asks the table for the item's status and the index for its
\* other loans.
CommitCheckout(w) ==
    /\ session[w].op = "checkout"
    /\ items[session[w].item] = "CAN_CIRCULATE"
    /\ ~ItemOnLoan(session[w].item)
    /\ \E l \in Loans : LendRequest(w, l) \/ LendNew(w, l)
    /\ session' = [session EXCEPT ![w] = Idle]
    /\ UNCHANGED <<loanIndex, items, itemIndex, scan, today>>

\* A transition raised, the version check failed or the worker died: the
\* transaction is rolled back and the caller gets an error.
Rollback(w) ==
    /\ session[w] # Idle
    /\ session' = [session EXCEPT ![w] = Idle]
    /\ UNCHANGED <<loans, loanIndex, items, itemIndex, scan, today>>

-----------------------------------------------------------------------------
(* Transitions of one loan, triggered on the record read from the table.   *)

\* checkin
Checkin(l) ==
    /\ loans[l].state = Active
    /\ loans' = [loans EXCEPT ![l].state = "ITEM_RETURNED"]
    /\ UNCHANGED <<loanIndex, items, itemIndex, session, scan, today>>

\* cancel: a request by its owner or a librarian, an active loan by a
\* librarian
Cancel(l) ==
    /\ loans[l].state \in {Request, Active}
    /\ loans' = [loans EXCEPT ![l].state = "CANCELLED"]
    /\ UNCHANGED <<loanIndex, items, itemIndex, session, scan, today>>

\* update_dates_loan on a request: a librarian moves its expiry date, and its
\* start date with it where that must not be later
UpdateDatesLoan(l, e) ==
    /\ loans[l].state \in {Request, "CANCELLED"}
    /\ loans[l].expire # e
    /\ loans' = [loans EXCEPT ![l].expire = e]
    /\ UNCHANGED <<loanIndex, items, itemIndex, session, scan, today>>

-----------------------------------------------------------------------------
(* cancel_expired_loan_requests: one scroll over the index, then a         *)
(* transition per hit. A hit whose loan is no longer PENDING raises - no    *)
(* transition leads out of a closed loan, and out of ITEM_ON_LOAN "cancel"  *)
(* needs a librarian, which the task is not - and ends the run.            *)

StartScan ==
    /\ scan = {}
    /\ scan' = ExpiredRequests
    /\ UNCHANGED <<loans, loanIndex, items, itemIndex, session, today>>

\* mutant: the task may cancel what a librarian may
CancelExpiredLoan(l) ==
    /\ l \in scan
    /\ loans[l].state \in {Request, Active}
    /\ loans' = [loans EXCEPT ![l].state = "CANCELLED"]
    /\ scan' = scan \ {l}
    /\ UNCHANGED <<loanIndex, items, itemIndex, session, today>>

CancelExpired(l) ==
    /\ l \in scan
    /\ IF loans[l].state = Request
       THEN /\ loans' = [loans EXCEPT ![l].state = "CANCELLED"]
            /\ scan' = scan \ {l}
       ELSE /\ scan' = {}
            /\ UNCHANGED loans
    /\ UNCHANGED <<loanIndex, items, itemIndex, session, today>>

-----------------------------------------------------------------------------
(* Items.                                                                  *)

\* a librarian edits the item
UpdateItem(i, status) ==
    /\ items[i] \notin {"DELETED", status}
    /\ items' = [items EXCEPT ![i] = status]
    /\ UNCHANGED <<loans, loanIndex, itemIndex, session, scan, today>>

\* mutant: nothing is asked about loans
DeleteAnyItem(i) ==
    /\ items[i] # "DELETED"
    /\ items' = [items EXCEPT ![i] = "DELETED"]
    /\ UNCHANGED <<loans, loanIndex, itemIndex, session, scan, today>>

\* Item.delete
DeleteItem(i) ==
    /\ items[i] # "DELETED"
    /\ ~ItemOnLoan(i)
    /\ items' = [items EXCEPT ![i] = "DELETED"]
    /\ UNCHANGED <<loans, loanIndex, itemIndex, session, scan, today>>

-----------------------------------------------------------------------------
(* The search engine makes an indexed record visible; days pass.           *)

RefreshLoan(l) ==
    /\ loanIndex[l] # loans[l]
    /\ loanIndex' = [loanIndex EXCEPT ![l] = loans[l]]
    /\ UNCHANGED <<loans, items, itemIndex, session, scan, today>>

RefreshItem(i) ==
    /\ itemIndex[i] # items[i]
    /\ itemIndex' = [itemIndex EXCEPT ![i] = items[i]]
    /\ UNCHANGED <<loans, loanIndex, items, session, scan, today>>

NextDay ==
    /\ today < LastDay
    /\ today' = today + 1
    /\ UNCHANGED <<loans, loanIndex, items, itemIndex, session, scan>>

-----------------------------------------------------------------------------
\* the steps a user, a task or a day starts
Start ==
    \/ \E w \in Workers, p \in Patrons :
           \/ \E d \in Documents : RequestLoan(w, p, d)
           \/ \E i \in Items, force \in BOOLEAN : CheckoutLoan(w, p, i, force)
           \/ \E i \in Items : SelfCheckout(w, p, i)
    \/ \E i \in Items :
           \/ SelfCheckoutGetItemByBarcode(i)
           \/ \E s \in ItemStatuses \ {"DELETED"} : UpdateItem(i, s)
           \/ DeleteItem(i)
    \/ \E l \in Loans :
           \/ Checkin(l)
           \/ Cancel(l)
           \/ \E e \in Days : UpdateDatesLoan(l, e)
           \/ CancelExpired(l)
    \/ StartScan
    \/ NextDay

\* the end of a handler that a worker has in flight
Finish ==
    \E w \in Workers : CommitRequest(w) \/ CommitCheckout(w) \/ Rollback(w)

Refresh ==
    \/ \E l \in Loans : RefreshLoan(l)
    \/ \E i \in Items : RefreshItem(i)

Next == Start \/ Finish \/ Refresh

Spec == Init /\ [][Next]_vars

-----------------------------------------------------------------------------
(* The same system used one handler at a time: every step a user or a task *)
(* takes finds the index caught up and no other handler in flight. This is *)
(* how the tests of the repository drive it (a flush_and_refresh between   *)
(* two calls); the rules below are what its checks are sufficient for.     *)

CaughtUp == loanIndex = loans /\ itemIndex = items

Quiet == CaughtUp /\ \A w \in Workers : session[w] = Idle

SerialNext == (Quiet /\ Start) \/ Finish \/ Refresh

SerialSpec == Init /\ [][SerialNext]_vars

\* The search engine refreshes for ever and Celery beat keeps starting the
\* task, whose run goes on hit by hit; users owe nothing.
Fairness ==
    /\ \A l \in Loans : WF_vars(RefreshLoan(l))
    /\ WF_vars(StartScan)
    /\ WF_vars(\E l \in Loans : CancelExpired(l))

FairSpec == Spec /\ Fairness

-----------------------------------------------------------------------------
(* Properties.                                                             *)

TypeOK ==
    /\ loans \in [Loans -> LoanRecord]
    /\ loanIndex \in [Loans -> LoanRecord]
    /\ items \in [Items -> ItemStatuses]
    /\ itemIndex \in [Items -> ItemStatuses]
    /\ session \in [Workers -> Operation]
    /\ scan \subseteq Loans
    /\ today \in Days

\* However stale the index is, a hit's patron and document are those of the
\* loan it stands for: _checkout_loan may lend the request it found without
\* looking at whose it is.
HitsBelongToTheirLoan ==
    \A l \in Loans :
        loanIndex[l].state # "NONE" =>
            /\ loans[l].state # "NONE"
            /\ loanIndex[l].patron = loans[l].patron
            /\ loanIndex[l].document = loans[l].document

\* The handlers, the task and the stale index together keep to the table of
\* transitions: no loan changes patron or document, and none that a stale
\* hit brings back is lent or cancelled after it was closed.
Ledger ==
    [l \in Loans |->
        [state |-> loans[l].state, patron |-> loans[l].patron,
         document |-> loans[l].document, item |-> loans[l].item]]

Lifecycle == INSTANCE LoanLifecycle WITH ledger <- Ledger

FollowsLifecycle == Lifecycle!Spec

\* cancel_expired_loan_requests never takes an item away: a request checked
\* out after the scroll started stays on loan when its hit comes up.
ScanLeavesActiveLoans ==
    [][scan' # scan =>
          \A l \in Loans : loans[l].state = Active => loans'[l] = loans[l]]_vars

\* ... and never cancels a request that has not expired, the one it read
\* being the one its hit promised.
ScanCancelsExpiredOnly ==
    [][\A l \in Loans :
          /\ scan' # scan
          /\ loans[l].state = Request
          /\ loans'[l].state = "CANCELLED"
          => loans[l].expire < today]_vars

\* An item is on loan to one patron, once.
OneActiveLoanPerItem ==
    \A l, m \in Loans :
        /\ loans[l].state = Active
        /\ loans[m].state = Active
        /\ loans[l].item = loans[m].item
        => l = m

\* A patron's request on a document is the only one of theirs, and there is
\* none while they have a copy on loan.
OneOpenLoanPerPatronAndDocument ==
    \A l, m \in Loans :
        /\ loans[l].state = Request
        /\ loans[m].state \in {Request, Active}
        /\ loans[l].patron = loans[m].patron
        /\ loans[l].document = loans[m].document
        => l = m

\* No patron holds an item whose record was deleted.
ActiveLoanItemExists ==
    \A l \in Loans :
        loans[l].state = Active => items[loans[l].item] # "DELETED"

\* An expired request does not stay open: the task reaches it although any
\* stale hit ends the whole run.
ExpiredRequestsSettle ==
    \A l \in Loans :
        []<>~(loans[l].state = Request /\ loans[l].expire < today)
=============================================================================
