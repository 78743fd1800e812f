------------------------- MODULE CirculationProofs -------------------------
(***************************************************************************)
(* Theorems about Circulation, for every set of patrons, documents, items, *)
(* loan PIDs and workers and every LastDay.                                *)
(***************************************************************************)
EXTENDS Circulation, TLAPS

(***************************************************************************)
(* Type correctness.                                                       *)
(***************************************************************************)

LEMMA InitType == Init => TypeOK
  BY NoneAssumption, LastDayAssumption
  DEF Init, TypeOK, LoanRecord, LoanStates, NoLoan, Operation, Idle, Days,
      ItemStatuses

\* One step per action of Next: the variables it assigns stay in their types.
LEMMA NextType == TypeOK /\ [Next]_vars => TypeOK'
<1> SUFFICES ASSUME TypeOK, [Next]_vars PROVE TypeOK'
  OBVIOUS
<1> USE NoneAssumption, DocumentOfAssumption, LastDayAssumption
<1>1. ASSUME NEW w \in Workers, NEW p \in Patrons, NEW d \in Documents,
             RequestLoan(w, p, d)
      PROVE TypeOK'
  BY <1>1 DEF TypeOK, RequestLoan, Operation
<1>2. ASSUME NEW w \in Workers, CommitRequest(w) PROVE TypeOK'
  <2>1. PICK l \in Loans, e \in Days :
           loans' = [loans EXCEPT ![l] =
                  [state |-> Request, patron |-> session[w].patron,
                   document |-> session[w].document, item |-> None,
                   expire |-> e]]
    BY <1>2 DEF CommitRequest
  <2>2. loans' \in [Loans -> LoanRecord]
    BY <2>1 DEF TypeOK, LoanRecord, LoanStates, Operation, Request
  <2>3. QED
    BY <1>2, <2>2 DEF TypeOK, CommitRequest, Operation, Idle
<1>3. ASSUME NEW w \in Workers, NEW p \in Patrons, NEW i \in Items,
             NEW force \in BOOLEAN, CheckoutLoan(w, p, i, force)
      PROVE TypeOK'
  BY <1>3 DEF TypeOK, CheckoutLoan, CheckoutOf, Operation, ItemStatuses
<1>4. ASSUME NEW w \in Workers, NEW p \in Patrons, NEW i \in Items,
             SelfCheckout(w, p, i)
      PROVE TypeOK'
  <2>1. items' \in [Items -> ItemStatuses]
    BY <1>4 DEF TypeOK, SelfCheckout, FoundOnShelf, ItemStatuses
  <2>2. session' \in [Workers -> Operation]
    BY <1>4 DEF TypeOK, SelfCheckout, CheckoutOf, Operation
  <2>3. QED
    BY <1>4, <2>1, <2>2 DEF TypeOK, SelfCheckout
<1>5. ASSUME NEW i \in Items, SelfCheckoutGetItemByBarcode(i) PROVE TypeOK'
  BY <1>5 DEF TypeOK, SelfCheckoutGetItemByBarcode, FoundOnShelf, ItemStatuses
<1>6. ASSUME NEW w \in Workers, CommitCheckout(w) PROVE TypeOK'
  <2>1. session[w] \in Operation /\ Active \in LoanStates
    BY DEF TypeOK, Active, LoanStates
  <2>2. ASSUME NEW l \in Loans, LendRequest(w, l)
        PROVE loans' \in [Loans -> LoanRecord]
    <3>1. loans[l] \in LoanRecord
      BY DEF TypeOK
    <3>2. [loans[l] EXCEPT !.state = Active, !.patron = session[w].patron,
                           !.item = session[w].item] \in LoanRecord
      BY <2>1, <3>1 DEF LoanRecord, Operation
    <3>3. QED
      BY <2>2, <3>2 DEF LendRequest, TypeOK
  <2>3. ASSUME NEW l \in Loans, LendNew(w, l)
        PROVE loans' \in [Loans -> LoanRecord]
    BY <2>1, <2>3 DEF LendNew, TypeOK, LoanRecord, Operation, Days
  <2>4. loans' \in [Loans -> LoanRecord]
    BY <1>6, <2>2, <2>3 DEF CommitCheckout
  <2>5. QED
    BY <1>6, <2>4 DEF TypeOK, CommitCheckout, Operation, Idle
<1>7. ASSUME NEW w \in Workers, Rollback(w) PROVE TypeOK'
  BY <1>7 DEF TypeOK, Rollback, Operation, Idle
<1>8. ASSUME NEW l \in Loans, Checkin(l) PROVE TypeOK'
  BY <1>8 DEF TypeOK, Checkin, LoanRecord, LoanStates
<1>9. ASSUME NEW l \in Loans, Cancel(l) PROVE TypeOK'
  BY <1>9 DEF TypeOK, Cancel, LoanRecord, LoanStates
<1>10. ASSUME NEW l \in Loans, NEW e \in Days, UpdateDatesLoan(l, e)
       PROVE TypeOK'
  BY <1>10 DEF TypeOK, UpdateDatesLoan, LoanRecord
<1>11. ASSUME StartScan PROVE TypeOK'
  BY <1>11 DEF TypeOK, StartScan, ExpiredRequests
<1>12. ASSUME NEW l \in Loans, CancelExpired(l) PROVE TypeOK'
  <2>1. loans' = [loans EXCEPT ![l].state = "CANCELLED"] \/ loans' = loans
    BY <1>12 DEF CancelExpired
  <2>2. loans' \in [Loans -> LoanRecord]
    <3>1. CASE loans' = [loans EXCEPT ![l].state = "CANCELLED"]
      BY <3>1 DEF TypeOK, LoanRecord, LoanStates
    <3>2. CASE loans' = loans
      BY <3>2 DEF TypeOK
    <3>3. QED
      BY <2>1, <3>1, <3>2
  <2>3. scan' \subseteq Loans
    BY <1>12 DEF TypeOK, CancelExpired
  <2>4. QED
    BY <1>12, <2>2, <2>3 DEF TypeOK, CancelExpired
<1>13. ASSUME NEW i \in Items, NEW s \in ItemStatuses, UpdateItem(i, s)
       PROVE TypeOK'
  BY <1>13 DEF TypeOK, UpdateItem
<1>14. ASSUME NEW i \in Items, DeleteItem(i) PROVE TypeOK'
  BY <1>14 DEF TypeOK, DeleteItem, ItemStatuses
<1>15. ASSUME NEW l \in Loans, RefreshLoan(l) PROVE TypeOK'
  BY <1>15 DEF TypeOK, RefreshLoan
<1>16. ASSUME NEW i \in Items, RefreshItem(i) PROVE TypeOK'
  BY <1>16 DEF TypeOK, RefreshItem
<1>17. ASSUME NextDay PROVE TypeOK'
  BY <1>17 DEF TypeOK, NextDay, Days
<1>18. CASE UNCHANGED vars
  BY <1>18 DEF TypeOK, vars
<1>19. QED
  BY <1>1, <1>2, <1>3, <1>4, <1>5, <1>6, <1>7, <1>8, <1>9, <1>10, <1>11,
     <1>12, <1>13, <1>14, <1>15, <1>16, <1>17, <1>18
  DEF Next, Start, Finish, Refresh

\* Every variable stays in its type, however the handlers, the task and the
\* refreshes interleave.
THEOREM TypeCorrect == Spec => []TypeOK
  BY InitType, NextType, PTL DEF Spec

-----------------------------------------------------------------------------
(***************************************************************************)
(* What the stale index may still be trusted with.                         *)
(***************************************************************************)

\* The actions that assign the loan table; every other step leaves it alone.
LEMMA LoanSteps ==
  ASSUME [Next]_vars
  PROVE  \/ loans' = loans
         \/ \E w \in Workers : CommitRequest(w) \/ CommitCheckout(w)
         \/ \E l \in Loans : \/ Checkin(l) \/ Cancel(l) \/ CancelExpired(l)
                             \/ \E e \in Days : UpdateDatesLoan(l, e)
<1>1. CASE UNCHANGED vars
  BY <1>1 DEF vars
<1>2. CASE Start
  BY <1>2 DEF Start, RequestLoan, CheckoutLoan, SelfCheckout,
              SelfCheckoutGetItemByBarcode, UpdateItem, DeleteItem, StartScan,
              NextDay
<1>3. CASE Finish
  BY <1>3 DEF Finish, Rollback
<1>4. CASE Refresh
  BY <1>4 DEF Refresh, RefreshLoan, RefreshItem
<1>5. QED
  BY <1>1, <1>2, <1>3, <1>4 DEF Next

\* ... and the loan index is assigned by its refresh alone.
LEMMA IndexSteps ==
  ASSUME [Next]_vars
  PROVE  \/ loanIndex' = loanIndex
         \/ \E l \in Loans : RefreshLoan(l)
<1>1. CASE UNCHANGED vars
  BY <1>1 DEF vars
<1>2. CASE Start
  BY <1>2 DEF Start, RequestLoan, CheckoutLoan, SelfCheckout,
              SelfCheckoutGetItemByBarcode, UpdateItem, DeleteItem, StartScan,
              NextDay, Checkin, Cancel, CancelExpired, UpdateDatesLoan
<1>3. CASE Finish
  BY <1>3 DEF Finish, Rollback, CommitRequest, CommitCheckout
<1>4. CASE Refresh
  BY <1>4 DEF Refresh, RefreshItem
<1>5. QED
  BY <1>1, <1>2, <1>3, <1>4 DEF Next

\* What a step can do to one loan record: fill in a free PID or keep the
\* patron and the document.
Preserved(l) ==
    loans[l].state # "NONE" =>
        /\ loans'[l].state # "NONE"
        /\ loans'[l].patron = loans[l].patron
        /\ loans'[l].document = loans[l].document

LEMMA LoanPreserved ==
  ASSUME TypeOK, HitsBelongToTheirLoan, [Next]_vars, NEW l \in Loans
  PROVE  Preserved(l)
<1>1. CASE loans' = loans
  BY <1>1 DEF Preserved
<1>2. ASSUME NEW w \in Workers, CommitRequest(w) PROVE Preserved(l)
  BY <1>2 DEF CommitRequest, TypeOK, Preserved
<1>3. ASSUME NEW w \in Workers, CommitCheckout(w) PROVE Preserved(l)
  <2>1. ASSUME NEW m \in Loans, LendRequest(w, m) PROVE Preserved(l)
    <3>1. /\ loans[m].patron = session[w].patron
          /\ loans[m].document = session[w].document
      BY <2>1 DEF LendRequest, RequestsOnDocument, HitsBelongToTheirLoan,
                  Request
    <3>2. loans[m] \in LoanRecord
      BY DEF TypeOK
    <3>3. QED
      BY <2>1, <3>1, <3>2 DEF LendRequest, TypeOK, Preserved, LoanRecord,
                              Active
  <2>2. ASSUME NEW m \in Loans, LendNew(w, m) PROVE Preserved(l)
    BY <2>2 DEF LendNew, TypeOK, Preserved
  <2>3. QED
    BY <1>3, <2>1, <2>2 DEF CommitCheckout
<1>4. ASSUME NEW m \in Loans, Checkin(m) PROVE Preserved(l)
  BY <1>4 DEF Checkin, TypeOK, LoanRecord, Preserved
<1>5. ASSUME NEW m \in Loans, Cancel(m) PROVE Preserved(l)
  BY <1>5 DEF Cancel, TypeOK, LoanRecord, Preserved
<1>6. ASSUME NEW m \in Loans, CancelExpired(m) PROVE Preserved(l)
  <2>1. CASE loans' = loans
    BY <2>1 DEF Preserved
  <2>2. CASE loans' = [loans EXCEPT ![m].state = "CANCELLED"]
    BY <2>2 DEF TypeOK, LoanRecord, Preserved
  <2>3. QED
    BY <1>6, <2>1, <2>2 DEF CancelExpired
<1>7. ASSUME NEW m \in Loans, NEW e \in Days, UpdateDatesLoan(m, e)
      PROVE Preserved(l)
  BY <1>7 DEF UpdateDatesLoan, TypeOK, LoanRecord, Preserved
<1>8. QED
  BY LoanSteps, <1>1, <1>2, <1>3, <1>4, <1>5, <1>6, <1>7

LEMMA HitsStep ==
  TypeOK /\ HitsBelongToTheirLoan /\ [Next]_vars => HitsBelongToTheirLoan'
<1> SUFFICES ASSUME TypeOK, HitsBelongToTheirLoan, [Next]_vars,
                    NEW l \in Loans, (loanIndex[l].state # "NONE")'
             PROVE  (/\ loans[l].state # "NONE"
                     /\ loanIndex[l].patron = loans[l].patron
                     /\ loanIndex[l].document = loans[l].document)'
  BY DEF HitsBelongToTheirLoan
<1>1. Preserved(l)
  BY LoanPreserved
<1>2. CASE loanIndex' = loanIndex
  BY <1>1, <1>2 DEF Preserved, HitsBelongToTheirLoan
<1>3. ASSUME NEW m \in Loans, RefreshLoan(m)
      PROVE  \/ loanIndex'[l] = loanIndex[l]
             \/ loanIndex'[l] = loans'[l]
  BY <1>3 DEF RefreshLoan, TypeOK
<1>4. CASE loanIndex'[l] = loanIndex[l]
  BY <1>1, <1>4 DEF Preserved, HitsBelongToTheirLoan
<1>5. CASE loanIndex'[l] = loans'[l]
  BY <1>5
<1>6. QED
  BY IndexSteps, <1>2, <1>3, <1>4, <1>5

\* The invariant _checkout_loan relies on when it lends the hit it found: a
\* hit and its loan agree on the patron and the document.
THEOREM HitsBelong == Spec => []HitsBelongToTheirLoan
<1>1. Init => HitsBelongToTheirLoan
  BY DEF Init, HitsBelongToTheirLoan, NoLoan
<1>2. QED
  BY <1>1, HitsStep, TypeCorrect, PTL DEF Spec

-----------------------------------------------------------------------------
(***************************************************************************)
(* The expiry scan.                                                        *)
(***************************************************************************)

\* cancel_expired_loan_requests never touches a loan that is out, whatever its
\* scroll promised: every hit is triggered on the record read from the table.
THEOREM ScanSparesActiveLoans == Spec => ScanLeavesActiveLoans
<1> DEFINE Spared ==
        scan' # scan =>
            \A l \in Loans : loans[l].state = Active => loans'[l] = loans[l]
<1>1. ASSUME TypeOK, [Next]_vars PROVE [Spared]_vars
  <2>1. CASE UNCHANGED vars
    BY <2>1
  <2>2. ASSUME NEW m \in Loans, CancelExpired(m) PROVE Spared
    BY <1>1, <2>2 DEF CancelExpired, TypeOK, Request, Active
  <2>3. CASE StartScan
    BY <2>3 DEF StartScan
  <2>4. CASE Start
    BY <2>2, <2>3, <2>4
    DEF Start, RequestLoan, CheckoutLoan, SelfCheckout,
        SelfCheckoutGetItemByBarcode, UpdateItem, DeleteItem, NextDay,
        Checkin, Cancel, UpdateDatesLoan
  <2>5. CASE Finish
    BY <2>5 DEF Finish, CommitRequest, CommitCheckout, Rollback
  <2>6. CASE Refresh
    BY <2>6 DEF Refresh, RefreshLoan, RefreshItem
  <2>7. QED
    BY <1>1, <2>1, <2>4, <2>5, <2>6 DEF Next
<1>2. QED
  BY <1>1, TypeCorrect, PTL DEF Spec, ScanLeavesActiveLoans

-----------------------------------------------------------------------------
(***************************************************************************)
(* Circulation implements LoanLifecycle.                                   *)
(***************************************************************************)

\* What the checks before a handler's commit leave behind: a prepared
\* operation names a patron and a document, and the document of its item.
Prepared ==
    \A w \in Workers :
        /\ session[w].op = "request" =>
               session[w].patron \in Patrons /\ session[w].document \in Documents
        /\ session[w].op = "checkout" =>
               /\ session[w].patron \in Patrons
               /\ session[w].item \in Items
               /\ session[w].document = DocumentOf[session[w].item]

\* The actions that assign the sessions.
LEMMA SessionSteps ==
  ASSUME [Next]_vars
  PROVE  \/ session' = session
         \/ \E w \in Workers : session' = [session EXCEPT ![w] = Idle]
         \/ \E w \in Workers, p \in Patrons :
               \/ \E d \in Documents : RequestLoan(w, p, d)
               \/ \E i \in Items : session' = [session EXCEPT ![w] = CheckoutOf(p, i)]
<1>1. CASE UNCHANGED vars
  BY <1>1 DEF vars
<1>2. CASE Start
  BY <1>2 DEF Start, CheckoutLoan, SelfCheckout, SelfCheckoutGetItemByBarcode,
              UpdateItem, DeleteItem, StartScan, NextDay, Checkin, Cancel,
              CancelExpired, UpdateDatesLoan
<1>3. CASE Finish
  BY <1>3 DEF Finish, Rollback, CommitRequest, CommitCheckout
<1>4. CASE Refresh
  BY <1>4 DEF Refresh, RefreshLoan, RefreshItem
<1>5. QED
  BY <1>1, <1>2, <1>3, <1>4 DEF Next

LEMMA PreparedStep == TypeOK /\ Prepared /\ [Next]_vars => Prepared'
<1> SUFFICES ASSUME TypeOK, Prepared, [Next]_vars PROVE Prepared'
  OBVIOUS
<1>1. CASE session' = session
  BY <1>1 DEF Prepared
<1>2. ASSUME NEW w \in Workers, session' = [session EXCEPT ![w] = Idle]
      PROVE Prepared'
  BY <1>2 DEF Prepared, TypeOK, Idle
<1>3. ASSUME NEW w \in Workers, NEW p \in Patrons, NEW d \in Documents,
             RequestLoan(w, p, d)
      PROVE Prepared'
  BY <1>3 DEF RequestLoan, Prepared, TypeOK
<1>4. ASSUME NEW w \in Workers, NEW p \in Patrons, NEW i \in Items,
             session' = [session EXCEPT ![w] = CheckoutOf(p, i)]
      PROVE Prepared'
  BY <1>4 DEF CheckoutOf, Prepared, TypeOK
<1>5. QED
  BY <1>1, <1>2, <1>3, <1>4, SessionSteps

LEMMA AlwaysPrepared == Spec => []Prepared
<1>1. Init => Prepared
  BY DEF Init, Prepared, Idle
<1>2. QED
  BY <1>1, PreparedStep, TypeCorrect, PTL DEF Spec

\* A loan record written to the table is its entry written to the ledger.
LEMMA LedgerUpdate ==
  ASSUME TypeOK, NEW l \in Loans, NEW r \in LoanRecord,
         loans' = [loans EXCEPT ![l] = r]
  PROVE  Ledger' = [Ledger EXCEPT ![l] =
             [state |-> r.state, patron |-> r.patron,
              document |-> r.document, item |-> r.item]]
  BY DEF Ledger, TypeOK

LEMMA LedgerStutter == ASSUME loans' = loans PROVE Ledger' = Ledger
  BY DEF Ledger

\* Entering only a new state.
LEMMA LedgerState ==
  ASSUME TypeOK, NEW l \in Loans, NEW s \in LoanStates,
         loans' = [loans EXCEPT ![l].state = s]
  PROVE  Ledger' = [Ledger EXCEPT ![l] = [@ EXCEPT !.state = s]]
<1> DEFINE r == [loans[l] EXCEPT !.state = s]
<1>1. loans[l] \in LoanRecord
  BY DEF TypeOK
<1>2. /\ r \in LoanRecord
      /\ r.state = s
      /\ r.patron = loans[l].patron
      /\ r.document = loans[l].document
      /\ r.item = loans[l].item
  BY <1>1 DEF LoanRecord
<1>3. loans' = [loans EXCEPT ![l] = r]
  BY DEF TypeOK
<1> HIDE DEF r
<1>4. Ledger' = [Ledger EXCEPT ![l] =
          [state |-> s, patron |-> loans[l].patron,
           document |-> loans[l].document, item |-> loans[l].item]]
  <2>1. Ledger' = [Ledger EXCEPT ![l] =
            [state |-> r.state, patron |-> r.patron,
             document |-> r.document, item |-> r.item]]
    BY LedgerUpdate, <1>2, <1>3
  <2>2. QED
    BY <1>2, <2>1
<1>5. Ledger[l] = [state |-> loans[l].state, patron |-> loans[l].patron,
                   document |-> loans[l].document, item |-> loans[l].item]
  BY DEF Ledger
<1>6. [Ledger[l] EXCEPT !.state = s] =
          [state |-> s, patron |-> loans[l].patron,
           document |-> loans[l].document, item |-> loans[l].item]
  BY <1>5
<1>7. QED
  BY <1>4, <1>6

\* Every step of the circulation is a step of the ledger or a stutter.
LEMMA LedgerStep ==
  ASSUME TypeOK, Prepared, HitsBelongToTheirLoan, [Next]_vars
  PROVE  [Lifecycle!Next]_Ledger
<1> USE DEF Lifecycle!Next
<1>1. CASE loans' = loans
  BY <1>1, LedgerStutter
<1>2. ASSUME NEW w \in Workers, CommitRequest(w) PROVE Lifecycle!Next
  <2>1. PICK l \in Loans, e \in Days :
          /\ loans[l].state = "NONE"
          /\ loans' = [loans EXCEPT ![l] =
                 [state |-> Request, patron |-> session[w].patron,
                  document |-> session[w].document, item |-> None,
                  expire |-> e]]
    BY <1>2 DEF CommitRequest
  <2> DEFINE r == [state |-> Request, patron |-> session[w].patron,
                   document |-> session[w].document, item |-> None,
                   expire |-> e]
  <2>2. session[w].patron \in Patrons /\ session[w].document \in Documents
    BY <1>2 DEF CommitRequest, Prepared
  <2>3. r \in LoanRecord
    BY <2>2 DEF LoanRecord, LoanStates, Request
  <2>4. Ledger' = [Ledger EXCEPT ![l] =
             [state |-> r.state, patron |-> r.patron,
              document |-> r.document, item |-> r.item]]
    BY <2>1, <2>3, LedgerUpdate
  <2>5. Lifecycle!Request(l, session[w].patron, session[w].document)
    BY <2>1, <2>4 DEF Lifecycle!Request, Ledger, Request
  <2>6. QED
    BY <2>2, <2>5
<1>3. ASSUME NEW w \in Workers, CommitCheckout(w) PROVE Lifecycle!Next
  <2>1. /\ session[w].patron \in Patrons
        /\ session[w].item \in Items
        /\ session[w].document = DocumentOf[session[w].item]
        /\ session[w].document \in Documents
    BY <1>3, DocumentOfAssumption DEF CommitCheckout, Prepared
  <2>2. ASSUME NEW l \in Loans, LendRequest(w, l) PROVE Lifecycle!Next
    <3>1. /\ loans[l].patron = session[w].patron
          /\ loans[l].document = session[w].document
      BY <2>2 DEF LendRequest, RequestsOnDocument, HitsBelongToTheirLoan,
                  Request
    <3>2. loans[l] \in LoanRecord
      BY DEF TypeOK
    <3> DEFINE r == [loans[l] EXCEPT !.state = Active,
                                     !.patron = session[w].patron,
                                     !.item = session[w].item]
    <3>3. /\ r \in LoanRecord
          /\ r.state = "ITEM_ON_LOAN"
          /\ r.patron = loans[l].patron
          /\ r.document = loans[l].document
          /\ r.item = session[w].item
      BY <2>1, <3>1, <3>2 DEF LoanRecord, LoanStates, Active
    <3>4. loans' = [loans EXCEPT ![l] = r]
      BY <2>2 DEF LendRequest, TypeOK
    <3> HIDE DEF r
    <3>5. Ledger' = [Ledger EXCEPT ![l] =
               [state |-> "ITEM_ON_LOAN", patron |-> loans[l].patron,
                document |-> loans[l].document, item |-> session[w].item]]
      BY <3>3, <3>4, LedgerUpdate
    <3>6. Ledger[l] =
              [state |-> loans[l].state, patron |-> loans[l].patron,
               document |-> loans[l].document, item |-> loans[l].item]
      BY DEF Ledger
    <3>7. Lifecycle!LendRequested(l, session[w].item)
      BY <2>1, <2>2, <3>1, <3>5, <3>6
      DEF Lifecycle!LendRequested, LendRequest, Request
    <3>8. QED
      BY <2>1, <3>7
  <2>3. ASSUME NEW l \in Loans, LendNew(w, l) PROVE Lifecycle!Next
    <3> DEFINE r == [state |-> Active, patron |-> session[w].patron,
                     document |-> session[w].document,
                     item |-> session[w].item, expire |-> 0]
    <3>1. r \in LoanRecord
      BY <2>1, LastDayAssumption DEF LoanRecord, LoanStates, Active, Days
    <3>2. Ledger' = [Ledger EXCEPT ![l] =
             [state |-> r.state, patron |-> r.patron,
              document |-> r.document, item |-> r.item]]
      BY <2>3, <3>1, LedgerUpdate DEF LendNew
    <3>3. Lifecycle!Lend(l, session[w].patron, session[w].item)
      BY <2>1, <2>3, <3>2 DEF Lifecycle!Lend, LendNew, Ledger, Active
    <3>4. QED
      BY <2>1, <3>3
  <2>4. QED
    BY <1>3, <2>2, <2>3 DEF CommitCheckout
<1>4. ASSUME NEW l \in Loans, Checkin(l) PROVE Lifecycle!Next
  <2>1. Ledger' = [Ledger EXCEPT ![l] = [@ EXCEPT !.state = "ITEM_RETURNED"]]
    BY <1>4, LedgerState DEF Checkin, LoanStates
  <2>2. Lifecycle!Return(l)
    BY <1>4, <2>1 DEF Lifecycle!Return, Checkin, Ledger, Active
  <2>3. QED
    BY <2>2
<1>5. ASSUME NEW l \in Loans, loans[l].state \in {Request, Active},
             loans' = [loans EXCEPT ![l].state = "CANCELLED"]
      PROVE Lifecycle!Next
  <2>1. Ledger' = [Ledger EXCEPT ![l] = [@ EXCEPT !.state = "CANCELLED"]]
    BY <1>5, LedgerState DEF LoanStates
  <2>2. Lifecycle!Cancel(l)
    BY <1>5, <2>1 DEF Lifecycle!Cancel, Ledger, Request, Active
  <2>3. QED
    BY <2>2
<1>6. ASSUME NEW l \in Loans, NEW e \in Days, UpdateDatesLoan(l, e)
      PROVE Ledger' = Ledger
  <2>1. loans[l] \in LoanRecord
    BY DEF TypeOK
  <2>2. \A m \in Loans : /\ loans'[m].state = loans[m].state
                         /\ loans'[m].patron = loans[m].patron
                         /\ loans'[m].document = loans[m].document
                         /\ loans'[m].item = loans[m].item
    BY <1>6, <2>1 DEF UpdateDatesLoan, TypeOK, LoanRecord
  <2>3. QED
    BY <2>2 DEF Ledger
<1>7. ASSUME NEW l \in Loans, Cancel(l) PROVE Lifecycle!Next
  BY <1>5, <1>7 DEF Cancel
<1>8. ASSUME NEW l \in Loans, CancelExpired(l) PROVE [Lifecycle!Next]_Ledger
  BY <1>1, <1>5, <1>8 DEF CancelExpired
<1>9. QED
  BY LoanSteps, <1>1, <1>2, <1>3, <1>4, <1>6, <1>7, <1>8

\* The handlers, the task and the lagging index implement the ledger: a loan
\* never changes hands, is lent once and never comes back from ITEM_RETURNED or
\* CANCELLED.
THEOREM ImplementsLifecycle == Spec => FollowsLifecycle
<1>1. Init => Lifecycle!Init
  BY DEF Init, Lifecycle!Init, Lifecycle!NoEntry, Ledger, NoLoan
<1>2. TypeOK /\ Prepared /\ HitsBelongToTheirLoan /\ [Next]_vars
          => [Lifecycle!Next]_Ledger
  BY LedgerStep
<1>3. QED
  BY <1>1, <1>2, TypeCorrect, AlwaysPrepared, HitsBelong, PTL
  DEF Spec, FollowsLifecycle, Lifecycle!Spec

-----------------------------------------------------------------------------
(***************************************************************************)
(* One handler at a time: the checks against the index are sufficient.     *)
(***************************************************************************)

LEMMA SerialStepIsStep == [SerialNext]_vars => [Next]_vars
  BY DEF SerialNext, Next, vars

LEMMA SerialTyped == SerialSpec => [](TypeOK /\ Prepared)
<1>1. SerialSpec => Spec
  BY SerialStepIsStep, PTL DEF SerialSpec, Spec
<1>2. QED
  BY <1>1, TypeCorrect, AlwaysPrepared, PTL

\* A handler in flight is the only one, and the index it asked is the table.
Alone ==
    \A w \in Workers :
        session[w] # Idle =>
            /\ loanIndex = loans
            /\ \A v \in Workers \ {w} : session[v] = Idle

\* What the check of request_loan found is still so when it commits.
Vetted ==
    \A w \in Workers :
        session[w].op = "request" =>
            \A l \in Loans :
                ~ /\ loans[l].state \in {Request, Active}
                  /\ loans[l].patron = session[w].patron
                  /\ loans[l].document = session[w].document

\* An active loan has an item.
LentItems ==
    \A l \in Loans : loans[l].state = Active => loans[l].item \in Items

LoanRules ==
    /\ OneActiveLoanPerItem
    /\ OneOpenLoanPerPatronAndDocument
    /\ ActiveLoanItemExists
    /\ LentItems

SerialInv == Alone /\ Vetted /\ LoanRules

\* The one handler in flight ends: nobody is left.
LEMMA FinishIdles ==
  ASSUME TypeOK, Alone, Finish
  PROVE  \A v \in Workers : session'[v] = Idle
<1>1. PICK w \in Workers : /\ session[w] # Idle
                           /\ session' = [session EXCEPT ![w] = Idle]
  BY DEF Finish, CommitRequest, CommitCheckout, Rollback, Idle
<1>2. QED
  BY <1>1 DEF Alone, TypeOK

LEMMA AloneStep ==
  ASSUME TypeOK, Alone, [SerialNext]_vars
  PROVE  Alone'
<1>1. CASE UNCHANGED vars
  BY <1>1 DEF Alone, vars
<1>2. ASSUME Quiet, Start PROVE Alone'
  <2>1. ASSUME loanIndex' = loanIndex, session' = session PROVE Alone'
    BY <1>2, <2>1 DEF Quiet, Alone
  <2>2. ASSUME loanIndex' = loanIndex, loans' = loans, NEW w \in Workers,
               NEW o, session' = [session EXCEPT ![w] = o]
        PROVE Alone'
    BY <1>2, <2>2 DEF Quiet, CaughtUp, Alone, TypeOK
  <2>3. ASSUME NEW w \in Workers, NEW p \in Patrons, NEW d \in Documents,
               RequestLoan(w, p, d)
        PROVE Alone'
    BY <2>2, <2>3 DEF RequestLoan
  <2>4. ASSUME NEW w \in Workers, NEW p \in Patrons, NEW i \in Items,
               NEW force \in BOOLEAN, CheckoutLoan(w, p, i, force)
        PROVE Alone'
    BY <2>2, <2>4 DEF CheckoutLoan
  <2>5. ASSUME NEW w \in Workers, NEW p \in Patrons, NEW i \in Items,
               SelfCheckout(w, p, i)
        PROVE Alone'
    BY <2>1, <2>2, <2>5 DEF SelfCheckout
  <2>6. QED
    BY <1>2, <2>1, <2>3, <2>4, <2>5
    DEF Start, SelfCheckoutGetItemByBarcode, UpdateItem, DeleteItem, StartScan,
        NextDay, Checkin, Cancel, CancelExpired, UpdateDatesLoan
<1>3. ASSUME Finish PROVE Alone'
  BY <1>3, FinishIdles DEF Alone
<1>4. ASSUME Refresh PROVE Alone'
  BY <1>4 DEF Refresh, RefreshLoan, RefreshItem, Alone, TypeOK
<1>5. QED
  BY <1>1, <1>2, <1>3, <1>4 DEF SerialNext

\* Closing loans, and nothing else, keeps the rules.
LEMMA ClosingKeepsRules ==
  ASSUME LoanRules, items' = items,
         \A l \in Loans :
             /\ loans'[l].patron = loans[l].patron
             /\ loans'[l].document = loans[l].document
             /\ loans'[l].item = loans[l].item
             /\ \/ loans'[l].state = loans[l].state
                \/ loans'[l].state \notin {Request, Active}
  PROVE  LoanRules'
<1> USE DEF LoanRules
<1>1. OneActiveLoanPerItem'
  BY DEF OneActiveLoanPerItem
<1>2. OneOpenLoanPerPatronAndDocument'
  BY DEF OneOpenLoanPerPatronAndDocument
<1>3. ActiveLoanItemExists'
  BY DEF ActiveLoanItemExists
<1>4. LentItems'
  BY DEF LentItems
<1>5. QED
  BY <1>1, <1>2, <1>3, <1>4

LEMMA VettedStep ==
  ASSUME TypeOK, Alone, Vetted, [SerialNext]_vars
  PROVE  Vetted'
<1>1. CASE UNCHANGED vars
  BY <1>1 DEF Vetted, vars
<1>2. ASSUME Quiet, Start PROVE Vetted'
  <2>1. \A w \in Workers : session[w].op = "idle"
    BY <1>2 DEF Quiet, Idle
  <2>2. ASSUME session' = session PROVE Vetted'
    BY <2>1, <2>2 DEF Vetted
  <2>3. ASSUME NEW w \in Workers, NEW p \in Patrons, NEW d \in Documents,
               RequestLoan(w, p, d)
        PROVE Vetted'
    BY <1>2, <2>1, <2>3
    DEF RequestLoan, HasActiveLoanOrRequestOnDocument, Quiet, CaughtUp,
        Vetted, TypeOK
  <2>4. ASSUME NEW w \in Workers, NEW p \in Patrons, NEW i \in Items,
               session' = [session EXCEPT ![w] = CheckoutOf(p, i)]
        PROVE Vetted'
    BY <2>1, <2>4 DEF CheckoutOf, Vetted, TypeOK
  <2>5. QED
    BY <1>2, <2>2, <2>3, <2>4
    DEF Start, CheckoutLoan, SelfCheckout, SelfCheckoutGetItemByBarcode,
        UpdateItem, DeleteItem, StartScan, NextDay, Checkin, Cancel,
        CancelExpired, UpdateDatesLoan
<1>3. ASSUME Finish PROVE Vetted'
  BY <1>3, FinishIdles DEF Vetted, Idle
<1>4. ASSUME Refresh PROVE Vetted'
  BY <1>4 DEF Refresh, RefreshLoan, RefreshItem, Vetted
<1>5. QED
  BY <1>1, <1>2, <1>3, <1>4 DEF SerialNext

\* A librarian's or a task's transition on one loan keeps the rules.
LEMMA TransitionKeepsRules ==
  ASSUME TypeOK, LoanRules, NEW l \in Loans,
         Checkin(l) \/ Cancel(l) \/ CancelExpired(l)
             \/ \E e \in Days : UpdateDatesLoan(l, e)
  PROVE  LoanRules'
<1> DEFINE Closes ==
        \A m \in Loans :
            /\ loans'[m].patron = loans[m].patron
            /\ loans'[m].document = loans[m].document
            /\ loans'[m].item = loans[m].item
            /\ \/ loans'[m].state = loans[m].state
               \/ loans'[m].state \notin {Request, Active}
<1>1. loans[l] \in LoanRecord
  BY DEF TypeOK
<1>2. CASE Checkin(l)
  <2>1. Closes
    BY <1>1, <1>2 DEF Checkin, TypeOK, LoanRecord, Request, Active
  <2>2. QED
    BY <1>2, <2>1, ClosingKeepsRules DEF Checkin
<1>3. CASE Cancel(l)
  <2>1. Closes
    BY <1>1, <1>3 DEF Cancel, TypeOK, LoanRecord, Request, Active
  <2>2. QED
    BY <1>3, <2>1, ClosingKeepsRules DEF Cancel
<1>4. CASE CancelExpired(l)
  <2>1. CASE loans' = loans
    BY <1>4, <2>1, ClosingKeepsRules DEF CancelExpired
  <2>2. CASE loans' = [loans EXCEPT ![l].state = "CANCELLED"]
    <3>1. Closes
      BY <1>1, <2>2 DEF TypeOK, LoanRecord, Request, Active
    <3>2. QED
      BY <1>4, <3>1, ClosingKeepsRules DEF CancelExpired
  <2>3. QED
    BY <1>4, <2>1, <2>2 DEF CancelExpired
<1>5. ASSUME NEW e \in Days, UpdateDatesLoan(l, e) PROVE LoanRules'
  <2>1. Closes
    BY <1>1, <1>5 DEF UpdateDatesLoan, TypeOK, LoanRecord
  <2>2. QED
    BY <1>5, <2>1, ClosingKeepsRules DEF UpdateDatesLoan
<1>6. QED
  BY <1>2, <1>3, <1>4, <1>5

\* So does every step of the items: an item deleted while the index is caught
\* up is on nobody's loan.
LEMMA ItemsKeepRules ==
  ASSUME TypeOK, LoanRules, loans' = loans,
         \A i \in Items :
             items'[i] = "DELETED" =>
                 \/ items[i] = "DELETED"
                 \/ \A l \in Loans : loans[l].item = i => loans[l].state # Active
  PROVE  LoanRules'
  BY DEF LoanRules, OneActiveLoanPerItem, OneOpenLoanPerPatronAndDocument,
         ActiveLoanItemExists, LentItems

\* request_loan's commit adds a request nothing stands in the way of.
LEMMA RequestKeepsRules ==
  ASSUME TypeOK, Vetted, LoanRules, NEW w \in Workers, CommitRequest(w)
  PROVE  LoanRules'
<1>1. PICK l \in Loans, e \in Days :
         /\ loans[l].state = "NONE"
         /\ loans' = [loans EXCEPT ![l] =
                [state |-> Request, patron |-> session[w].patron,
                 document |-> session[w].document, item |-> None,
                 expire |-> e]]
  BY DEF CommitRequest
<1>2. /\ loans'[l].state = Request
      /\ loans'[l].patron = session[w].patron
      /\ loans'[l].document = session[w].document
      /\ \A m \in Loans \ {l} : loans'[m] = loans[m]
  BY <1>1 DEF TypeOK
<1>3. \A m \in Loans : loans[m].state \in {Request, Active} =>
          loans[m].patron # session[w].patron
              \/ loans[m].document # session[w].document
  BY DEF CommitRequest, Vetted
<1>4. OneActiveLoanPerItem'
  BY <1>2 DEF LoanRules, OneActiveLoanPerItem, Request, Active
<1>5. OneOpenLoanPerPatronAndDocument'
  BY <1>2, <1>3 DEF LoanRules, OneOpenLoanPerPatronAndDocument
<1>6. LentItems' /\ ActiveLoanItemExists'
  BY <1>2 DEF CommitRequest, LoanRules, LentItems, ActiveLoanItemExists,
              Request, Active
<1>7. QED
  BY <1>4, <1>5, <1>6 DEF LoanRules

\* _checkout_loan's commit: the item is free, and the patron's request on the
\* document, if there is one, is the loan.
LEMMA CheckoutKeepsRules ==
  ASSUME TypeOK, Prepared, Alone, LoanRules,
         NEW w \in Workers, CommitCheckout(w)
  PROVE  LoanRules'
<1>1. loanIndex = loans
  BY DEF CommitCheckout, Alone, Idle
<1>2. \A m \in Loans :
          ~(loans[m].item = session[w].item /\ loans[m].state = Active)
  BY <1>1 DEF CommitCheckout, ItemOnLoan
<1>3. PICK l \in Loans : LendRequest(w, l) \/ LendNew(w, l)
  BY DEF CommitCheckout
<1>4. loans[l] \in LoanRecord
  BY DEF TypeOK
<1>5. /\ loans'[l].state = Active
      /\ loans'[l].patron = session[w].patron
      /\ loans'[l].document = session[w].document
      /\ loans'[l].item = session[w].item
      /\ \A m \in Loans \ {l} : loans'[m] = loans[m]
  <2>1. CASE LendRequest(w, l)
    BY <1>1, <1>4, <2>1
    DEF LendRequest, RequestsOnDocument, TypeOK, LoanRecord
  <2>2. CASE LendNew(w, l)
    BY <2>2 DEF LendNew, TypeOK
  <2>3. QED
    BY <1>3, <2>1, <2>2
<1>6. OneActiveLoanPerItem'
  BY <1>2, <1>5 DEF LoanRules, OneActiveLoanPerItem
<1>7. \A m \in Loans \ {l} :
          ~ /\ loans[m].state = Request
            /\ loans[m].patron = session[w].patron
            /\ loans[m].document = session[w].document
  <2>1. CASE LendRequest(w, l)
    BY <1>1, <2>1 DEF LendRequest, RequestsOnDocument, LoanRules,
                      OneOpenLoanPerPatronAndDocument
  <2>2. CASE LendNew(w, l)
    BY <1>1, <2>2 DEF LendNew, RequestsOnDocument
  <2>3. QED
    BY <1>3, <2>1, <2>2
<1>8. OneOpenLoanPerPatronAndDocument'
  BY <1>5, <1>7 DEF LoanRules, OneOpenLoanPerPatronAndDocument, Request, Active
<1>9. session[w].item \in Items /\ items[session[w].item] # "DELETED"
  BY DEF CommitCheckout, Prepared
<1>10. LentItems' /\ ActiveLoanItemExists'
  BY <1>5, <1>9 DEF CommitCheckout, LoanRules, LentItems, ActiveLoanItemExists
<1>11. QED
  BY <1>6, <1>8, <1>10 DEF LoanRules

LEMMA RulesStep ==
  ASSUME TypeOK, Prepared, SerialInv, [SerialNext]_vars
  PROVE  LoanRules'
<1> USE DEF SerialInv
<1>1. ASSUME loans' = loans, items' = items PROVE LoanRules'
  BY <1>1, ItemsKeepRules
<1>2. ASSUME NEW l \in Loans,
             Checkin(l) \/ Cancel(l) \/ CancelExpired(l)
                 \/ \E e \in Days : UpdateDatesLoan(l, e)
      PROVE LoanRules'
  BY <1>2, TransitionKeepsRules
<1>3. ASSUME Quiet, Start PROVE LoanRules'
  <2>1. ASSUME NEW w \in Workers, NEW p \in Patrons, NEW i \in Items,
               NEW force \in BOOLEAN, CheckoutLoan(w, p, i, force)
        PROVE LoanRules'
    BY <2>1, ItemsKeepRules DEF CheckoutLoan, TypeOK
  <2>2. ASSUME NEW w \in Workers, NEW p \in Patrons, NEW i \in Items,
               SelfCheckout(w, p, i)
        PROVE LoanRules'
    BY <2>2, ItemsKeepRules DEF SelfCheckout, FoundOnShelf, TypeOK
  <2>3. ASSUME NEW i \in Items, SelfCheckoutGetItemByBarcode(i)
        PROVE LoanRules'
    BY <2>3, ItemsKeepRules
    DEF SelfCheckoutGetItemByBarcode, FoundOnShelf, TypeOK
  <2>4. ASSUME NEW i \in Items, NEW s \in ItemStatuses \ {"DELETED"},
               UpdateItem(i, s)
        PROVE LoanRules'
    BY <2>4, ItemsKeepRules DEF UpdateItem, TypeOK
  <2>5. ASSUME NEW i \in Items, DeleteItem(i) PROVE LoanRules'
    <3>1. \A l \in Loans : loans[l].item = i => loans[l].state # Active
      BY <1>3, <2>5 DEF DeleteItem, ItemOnLoan, Quiet, CaughtUp
    <3>2. QED
      BY <2>5, <3>1, ItemsKeepRules DEF DeleteItem, TypeOK
  <2>6. QED
    BY <1>1, <1>2, <1>3, <2>1, <2>2, <2>3, <2>4, <2>5
    DEF Start, RequestLoan, StartScan, NextDay
<1>4. ASSUME Finish PROVE LoanRules'
  BY <1>1, <1>4, RequestKeepsRules, CheckoutKeepsRules DEF Finish, Rollback
<1>5. CASE Refresh
  BY <1>1, <1>5 DEF Refresh, RefreshLoan, RefreshItem
<1>6. CASE UNCHANGED vars
  BY <1>1, <1>6 DEF vars
<1>7. QED
  BY <1>3, <1>4, <1>5, <1>6 DEF SerialNext

\* The three rules hold with what is true between and inside the handlers.
LEMMA SerialInvariant == SerialSpec => []SerialInv
<1>1. Init => SerialInv
  BY DEF Init, SerialInv, Alone, Vetted, LoanRules, OneActiveLoanPerItem,
         OneOpenLoanPerPatronAndDocument, ActiveLoanItemExists, LentItems,
         NoLoan, Idle, Request, Active
<1>2. TypeOK /\ Prepared /\ SerialInv /\ [SerialNext]_vars => SerialInv'
  <2>1. SUFFICES ASSUME TypeOK, Prepared, SerialInv, [SerialNext]_vars
                 PROVE  SerialInv'
    OBVIOUS
  <2>2. Alone' /\ Vetted'
    BY <2>1, AloneStep, VettedStep DEF SerialInv
  <2>3. LoanRules'
    BY <2>1, RulesStep
  <2>4. QED
    BY <2>2, <2>3 DEF SerialInv
<1>3. QED
  BY <1>1, <1>2, SerialTyped, PTL DEF SerialSpec

\* Used one handler at a time, with the index caught up in between, the
\* circulation lends an item that is out to nobody else.
THEOREM ItemsAreLentOnce == SerialSpec => []OneActiveLoanPerItem
<1>1. SerialInv => OneActiveLoanPerItem
  BY DEF SerialInv, LoanRules
<1>2. QED
  BY <1>1, SerialInvariant, PTL

\* Used so, it keeps a patron from asking for a document that this patron has
\* asked for or has on loan.
THEOREM DocumentsAreAskedOnce == SerialSpec => []OneOpenLoanPerPatronAndDocument
<1>1. SerialInv => OneOpenLoanPerPatronAndDocument
  BY DEF SerialInv, LoanRules
<1>2. QED
  BY <1>1, SerialInvariant, PTL

\* Used so, it deletes no item that is out.
THEOREM LentItemsExist == SerialSpec => []ActiveLoanItemExists
<1>1. SerialInv => ActiveLoanItemExists
  BY DEF SerialInv, LoanRules
<1>2. QED
  BY <1>1, SerialInvariant, PTL
=============================================================================
