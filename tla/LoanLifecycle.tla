--------------------------- MODULE LoanLifecycle ---------------------------
(***************************************************************************)
(* What the circulation component promises about each loan record, without *)
(* saying how the request handlers, the Celery task and the search index   *)
(* get there: the table CIRCULATION_LOAN_TRANSITIONS read as a ledger in   *)
(* which a loan belongs to one patron and one document for ever, gets an   *)
(* item once, and never leaves ITEM_RETURNED or CANCELLED.                 *)
(*                                                                         *)
(* CREATED does not appear: the record is created and triggered in one     *)
(* database transaction, so the first state anybody can read is the one    *)
(* the first transition leads to.                                          *)
(***************************************************************************)
CONSTANTS
    Patrons,     \* the patrons' PIDs
    Documents,   \* the documents' PIDs
    Items,       \* the items' PIDs
    DocumentOf,  \* the document each item is a copy of
    Loans,       \* the PIDs loans can be given
    None         \* the value of a field that is not set

VARIABLE ledger

LoanStates == {"NONE", "PENDING", "ITEM_ON_LOAN", "ITEM_RETURNED", "CANCELLED"}

LedgerEntry ==
    [state: LoanStates, patron: Patrons \cup {None},
     document: Documents \cup {None}, item: Items \cup {None}]

NoEntry ==
    [state |-> "NONE", patron |-> None, document |-> None, item |-> None]

Init == ledger = [l \in Loans |-> NoEntry]

Request(l, p, d) ==
    /\ ledger[l].state = "NONE"
    /\ ledger' = [ledger EXCEPT ![l] =
           [state |-> "PENDING", patron |-> p, document |-> d, item |-> None]]

Lend(l, p, i) ==
    /\ ledger[l].state = "NONE"
    /\ ledger' = [ledger EXCEPT ![l] =
           [state |-> "ITEM_ON_LOAN", patron |-> p,
            document |-> DocumentOf[i], item |-> i]]

LendRequested(l, i) ==
    /\ ledger[l].state = "PENDING"
    /\ ledger[l].document = DocumentOf[i]
    /\ ledger' = [ledger EXCEPT ![l] =
           [state |-> "ITEM_ON_LOAN", patron |-> ledger[l].patron,
            document |-> ledger[l].document, item |-> i]]

Return(l) ==
    /\ ledger[l].state = "ITEM_ON_LOAN"
    /\ ledger' = [ledger EXCEPT ![l] = [@ EXCEPT !.state = "ITEM_RETURNED"]]

Cancel(l) ==
    /\ ledger[l].state \in {"PENDING", "ITEM_ON_LOAN"}
    /\ ledger' = [ledger EXCEPT ![l] = [@ EXCEPT !.state = "CANCELLED"]]

Next ==
    \E l \in Loans :
        \/ \E p \in Patrons, d \in Documents : Request(l, p, d)
        \/ \E p \in Patrons, i \in Items : Lend(l, p, i)
        \/ \E i \in Items : LendRequested(l, i)
        \/ Return(l)
        \/ Cancel(l)

Spec == Init /\ [][Next]_ledger
=============================================================================
