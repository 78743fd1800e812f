----------------------------- MODULE References -----------------------------
(***************************************************************************)
(* Records that name other records: which references a save checks, which *)
(* records may be deleted, and the document requests whose state depends   *)
(* on the records they name (the api.py of each kind of record).           *)
(*                                                                         *)
(* A save reads the table: every record named must exist.  A deletion asks *)
(* the index: no record may be found that names this one.  Both ask before *)
(* they commit, and the index lags behind the table.                       *)
(***************************************************************************)
EXTENDS Naturals

CONSTANTS
    PIDs,
    KindOf,       \* [PIDs -> Kinds]
    Pools,        \* bound: the sets of records a behaviour may be about
    Elsewhere,    \* a record outside of the pool, which nobody deletes
    None,         \* the value of a field that is not set
    Workers       \* the web workers

Kinds == {"document", "item", "eitem", "loan", "document_request", "order",
          "borrowing_request", "provider", "internal_location", "location"}

ASSUME KindOfAssumption == KindOf \in [PIDs -> Kinds]
ASSUME PoolsAssumption == Pools \subseteq SUBSET PIDs
ASSUME NoneAssumption ==
    /\ None \notin PIDs /\ Elsewhere \notin PIDs /\ None # Elsewhere

VARIABLES
    pool,       \* the records this behaviour is about
    table,      \* the records in the database
    index,      \* what a search finds
    session,    \* the save or deletion each worker has in flight
    overlaps    \* history: pairs of records whose handlers overlapped

vars == <<pool, table, index, session, overlaps>>

-----------------------------------------------------------------------------
(* The kinds of records and their references.                              *)

\* <<kind, field, kind named>>, as each kind's validator looks them up; loans
\* have what circulation looks up
ItemNames ==
    {<<"item", "document", "document">>,
     <<"item", "internal_location", "internal_location">>}

EItemNames == {<<"eitem", "document", "document">>}

OrderNames ==
    {<<"order", "document", "document">>, <<"order", "provider", "provider">>}

BorrowingRequestNames ==
    {<<"borrowing_request", "document", "document">>,
     <<"borrowing_request", "provider", "provider">>}

DocumentRequestNames ==
    {<<"document_request", "document", "document">>,
     <<"document_request", "provider", "order">>,
     <<"document_request", "provider", "borrowing_request">>}

InternalLocationNames == {<<"internal_location", "location", "location">>}

LoanNames ==
    {<<"loan", "document", "document">>, <<"loan", "item", "item">>}

Names ==
    ItemNames \cup EItemNames \cup OrderNames \cup BorrowingRequestNames
    \cup DocumentRequestNames \cup InternalLocationNames \cup LoanNames

FieldsOf ==
    [p \in PIDs |-> {n[2] : n \in {m \in Names : m[1] = KindOf[p]}}]

\* fields that may be left empty; the item of a loan is known at its checkout
MayBeEmpty(k, f) ==
    \/ k = "document_request"
    \/ k = "loan" /\ f = "item"

\* mutant: the index is not asked for document requests
AllButRequests ==
    {<<r, "document">> :
        r \in {"loan", "item", "eitem", "order", "borrowing_request"}}

\* <<kind that names, kind that is deleted>>: the searches of each delete
\* method. Nobody asks who names an order or a borrowing request.
DocumentGuards ==
    {<<r, "document">> : r \in {"loan", "item", "eitem", "document_request",
                                "order", "borrowing_request"}}

ItemGuards == {<<"loan", "item">>}

ProviderGuards ==
    {<<"order", "provider">>, <<"borrowing_request", "provider">>}

InternalLocationGuards == {<<"item", "internal_location">>}

LocationGuards == {<<"internal_location", "location">>}

Guarded ==
    DocumentGuards \cup ItemGuards \cup ProviderGuards
    \cup InternalLocationGuards \cup LocationGuards

\* loans that keep a record of kind k from being deleted
CountedStates(k) ==
    IF k = "item" THEN {"ITEM_ON_LOAN"} ELSE {"PENDING", "ITEM_ON_LOAN"}

\* IN_CATALOG: DECLINED for that reason
StatesOf(k) ==
    CASE k = "document_request" ->
             {"PENDING", "ACCEPTED", "DECLINED", "IN_CATALOG"}
      [] k = "loan" -> {"PENDING", "ITEM_ON_LOAN", "ITEM_RETURNED"}
      [] OTHER -> {"none"}

\* live: absent before creation, deleted for ever after deletion
Record ==
    [p \in PIDs |->
        [live: {"absent", "live", "deleted"}, state: StatesOf(KindOf[p]),
         refs: [FieldsOf[p] -> PIDs \cup {Elsewhere, None}]]]

Blank(p) ==
    [live |-> "absent",
     state |-> IF KindOf[p] \in {"document_request", "loan"}
               THEN "PENDING" ELSE "none",
     refs |-> [f \in FieldsOf[p] |-> None]]

\* bound: what a save is given for a field: a record elsewhere where the pool
\* has none that fits, and always for the document of an item
Targets ==
    [q \in Pools |-> [p \in q |-> [f \in FieldsOf[p] |->
        LET fitting == {r \in q : <<KindOf[p], f, KindOf[r]>> \in Names}
        IN fitting \cup (IF fitting = {} \/ KindOf[p] = "item"
                         THEN {Elsewhere} ELSE {})]]]

Choices ==
    [q \in Pools |-> [p \in q |->
        {refs \in [FieldsOf[p] -> q \cup {Elsewhere, None}] :
            \A f \in FieldsOf[p] :
                \/ refs[f] \in Targets[q][p][f]
                \/ refs[f] = None /\ MayBeEmpty(KindOf[p], f)}]]

Live(p) == table[p].live = "live"

\* r names p in one of its fields
RefersTo(record, p) == \E f \in DOMAIN record.refs : record.refs[f] = p

\* whether a record of r's kind, as given, is one the deletion of p asks for
Counts(r, record, p) ==
    /\ record.live = "live"
    /\ RefersTo(record, p)
    /\ <<KindOf[r], KindOf[p]>> \in Guarded
    /\ KindOf[r] = "loan" => record.state \in CountedStates(KindOf[p])

-----------------------------------------------------------------------------
(* Validation.                                                             *)

\* ensure_..._exists. A PID that was never minted and one that was deleted
\* raise different errors; the save fails either way.
FieldValid(p, f, q) ==
    \/ q = None /\ MayBeEmpty(KindOf[p], f)
    \/ q = Elsewhere
    \/ q \in pool /\ Live(q) /\ <<KindOf[p], f, KindOf[q]>> \in Names

\* mutant: a document is enough
AcceptedWithDocument(p, record) ==
    KindOf[p] = "document_request" /\ record.state = "ACCEPTED" =>
        record.refs["document"] # None

\* validate_accept
ValidateAccept(p, record) ==
    KindOf[p] = "document_request" /\ record.state = "ACCEPTED" =>
        record.refs["document"] # None /\ record.refs["provider"] # None

\* mutant: a loan that is over does not keep an item where it is
MovableUnlessLent(p, record) ==
    KindOf[p] = "item" /\ Live(p)
    /\ record.refs["document"] # table[p].refs["document"] =>
        \A l \in pool : ~ /\ KindOf[l] = "loan"
                          /\ index[l].state = "ITEM_ON_LOAN"
                          /\ RefersTo(index[l], p)

\* ensure_item_can_be_updated: the index knows of no loan, active or over, of
\* an item that changes its document
ItemCanBeUpdated(p, record) ==
    KindOf[p] = "item" /\ Live(p)
    /\ record.refs["document"] # table[p].refs["document"] =>
        \A l \in pool : ~ /\ KindOf[l] = "loan"
                          /\ index[l].state # "PENDING"
                          /\ RefersTo(index[l], p)

Validate(p, record) ==
    /\ \A f \in FieldsOf[p] : FieldValid(p, f, record.refs[f])
    /\ ValidateAccept(p, record)
    /\ ItemCanBeUpdated(p, record)

-----------------------------------------------------------------------------
(* Handlers: read and check, then commit.                                  *)

Idle == [op |-> "idle"]

\* around: the records whose handlers overlapped with this one, or that the
\* index did not show as they were when it asked about them
Handler(p) ==
    [op: {"save", "action", "delete"}, pid: {p}, record: Record[p],
     around: SUBSET PIDs]

InFlight == {session[w].pid : w \in {v \in Workers : session[v] # Idle}}

Unseen == {r \in pool : index[r] # table[r]}

\* the records that a deletion, or the move of an item, asks about
AsksAbout(op, p) ==
    IF op = "delete" \/ KindOf[p] = "item"
    THEN {r \in pool : <<KindOf[r], KindOf[p]>> \in Guarded} ELSE {}

\* Another handler on p begins: the others overlap with it.
Around(p) ==
    [w \in Workers |->
        IF session[w] = Idle THEN Idle
        ELSE [session[w] EXCEPT !.around =
                 @ \cup ({p} \cap AsksAbout(session[w].op, session[w].pid))]]

\* A new record has its number from the handler that makes it.
Begun(w, op, p, record) ==
    /\ session[w] = Idle
    /\ table[p].live = "absent" => p \notin InFlight
    /\ session' = [Around(p) EXCEPT ![w] =
           [op |-> op, pid |-> p, record |-> record,
            around |-> (Unseen \cup InFlight) \cap AsksAbout(op, p)]]

Begin(w, op, p, record) ==
    /\ Begun(w, op, p, record)
    /\ UNCHANGED <<pool, table, index, overlaps>>

Save(w, p, record) == Validate(p, record) /\ Begin(w, "save", p, record)

Act(w, p, record) == Validate(p, record) /\ Begin(w, "action", p, record)

\* POST and PUT of everything but loans. A document request that is created
\* without a state is PENDING, but the payload may give any.
SaveRecord(w, p) ==
    /\ KindOf[p] # "loan"
    /\ table[p].live # "deleted"
    /\ \E s \in StatesOf(KindOf[p]), refs \in Choices[pool][p] :
           Save(w, p, [live |-> "live", state |-> s, refs |-> refs])

-----------------------------------------------------------------------------
(* Document requests (document_requests/views.py). All want a PENDING      *)
(* request.                                                                *)

Request(p) == KindOf[p] = "document_request" /\ Live(p)

Pending(p) == Request(p) /\ table[p].state = "PENDING"

AddDocument(w, p) ==
    /\ Pending(p)
    /\ \E d \in Targets[pool][p]["document"] :
           Act(w, p, [table[p] EXCEPT !.refs["document"] = d])

RemoveDocument(w, p) ==
    Pending(p) /\ Act(w, p, [table[p] EXCEPT !.refs["document"] = None])

AddProvider(w, p) ==
    /\ Pending(p)
    /\ \E o \in Targets[pool][p]["provider"] :
           Act(w, p, [table[p] EXCEPT !.refs["provider"] = o])

RemoveProvider(w, p) ==
    Pending(p) /\ Act(w, p, [table[p] EXCEPT !.refs["provider"] = None])

Accept(w, p) ==
    /\ Pending(p)
    /\ \A f \in {"document", "provider"} : table[p].refs[f] # None
    /\ Act(w, p, [table[p] EXCEPT !.state = "ACCEPTED"])

Decline(w, p) ==
    Pending(p) /\ Act(w, p, [table[p] EXCEPT !.state = "DECLINED"])

DeclineInCatalog(w, p) ==
    /\ Pending(p)
    /\ \E d \in Targets[pool][p]["document"] :
           Act(w, p, [table[p] EXCEPT !.state = "IN_CATALOG",
                                       !.refs["document"] = d])

-----------------------------------------------------------------------------
(* Loans, as far as they meet the deletion of what they name.              *)

RequestLoan(w, l) ==
    /\ KindOf[l] = "loan" /\ table[l].live = "absent"
    /\ \E d \in Targets[pool][l]["document"] :
           Save(w, l, [table[l] EXCEPT !.live = "live", !.refs["document"] = d])

\* of a request, or at once; the loan is on the document of its item, which
\* is not looked up again
CheckoutLoan(w, l) ==
    /\ KindOf[l] = "loan" /\ table[l].live # "deleted"
    /\ table[l].state = "PENDING"
    /\ \E i \in pool :
           /\ KindOf[i] = "item" /\ Live(i)
           /\ LET d == table[i].refs["document"] IN
              /\ Live(l) => table[l].refs["document"] = d
              /\ Begin(w, "save", l,
                       [live |-> "live", state |-> "ITEM_ON_LOAN",
                        refs |-> [document |-> d, item |-> i]])

Checkin(w, l) ==
    /\ KindOf[l] = "loan" /\ Live(l)
    /\ table[l].state = "ITEM_ON_LOAN"
    /\ Begin(w, "save", l, [table[l] EXCEPT !.state = "ITEM_RETURNED"])

-----------------------------------------------------------------------------
(* Deletion.                                                               *)

\* The delete of a Document, Item, Provider, InternalLocation or Location; the
\* other kinds ask nothing.
AskReferences(w, p) ==
    /\ Live(p) /\ KindOf[p] # "loan"
    /\ \A r \in pool : ~Counts(r, index[r], p)
    /\ Begin(w, "delete", p, [table[p] EXCEPT !.live = "deleted"])

\* mutant: the version that was read is not compared
CommitLatest(w) ==
    LET p == session[w].pid IN
    /\ session[w] # Idle
    /\ table' = [table EXCEPT ![p] = session[w].record]
    /\ session' = [session EXCEPT ![w] = Idle]
    /\ UNCHANGED <<pool, index, overlaps>>

\* The commit of either. Other handlers on the record read an older version of
\* it and fail.
Commit(w) ==
    LET p == session[w].pid IN
    /\ session[w] # Idle
    /\ table' = [table EXCEPT ![p] = session[w].record]
    /\ overlaps' = overlaps \cup {<<r, p>> : r \in session[w].around}
    /\ session' = [v \in Workers |->
           IF session[v] # Idle /\ session[v].pid = p THEN Idle ELSE session[v]]
    /\ UNCHANGED <<pool, index>>

\* any other error
Rollback(w) ==
    /\ session[w] # Idle
    /\ session' = [session EXCEPT ![w] = Idle]
    /\ UNCHANGED <<pool, table, index, overlaps>>

Refresh(p) ==
    /\ index[p] # table[p]
    /\ index' = [index EXCEPT ![p] = table[p]]
    /\ UNCHANGED <<pool, table, session, overlaps>>

-----------------------------------------------------------------------------
Init ==
    /\ pool \in Pools
    /\ table = [p \in PIDs |-> Blank(p)]
    /\ index = table
    /\ session = [w \in Workers |-> Idle]
    /\ overlaps = {}

Next ==
    \/ \E w \in Workers, p \in pool :
           \/ SaveRecord(w, p)
           \/ AddDocument(w, p)
           \/ RemoveDocument(w, p)
           \/ AddProvider(w, p)
           \/ RemoveProvider(w, p)
           \/ Accept(w, p)
           \/ Decline(w, p)
           \/ DeclineInCatalog(w, p)
           \/ RequestLoan(w, p)
           \/ CheckoutLoan(w, p)
           \/ Checkin(w, p)
           \/ AskReferences(w, p)
    \/ \E w \in Workers : Commit(w) \/ Rollback(w)
    \/ \E p \in pool : Refresh(p)

Spec == Init /\ [][Next]_vars

-----------------------------------------------------------------------------
(* Properties.                                                             *)

TypeOK ==
    /\ pool \in Pools
    /\ DOMAIN table = PIDs /\ DOMAIN index = PIDs
    /\ \A p \in PIDs : table[p] \in Record[p] /\ index[p] \in Record[p]
    /\ DOMAIN session = Workers
    /\ \A w \in Workers :
           session[w] = Idle \/ \E p \in pool : session[w] \in Handler(p)
    /\ overlaps \subseteq PIDs \X PIDs

\* Nobody is asked before an order or a borrowing request is deleted, and a
\* loan that is over may name what is gone.
MayDangle(r, p) ==
    \/ KindOf[p] \in {"order", "borrowing_request"}
    \/ KindOf[r] = "loan" /\ table[r].state \notin CountedStates(KindOf[p])

\* Any other record names a deleted one only if its save and the deletion
\* overlapped, or the index had not caught up when the deletion asked: the
\* searches of the deletions leave out no field that the validators look up. A
\* loan may have what it names from its item.
DanglesOnlyByRace ==
    \A r, p \in pool :
        /\ Live(r) /\ table[p].live = "deleted"
        /\ RefersTo(table[r], p) /\ ~MayDangle(r, p)
        => \/ <<r, p>> \in overlaps
           \/ /\ KindOf[r] = "loan"
              /\ <<table[r].refs["item"], p>> \in overlaps

\* An accepted document request has its document and its provider, whatever
\* librarians do to it at the same time.
AcceptedIsComplete ==
    \A p \in pool :
        Request(p) /\ table[p].state = "ACCEPTED" =>
            \A f \in {"document", "provider"} : table[p].refs[f] # None

\* A loan is on the document of its item, also after the item moved to another
\* document, unless that move and the loan overlapped.
LoanOnItsDocument ==
    \A l, i \in pool :
        /\ KindOf[l] = "loan" /\ Live(l)
        /\ KindOf[i] = "item" /\ Live(i)
        /\ table[l].refs["item"] = i
        => \/ table[i].refs["document"] = table[l].refs["document"]
           \/ <<l, i>> \in overlaps

\* Once a request is accepted or declined, no handler that found it PENDING,
\* at another desk at the same time, changes it: only a PUT or its deletion.
DecidedRequestsStay ==
    [][\A p \in pool :
          /\ Request(p) /\ table[p].state # "PENDING"
          /\ table'[p] # table[p]
          => \E w \in Workers : /\ session[w] # Idle
                                /\ session[w].op # "action"
                                /\ session[w].record = table'[p]]_vars

\* What validate_decline says: a request declined because the document is in
\* the catalogue names that document.
InCatalogNamesDocument ==
    \A p \in pool :
        Request(p) /\ table[p].state = "IN_CATALOG" =>
            table[p].refs["document"] # None
=============================================================================
