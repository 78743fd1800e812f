-------------------------- MODULE ReferencesProofs --------------------------
(***************************************************************************)
(* Theorems about References, for any records, of any kinds, and any       *)
(* number of workers.                                                      *)
(*                                                                         *)
(* All handlers read and check first and commit later. What each of them   *)
(* knows of the record it is about to write is one predicate, Ready; the   *)
(* proofs show that every handler begins with it, and that the commits of  *)
(* others spoil it only for those they overlap with.                       *)
(***************************************************************************)
EXTENDS References, TLAPS

-----------------------------------------------------------------------------
(* Kinds and fields.                                                       *)

LEMMA PoolType == TypeOK => pool \subseteq PIDs
  BY PoolsAssumption DEF TypeOK

LEMMA FieldsType ==
    \A p \in PIDs :
        \A f : f \in FieldsOf[p] <=> \E n \in Names : n[1] = KindOf[p] /\ n[2] = f
  BY DEF FieldsOf

LEMMA LoanFields ==
    ASSUME NEW p \in PIDs, KindOf[p] = "loan"
    PROVE  FieldsOf[p] = {"document", "item"}
  <1>1. /\ <<"loan", "document", "document">> \in Names
        /\ <<"loan", "item", "item">> \in Names
    BY DEF Names, LoanNames
  <1>2. \A n \in Names : n[1] = "loan" => n[2] \in {"document", "item"}
    BY DEF Names, ItemNames, EItemNames, OrderNames, BorrowingRequestNames,
           DocumentRequestNames, InternalLocationNames, LoanNames
  <1>. QED BY <1>1, <1>2, FieldsType

LEMMA ItemFields ==
    ASSUME NEW p \in PIDs, KindOf[p] = "item"
    PROVE  "document" \in FieldsOf[p]
  <1>1. <<"item", "document", "document">> \in Names
    BY DEF Names, ItemNames
  <1>. QED BY <1>1, FieldsType

LEMMA ItemDocuments ==
    \A k : <<"item", "document", k>> \in Names => k = "document"
  BY DEF Names, ItemNames, EItemNames, OrderNames, BorrowingRequestNames,
         DocumentRequestNames, InternalLocationNames, LoanNames

LEMMA RequestFields ==
    ASSUME NEW p \in PIDs, KindOf[p] = "document_request"
    PROVE  "document" \in FieldsOf[p] /\ "provider" \in FieldsOf[p]
  <1>1. /\ <<"document_request", "document", "document">> \in Names
        /\ <<"document_request", "provider", "order">> \in Names
    BY DEF Names, DocumentRequestNames
  <1>. QED BY <1>1, FieldsType

\* The searches of the deletions leave out orders and borrowing requests only,
\* and no kind asks about itself.
LEMMA NamesAreGuarded ==
    \A n \in Names : \/ n[3] \in {"order", "borrowing_request"}
                     \/ <<n[1], n[3]>> \in Guarded
  BY DEF Names, ItemNames, EItemNames, OrderNames, BorrowingRequestNames,
         DocumentRequestNames, InternalLocationNames, LoanNames, Guarded,
         DocumentGuards, ItemGuards, ProviderGuards, InternalLocationGuards,
         LocationGuards

LEMMA NoSelfGuard == \A k : <<k, k>> \notin Guarded
  BY DEF Guarded, DocumentGuards, ItemGuards, ProviderGuards,
         InternalLocationGuards, LocationGuards

LEMMA LoansAreGuarded == \A k : <<k, "item">> \in Guarded <=> k = "loan"
  BY DEF Guarded, DocumentGuards, ItemGuards, ProviderGuards,
         InternalLocationGuards, LocationGuards

-----------------------------------------------------------------------------
(* Types.                                                                  *)

FieldValues(p) == [FieldsOf[p] -> PIDs \cup {Elsewhere, None}]

LEMMA RecordType ==
    \A p \in PIDs :
        Record[p] = [live: {"absent", "live", "deleted"},
                     state: StatesOf(KindOf[p]), refs: FieldValues(p)]
  BY DEF Record, FieldValues

LEMMA RecordParts ==
    ASSUME NEW p \in PIDs, NEW record \in Record[p]
    PROVE  /\ record \in [live: {"absent", "live", "deleted"},
                          state: StatesOf(KindOf[p]), refs: FieldValues(p)]
           /\ record.refs \in FieldValues(p)
           /\ DOMAIN record.refs = FieldsOf[p]
  <1>1. record \in [live: {"absent", "live", "deleted"},
                    state: StatesOf(KindOf[p]), refs: FieldValues(p)]
    BY RecordType
  <1>2. record.refs \in FieldValues(p)
    BY <1>1
  <1>. QED BY <1>1, <1>2 DEF FieldValues

LEMMA BlankType == \A p \in PIDs : Blank(p) \in Record[p]
  <1>. TAKE p \in PIDs
  <1>1. (IF KindOf[p] \in {"document_request", "loan"} THEN "PENDING" ELSE "none")
            \in StatesOf(KindOf[p])
    BY KindOfAssumption DEF StatesOf, Kinds
  <1>2. [f \in FieldsOf[p] |-> None] \in FieldValues(p)
    BY DEF FieldValues
  <1>. QED BY <1>1, <1>2, RecordType DEF Blank

LEMMA InitType == Init => TypeOK
  BY BlankType DEF Init, TypeOK

\* A handler that begins.
LEMMA BegunType ==
    ASSUME TypeOK, NEW w \in Workers, NEW op \in {"save", "action", "delete"},
           NEW p \in pool, NEW record \in Record[p], Begun(w, op, p, record)
    PROVE  LET s == [op |-> op, pid |-> p, record |-> record,
                     around |-> (Unseen \cup InFlight) \cap AsksAbout(op, p)]
           IN /\ s \in Handler(p)
              /\ session'[w] = s
              /\ DOMAIN session' = Workers
              /\ \A v \in Workers : v # w => session'[v] = Around(p)[v]
  <1>1. AsksAbout(op, p) \subseteq PIDs
    BY PoolType DEF AsksAbout
  <1>2. DOMAIN Around(p) = Workers
    BY DEF Around
  <1>3. session' = [Around(p) EXCEPT ![w] =
           [op |-> op, pid |-> p, record |-> record,
            around |-> (Unseen \cup InFlight) \cap AsksAbout(op, p)]]
    BY DEF Begun
  <1>. QED BY <1>1, <1>2, <1>3 DEF Handler

\* The others, when one begins.
LEMMA AroundType ==
    ASSUME TypeOK, NEW p \in pool, NEW v \in Workers
    PROVE  /\ session[v] = Idle => Around(p)[v] = Idle
           /\ session[v] # Idle =>
                /\ Around(p)[v] \in Handler(session[v].pid)
                /\ Around(p)[v].op = session[v].op
                /\ Around(p)[v].pid = session[v].pid
                /\ Around(p)[v].record = session[v].record
                /\ Around(p)[v].around =
                      session[v].around
                      \cup ({p} \cap AsksAbout(session[v].op, session[v].pid))
  <1>1. CASE session[v] = Idle
    BY <1>1 DEF Around
  <1>2. CASE session[v] # Idle
    <2>1. PICK q \in pool : session[v] \in Handler(q)
      BY <1>2 DEF TypeOK
    <2>. DEFINE a == session[v].around
                       \cup ({p} \cap AsksAbout(session[v].op, session[v].pid))
    <2>2. Around(p)[v] = [session[v] EXCEPT !.around = a]
      BY <1>2 DEF Around
    <2>3. a \in SUBSET PIDs
      BY <2>1, PoolType DEF Handler
    <2>. HIDE DEF a
    <2>4. /\ Around(p)[v] \in Handler(q) /\ Around(p)[v].op = session[v].op
          /\ Around(p)[v].pid = q /\ session[v].pid = q
          /\ Around(p)[v].record = session[v].record
          /\ Around(p)[v].around = a
      BY <2>1, <2>2, <2>3 DEF Handler
    <2>. QED BY <1>2, <2>4 DEF a
  <1>. QED BY <1>1, <1>2

-----------------------------------------------------------------------------
(* What a record and a handler may claim.                                  *)

\* each field names a record of a kind that belongs there
Fit(p, record) ==
    \A f \in FieldsOf[p] :
        record.refs[f] \in pool => <<KindOf[p], f, KindOf[record.refs[f]]>> \in Names

Complete(p, record) ==
    KindOf[p] = "document_request" /\ record.state = "ACCEPTED" =>
        record.refs["document"] # None /\ record.refs["provider"] # None

\* a deleted record is named by a race, or where nobody asks
Tied(p, record) ==
    \A q \in pool :
        /\ table[q].live = "deleted" /\ RefersTo(record, q)
        /\ KindOf[q] \notin {"order", "borrowing_request"}
        /\ KindOf[p] = "loan" => record.state \in CountedStates(KindOf[q])
        => \/ <<p, q>> \in overlaps
           \/ KindOf[p] = "loan" /\ <<record.refs["item"], q>> \in overlaps

\* a loan has its item from the checkout on, and is on that item's document
Placed(p, record) ==
    KindOf[p] = "loan" =>
        /\ record.state = "PENDING" => record.refs["item"] = None
        /\ \A i \in pool :
               record.refs["item"] = i =>
                   /\ table[i].live # "absent"
                   /\ KindOf[i] = "item" /\ Live(i) =>
                        \/ table[i].refs["document"] = record.refs["document"]
                        \/ <<p, i>> \in overlaps

Good(p, record) ==
    record.live = "live" =>
        /\ Fit(p, record) /\ Complete(p, record)
        /\ Tied(p, record) /\ Placed(p, record)

\* whether the deletion of p, or the move of the item p, may be about r
Unasked(op, p, record, r) ==
    /\ op = "delete" => ~Counts(r, table[r], p)
    /\ /\ op # "delete" /\ KindOf[p] = "item" /\ KindOf[r] = "loan" /\ Live(p)
       /\ record.refs["document"] # table[p].refs["document"]
       => ~(table[r].state # "PENDING" /\ RefersTo(table[r], p))

\* what a handler knows of the record it is at work on
Ready(op, p, record) ==
    /\ Good(p, record)
    /\ op = "delete" => record.live = "deleted" /\ Live(p)
    /\ op # "delete" => record.live = "live" /\ table[p].live # "deleted"
    /\ op = "action" => Pending(p)

Sound(w) ==
    session[w] # Idle =>
        LET s == session[w] IN
        /\ Ready(s.op, s.pid, s.record)
        /\ InFlight \cap AsksAbout(s.op, s.pid) \subseteq s.around
        /\ \A r \in AsksAbout(s.op, s.pid) \ s.around :
               Unasked(s.op, s.pid, s.record, r)

TableIsGood ==
    \A p \in pool : /\ Good(p, table[p])
                    /\ table[p].live = "absent" => table[p] = Blank(p)

IInv == TypeOK /\ TableIsGood /\ \A w \in Workers : Sound(w)

-----------------------------------------------------------------------------
(* Every handler begins with a record it is right about.                   *)

\* What was asked of the index.
Checked(op, p, record) ==
    /\ op = "delete" => \A r \in pool : ~Counts(r, index[r], p)
    /\ op # "delete" => ItemCanBeUpdated(p, record)

BeginsReady(w, p) ==
    \E op \in {"save", "action", "delete"}, record \in Record[p] :
        /\ Begin(w, op, p, record)
        /\ Ready(op, p, record) /\ Checked(op, p, record)

LEMMA ValidIsGood ==
    ASSUME TypeOK, NEW p \in pool, NEW record \in Record[p], Validate(p, record)
    PROVE  Fit(p, record) /\ Complete(p, record) /\ Tied(p, record)
  <1>1. /\ None \notin pool /\ Elsewhere \notin pool
        /\ p \in PIDs
    BY PoolType, NoneAssumption
  <1>2. DOMAIN record.refs = FieldsOf[p]
    BY <1>1, RecordParts
  <1>3. \A f \in FieldsOf[p] :
            record.refs[f] \in pool =>
                /\ Live(record.refs[f])
                /\ <<KindOf[p], f, KindOf[record.refs[f]]>> \in Names
    BY <1>1 DEF Validate, FieldValid
  <1>4. Tied(p, record)
    BY <1>2, <1>3 DEF Tied, RefersTo, Live
  <1>. QED BY <1>3, <1>4 DEF Validate, ValidateAccept, Fit, Complete

LEMMA SaveIsReady ==
    ASSUME IInv, NEW w \in Workers, NEW p \in pool, SaveRecord(w, p)
    PROVE  BeginsReady(w, p)
  <1>1. p \in PIDs /\ pool \subseteq PIDs /\ pool \in Pools
    BY PoolType DEF IInv, TypeOK
  <1>2. PICK s \in StatesOf(KindOf[p]), refs \in Choices[pool][p] :
            Save(w, p, [live |-> "live", state |-> s, refs |-> refs])
    BY DEF SaveRecord
  <1>3. refs \in FieldValues(p)
    <2>1. Choices[pool][p] =
              {choice \in [FieldsOf[p] -> pool \cup {Elsewhere, None}] :
                  \A f \in FieldsOf[p] :
                      \/ choice[f] \in Targets[pool][p][f]
                      \/ choice[f] = None /\ MayBeEmpty(KindOf[p], f)}
      BY <1>1 DEF Choices
    <2>2. refs \in [FieldsOf[p] -> pool \cup {Elsewhere, None}]
      BY <1>2, <2>1
    <2>. QED BY <1>1, <2>2 DEF FieldValues
  <1>. DEFINE record == [live |-> "live", state |-> s, refs |-> refs]
  <1>4. record \in Record[p] /\ record.live = "live"
    BY <1>1, <1>3, RecordType
  <1>5. Begin(w, "save", p, record) /\ Validate(p, record)
    BY <1>2 DEF Save
  <1>. HIDE DEF record
  <1>6. Ready("save", p, record)
    BY <1>4, <1>5, ValidIsGood DEF SaveRecord, IInv, Ready, Good, Placed
  <1>7. Checked("save", p, record)
    BY <1>5 DEF Validate, Checked
  <1>. QED BY <1>4, <1>5, <1>6, <1>7 DEF BeginsReady

\* The actions on a document request, all of which want it PENDING.
LEMMA ActIsReady ==
    ASSUME IInv, NEW w \in Workers, NEW p \in pool, Pending(p),
           NEW record \in Record[p], record.live = "live", Act(w, p, record)
    PROVE  BeginsReady(w, p)
  <1>1. Begin(w, "action", p, record) /\ Validate(p, record)
    BY DEF Act
  <1>2. Ready("action", p, record)
    BY <1>1, ValidIsGood
       DEF IInv, Ready, Good, Placed, Pending, Request, Live
  <1>. QED BY <1>1, <1>2 DEF Validate, Checked, BeginsReady

LEMMA RequestIsReady ==
    ASSUME IInv, NEW w \in Workers, NEW p \in pool,
           \/ AddDocument(w, p)
           \/ RemoveDocument(w, p)
           \/ AddProvider(w, p)
           \/ RemoveProvider(w, p)
           \/ Accept(w, p)
           \/ Decline(w, p)
           \/ DeclineInCatalog(w, p)
    PROVE  BeginsReady(w, p)
  <1>1. p \in PIDs /\ pool \subseteq PIDs /\ pool \in Pools
    BY PoolType DEF IInv, TypeOK
  <1>2. Pending(p)
    BY DEF AddDocument, RemoveDocument, AddProvider, RemoveProvider, Accept,
           Decline, DeclineInCatalog
  <1>3. /\ table[p] \in [live: {"absent", "live", "deleted"},
                         state: StatesOf(KindOf[p]), refs: FieldValues(p)]
        /\ table[p].live = "live" /\ KindOf[p] = "document_request"
    BY <1>1, <1>2, RecordType DEF IInv, TypeOK, Pending, Request, Live
  <1>4. {"ACCEPTED", "DECLINED", "IN_CATALOG"} \subseteq StatesOf(KindOf[p])
    BY <1>3 DEF StatesOf
  <1>5. \A f \in FieldsOf[p] : Targets[pool][p][f] \subseteq PIDs \cup {Elsewhere}
    BY <1>1 DEF Targets
  <1>6. {"document", "provider"} \subseteq FieldsOf[p]
    BY <1>1, <1>3, RequestFields
  <1>7. ASSUME NEW f, NEW q \in PIDs \cup {Elsewhere, None}
        PROVE  [table[p].refs EXCEPT ![f] = q] \in FieldValues(p)
    BY <1>3 DEF FieldValues
  <1>8. ASSUME NEW s \in StatesOf(KindOf[p]), NEW refs \in FieldValues(p)
        PROVE  LET r == [table[p] EXCEPT !.state = s, !.refs = refs]
               IN r \in Record[p] /\ r.live = "live"
    BY <1>1, <1>3, <1>8, RecordType
  <1>9. ASSUME NEW f, NEW q \in PIDs \cup {Elsewhere, None},
               Act(w, p, [table[p] EXCEPT !.refs[f] = q])
        PROVE  BeginsReady(w, p)
    <2>. DEFINE refs == [table[p].refs EXCEPT ![f] = q]
                r == [table[p] EXCEPT !.state = table[p].state, !.refs = refs]
    <2>1. r = [table[p] EXCEPT !.refs[f] = q]
      BY <1>3
    <2>2. refs \in FieldValues(p) /\ table[p].state \in StatesOf(KindOf[p])
      BY <1>3, <1>7
    <2>. HIDE DEF refs
    <2>3. r \in Record[p] /\ r.live = "live"
      BY <1>8, <2>2
    <2>4. Act(w, p, r)
      BY <1>9, <2>1
    <2>. HIDE DEF r
    <2>. QED BY <1>2, <2>3, <2>4, ActIsReady
  <1>10. ASSUME NEW s \in StatesOf(KindOf[p]),
                Act(w, p, [table[p] EXCEPT !.state = s])
         PROVE  BeginsReady(w, p)
    <2>. DEFINE r == [table[p] EXCEPT !.state = s, !.refs = table[p].refs]
    <2>1. r = [table[p] EXCEPT !.state = s]
      BY <1>3
    <2>2. r \in Record[p] /\ r.live = "live"
      BY <1>3, <1>8
    <2>3. Act(w, p, r)
      BY <1>10, <2>1
    <2>. HIDE DEF r
    <2>. QED BY <1>2, <2>2, <2>3, ActIsReady
  <1>11. ASSUME DeclineInCatalog(w, p) PROVE BeginsReady(w, p)
    <2>1. PICK d \in Targets[pool][p]["document"] :
              Act(w, p, [table[p] EXCEPT !.state = "IN_CATALOG",
                                          !.refs["document"] = d])
      BY <1>11 DEF DeclineInCatalog
    <2>. DEFINE refs == [table[p].refs EXCEPT !["document"] = d]
                r == [table[p] EXCEPT !.state = "IN_CATALOG", !.refs = refs]
    <2>2. r = [table[p] EXCEPT !.state = "IN_CATALOG", !.refs["document"] = d]
      BY <1>3
    <2>3. refs \in FieldValues(p)
      BY <1>5, <1>6, <1>7
    <2>. HIDE DEF refs
    <2>4. r \in Record[p] /\ r.live = "live"
      BY <1>4, <1>8, <2>3
    <2>5. Act(w, p, r)
      BY <2>1, <2>2
    <2>. HIDE DEF r
    <2>. QED BY <1>2, <2>4, <2>5, ActIsReady
  <1>12. ASSUME AddDocument(w, p) \/ RemoveDocument(w, p)
                \/ AddProvider(w, p) \/ RemoveProvider(w, p)
         PROVE  BeginsReady(w, p)
    <2>1. PICK f \in {"document", "provider"}, q \in PIDs \cup {Elsewhere, None} :
              Act(w, p, [table[p] EXCEPT !.refs[f] = q])
      BY <1>5, <1>6, <1>12
         DEF AddDocument, RemoveDocument, AddProvider, RemoveProvider
    <2>. QED BY <1>9, <2>1
  <1>13. ASSUME Accept(w, p) \/ Decline(w, p) PROVE BeginsReady(w, p)
    BY <1>4, <1>10, <1>13 DEF Accept, Decline
  <1>. QED BY <1>11, <1>12, <1>13

LEMMA RequestLoanIsReady ==
    ASSUME IInv, NEW w \in Workers, NEW p \in pool, RequestLoan(w, p)
    PROVE  BeginsReady(w, p)
  <1>1. p \in PIDs /\ pool \subseteq PIDs /\ pool \in Pools
    BY PoolType DEF IInv, TypeOK
  <1>2. KindOf[p] = "loan" /\ table[p] = Blank(p) /\ table[p].live = "absent"
    BY DEF RequestLoan, IInv, TableIsGood
  <1>3. PICK d \in Targets[pool][p]["document"] :
            Save(w, p, [table[p] EXCEPT !.live = "live", !.refs["document"] = d])
    BY DEF RequestLoan
  <1>4. FieldsOf[p] = {"document", "item"}
    BY <1>1, <1>2, LoanFields
  <1>5. d \in PIDs \cup {Elsewhere}
    BY <1>1, <1>4 DEF Targets
  <1>6. table[p].refs = [f \in FieldsOf[p] |-> None] /\ table[p].state = "PENDING"
    BY <1>2 DEF Blank
  <1>7. table[p] \in [live: {"absent", "live", "deleted"},
                      state: StatesOf(KindOf[p]), refs: FieldValues(p)]
    BY <1>1, RecordType DEF IInv, TypeOK
  <1>. DEFINE refs == [table[p].refs EXCEPT !["document"] = d]
              record == [table[p] EXCEPT !.live = "live", !.refs = refs]
  <1>8. record = [table[p] EXCEPT !.live = "live", !.refs["document"] = d]
    BY <1>7
  <1>9. refs \in FieldValues(p) /\ refs["item"] = None
    BY <1>4, <1>5, <1>6 DEF FieldValues
  <1>. HIDE DEF refs
  <1>10. /\ record \in Record[p] /\ record.live = "live"
         /\ record.refs = refs
    BY <1>1, <1>7, <1>9, RecordType
  <1>11. Begin(w, "save", p, record) /\ Validate(p, record)
    BY <1>3, <1>8 DEF Save
  <1>. HIDE DEF record
  <1>12. Placed(p, record)
    <2>1. None \notin pool
      BY <1>1, NoneAssumption
    <2>. QED BY <1>9, <1>10, <2>1 DEF Placed
  <1>13. Ready("save", p, record)
    BY <1>2, <1>10, <1>11, <1>12, ValidIsGood DEF IInv, Ready, Good
  <1>. QED BY <1>10, <1>11, <1>13 DEF Validate, Checked, BeginsReady

\* The loan names the document that its item names, deleted or not.
LEMMA CheckoutIsReady ==
    ASSUME IInv, NEW w \in Workers, NEW p \in pool, CheckoutLoan(w, p)
    PROVE  BeginsReady(w, p)
  <1>1. p \in PIDs /\ pool \subseteq PIDs /\ KindOf[p] = "loan"
        /\ table[p].live # "deleted"
    BY PoolType DEF IInv, CheckoutLoan
  <1>2. PICK i \in pool :
            /\ KindOf[i] = "item" /\ Live(i)
            /\ Begin(w, "save", p,
                     [live |-> "live", state |-> "ITEM_ON_LOAN",
                      refs |-> [document |-> table[i].refs["document"],
                                item |-> i]])
    BY DEF CheckoutLoan
  <1>. DEFINE d == table[i].refs["document"]
              refs == [document |-> d, item |-> i]
              record == [live |-> "live", state |-> "ITEM_ON_LOAN",
                         refs |-> refs]
  <1>3. /\ "document" \in FieldsOf[i] /\ table[i].refs \in FieldValues(i)
        /\ DOMAIN table[i].refs = FieldsOf[i]
    BY <1>1, <1>2, ItemFields, RecordParts DEF IInv, TypeOK
  <1>4. d \in PIDs \cup {Elsewhere, None}
    BY <1>3 DEF FieldValues
  <1>5. Good(i, table[i]) /\ Fit(i, table[i]) /\ Tied(i, table[i])
    BY <1>2 DEF IInv, TableIsGood, Good, Live
  <1>6. d \in pool => KindOf[d] = "document"
    BY <1>2, <1>3, <1>5, ItemDocuments DEF Fit
  <1>. HIDE DEF d
  <1>7. refs \in FieldValues(p) /\ refs["document"] = d /\ refs["item"] = i
        /\ DOMAIN refs = {"document", "item"}
    BY <1>1, <1>4, LoanFields DEF FieldValues
  <1>8. "ITEM_ON_LOAN" \in StatesOf(KindOf[p])
    BY <1>1 DEF StatesOf
  <1>. HIDE DEF refs
  <1>9. /\ record \in Record[p] /\ record.live = "live" /\ record.refs = refs
        /\ record.state = "ITEM_ON_LOAN"
    BY <1>1, <1>7, <1>8, RecordType
  <1>10. Begin(w, "save", p, record)
    BY <1>2 DEF d, refs
  <1>. HIDE DEF record
  <1>11. Fit(p, record)
    <2>1. /\ <<"loan", "document", "document">> \in Names
          /\ <<"loan", "item", "item">> \in Names
      BY DEF Names, LoanNames
    <2>. QED BY <1>1, <1>2, <1>6, <1>7, <1>9, <2>1, LoanFields DEF Fit
  <1>12. Tied(p, record)
    <2>. SUFFICES ASSUME NEW q \in pool, table[q].live = "deleted",
                         RefersTo(record, q)
                  PROVE  <<record.refs["item"], q>> \in overlaps
      BY <1>1 DEF Tied
    <2>1. q = d
      BY <1>2, <1>7, <1>9 DEF RefersTo, Live
    <2>2. RefersTo(table[i], q) /\ KindOf[q] = "document"
      BY <1>3, <1>6, <2>1 DEF RefersTo, d
    <2>. QED BY <1>2, <1>5, <1>7, <1>9, <2>2 DEF Tied
  <1>13. Placed(p, record)
    BY <1>2, <1>7, <1>9 DEF Placed, Live, d
  <1>14. Complete(p, record) /\ ItemCanBeUpdated(p, record)
    BY <1>1 DEF Complete, ItemCanBeUpdated
  <1>. QED
    BY <1>1, <1>9, <1>10, <1>11, <1>12, <1>13, <1>14
       DEF Ready, Good, Checked, BeginsReady

LEMMA CheckinIsReady ==
    ASSUME IInv, NEW w \in Workers, NEW p \in pool, Checkin(w, p)
    PROVE  BeginsReady(w, p)
  <1>. DEFINE record == [table[p] EXCEPT !.state = "ITEM_RETURNED"]
  <1>1. p \in PIDs /\ KindOf[p] = "loan" /\ Live(p) /\ Begin(w, "save", p, record)
    BY PoolType DEF IInv, Checkin
  <1>2. table[p] \in [live: {"absent", "live", "deleted"},
                      state: StatesOf(KindOf[p]), refs: FieldValues(p)]
    BY <1>1, RecordType DEF IInv, TypeOK
  <1>3. "ITEM_RETURNED" \in StatesOf(KindOf[p])
    BY <1>1 DEF StatesOf
  <1>4. /\ record \in Record[p] /\ record.live = "live"
        /\ record.refs = table[p].refs /\ record.state = "ITEM_RETURNED"
    BY <1>1, <1>2, <1>3, RecordType DEF Live
  <1>. HIDE DEF record
  <1>5. Good(p, table[p])
    BY DEF IInv, TableIsGood
  <1>6. Good(p, record)
    BY <1>1, <1>4, <1>5
       DEF Good, Fit, Complete, Tied, Placed, CountedStates, Live
  <1>7. ItemCanBeUpdated(p, record)
    BY <1>1 DEF ItemCanBeUpdated
  <1>. QED
    BY <1>1, <1>4, <1>6, <1>7 DEF Ready, Checked, BeginsReady, Live

LEMMA AskIsReady ==
    ASSUME IInv, NEW w \in Workers, NEW p \in pool, AskReferences(w, p)
    PROVE  BeginsReady(w, p)
  <1>. DEFINE record == [table[p] EXCEPT !.live = "deleted"]
  <1>1. /\ p \in PIDs /\ Live(p) /\ Begin(w, "delete", p, record)
        /\ \A r \in pool : ~Counts(r, index[r], p)
    BY PoolType DEF IInv, AskReferences
  <1>2. table[p] \in [live: {"absent", "live", "deleted"},
                      state: StatesOf(KindOf[p]), refs: FieldValues(p)]
    BY <1>1, RecordType DEF IInv, TypeOK
  <1>3. record \in Record[p] /\ record.live = "deleted"
    BY <1>1, <1>2, RecordType
  <1>. HIDE DEF record
  <1>. QED BY <1>1, <1>3 DEF Ready, Good, Checked, BeginsReady

-----------------------------------------------------------------------------
(* A handler that begins spoils nothing.                                   *)

\* Only the table, the overlaps and what is in flight matter.
LEMMA SameTable ==
    ASSUME UNCHANGED <<pool, table, overlaps>>
    PROVE  /\ \A q, r : Good(q, r)' <=> Good(q, r)
           /\ \A op, q, r : Ready(op, q, r)' <=> Ready(op, q, r)
           /\ \A op, q, record, r :
                  Unasked(op, q, record, r)' <=> Unasked(op, q, record, r)
           /\ \A op, q : AsksAbout(op, q)' = AsksAbout(op, q)
           /\ TableIsGood' <=> TableIsGood
  <1>1. \A q, r : Good(q, r)' <=> Good(q, r)
    BY DEF Good, Fit, Complete, Tied, Placed, Live
  <1>2. \A op, q, r : Ready(op, q, r)' <=> Ready(op, q, r)
    BY <1>1 DEF Ready, Pending, Request, Live
  <1>3. \A op, q, record, r :
            Unasked(op, q, record, r)' <=> Unasked(op, q, record, r)
    BY DEF Unasked, Counts, Live
  <1>4. \A op, q : AsksAbout(op, q)' = AsksAbout(op, q)
    BY DEF AsksAbout
  <1>5. TableIsGood' <=> TableIsGood
    BY <1>1 DEF TableIsGood
  <1>. QED BY <1>1, <1>2, <1>3, <1>4, <1>5

LEMMA CheckedIsUnasked ==
    ASSUME NEW op \in {"save", "action", "delete"}, NEW p \in pool, NEW record,
           Checked(op, p, record), NEW r \in pool, r \notin Unseen
    PROVE  Unasked(op, p, record, r)
  BY DEF Checked, Unasked, Unseen, ItemCanBeUpdated, Live

LEMMA BeginKeeps ==
    ASSUME IInv, NEW w \in Workers, NEW p \in pool, BeginsReady(w, p)
    PROVE  IInv'
  <1>1. PICK op \in {"save", "action", "delete"}, record \in Record[p] :
            /\ Begin(w, op, p, record)
            /\ Ready(op, p, record) /\ Checked(op, p, record)
    BY DEF BeginsReady
  <1>2. /\ Begun(w, op, p, record) /\ session[w] = Idle
        /\ UNCHANGED <<pool, table, overlaps>> /\ index' = index
    BY <1>1 DEF Begin, Begun
  <1>. DEFINE near == (Unseen \cup InFlight) \cap AsksAbout(op, p)
              s == [op |-> op, pid |-> p, record |-> record, around |-> near]
  <1>3. /\ s \in Handler(p) /\ session'[w] = s /\ DOMAIN session' = Workers
        /\ \A v \in Workers : v # w => session'[v] = Around(p)[v]
    BY <1>2, BegunType DEF IInv
  <1>4. /\ s # Idle /\ s.op = op /\ s.pid = p /\ s.record = record
        /\ s.around = near
    BY DEF Idle
  <1>. HIDE DEF s
  <1>5. ASSUME NEW v \in Workers, v # w, session[v] # Idle
        PROVE  /\ session'[v] \in Handler(session[v].pid)
               /\ session[v].pid \in pool
               /\ session'[v].op = session[v].op
               /\ session'[v].pid = session[v].pid
               /\ session'[v].record = session[v].record
               /\ session'[v].around =
                     session[v].around
                     \cup ({p} \cap AsksAbout(session[v].op, session[v].pid))
    <2>1. session[v].pid \in pool
      BY <1>5 DEF IInv, TypeOK, Handler
    <2>. QED BY <1>3, <1>5, <2>1, AroundType DEF IInv
  <1>6. ASSUME NEW v \in Workers, v # w, session[v] = Idle
        PROVE  session'[v] = Idle
    BY <1>3, <1>6, AroundType DEF IInv
  <1>7. TypeOK'
    <2>1. \A v \in Workers :
              session'[v] = Idle \/ \E q \in pool : session'[v] \in Handler(q)
      BY <1>3, <1>5, <1>6
    <2>. QED BY <1>2, <1>3, <2>1 DEF IInv, TypeOK, Handler
  <1>8. InFlight' \subseteq InFlight \cup {p}
    BY <1>3, <1>4, <1>5, <1>6 DEF InFlight
  <1>9. TableIsGood'
    BY <1>2, SameTable DEF IInv
  <1>10. Sound(w)'
    <2>1. p \notin AsksAbout(op, p) /\ AsksAbout(op, p) \subseteq pool
      BY NoSelfGuard DEF AsksAbout
    <2>2. \A r \in AsksAbout(op, p) \ near : Unasked(op, p, record, r)
      BY <1>1, <2>1, CheckedIsUnasked
    <2>3. InFlight' \cap AsksAbout(op, p) \subseteq near
      BY <1>8, <2>1
    <2>. HIDE DEF near
    <2>4. /\ Ready(op, p, record)'
          /\ AsksAbout(op, p)' = AsksAbout(op, p)
          /\ \A r \in AsksAbout(op, p) \ near : Unasked(op, p, record, r)'
      BY <1>1, <1>2, <2>2, SameTable
    <2>. QED BY <1>3, <1>4, <2>3, <2>4 DEF Sound
  <1>11. ASSUME NEW v \in Workers, v # w PROVE Sound(v)'
    <2>. SUFFICES ASSUME session'[v] # Idle PROVE Sound(v)'
      BY DEF Sound
    <2>1. session[v] # Idle /\ Sound(v)
      BY <1>6, <1>11 DEF IInv
    <2>. DEFINE t == session[v]
                asked == AsksAbout(t.op, t.pid)
    <2>2. /\ session'[v].op = t.op /\ session'[v].pid = t.pid
          /\ session'[v].record = t.record
          /\ session'[v].around = t.around \cup ({p} \cap asked)
      BY <1>5, <1>11, <2>1
    <2>3. /\ Ready(t.op, t.pid, t.record)
          /\ InFlight \cap asked \subseteq t.around
          /\ \A r \in asked \ t.around : Unasked(t.op, t.pid, t.record, r)
      BY <2>1 DEF Sound
    <2>4. \A o, q, x :
              o = t.op /\ q = t.pid /\ x = t.record =>
                  /\ Ready(o, q, x)'
                  /\ AsksAbout(o, q)' = asked
                  /\ \A r \in asked \ t.around : Unasked(o, q, x, r)'
      BY <1>2, <2>3, SameTable
    <2>5. InFlight' \cap asked \subseteq session'[v].around
      BY <1>8, <2>2, <2>3
    <2>. HIDE DEF asked
    <2>. QED BY <2>2, <2>4, <2>5 DEF Sound
  <1>. QED BY <1>7, <1>9, <1>10, <1>11 DEF IInv

-----------------------------------------------------------------------------
(* A commit spoils what it does not overlap with in nothing.               *)

\* What a worker commits, and what it leaves to the others.
LEMMA CommitWrites ==
    ASSUME IInv, NEW w \in Workers, Commit(w),
           NEW p, p = session[w].pid, NEW s, s = session[w]
    PROVE  /\ p \in pool /\ s # Idle /\ s \in Handler(p) /\ Sound(w)
           /\ s.record \in Record[p]
           /\ pool' = pool /\ index' = index /\ DOMAIN table' = PIDs
           /\ table'[p] = s.record
           /\ \A q \in PIDs : q # p => table'[q] = table[q]
           /\ overlaps \subseteq overlaps' /\ overlaps' \subseteq PIDs \X PIDs
           /\ \A r \in s.around : <<r, p>> \in overlaps'
           /\ DOMAIN session' = Workers
           /\ \A v \in Workers :
                  \/ session'[v] = Idle
                  \/ /\ session'[v] = session[v] /\ session[v] # Idle
                     /\ session[v].pid # p
  <1>1. s # Idle /\ Sound(w)
    BY DEF Commit, IInv
  <1>2. s \in Handler(p) /\ p \in pool
    BY <1>1 DEF IInv, TypeOK, Handler
  <1>3. s.record \in Record[p] /\ s.around \subseteq PIDs /\ p \in PIDs
    BY <1>2, PoolType DEF Handler, IInv
  <1>4. /\ pool' = pool /\ index' = index
        /\ table' = [table EXCEPT ![p] = s.record]
        /\ overlaps' = overlaps \cup {<<r, p>> : r \in s.around}
        /\ session' = [v \in Workers |->
               IF session[v] # Idle /\ session[v].pid = p THEN Idle
               ELSE session[v]]
    BY DEF Commit
  <1>. QED BY <1>1, <1>2, <1>3, <1>4 DEF IInv, TypeOK

\* A record that is good, in the table or in another handler, after a commit.
LEMMA GoodIsKept ==
    ASSUME IInv, NEW w \in Workers, Commit(w), NEW p, p = session[w].pid,
           NEW q \in pool, q # p, NEW rec \in Record[q], Good(q, rec),
           \/ q \notin AsksAbout(session[w].op, p)
           \/ q \in session[w].around
           \/ rec = table[q]
    PROVE  Good(q, rec)'
  <1>. DEFINE s == session[w]
  <1>1. /\ p \in pool /\ s # Idle /\ s \in Handler(p) /\ Sound(w)
        /\ pool' = pool /\ table'[p] = s.record
        /\ \A x \in PIDs : x # p => table'[x] = table[x]
        /\ overlaps \subseteq overlaps'
        /\ \A r \in s.around : <<r, p>> \in overlaps'
    BY CommitWrites
  <1>2. /\ Ready(s.op, p, s.record) /\ s.pid = p
        /\ \A r \in AsksAbout(s.op, p) \ s.around : Unasked(s.op, p, s.record, r)
    BY <1>1 DEF Sound
  <1>3. s.op \in {"save", "action", "delete"}
    BY <1>1 DEF Handler
  <1>. HIDE DEF s
  <1>4. pool \subseteq PIDs /\ p \in PIDs /\ q \in PIDs
    BY <1>1, PoolType DEF IInv
  <1>5. /\ DOMAIN rec.refs = FieldsOf[q]
        /\ table[p].live \in {"absent", "live", "deleted"}
    BY <1>4, RecordParts DEF IInv, TypeOK
  <1>6. \/ q \notin AsksAbout(s.op, p)
        \/ <<q, p>> \in overlaps'
        \/ rec = table[q] /\ Unasked(s.op, p, s.record, q)
    BY <1>1, <1>2 DEF s
  <1>. SUFFICES ASSUME rec.live = "live" PROVE Good(q, rec)'
    BY DEF Good
  <1>7. Fit(q, rec) /\ Complete(q, rec) /\ Tied(q, rec) /\ Placed(q, rec)
    BY DEF Good
  <1>8. Fit(q, rec)' /\ Complete(q, rec)'
    BY <1>1, <1>7 DEF Fit, Complete
  <1>9. Tied(q, rec)'
    <2>. SUFFICES ASSUME NEW x \in pool, table'[x].live = "deleted",
                         RefersTo(rec, x),
                         KindOf[x] \notin {"order", "borrowing_request"},
                         KindOf[q] = "loan" => rec.state \in CountedStates(KindOf[x])
                  PROVE  \/ <<q, x>> \in overlaps'
                         \/ KindOf[q] = "loan" /\ <<rec.refs["item"], x>> \in overlaps'
      BY <1>1 DEF Tied
    <2>1. CASE table[x].live = "deleted"
      BY <1>1, <1>7, <2>1 DEF Tied
    <2>2. CASE table[x].live # "deleted"
      <3>1. x = p /\ s.record.live = "deleted"
        BY <1>1, <1>4, <2>2
      <3>2. s.op = "delete"
        BY <1>2, <3>1 DEF Ready
      <3>3. PICK f \in FieldsOf[q] : rec.refs[f] = p
        BY <1>5, <3>1 DEF RefersTo
      <3>4. <<KindOf[q], f, KindOf[p]>> \in Names
        BY <1>1, <1>7, <3>3 DEF Fit
      <3>5. <<KindOf[q], KindOf[p]>> \in Guarded
        BY <3>1, <3>4, NamesAreGuarded
      <3>6. q \in AsksAbout(s.op, p)
        BY <3>2, <3>5 DEF AsksAbout
      <3>7. Counts(q, rec, p)
        BY <3>1, <3>5 DEF Counts
      <3>. QED BY <1>6, <3>1, <3>2, <3>6, <3>7 DEF Unasked
    <2>. QED BY <2>1, <2>2
  <1>10. Placed(q, rec)'
    <2>. SUFFICES ASSUME KindOf[q] = "loan"
                  PROVE  /\ rec.state = "PENDING" => rec.refs["item"] = None
                         /\ \A i \in pool :
                                rec.refs["item"] = i =>
                                    /\ table'[i].live # "absent"
                                    /\ KindOf[i] = "item" /\ table'[i].live = "live" =>
                                         \/ table'[i].refs["document"] = rec.refs["document"]
                                         \/ <<q, i>> \in overlaps'
      BY <1>1 DEF Placed, Live
    <2>1. rec.state = "PENDING" => rec.refs["item"] = None
      BY <1>7 DEF Placed
    <2>. SUFFICES ASSUME NEW i \in pool, rec.refs["item"] = i
                  PROVE  /\ table'[i].live # "absent"
                         /\ KindOf[i] = "item" /\ table'[i].live = "live" =>
                              \/ table'[i].refs["document"] = rec.refs["document"]
                              \/ <<q, i>> \in overlaps'
      BY <2>1
    <2>2. /\ table[i].live # "absent"
          /\ KindOf[i] = "item" /\ table[i].live = "live" =>
               \/ table[i].refs["document"] = rec.refs["document"]
               \/ <<q, i>> \in overlaps
      BY <1>7 DEF Placed, Live
    <2>3. CASE i # p
      BY <1>1, <1>4, <2>2, <2>3
    <2>4. CASE i = p
      <3>1. s.record.live # "absent"
        BY <1>2, <1>3 DEF Ready
      <3>. SUFFICES ASSUME KindOf[p] = "item", s.record.live = "live",
                           s.record.refs["document"] # rec.refs["document"]
                    PROVE  <<q, p>> \in overlaps'
        BY <1>1, <2>4, <3>1
      <3>2. s.op # "delete" /\ table[p].live = "live"
        BY <1>2, <1>5, <2>2, <2>4 DEF Ready
      <3>3. CASE s.record.refs["document"] = table[p].refs["document"]
        BY <1>1, <2>2, <2>4, <3>2, <3>3
      <3>4. CASE s.record.refs["document"] # table[p].refs["document"]
        <4>1. q \in AsksAbout(s.op, p)
          BY LoansAreGuarded DEF AsksAbout
        <4>2. RefersTo(rec, p)
          BY <1>4, <1>5, <2>4, LoanFields DEF RefersTo
        <4>3. rec.state # "PENDING"
          BY <1>1, <1>4, <2>1, <2>4, NoneAssumption
        <4>. QED BY <1>6, <3>2, <3>4, <4>1, <4>2, <4>3 DEF Unasked, Live
      <3>. QED BY <3>3, <3>4
    <2>. QED BY <2>3, <2>4
  <1>. QED BY <1>8, <1>9, <1>10 DEF Good

\* The record that is committed.
LEMMA CommittedIsGood ==
    ASSUME IInv, NEW w \in Workers, Commit(w),
           NEW p, p = session[w].pid, NEW rec, rec = session[w].record
    PROVE  Good(p, rec)'
  <1>. DEFINE s == session[w]
  <1>1. /\ p \in pool /\ s # Idle /\ Sound(w) /\ s.record = rec
        /\ pool' = pool /\ table'[p] = rec
        /\ \A x \in PIDs : x # p => table'[x] = table[x]
        /\ overlaps \subseteq overlaps'
    BY CommitWrites
  <1>2. Ready(s.op, p, rec)
    BY <1>1 DEF Sound
  <1>. HIDE DEF s
  <1>3. pool \subseteq PIDs
    BY PoolType DEF IInv
  <1>. SUFFICES ASSUME rec.live = "live" PROVE Good(p, rec)'
    BY DEF Good
  <1>4. Fit(p, rec) /\ Complete(p, rec) /\ Tied(p, rec) /\ Placed(p, rec)
    BY <1>2 DEF Ready, Good
  <1>5. Fit(p, rec)' /\ Complete(p, rec)'
    BY <1>1, <1>4 DEF Fit, Complete
  <1>6. Tied(p, rec)'
    <2>1. \A x \in pool : table'[x].live = "deleted" => table[x].live = "deleted"
      BY <1>1, <1>3
    <2>. QED BY <1>1, <1>4, <2>1 DEF Tied
  <1>7. Placed(p, rec)'
    <2>1. \A x \in pool : x # p => table'[x] = table[x]
      BY <1>1, <1>3
    <2>2. table'[p].live # "absent"
      BY <1>1
    <2>3. KindOf[p] = "loan" => KindOf[p] # "item"
      OBVIOUS
    <2>. QED BY <1>1, <1>4, <2>1, <2>2, <2>3 DEF Placed, Live
  <1>. QED BY <1>5, <1>6, <1>7 DEF Good

\* The handlers on other records.
LEMMA OthersStaySound ==
    ASSUME IInv, NEW w \in Workers, Commit(w), NEW v \in Workers
    PROVE  Sound(v)'
  <1>. DEFINE p == session[w].pid
              s == session[w]
              t == session[v]
              q == t.pid
  <1>1. /\ p \in pool /\ s # Idle
        /\ pool' = pool
        /\ \A x \in PIDs : x # p => table'[x] = table[x]
        /\ \A r \in s.around : <<r, p>> \in overlaps'
        /\ \A u \in Workers :
               \/ session'[u] = Idle
               \/ session'[u] = session[u] /\ session[u] # Idle /\ session[u].pid # p
    BY CommitWrites
  <1>. SUFFICES ASSUME session'[v] # Idle PROVE Sound(v)'
    BY DEF Sound
  <1>2. t # Idle /\ session'[v] = t /\ q # p /\ Sound(v)
    BY <1>1 DEF IInv
  <1>3. q \in pool /\ t.record \in Record[q]
    BY <1>2 DEF IInv, TypeOK, Handler
  <1>4. /\ Ready(t.op, q, t.record)
        /\ InFlight \cap AsksAbout(t.op, q) \subseteq t.around
        /\ \A r \in AsksAbout(t.op, q) \ t.around : Unasked(t.op, q, t.record, r)
    BY <1>2 DEF Sound
  <1>5. p \in InFlight /\ q \in InFlight /\ InFlight' \subseteq InFlight
    BY <1>1, <1>2 DEF InFlight
  <1>6. \A op, x : AsksAbout(op, x)' = AsksAbout(op, x)
    BY <1>1 DEF AsksAbout
  <1>7. pool \subseteq PIDs
    BY PoolType DEF IInv
  <1>8. q \in AsksAbout(s.op, p) => q \in s.around
    <2>1. Sound(w)
      BY DEF IInv
    <2>. QED BY <1>1, <1>5, <2>1 DEF Sound
  <1>9. \A x, rec :
            x = q /\ rec = t.record => Good(x, rec)'
    <2>1. Good(q, t.record)
      BY <1>4 DEF Ready
    <2>. HIDE DEF t
    <2>. QED BY <1>2, <1>3, <1>8, <2>1, GoodIsKept
  <1>10. table'[q] = table[q]
    BY <1>1, <1>2, <1>3, <1>7
  <1>11. \A op, x, rec :
            op = t.op /\ x = q /\ rec = t.record => Ready(op, x, rec)'
    <2>. HIDE DEF t, p
    <2>. QED BY <1>4, <1>9, <1>10 DEF Ready, Pending, Request, Live
  <1>12. \A op, x, rec :
             op = t.op /\ x = q /\ rec = t.record =>
                 \A r \in AsksAbout(op, x) \ t.around : Unasked(op, x, rec, r)'
    <2>. SUFFICES ASSUME NEW op, NEW x, NEW rec,
                         op = t.op, x = q, rec = t.record,
                         NEW r \in AsksAbout(op, x) \ t.around
                  PROVE  Unasked(op, x, rec, r)'
      OBVIOUS
    <2>1. r # p /\ r \in PIDs
      BY <1>4, <1>5, <1>7 DEF AsksAbout
    <2>2. table'[r] = table[r] /\ table'[x] = table[x]
      BY <1>1, <1>10, <2>1
    <2>3. Unasked(op, x, rec, r)
      BY <1>4
    <2>. QED BY <2>2, <2>3 DEF Unasked, Counts, Live
  <1>. HIDE DEF t, p, s
  <1>. QED
    BY <1>2, <1>4, <1>5, <1>6, <1>11, <1>12 DEF Sound, t

LEMMA CommitKeeps ==
    ASSUME IInv, NEW w \in Workers, Commit(w)
    PROVE  IInv'
  <1>. DEFINE p == session[w].pid
              s == session[w]
  <1>1. /\ p \in pool /\ s # Idle /\ s \in Handler(p) /\ Sound(w)
        /\ s.record \in Record[p]
        /\ pool' = pool /\ index' = index /\ DOMAIN table' = PIDs
        /\ table'[p] = s.record
        /\ \A q \in PIDs : q # p => table'[q] = table[q]
        /\ overlaps' \subseteq PIDs \X PIDs
        /\ DOMAIN session' = Workers
        /\ \A v \in Workers :
               session'[v] = Idle \/ session'[v] = session[v]
    BY CommitWrites
  <1>2. /\ Ready(s.op, p, s.record)
        /\ \A r \in AsksAbout(s.op, p) \ s.around : Unasked(s.op, p, s.record, r)
        /\ s.op \in {"save", "action", "delete"}
    BY <1>1 DEF Sound, Handler
  <1>3. TypeOK'
    BY <1>1 DEF IInv, TypeOK, Handler
  <1>4. TableIsGood'
    <2>. SUFFICES ASSUME NEW q \in pool
                  PROVE  /\ \A r : r = table'[q] => Good(q, r)'
                         /\ table'[q].live = "absent" => table'[q] = Blank(q)
      BY <1>1 DEF TableIsGood, Blank
    <2>1. CASE q = p
      <3>1. \A r : r = table'[q] => Good(q, r)'
        <4>. HIDE DEF s
        <4>. QED BY <1>1, <2>1, CommittedIsGood DEF s
      <3>2. table'[q].live # "absent"
        BY <1>1, <1>2, <2>1 DEF Ready
      <3>. QED BY <3>1, <3>2
    <2>2. CASE q # p
      <3>1. q \in PIDs /\ table'[q] = table[q]
        BY <1>1, <2>2, PoolType DEF IInv
      <3>2. table[q] \in Record[q] /\ Good(q, table[q])
            /\ (table[q].live = "absent" => table[q] = Blank(q))
        BY <3>1 DEF IInv, TypeOK, TableIsGood
      <3>3. \A r : r = table[q] => Good(q, r)'
        BY <2>2, <3>2, GoodIsKept
      <3>. QED BY <3>1, <3>2, <3>3
    <2>. QED BY <2>1, <2>2
  <1>. QED BY <1>3, <1>4, OthersStaySound DEF IInv

-----------------------------------------------------------------------------
(* The invariant.                                                          *)

LEMMA RollbackKeeps ==
    ASSUME IInv, NEW w \in Workers, Rollback(w)
    PROVE  IInv'
  <1>1. /\ UNCHANGED <<pool, table, overlaps>> /\ index' = index
        /\ DOMAIN session' = Workers
        /\ \A v \in Workers : session'[v] = Idle \/ session'[v] = session[v]
    BY DEF Rollback, IInv, TypeOK
  <1>2. TypeOK'
    BY <1>1 DEF IInv, TypeOK, Handler
  <1>3. InFlight' \subseteq InFlight
    BY <1>1 DEF InFlight
  <1>4. TableIsGood'
    BY <1>1, SameTable DEF IInv
  <1>5. ASSUME NEW v \in Workers PROVE Sound(v)'
    <2>. SUFFICES ASSUME session'[v] # Idle PROVE Sound(v)'
      BY DEF Sound
    <2>1. session'[v] = session[v] /\ session[v] # Idle /\ Sound(v)
      BY <1>1 DEF IInv
    <2>. QED BY <1>1, <1>3, <2>1, SameTable DEF Sound
  <1>. QED BY <1>2, <1>4, <1>5 DEF IInv

LEMMA RefreshKeeps ==
    ASSUME IInv, NEW p \in pool, Refresh(p)
    PROVE  IInv'
  <1>1. /\ UNCHANGED <<pool, table, overlaps>> /\ session' = session
        /\ index' = [index EXCEPT ![p] = table[p]]
    BY DEF Refresh
  <1>2. TypeOK'
    BY <1>1, PoolType DEF IInv, TypeOK, Handler
  <1>3. InFlight' = InFlight
    BY <1>1 DEF InFlight
  <1>. QED BY <1>1, <1>2, <1>3, SameTable DEF IInv, Sound

LEMMA StutterKeeps ==
    ASSUME IInv, UNCHANGED vars
    PROVE  IInv'
  <1>1. UNCHANGED <<pool, table, overlaps>> /\ session' = session /\ index' = index
    BY DEF vars
  <1>2. TypeOK'
    BY <1>1 DEF IInv, TypeOK, Handler
  <1>3. InFlight' = InFlight
    BY <1>1 DEF InFlight
  <1>. QED BY <1>1, <1>2, <1>3, SameTable DEF IInv, Sound

LEMMA InitInv == Init => IInv
  <1>. SUFFICES ASSUME Init PROVE IInv
    OBVIOUS
  <1>1. \A p \in pool : table[p] = Blank(p)
    BY PoolsAssumption DEF Init
  <1>2. TableIsGood
    BY <1>1 DEF TableIsGood, Good, Blank
  <1>3. \A w \in Workers : Sound(w)
    BY DEF Init, Sound
  <1>. QED BY <1>2, <1>3, InitType DEF IInv

LEMMA NextInv == IInv /\ [Next]_vars => IInv'
  <1>. SUFFICES ASSUME IInv, [Next]_vars PROVE IInv'
    OBVIOUS
  <1>1. ASSUME NEW w \in Workers, NEW p \in pool, SaveRecord(w, p) PROVE IInv'
    BY <1>1, SaveIsReady, BeginKeeps
  <1>2. ASSUME NEW w \in Workers, NEW p \in pool,
               \/ AddDocument(w, p)
               \/ RemoveDocument(w, p)
               \/ AddProvider(w, p)
               \/ RemoveProvider(w, p)
               \/ Accept(w, p)
               \/ Decline(w, p)
               \/ DeclineInCatalog(w, p)
        PROVE  IInv'
    BY <1>2, RequestIsReady, BeginKeeps
  <1>3. ASSUME NEW w \in Workers, NEW p \in pool, RequestLoan(w, p) PROVE IInv'
    BY <1>3, RequestLoanIsReady, BeginKeeps
  <1>4. ASSUME NEW w \in Workers, NEW p \in pool, CheckoutLoan(w, p) PROVE IInv'
    BY <1>4, CheckoutIsReady, BeginKeeps
  <1>5. ASSUME NEW w \in Workers, NEW p \in pool, Checkin(w, p) PROVE IInv'
    BY <1>5, CheckinIsReady, BeginKeeps
  <1>6. ASSUME NEW w \in Workers, NEW p \in pool, AskReferences(w, p) PROVE IInv'
    BY <1>6, AskIsReady, BeginKeeps
  <1>7. ASSUME NEW w \in Workers, Commit(w) PROVE IInv'
    BY <1>7, CommitKeeps
  <1>8. ASSUME NEW w \in Workers, Rollback(w) PROVE IInv'
    BY <1>8, RollbackKeeps
  <1>9. ASSUME NEW p \in pool, Refresh(p) PROVE IInv'
    BY <1>9, RefreshKeeps
  <1>10. CASE UNCHANGED vars
    BY <1>10, StutterKeeps
  <1>. QED
    BY <1>1, <1>2, <1>3, <1>4, <1>5, <1>6, <1>7, <1>8, <1>9, <1>10 DEF Next

LEMMA Invariant == Spec => []IInv
  BY InitInv, NextInv, PTL DEF Spec

-----------------------------------------------------------------------------
(* What they promise.                                                      *)

\* Every record, in the table, in the index and at work, has the fields and
\* the states of its kind.
THEOREM TypeCorrect == Spec => []TypeOK
  <1>1. IInv => TypeOK
    BY DEF IInv
  <1>. QED BY <1>1, Invariant, PTL

\* An accepted document request has its document and its provider: what
\* removes them commits only if nobody accepted it meanwhile.
THEOREM AcceptedAreComplete == Spec => []AcceptedIsComplete
  <1>1. IInv => AcceptedIsComplete
    BY DEF IInv, TableIsGood, Good, Complete, AcceptedIsComplete, Request, Live
  <1>. QED BY <1>1, Invariant, PTL

\* A record names a deleted one by a race only, or where no deletion asks.
THEOREM DanglingIsRaced == Spec => []DanglesOnlyByRace
  <1>1. IInv => DanglesOnlyByRace
    BY DEF IInv, TableIsGood, Good, Tied, DanglesOnlyByRace, MayDangle, Live
  <1>. QED BY <1>1, Invariant, PTL

\* A loan stays on the document of its item, unless it and the move of the
\* item overlapped.
THEOREM LoansFollowItems == Spec => []LoanOnItsDocument
  <1>1. IInv => LoanOnItsDocument
    BY DEF IInv, TableIsGood, Good, Placed, LoanOnItsDocument, Live
  <1>. QED BY <1>1, Invariant, PTL

LEMMA CommitsWrite ==
    ASSUME [Next]_vars
    PROVE  table' = table \/ \E w \in Workers : Commit(w)
  <1>1. ASSUME NEW w \in Workers, NEW p \in pool,
               \/ SaveRecord(w, p)
               \/ AddDocument(w, p)
               \/ RemoveDocument(w, p)
               \/ AddProvider(w, p)
               \/ RemoveProvider(w, p)
               \/ Accept(w, p)
               \/ Decline(w, p)
               \/ DeclineInCatalog(w, p)
               \/ RequestLoan(w, p)
               \/ CheckoutLoan(w, p)
               \/ Checkin(w, p)
               \/ AskReferences(w, p)
        PROVE  table' = table
    <2>1. ASSUME NEW op, NEW record, Begin(w, op, p, record)
          PROVE  table' = table
      BY <2>1 DEF Begin
    <2>. QED
      BY <1>1, <2>1
         DEF SaveRecord, AddDocument, RemoveDocument, AddProvider,
             RemoveProvider, Accept, Decline, DeclineInCatalog, RequestLoan,
             CheckoutLoan, Checkin, AskReferences, Save, Act
  <1>2. ASSUME NEW w \in Workers, Rollback(w) PROVE table' = table
    BY <1>2 DEF Rollback
  <1>3. ASSUME NEW p \in pool, Refresh(p) PROVE table' = table
    BY <1>3 DEF Refresh
  <1>4. CASE UNCHANGED vars
    BY <1>4 DEF vars
  <1>. QED BY <1>1, <1>2, <1>3, <1>4 DEF Next

\* Whoever found a request PENDING changes it only while it still is.
THEOREM DecisionsStay == Spec => DecidedRequestsStay
  <1>. DEFINE Stays == \A p \in pool :
                 /\ Request(p) /\ table[p].state # "PENDING"
                 /\ table'[p] # table[p]
                 => \E w \in Workers : /\ session[w] # Idle
                                       /\ session[w].op # "action"
                                       /\ session[w].record = table'[p]
  <1>1. ASSUME IInv, [Next]_vars PROVE [Stays]_vars
    <2>. SUFFICES ASSUME NEW p \in pool, Request(p), table[p].state # "PENDING",
                         table'[p] # table[p]
                  PROVE  \E w \in Workers : /\ session[w] # Idle
                                            /\ session[w].op # "action"
                                            /\ session[w].record = table'[p]
      OBVIOUS
    <2>1. PICK w \in Workers : Commit(w)
      BY <1>1, CommitsWrite
    <2>2. /\ session[w] # Idle /\ Sound(w) /\ p \in PIDs
          /\ table'[session[w].pid] = session[w].record
          /\ p # session[w].pid => table'[p] = table[p]
      BY <1>1, <2>1, CommitWrites, PoolType DEF IInv
    <2>3. p = session[w].pid
      BY <2>2
    <2>4. session[w].op # "action"
      BY <2>2, <2>3 DEF Sound, Ready, Pending
    <2>. QED BY <2>2, <2>3, <2>4
  <1>. QED BY <1>1, Invariant, PTL DEF Spec, DecidedRequestsStay
=============================================================================
