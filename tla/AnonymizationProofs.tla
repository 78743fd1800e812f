------------------------ MODULE AnonymizationProofs ------------------------
(***************************************************************************)
(* Theorems about Anonymization, for any records and bounds.               *)
(***************************************************************************)
EXTENDS Anonymization, TLAPS

-----------------------------------------------------------------------------
(* Types.                                                                  *)

LEMMA NoChangesType == DOMAIN NoChanges = {}
  BY DEF NoChanges

LEMMA InitType == Init => TypeOK
  <1>. SUFFICES ASSUME Init PROVE TypeOK
    OBVIOUS
  <1>1. Absent \in Record
    BY DEF Absent, Record, States
  <1>2. table \in [Records -> Record] /\ index \in [Records -> Record]
    BY <1>1 DEF Init
  <1>3. /\ account \in BOOLEAN /\ entry \in BOOLEAN /\ logs \in BOOLEAN
        /\ late \in BOOLEAN /\ force \in BOOLEAN /\ lost \in BOOLEAN
    BY DEF Init
  <1>4. mails \in 0 .. MaxMails /\ failures \in 0 .. MaxFailures /\ puts \in 0 .. MaxPuts
    BY BoundsAssumption DEF Init
  <1>5. phase \in {"idle", "scan", "visit", "account", "index"} /\ kind \in Kinds
    BY DEF Init, Kinds
  <1>. QED
    BY <1>2, <1>3, <1>4, <1>5, NoChangesType DEF Init, TypeOK

\* What a commit of the command would make of the table.
LEMMA CommittedType == TypeOK => Committed \in [Records -> Record]
  BY DEF TypeOK, Committed

LEMMA AnonymizedType ==
    ASSUME TypeOK, NEW r \in Records
    PROVE  /\ Anonymized(r) \in Record
           /\ ~Anonymized(r).named
           /\ KindOf[r] = "loan" => Anonymized(r).state = "CLOSED"
  <1>1. table[r] \in Record
    BY DEF TypeOK
  <1>. QED BY <1>1 DEF Anonymized, Unnamed, Record, States

\* One more message, or none.
LEMMA TellType ==
    ASSUME TypeOK, NEW named, Tell(named)
    PROVE  mails' \in 0 .. MaxMails /\ (~account => mails' = mails)
  BY BoundsAssumption DEF TypeOK, Tell, PatronFound

LEMMA HandlersType == TypeOK /\ (Handlers \/ EndMail) => TypeOK'
  <1>. SUFFICES ASSUME TypeOK PROVE Handlers \/ EndMail => TypeOK'
    OBVIOUS
  <1>1. ASSUME NEW r \in Records, ValidateNew(r) PROVE TypeOK'
    BY <1>1 DEF ValidateNew, TypeOK, records, mailing, command
  <1>2. ASSUME NEW r \in Records, ValidatePut(r) PROVE TypeOK'
    BY <1>2, BoundsAssumption DEF ValidatePut, TypeOK, records, mailing, command
  <1>3. ASSUME NEW r \in Records, CommitSave(r) PROVE TypeOK'
    <2>1. mails' \in 0 .. MaxMails
      BY <1>3, TellType DEF CommitSave, TypeOK
    <2>2. table' \in [Records -> Record]
      <3>1. CASE table' = [table EXCEPT ![r].named = TRUE]
        BY <3>1 DEF TypeOK, Record
      <3>2. ASSUME NEW s \in {"OPEN", "ON_LOAN"},
                   table' = [table EXCEPT ![r] = [state |-> s, named |-> TRUE]]
            PROVE  table' \in [Records -> Record]
        BY <3>2 DEF TypeOK, Record, States
      <3>. QED BY <1>3, <3>1, <3>2 DEF CommitSave
    <2>. QED BY <1>3, <2>1, <2>2 DEF CommitSave, TypeOK, command
  <1>4. ASSUME NEW r \in Records, Checkout(r) PROVE TypeOK'
    <2>1. mails' \in 0 .. MaxMails
      BY <1>4, TellType DEF Checkout
    <2>2. table' \in [Records -> Record]
      BY <1>4 DEF Checkout, TypeOK, Record, States
    <2>. QED BY <1>4, <2>1, <2>2 DEF Checkout, TypeOK, command
  <1>5. ASSUME NEW r \in Records, Close(r) PROVE TypeOK'
    <2>1. mails' \in 0 .. MaxMails
      BY <1>5, TellType DEF Close
    <2>2. table' \in [Records -> Record]
      BY <1>5 DEF Close, TypeOK, Record, States
    <2>. QED BY <1>5, <2>1, <2>2 DEF Close, TypeOK, command
  <1>6. ASSUME NEW r \in Records, Remind(r) PROVE TypeOK'
    <2>1. mails' \in 0 .. MaxMails
      BY <1>6, TellType DEF Remind
    <2>. QED BY <1>6, <2>1 DEF Remind, TypeOK, records, command
  <1>7. CASE EndMail
    <2>1. logs' \in BOOLEAN
      BY <1>7 DEF EndMail, TypeOK
    <2>2. mails' \in 0 .. MaxMails
      BY <1>7, BoundsAssumption DEF EndMail, TypeOK
    <2>. QED BY <1>7, <2>1, <2>2 DEF EndMail, TypeOK, records, command
  <1>. QED
    BY <1>1, <1>2, <1>3, <1>4, <1>5, <1>6, <1>7 DEF Handlers

LEMMA RunType == TypeOK /\ Run => TypeOK'
  <1>. SUFFICES ASSUME TypeOK PROVE Run => TypeOK'
    OBVIOUS
  <1>1. CASE StartRun
    BY <1>1 DEF StartRun, TypeOK, records, mailing, Kinds
  <1>2. CASE Scan
    BY <1>2 DEF Scan, HitsOf, OfKind, TypeOK, records, mailing
  <1>3. ASSUME NEW r \in Records, Visit(r) PROVE TypeOK'
    <2>1. Anonymized(r) \in Record /\ Committed \in [Records -> Record]
      BY AnonymizedType, CommittedType
    <2>2. CASE CancelLoan(r)
      <3>1. mails' \in 0 .. MaxMails
        BY <2>2, TellType DEF CancelLoan
      <3>2. table' \in [Records -> Record]
        BY <2>2, <2>1 DEF CancelLoan, Record, States
      <3>3. /\ DOMAIN pending' \subseteq Records
            /\ \A s \in DOMAIN pending' : pending'[s] \in Record
        BY <2>2, <2>1 DEF CancelLoan, Stop, NoChanges
      <3>4. /\ phase' \in {"idle", "scan", "visit", "account", "index"}
            /\ kind' \in Kinds /\ force' \in BOOLEAN
            /\ hits' \subseteq Records /\ visited' \subseteq Records
            /\ phase' \in {"idle", "index"} => pending' = NoChanges
        BY <1>3, <2>2 DEF Visit, CancelLoan, Stop, TypeOK, Kinds
      <3>5. forming' \subseteq Records
        BY <2>2 DEF CancelLoan, TypeOK
      <3>. QED BY <1>3, <3>1, <3>2, <3>3, <3>4, <3>5 DEF Visit, TypeOK
    <2>3. CASE AnonymizeRecord(r)
      <3>1. /\ DOMAIN pending' \subseteq Records
            /\ \A s \in DOMAIN pending' : pending'[s] \in Record
        BY <2>3, <2>1 DEF AnonymizeRecord, TypeOK
      <3>. QED BY <1>3, <2>3, <3>1 DEF Visit, AnonymizeRecord, TypeOK
    <2>. QED BY <1>3, <2>2, <2>3 DEF Visit
  <1>4. CASE EndScan
    BY <1>4 DEF EndScan, Following, TypeOK, Kinds, records, mailing
  <1>5. CASE DeleteUserAccount
    <2>1. table' \in [Records -> Record]
      BY <1>5, CommittedType DEF DeleteUserAccount
    <2>2. logs' \in BOOLEAN /\ late' \in BOOLEAN
      <3>1. late' = (mails > 0)
        BY <1>5 DEF DeleteUserAccount
      <3>2. late' \in BOOLEAN
        BY <3>1
      <3>. QED BY <1>5, <3>2 DEF DeleteUserAccount
    <2>. QED
      BY <1>5, <2>1, <2>2, NoChangesType DEF DeleteUserAccount, TypeOK
  <1>6. ASSUME NEW r \in Records, IndexRecord(r) PROVE TypeOK'
    BY <1>6 DEF IndexRecord, TypeOK, mailing
  <1>7. CASE EndRun
    BY <1>7 DEF EndRun, TypeOK, Kinds, mailing
  <1>. QED
    BY <1>1, <1>2, <1>3, <1>4, <1>5, <1>6, <1>7 DEF Run

LEMMA NextType == TypeOK /\ [Next]_vars => TypeOK'
  <1>. SUFFICES ASSUME TypeOK, [Next]_vars PROVE TypeOK'
    OBVIOUS
  <1>1. CASE Fail
    <2>1. lost' \in BOOLEAN
      BY <1>1, Zenon DEF Fail, TypeOK
    <2>2. failures' \in 0 .. MaxFailures
      BY <1>1, BoundsAssumption DEF Fail, TypeOK
    <2>. QED
      BY <1>1, <2>1, <2>2, NoChangesType
         DEF Fail, Stop, TypeOK, Kinds, records, mailing
  <1>2. ASSUME NEW r \in Records, Refresh(r) PROVE TypeOK'
    BY <1>2 DEF Refresh, TypeOK, mailing, command
  <1>3. CASE UNCHANGED vars
    BY <1>3 DEF vars, TypeOK
  <1>. QED
    BY <1>1, <1>2, <1>3, RunType, HandlersType DEF Next

\* Every reachable state of records, messages and command has its type.
THEOREM TypeCorrect == Spec => []TypeOK
  BY InitType, NextType, PTL DEF Spec

-----------------------------------------------------------------------------
(* How far a run has come. What it has looked at and still names the       *)
(* patron, its own changes included, is among the hits it has not visited, *)
(* or was not there for it to find.                                        *)

Before(k) ==
    CASE k = "loan" -> {}
      [] k = "borrowing_request" -> {"loan"}
      [] k = "document_request" -> {"loan", "borrowing_request"}
      [] OTHER -> {"loan", "borrowing_request", "document_request"}

\* the kinds this run has searched for
Searched ==
    CASE phase = "idle" -> {}
      [] phase = "scan" -> Before(kind)
      [] phase = "visit" -> Before(kind) \cup {kind}
      [] OTHER -> Kinds

\* hits are of the kind at work, changes of kinds searched for
WithinSearched ==
    /\ hits # {} => phase = "visit"
    /\ \A r \in hits : KindOf[r] = kind
    /\ \A r \in DOMAIN pending : KindOf[r] \in Searched
    /\ \A r \in DOMAIN pending :
           KindOf[r] = "loan" => pending[r].state = "CLOSED"

FoundOrUnseen ==
    \A r \in Records :
        KindOf[r] \in Searched /\ Committed[r].named => r \in hits \cup unseen

\* after the commit no message is made any more
LogsLag ==
    phase = "index" => ~account /\ (logs \/ mails > 0 => late)

IInv == TypeOK /\ WithinSearched /\ FoundOrUnseen /\ LogsLag /\ AccountGoesLast

LEMMA InitInv == Init => IInv
  <1>. SUFFICES ASSUME Init PROVE IInv
    OBVIOUS
  <1>1. TypeOK
    BY InitType
  <1>2. WithinSearched /\ FoundOrUnseen
    BY NoChangesType DEF Init, WithinSearched, FoundOrUnseen, Searched
  <1>3. LogsLag /\ AccountGoesLast
    BY DEF Init, LogsLag, AccountGoesLast, Absent
  <1>. QED BY <1>1, <1>2, <1>3 DEF IInv

\* A handler changes one record, which the command has not changed.
OneRecord(r, record) ==
    /\ Writable(r)
    /\ record \in Record
    /\ table' = [table EXCEPT ![r] = record]
    /\ UNCHANGED <<phase, kind, hits, pending>>

LEMMA OneRecordCommitted ==
    ASSUME TypeOK, NEW r \in Records, NEW record, OneRecord(r, record)
    PROVE  \A s \in Records : Committed'[s] = IF s = r THEN record ELSE Committed[s]
  BY DEF TypeOK, Committed, OneRecord, Writable

\* It leaves the run where it is, if it names the patron in no record that did
\* not before, or in one that is noted.
LEMMA OneRecordSearched ==
    ASSUME IInv, NEW r \in Records, NEW record, OneRecord(r, record),
           unseen \subseteq unseen',
           record.named => table[r].named \/ r \in unseen'
    PROVE  WithinSearched' /\ FoundOrUnseen'
  <1>1. Searched' = Searched
    BY DEF OneRecord, Searched
  <1>2. WithinSearched'
    BY <1>1 DEF IInv, WithinSearched, OneRecord
  <1>3. Committed[r] = table[r]
    BY DEF IInv, TypeOK, Committed, OneRecord, Writable
  <1>4. FoundOrUnseen'
    <2>. SUFFICES ASSUME NEW s \in Records, KindOf[s] \in Searched,
                         Committed'[s].named
                  PROVE  s \in hits \cup unseen'
      BY <1>1 DEF FoundOrUnseen, OneRecord
    <2>1. CASE s = r
      BY <1>3, <2>1, OneRecordCommitted DEF IInv, FoundOrUnseen
    <2>2. CASE s # r
      BY <2>2, OneRecordCommitted DEF IInv, FoundOrUnseen
    <2>. QED BY <2>1, <2>2
  <1>. QED BY <1>2, <1>4

\* Nor does a step that changes no record.
LEMMA SameRecords ==
    ASSUME IInv, UNCHANGED <<table, phase, kind, hits, pending, unseen>>
    PROVE  WithinSearched' /\ FoundOrUnseen'
  <1>1. Searched' = Searched /\ Committed' = Committed
    BY DEF Searched, Committed
  <1>. QED BY <1>1 DEF IInv, WithinSearched, FoundOrUnseen

LEMMA SameLag ==
    ASSUME IInv, UNCHANGED <<account, phase, late>>,
           logs' => logs \/ mails > 0,
           ~account => (mails' > 0 => mails > 0)
    PROVE  LogsLag'
  BY DEF IInv, LogsLag

LEMMA SameAccount ==
    ASSUME IInv, UNCHANGED <<account, table>>
    PROVE  AccountGoesLast'
  BY DEF IInv, AccountGoesLast

LEMMA OneRecordAccount ==
    ASSUME IInv, UNCHANGED account, NEW r \in Records, NEW record,
           OneRecord(r, record),
           \/ record.named
           \/ KindOf[r] = "loan" /\ record.state = "CLOSED"
    PROVE  AccountGoesLast'
  BY DEF IInv, TypeOK, OneRecord, AccountGoesLast

LEMMA HandlersInv == IInv /\ TypeOK' /\ (Handlers \/ EndMail) => IInv'
  <1>. SUFFICES ASSUME IInv, TypeOK', Handlers \/ EndMail PROVE IInv'
    OBVIOUS
  <1>0. TypeOK /\ AccountGoesLast
    BY DEF IInv
  <1>1. ASSUME NEW r \in Records, ValidateNew(r) \/ ValidatePut(r) PROVE IInv'
    <2>1. UNCHANGED <<account, logs, mails, late, table, phase, kind, hits,
                      pending, unseen>>
      BY <1>1 DEF ValidateNew, ValidatePut, records, mailing, command
    <2>2. WithinSearched' /\ FoundOrUnseen' /\ AccountGoesLast'
      BY <2>1, SameRecords, SameAccount
    <2>3. LogsLag'
      BY <2>1, SameLag
    <2>. QED BY <2>2, <2>3 DEF IInv
  <1>2. ASSUME NEW r \in Records, CommitSave(r) PROVE IInv'
    <2>1. PICK named : Tell(named) \/ UNCHANGED mails
      BY <1>2 DEF CommitSave
    <2>2. LogsLag'
      BY <1>0, <1>2, <2>1, TellType, SameLag DEF CommitSave, command
    <2>3. PICK record \in Record :
              record.named /\ table' = [table EXCEPT ![r] = record]
      <3>1. CASE table' = [table EXCEPT ![r].named = TRUE]
        <4>1. table[r] \in Record
          BY <1>0 DEF TypeOK
        <4>2. /\ [table[r] EXCEPT !.named = TRUE] \in Record
              /\ [table[r] EXCEPT !.named = TRUE].named
          BY <4>1 DEF Record
        <4>. QED BY <1>0, <3>1, <4>2 DEF TypeOK
      <3>2. ASSUME NEW s \in {"OPEN", "ON_LOAN"},
                   table' = [table EXCEPT ![r] = [state |-> s, named |-> TRUE]]
            PROVE  \E record \in Record :
                       record.named /\ table' = [table EXCEPT ![r] = record]
        BY <3>2 DEF Record, States
      <3>. QED BY <1>2, <3>1, <3>2 DEF CommitSave
    <2>4. OneRecord(r, record)
      BY <1>2, <2>3 DEF CommitSave, OneRecord, command
    <2>5. WithinSearched' /\ FoundOrUnseen' /\ AccountGoesLast'
      BY <1>2, <2>3, <2>4, OneRecordSearched, OneRecordAccount DEF CommitSave
    <2>. QED BY <2>2, <2>5 DEF IInv
  <1>3. ASSUME NEW r \in Records, Checkout(r) \/ Close(r) PROVE IInv'
    <2>1. PICK named : Tell(named)
      BY <1>3 DEF Checkout, Close
    <2>2. LogsLag'
      BY <1>0, <1>3, <2>1, TellType, SameLag DEF Checkout, Close, command
    <2>3. PICK s \in {"ON_LOAN", "CLOSED"} :
              table' = [table EXCEPT ![r].state = s]
      BY <1>3 DEF Checkout, Close
    <2>. DEFINE record == [table[r] EXCEPT !.state = s]
    <2>4. record \in Record /\ record.named = table[r].named /\ record.state = s
      BY <1>0 DEF TypeOK, Record, States
    <2>5. table' = [table EXCEPT ![r] = record]
      BY <1>0, <2>3 DEF TypeOK
    <2>6. OneRecord(r, record)
      BY <1>3, <2>4, <2>5 DEF Checkout, Close, OneRecord, command
    <2>. HIDE DEF record
    <2>7. WithinSearched' /\ FoundOrUnseen'
      BY <1>3, <2>4, <2>6, OneRecordSearched DEF Checkout, Close
    <2>8. AccountGoesLast'
      <3>1. CASE ~account
        BY <1>3, <3>1 DEF AccountGoesLast, Checkout, Close
      <3>2. CASE account
        <4>1. table[r].named
          BY <1>0, <1>3, <3>2 DEF AccountGoesLast, Checkout, Close
        <4>. QED BY <1>3, <2>4, <2>6, <4>1, OneRecordAccount DEF Checkout, Close
      <3>. QED BY <3>1, <3>2
    <2>. QED BY <2>2, <2>7, <2>8 DEF IInv
  <1>4. ASSUME NEW r \in Records, Remind(r) PROVE IInv'
    <2>1. PICK named : Tell(named)
      BY <1>4 DEF Remind
    <2>2. LogsLag'
      BY <1>0, <1>4, <2>1, TellType, SameLag DEF Remind, records, command
    <2>3. WithinSearched' /\ FoundOrUnseen' /\ AccountGoesLast'
      BY <1>4, SameRecords, SameAccount DEF Remind, records, command
    <2>. QED BY <2>2, <2>3 DEF IInv
  <1>5. CASE EndMail
    <2>1. WithinSearched' /\ FoundOrUnseen' /\ AccountGoesLast'
      BY <1>5, SameRecords, SameAccount DEF EndMail, records, command
    <2>2. LogsLag'
      BY <1>0, <1>5, SameLag DEF EndMail, records, command, TypeOK
    <2>. QED BY <2>1, <2>2 DEF IInv
  <1>. QED BY <1>1, <1>2, <1>3, <1>4, <1>5 DEF Handlers

\* Where no run is under way nothing is searched for, found or changed.
LEMMA AtRest ==
    ASSUME phase' = "idle", hits' = {}, pending' = NoChanges
    PROVE  WithinSearched' /\ FoundOrUnseen' /\ LogsLag'
  BY NoChangesType DEF WithinSearched, FoundOrUnseen, Searched, LogsLag

\* What a cancellation commits while the account exists are loans that are over.
LEMMA CancelAccount ==
    ASSUME IInv, NEW r \in Records, phase = "visit", r \in hits, kind = "loan",
           CancelLoan(r), UNCHANGED account
    PROVE  AccountGoesLast'
  <1>1. KindOf[r] = "loan"
    BY DEF IInv, WithinSearched
  <1>2. \A s \in DOMAIN pending : KindOf[s] = "loan" /\ pending[s].state = "CLOSED"
    BY DEF IInv, WithinSearched, Searched, Before
  <1>3. table' = [Committed EXCEPT ![r].state = "CLOSED"]
    BY DEF CancelLoan
  <1>4. Committed \in [Records -> Record]
    BY CommittedType DEF IInv
  <1>. SUFFICES ASSUME account, NEW s \in Records,
                       table'[s].state # "NONE", ~table'[s].named
                PROVE  KindOf[s] = "loan" /\ table'[s].state = "CLOSED"
    BY DEF AccountGoesLast
  <1>5. CASE s = r
    BY <1>1, <1>3, <1>4, <1>5 DEF Record
  <1>6. CASE s # r
    <2>1. table'[s] = Committed[s]
      BY <1>3, <1>4, <1>6
    <2>. QED BY <1>2, <2>1 DEF IInv, AccountGoesLast, Committed
  <1>. QED BY <1>5, <1>6

LEMMA VisitInv ==
    ASSUME IInv, TypeOK', NEW r \in Records, Visit(r)
    PROVE  IInv'
  <1>1. /\ phase = "visit" /\ r \in hits /\ KindOf[r] = kind
        /\ KindOf[r] \in Searched
        /\ UNCHANGED <<account, logs, late, unseen>>
    BY DEF IInv, WithinSearched, Searched, Visit
  <1>2. Committed \in [Records -> Record]
    BY CommittedType DEF IInv
  <1>3. Anonymized(r) \in Record /\ ~Anonymized(r).named
        /\ (KindOf[r] = "loan" => Anonymized(r).state = "CLOSED")
    BY AnonymizedType DEF IInv
  <1>4. CASE kind = "loan" /\ CancelLoan(r)
    <2>1. AccountGoesLast'
      BY <1>1, <1>4, CancelAccount
    <2>2. CASE PatronFound
      <3>1. /\ pending' = [s \in {r} |-> Anonymized(r)] /\ hits' = hits \ {r}
            /\ UNCHANGED <<phase, kind>>
            /\ table' = [Committed EXCEPT ![r].state = "CLOSED"]
        BY <1>4, <2>2 DEF CancelLoan
      <3>2. Searched' = Searched
        BY <3>1 DEF Searched
      <3>3. WithinSearched'
        BY <1>1, <1>3, <3>1, <3>2 DEF IInv, WithinSearched
      <3>4. \A s \in Records :
                Committed'[s] = IF s = r THEN Anonymized(r) ELSE Committed[s]
        <4>1. \A s \in Records : Committed'[s] = IF s = r THEN Anonymized(r)
                                                 ELSE table'[s]
          BY <3>1 DEF Committed
        <4>2. \A s \in Records : s # r => table'[s] = Committed[s]
          BY <1>2, <3>1
        <4>. QED BY <4>1, <4>2
      <3>5. FoundOrUnseen'
        BY <1>1, <1>3, <3>1, <3>2, <3>4 DEF IInv, FoundOrUnseen
      <3>6. LogsLag'
        BY <1>1, <3>1 DEF LogsLag
      <3>. QED BY <2>1, <3>3, <3>5, <3>6 DEF IInv
    <2>3. CASE ~PatronFound
      <3>1. WithinSearched' /\ FoundOrUnseen' /\ LogsLag'
        BY <1>4, <2>3, AtRest DEF CancelLoan, Stop
      <3>. QED BY <2>1, <3>1 DEF IInv
    <2>. QED BY <2>2, <2>3
  <1>5. CASE AnonymizeRecord(r)
    <2>1. /\ pending' = [s \in DOMAIN pending \cup {r} |->
                            IF s = r THEN Anonymized(r) ELSE pending[s]]
          /\ hits' = hits \ {r}
          /\ UNCHANGED <<table, mails, phase, kind>>
      BY <1>5 DEF AnonymizeRecord
    <2>2. Searched' = Searched
      BY <2>1 DEF Searched
    <2>3. WithinSearched'
      BY <1>1, <1>3, <2>1, <2>2 DEF IInv, WithinSearched
    <2>4. \A s \in Records :
              Committed'[s] = IF s = r THEN Anonymized(r) ELSE Committed[s]
      BY <2>1 DEF Committed
    <2>5. FoundOrUnseen'
      BY <1>1, <1>3, <2>1, <2>2, <2>4 DEF IInv, FoundOrUnseen
    <2>6. LogsLag' /\ AccountGoesLast'
      BY <1>1, <2>1, SameAccount DEF LogsLag
    <2>. QED BY <2>3, <2>5, <2>6 DEF IInv
  <1>. QED BY <1>4, <1>5 DEF Visit

LEMMA ScanInv == IInv /\ TypeOK' /\ Scan => IInv'
  <1>. SUFFICES ASSUME IInv, TypeOK', Scan PROVE IInv'
    OBVIOUS
  <1>1. /\ phase = "scan" /\ phase' = "visit"
        /\ hits' = {r \in OfKind(kind) : index[r].named}
        /\ unseen' = (unseen \ OfKind(kind))
                     \cup {r \in OfKind(kind) : table[r].named /\ ~index[r].named}
        /\ UNCHANGED <<account, logs, mails, late, table, kind, pending>>
    BY DEF Scan, HitsOf, records, mailing
  <1>2. Searched = Before(kind) /\ Searched' = Before(kind) \cup {kind}
    BY <1>1 DEF Searched
  <1>3. kind \notin Before(kind)
    BY DEF Before
  <1>4. WithinSearched'
    BY <1>1, <1>2 DEF IInv, WithinSearched, OfKind
  <1>5. FoundOrUnseen'
    <2>. SUFFICES ASSUME NEW r \in Records, KindOf[r] \in Searched',
                         Committed[r].named
                  PROVE  r \in hits' \cup unseen'
      BY <1>1 DEF FoundOrUnseen, Committed
    <2>1. CASE KindOf[r] = kind
      <3>1. r \notin DOMAIN pending
        BY <1>2, <1>3, <2>1 DEF IInv, WithinSearched
      <3>2. table[r].named
        BY <3>1 DEF Committed
      <3>. QED BY <1>1, <2>1, <3>2 DEF OfKind
    <2>2. CASE KindOf[r] # kind
      <3>1. r \in unseen
        BY <1>1, <1>2, <2>2 DEF IInv, FoundOrUnseen, WithinSearched
      <3>. QED BY <1>1, <2>2, <3>1 DEF OfKind
    <2>. QED BY <2>1, <2>2
  <1>6. LogsLag' /\ AccountGoesLast'
    BY <1>1, SameAccount DEF LogsLag
  <1>. QED BY <1>4, <1>5, <1>6 DEF IInv

LEMMA RunInv == IInv /\ TypeOK' /\ Run => IInv'
  <1>. SUFFICES ASSUME IInv, TypeOK', Run PROVE IInv'
    OBVIOUS
  <1>1. CASE StartRun
    <2>1. /\ phase = "idle" /\ phase' = "scan" /\ kind' = "loan"
          /\ UNCHANGED <<account, table, hits, pending, unseen>>
      BY <1>1 DEF StartRun, records
    <2>2. Searched' = {}
      BY <2>1 DEF Searched, Before
    <2>3. hits = {} /\ DOMAIN pending = {}
      BY <2>1, NoChangesType DEF IInv, WithinSearched, TypeOK
    <2>4. WithinSearched' /\ FoundOrUnseen'
      BY <2>1, <2>2, <2>3 DEF WithinSearched, FoundOrUnseen
    <2>5. LogsLag' /\ AccountGoesLast'
      BY <2>1, SameAccount DEF LogsLag
    <2>. QED BY <2>4, <2>5 DEF IInv
  <1>2. CASE Scan
    BY <1>2, ScanInv
  <1>3. ASSUME NEW r \in Records, Visit(r) PROVE IInv'
    BY <1>3, VisitInv
  <1>4. CASE EndScan
    <2>1. /\ phase = "visit" /\ hits = {}
          /\ phase' = IF kind = "order" THEN "account" ELSE "scan"
          /\ kind' = Following(kind)
          /\ UNCHANGED <<account, table, hits, pending, unseen>>
      BY <1>4 DEF EndScan, records
    <2>2. Searched' = Searched
      BY <2>1 DEF IInv, TypeOK, Searched, Before, Following, Kinds
    <2>3. WithinSearched'
      BY <2>1, <2>2 DEF IInv, WithinSearched
    <2>4. FoundOrUnseen'
      BY <2>1, <2>2 DEF IInv, FoundOrUnseen, Committed
    <2>5. LogsLag' /\ AccountGoesLast'
      BY <2>1, SameAccount DEF LogsLag
    <2>. QED BY <2>3, <2>4, <2>5 DEF IInv
  <1>5. CASE DeleteUserAccount
    <2>1. /\ phase = "account" /\ phase' = "index"
          /\ account' = FALSE /\ logs' = FALSE /\ late' = (mails > 0)
          /\ table' = Committed /\ pending' = NoChanges
          /\ UNCHANGED <<mails, hits, unseen>>
      BY <1>5 DEF DeleteUserAccount
    <2>2. Searched' = Searched
      BY <2>1 DEF Searched
    <2>3. WithinSearched'
      BY <2>1, NoChangesType DEF IInv, WithinSearched
    <2>4. \A r \in Records : Committed'[r] = Committed[r]
      BY <2>1, NoChangesType DEF Committed
    <2>5. FoundOrUnseen'
      BY <2>1, <2>2, <2>4 DEF IInv, FoundOrUnseen
    <2>6. LogsLag' /\ AccountGoesLast'
      BY <2>1 DEF LogsLag, AccountGoesLast
    <2>. QED BY <2>3, <2>5, <2>6 DEF IInv
  <1>6. ASSUME NEW r \in Records, IndexRecord(r) PROVE IInv'
    <2>1. WithinSearched' /\ FoundOrUnseen' /\ AccountGoesLast'
      BY <1>6, SameRecords, SameAccount DEF IndexRecord
    <2>2. LogsLag'
      BY <1>6, SameLag DEF IndexRecord, mailing
    <2>. QED BY <2>1, <2>2 DEF IInv
  <1>7. CASE EndRun
    <2>1. hits = {} /\ pending = NoChanges
      BY <1>7 DEF EndRun, IInv, WithinSearched, TypeOK
    <2>2. WithinSearched' /\ FoundOrUnseen' /\ LogsLag'
      BY <1>7, <2>1, AtRest DEF EndRun
    <2>3. AccountGoesLast'
      BY <1>7, SameAccount DEF EndRun
    <2>. QED BY <2>2, <2>3 DEF IInv
  <1>. QED
    BY <1>1, <1>2, <1>3, <1>4, <1>5, <1>6, <1>7 DEF Run

LEMMA NextInv == IInv /\ [Next]_vars => IInv'
  <1>. SUFFICES ASSUME IInv, [Next]_vars PROVE IInv'
    OBVIOUS
  <1>0. TypeOK'
    BY NextType DEF IInv
  <1>1. CASE Fail
    <2>1. WithinSearched' /\ FoundOrUnseen' /\ LogsLag'
      BY <1>1, AtRest DEF Fail, Stop
    <2>2. AccountGoesLast'
      BY <1>1, SameAccount DEF Fail, records
    <2>. QED BY <1>0, <2>1, <2>2 DEF IInv
  <1>2. ASSUME NEW r \in Records, Refresh(r) PROVE IInv'
    <2>1. WithinSearched' /\ FoundOrUnseen' /\ AccountGoesLast'
      BY <1>2, SameRecords, SameAccount DEF Refresh, command
    <2>2. LogsLag'
      BY <1>2, SameLag DEF Refresh, mailing, command
    <2>. QED BY <1>0, <2>1, <2>2 DEF IInv
  <1>3. CASE UNCHANGED vars
    <2>1. WithinSearched' /\ FoundOrUnseen' /\ AccountGoesLast'
      BY <1>3, SameRecords, SameAccount DEF vars
    <2>2. LogsLag'
      BY <1>3, SameLag DEF vars
    <2>. QED BY <1>0, <2>1, <2>2 DEF IInv
  <1>. QED
    BY <1>0, <1>1, <1>2, <1>3, RunInv, HandlersInv DEF Next

LEMMA InvHolds == Spec => []IInv
  BY InitInv, NextInv, PTL DEF Spec

\* While the account exists, what a run that was stopped has made anonymous
\* are loans that are over.
THEOREM AccountLast == Spec => []AccountGoesLast
  <1>1. IInv => AccountGoesLast
    BY DEF IInv
  <1>. QED BY <1>1, InvHolds, PTL

\* After its commit a run has missed only what the index did not show it, or
\* was saved meanwhile, and the messages that were under way.
THEOREM OnlyLagRemains == Spec => []LeftOnlyByLag
  <1>1. IInv => LeftOnlyByLag
    <2>. SUFFICES ASSUME IInv, phase = "index"
                  PROVE  /\ \A r \in Records : table[r].named => r \in unseen
                         /\ logs => late
      BY DEF LeftOnlyByLag
    <2>1. Searched = Kinds /\ hits = {} /\ DOMAIN pending = {}
      BY NoChangesType DEF IInv, TypeOK, WithinSearched, Searched
    <2>2. \A r \in Records : table[r].named => r \in unseen
      BY <2>1, KindOfAssumption DEF IInv, FoundOrUnseen, Committed
    <2>. QED BY <2>2 DEF IInv, LogsLag
  <1>. QED BY <1>1, InvHolds, PTL
=============================================================================
