--------------------------- MODULE Anonymization ---------------------------
(***************************************************************************)
(* Forgetting one patron (patrons/anonymization.py), while handlers go on  *)
(* making and changing records that name the patron.                       *)
(*                                                                         *)
(* The command finds the records by searches, changes them in one          *)
(* transaction, and indexes them after its commit.  But cancelling a loan  *)
(* goes through circulation, which commits: what was changed until then    *)
(* stays, whatever happens to the rest of the run.                         *)
(*                                                                         *)
(* Changes of records are told to their patrons: a message is made from    *)
(* the patron's account, sent by a task, and logged by another when that   *)
(* one has ended, which may be after the logs were cleared.                *)
(***************************************************************************)
EXTENDS Naturals

CONSTANTS
    Records,      \* PIDs of the records that may name the patron
    KindOf,       \* [Records -> Kinds]
    MaxFailures,  \* bound: runs of the command that fail
    MaxPuts,      \* bound: forms, opened earlier, that are sent in later
    MaxMails      \* bound: messages to the patron under way, told apart

\* in the order in which the command goes through them
Kinds == {"loan", "borrowing_request", "document_request", "order"}

ASSUME KindOfAssumption == KindOf \in [Records -> Kinds]
ASSUME BoundsAssumption == MaxFailures \in Nat /\ MaxPuts \in Nat /\ MaxMails \in Nat

VARIABLES
    account,    \* whether the patron's account exists
    logs,       \* whether the notification logs name the patron
    mails,      \* messages to the patron that are sent and not logged yet
    entry,      \* whether the patrons index has an entry for the patron
    table,      \* the records in the database
    index,      \* what searches find
    forming,    \* saves that passed validation and are not committed yet
    phase,      \* where the command is
    kind,       \* the kind of records it is at
    force,      \* whether this run was made without an account
    hits,       \* records found and not visited yet
    pending,    \* the transaction: records changed and not committed yet
    visited,    \* records to be indexed after the commit
    failures, puts,      \* counters of the bounds
    lost,       \* history: a run failed between its commit and its end
    late,       \* history: messages were under way when logs were cleared
    unseen      \* history: records named the patron behind the index's back

vars == <<account, logs, mails, entry, table, index, forming, phase, kind,
          force, hits, pending, visited, failures, puts, lost, late, unseen>>

records == <<account, entry, table, index>>
mailing == <<logs, mails, late>>
command == <<phase, kind, force, hits, pending, visited>>

-----------------------------------------------------------------------------
(* Records.                                                                *)

\* CLOSED: a loan cancelled or returned, a request accepted or declined, an
\* order received or cancelled; borrowing requests are OPEN throughout
States == {"NONE", "OPEN", "ON_LOAN", "CLOSED"}

\* named: whether patron_pid is the patron's
Record == [state: States, named: BOOLEAN]

Absent == [state |-> "NONE", named |-> FALSE]

OfKind(k) == {r \in Records : KindOf[r] = k}

Unnamed(r) == [table[r] EXCEPT !.named = FALSE]

\* what the command makes of a record it has read
Anonymized(r) ==
    IF KindOf[r] \in {"loan", "document_request"}
    THEN [state |-> "CLOSED", named |-> FALSE]
    ELSE Unnamed(r)

\* rows the command has changed are locked until its next commit
Writable(r) == r \notin DOMAIN pending

Committed == [r \in Records |-> IF r \in DOMAIN pending THEN pending[r]
                                ELSE table[r]]

NoChanges == [r \in {} |-> Absent]

-----------------------------------------------------------------------------
Init ==
    /\ account = TRUE /\ entry = TRUE
    /\ logs = FALSE /\ mails = 0
    /\ table = [r \in Records |-> Absent]
    /\ index = table
    /\ forming = {}
    /\ phase = "idle" /\ kind = "loan" /\ force = FALSE
    /\ hits = {} /\ pending = NoChanges /\ visited = {}
    /\ failures = 0 /\ puts = 0
    /\ lost = FALSE /\ late = FALSE /\ unseen = {}

-----------------------------------------------------------------------------
(* Messages.                                                               *)

\* Patron.get_patron, of which build_common_msg_ctx makes a message: without
\* the account it raises, after the commit of what was to be told
PatronFound == account

\* send_notification: one more task
Tell(named) ==
    mails' = IF PatronFound /\ named /\ mails < MaxMails THEN mails + 1
             ELSE mails

\* send, the task, has sent the message or failed to: log_successful_notification
\* or log_error_notification makes a row. Or a worker dies, and there is none.
EndMail ==
    /\ mails > 0
    /\ mails' = mails - 1
    /\ logs' \in {logs, TRUE}
    /\ UNCHANGED <<records, late, forming, command, failures, puts, lost, unseen>>

\* Messages that go with no change of state: an extension of a loan, asked for,
\* accepted, declined or moved by hand, and the reminders, whose loans and
\* patrons are those of the index.
Remind(r) ==
    /\ \E at \in {table[r], index[r]} :
           /\ <<KindOf[r], at.state>> \in
                  {<<"loan", "ON_LOAN">>, <<"borrowing_request", "OPEN">>}
           /\ Tell(at.named)
    /\ UNCHANGED <<records, logs, late, forming, command, failures, puts, lost,
                   unseen>>

-----------------------------------------------------------------------------
(* Handlers.                                                               *)

\* The validators of loans, orders and borrowing requests want the patron to
\* exist; document requests are made by the patron, logged in.
ValidateNew(r) ==
    /\ table[r] = Absent /\ account
    /\ r \notin forming
    /\ forming' = forming \cup {r}
    /\ UNCHANGED <<records, mailing, command, failures, puts, lost, unseen>>

\* A PUT whose form was filled in before the record was anonymized. Nobody
\* asks whether the patron of a document request exists.
ValidatePut(r) ==
    /\ puts < MaxPuts
    /\ table[r].state # "NONE" /\ ~table[r].named
    /\ KindOf[r] # "loan"
    /\ account \/ KindOf[r] = "document_request"
    /\ r \notin forming
    /\ forming' = forming \cup {r}
    /\ puts' = puts + 1
    /\ UNCHANGED <<records, mailing, command, failures, lost, unseen>>

\* its commit; a loan may be made by a checkout
CommitSave(r) ==
    /\ r \in forming /\ Writable(r)
    /\ \/ /\ table[r] # Absent
          /\ table' = [table EXCEPT ![r].named = TRUE]
          /\ UNCHANGED mails
       \/ /\ table[r] = Absent
          /\ Tell(KindOf[r] = "loan")
          /\ \E s \in {"OPEN"} \cup (IF KindOf[r] = "loan" THEN {"ON_LOAN"}
                                     ELSE {}) :
                 table' = [table EXCEPT ![r] = [state |-> s, named |-> TRUE]]
    /\ forming' = forming \ {r}
    /\ unseen' = unseen \cup {r}
    /\ UNCHANGED <<account, logs, late, entry, index, command, failures, puts,
                   lost>>

Checkout(r) ==
    /\ KindOf[r] = "loan" /\ table[r].state = "OPEN" /\ Writable(r)
    /\ table' = [table EXCEPT ![r].state = "ON_LOAN"]
    /\ Tell(table[r].named)
    /\ UNCHANGED <<account, logs, late, entry, index, forming, command, failures,
                   puts, lost, unseen>>

\* a loan is returned or cancelled, a document request decided on, an order
\* received or cancelled, of which nobody is told
Close(r) ==
    /\ KindOf[r] # "borrowing_request"
    /\ table[r].state \in {"OPEN", "ON_LOAN"} /\ Writable(r)
    /\ table' = [table EXCEPT ![r].state = "CLOSED"]
    /\ forming' = forming \ {r}
    /\ Tell(table[r].named /\ KindOf[r] # "order")
    /\ UNCHANGED <<account, logs, late, entry, index, command, failures,
                   puts, lost, unseen>>

Refresh(r) ==
    /\ index[r] # table[r]
    /\ index' = [index EXCEPT ![r] = table[r]]
    /\ UNCHANGED <<account, mailing, entry, table, forming, command, failures,
                   puts, lost, unseen>>

-----------------------------------------------------------------------------
(* The command.                                                            *)

Stop ==
    /\ pending' = NoChanges /\ hits' = {} /\ visited' = {}
    /\ phase' = "idle" /\ kind' = "loan" /\ force' = FALSE

\* the counts of active loans and of ongoing orders, in the index
Blocking(r) ==
    /\ index[r].named
    /\ \/ KindOf[r] = "loan" /\ index[r].state = "ON_LOAN"
       \/ KindOf[r] = "order" /\ index[r].state = "OPEN"

\* Without an account a run is refused, unless it is forced.
StartRun ==
    /\ phase = "idle"
    /\ \A r \in Records : ~Blocking(r)
    /\ phase' = "scan" /\ kind' = "loan" /\ force' = ~account
    /\ UNCHANGED <<records, mailing, forming, hits, pending, visited, failures, puts,
                   lost, unseen>>

\* mutant: the searches find the records that are open
OpenHits(k) == {r \in OfKind(k) : index[r].named /\ index[r].state # "CLOSED"}

HitsOf(k) == {r \in OfKind(k) : index[r].named}

\* the scan over one kind of records begins
Scan ==
    /\ phase = "scan"
    /\ hits' = HitsOf(kind)
    /\ phase' = "visit"
    /\ unseen' = (unseen \ OfKind(kind))
                 \cup {r \in OfKind(kind) : table[r].named /\ ~index[r].named}
    /\ UNCHANGED <<records, mailing, forming, kind, force, pending, visited, failures,
                   puts, lost>>

\* A loan that is not over is cancelled by circulation, which commits all that
\* was changed so far, tells the patron, and then loses its patron. Without an
\* account there is nobody to tell, and the run ends there.
CancelLoan(r) ==
    /\ table' = [Committed EXCEPT ![r].state = "CLOSED"]
    /\ forming' = forming \ DOMAIN pending
    /\ Tell(table[r].named)
    /\ IF PatronFound
       THEN /\ pending' = [s \in {r} |-> Anonymized(r)]
            /\ hits' = hits \ {r}
            /\ visited' = visited \cup {r}
            /\ UNCHANGED <<phase, kind, force>>
       ELSE Stop

AnonymizeRecord(r) ==
    /\ pending' = [s \in DOMAIN pending \cup {r} |->
                      IF s = r THEN Anonymized(r) ELSE pending[s]]
    /\ hits' = hits \ {r}
    /\ visited' = visited \cup {r}
    /\ UNCHANGED <<table, mails, forming, phase, kind, force>>

\* the loop's body
Visit(r) ==
    /\ phase = "visit" /\ r \in hits
    /\ IF kind = "loan" /\ table[r].state # "CLOSED"
       THEN CancelLoan(r) ELSE AnonymizeRecord(r)
    /\ UNCHANGED <<account, logs, late, entry, index, failures, puts, lost,
                   unseen>>

Following(k) ==
    CASE k = "loan" -> "borrowing_request"
      [] k = "borrowing_request" -> "document_request"
      [] OTHER -> "order"

\* mutant: each kind of records is committed for itself
EndScanAndCommit ==
    /\ phase = "visit" /\ hits = {}
    /\ phase' = IF kind = "order" THEN "account" ELSE "scan"
    /\ kind' = Following(kind)
    /\ table' = Committed /\ pending' = NoChanges
    /\ forming' = forming \ DOMAIN pending
    /\ UNCHANGED <<account, mailing, entry, index, force, hits, visited, failures,
                   puts, lost, unseen>>

EndScan ==
    /\ phase = "visit" /\ hits = {}
    /\ phase' = IF kind = "order" THEN "account" ELSE "scan"
    /\ kind' = Following(kind)
    /\ UNCHANGED <<records, mailing, forming, force, hits, pending, visited, failures,
                   puts, lost, unseen>>

\* delete_user_account and anonymize_patron_in_notification_logs, whose commit
\* is the one of the whole transaction
DeleteUserAccount ==
    /\ phase = "account"
    /\ account' = FALSE /\ logs' = FALSE /\ late' = (mails > 0)
    /\ table' = Committed /\ pending' = NoChanges
    /\ forming' = forming \ DOMAIN pending
    /\ phase' = "index"
    /\ UNCHANGED <<mails, entry, index, kind, force, hits, visited, failures, puts,
                   lost, unseen>>

IndexRecord(r) ==
    /\ phase = "index" /\ r \in visited
    /\ index' = [index EXCEPT ![r] = table[r]]
    /\ visited' = visited \ {r}
    /\ UNCHANGED <<account, mailing, entry, table, forming, phase, kind, force,
                   hits, pending, failures, puts, lost, unseen>>

\* the patron's own entry, if the run found the patron
EndRun ==
    /\ phase = "index" /\ visited = {}
    /\ entry' = (entry /\ force)
    /\ phase' = "idle" /\ kind' = "loan" /\ force' = FALSE
    /\ UNCHANGED <<account, mailing, table, index, forming, hits, pending,
                   visited, failures, puts, lost, unseen>>

\* An error, a conflict with another handler, or a crash.
Fail ==
    /\ phase # "idle" /\ failures < MaxFailures
    /\ failures' = failures + 1
    /\ Stop
    /\ lost' = (lost \/ phase = "index")
    /\ UNCHANGED <<records, mailing, forming, puts, unseen>>

-----------------------------------------------------------------------------
Run ==
    \/ StartRun
    \/ Scan
    \/ \E r \in Records : Visit(r)
    \/ EndScan
    \/ DeleteUserAccount
    \/ \E r \in Records : IndexRecord(r)
    \/ EndRun

Handlers ==
    \E r \in Records :
        \/ ValidateNew(r)
        \/ ValidatePut(r)
        \/ CommitSave(r)
        \/ Checkout(r)
        \/ Close(r)
        \/ Remind(r)

Next == Run \/ Fail \/ Handlers \/ EndMail \/ \E r \in Records : Refresh(r)

Spec == Init /\ [][Next]_vars

\* The operator makes forced runs until nothing is found; a run that does not
\* fail goes on; the search engine refreshes its indexes; a handler that has
\* validated its record commits.
Fairness ==
    /\ WF_vars(Run)
    /\ \A r \in Records : WF_vars(Refresh(r)) /\ WF_vars(CommitSave(r))

FairSpec == Spec /\ Fairness

-----------------------------------------------------------------------------
(* Properties.                                                             *)

TypeOK ==
    /\ account \in BOOLEAN /\ entry \in BOOLEAN
    /\ logs \in BOOLEAN /\ mails \in 0 .. MaxMails /\ late \in BOOLEAN
    /\ table \in [Records -> Record]
    /\ index \in [Records -> Record]
    /\ forming \subseteq Records
    /\ phase \in {"idle", "scan", "visit", "account", "index"}
    /\ kind \in Kinds
    /\ force \in BOOLEAN
    /\ hits \subseteq Records /\ visited \subseteq Records
    /\ DOMAIN pending \subseteq Records
    /\ \A r \in DOMAIN pending : pending[r] \in Record
    /\ phase \in {"idle", "index"} => pending = NoChanges
    /\ failures \in 0 .. MaxFailures /\ puts \in 0 .. MaxPuts
    /\ lost \in BOOLEAN /\ unseen \subseteq Records

\* While the account exists nothing is anonymous but loans that are over:
\* wherever a run stops, what its cancellations committed on the way is no
\* request, no order, and no loan somebody still holds.
AccountGoesLast ==
    account =>
        \A r \in Records :
            table[r].state # "NONE" /\ ~table[r].named =>
                KindOf[r] = "loan" /\ table[r].state = "CLOSED"

\* What still names the patron after a run's commit was not in the index when
\* the run looked for its kind, or was saved since; the logs do only if a
\* message was under way when they were cleared.
LeftOnlyByLag ==
    phase = "index" =>
        /\ \A r \in Records : table[r].named => r \in unseen
        /\ logs => late

\* The patron's own entry stays for good when the run that deleted the account
\* died before its end: no later run takes it away.
Forgotten ==
    /\ \A r \in Records : ~table[r].named /\ ~index[r].named
    /\ ~logs
    /\ entry => lost

\* Once the account is gone, runs made again and again forget the patron in
\* the table, in the index and in the logs, also after failures, lost index
\* updates and messages logged late, unless a loan or an order that slipped in
\* makes the run refuse.
EventuallyForgotten ==
    ~account ~> (Forgotten \/ \E r \in Records : Blocking(r))
=============================================================================
