-------------------------- MODULE SiblingsRelation --------------------------
(***************************************************************************)
(* The sibling relations (language, edition, other) of one type between    *)
(* documents or series: relations/api.py SiblingsRelation and the parts of *)
(* records_relations that call it.                                         *)
(*                                                                         *)
(* A group of siblings is stored as a star: a row (parent, child) per      *)
(* member but one, the parent elected at random. Each request reads the    *)
(* rows and the two records, then writes what it made of them; other       *)
(* requests may commit in between, for nothing in the table says which     *)
(* rows belong together.                                                   *)
(***************************************************************************)
EXTENDS FiniteSets

CONSTANTS
    Pids,       \* the PIDs of the records
    Allowed,    \* the pairs _validate_relation_between_records accepts
    NoteGiven,  \* bound: whether requests carry a note, {FALSE} or BOOLEAN
    Workers,    \* the web workers, one request at a time each
    None        \* no PID

ASSUME AllowedAssumption == Allowed \subseteq Pids \X Pids
ASSUME NoteGivenAssumption == NoteGiven \subseteq BOOLEAN
ASSUME NoPidAssumption == None \notin Pids

VARIABLES
    rows,    \* the PIDRelation rows of the type: pairs <<parent, child>>
    notes,   \* relations_extra_metadata: the PIDs each record has a note on
    session  \* what each worker was asked for, and the rows and notes it read

vars == <<rows, notes, session>>

-----------------------------------------------------------------------------
(* Queries, of any set R of rows.                                          *)

RowsOf(R, p) == {r \in R : p \in {r[1], r[2]}}

RowsUnder(R, p) == {r \in R : r[1] = p}

Ends(R) == {r[1] : r \in R} \cup {r[2] : r \in R}

\* mutant: a child does not answer for its parent's other children
DirectRelationsOf(R, p) == {RowsOf(R, p)}

\* get_any_relation_of: what it may answer. The code looks at whichever row
\* of the PID the database returns first.
AnyRelationOf(R, p) ==
    IF RowsOf(R, p) = {}
    THEN {{}}
    ELSE {IF r[1] = p THEN RowsOf(R, p) ELSE RowsUnder(R, r[1]) :
             r \in RowsOf(R, p)}

AnyRelationOfBoth(R, p, q) ==
    UNION {{A \cup B : B \in AnyRelationOf(R, q)} : A \in AnyRelationOf(R, p)}

\* all, and the PID itself
GroupOf(R, p) == {p} \cup UNION {Ends(A) : A \in AnyRelationOf(R, p)}

RelationExists(R, p, q) == <<p, q>> \in R \/ <<q, p>> \in R

-----------------------------------------------------------------------------
(* What add and remove make of the rows R: the possible plans, each the    *)
(* rows to delete and the rows to create.                                  *)

Star(p, members) == {<<p, c>> : c \in members \ {p}}

Nothing == [delete |-> {}, create |-> {}]

\* _recreate_relations_with_random_parent
Recreate(old, members) ==
    {[delete |-> old, create |-> Star(p, members)] : p \in members}

\* mutant: the two are related, their siblings left behind
AddPlansForTwo(R, p, q) ==
    UNION {Recreate(A, {p, q}) : A \in AnyRelationOfBoth(R, p, q)}

AddPlans(R, p, q) ==
    IF RowsOf(R, p) = {} /\ RowsOf(R, q) = {}
    THEN {[delete |-> {}, create |-> {<<p, q>>}]}
    ELSE IF RelationExists(R, p, q)
    THEN {Nothing}
    ELSE UNION {Recreate(A, Ends(A) \cup {p, q}) :
                   A \in AnyRelationOfBoth(R, p, q)}

\* mutant: the group is not put together again
DisbandPlansFor(A, p) == {[delete |-> A, create |-> {}]}

RemovePlansFor(A, p) ==
    IF A = {}
    THEN {Nothing}
    ELSE IF \E r \in A : A = {r}
    THEN {[delete |-> A, create |-> {}]}
    ELSE Recreate(A, Ends(A) \ {p})

RemovePlans(R, p) == UNION {RemovePlansFor(A, p) : A \in AnyRelationOf(R, p)}

-----------------------------------------------------------------------------
Idle == [op |-> "idle", first |-> None, second |-> None, note |-> FALSE,
         rows |-> {}, notes |-> [p \in Pids |-> {}]]

Session ==
    [op: {"idle", "add", "remove"}, first: Pids \cup {None},
     second: Pids \cup {None}, note: BOOLEAN, rows: SUBSET (Pids \X Pids),
     notes: [Pids -> SUBSET Pids]]

Init ==
    /\ rows = {}
    /\ notes = [p \in Pids |-> {}]
    /\ session = [w \in Workers |-> Idle]

Begin(w, op, first, second, note) ==
    /\ session[w] = Idle
    /\ session' = [session EXCEPT ![w] =
           [op |-> op, first |-> first, second |-> second, note |-> note,
            rows |-> rows,
            notes |-> [p \in Pids |->
                          IF p \in {first, second} THEN notes[p] ELSE {}]]]
    /\ UNCHANGED <<rows, notes>>

\* POST relations on the first record: never with itself.
CreateSiblingRelation(w, first, second, note) ==
    /\ first # second
    /\ <<first, second>> \in Allowed
    /\ Begin(w, "add", first, second, note)

\* DELETE relations on the first record: whether it is related to the second
\* is not asked.
DeleteSiblingRelation(w, first, second) ==
    Begin(w, "remove", first, second, FALSE)

\* A row to create that another request has committed meanwhile violates the
\* primary key and the request fails; a row to delete that is gone does not.
WriteRows(plan) ==
    /\ plan.create \cap (rows \ plan.delete) = {}
    /\ rows' = (rows \ plan.delete) \cup plan.create

\* A record is written only if its notes differ from what was read, and only
\* over the version that was read.
WriteNotes(read, wanted) ==
    LET changed == {p \in Pids : wanted[p] # read[p]}
    IN /\ \A p \in changed : notes[p] = read[p]
       /\ notes' = [p \in Pids |-> IF p \in changed THEN wanted[p] ELSE notes[p]]

\* mutant: the new note takes the place of the others
NoteReplaced(s) ==
    IF s.note THEN [s.notes EXCEPT ![s.first] = {s.second}] ELSE s.notes

\* add_extra_metadata_to, if the request has a note
NoteAdded(s) ==
    IF s.note THEN [s.notes EXCEPT ![s.first] = @ \cup {s.second}] ELSE s.notes

\* RecordRelationsSiblings.add: the relation and, in the first record, the
\* note on the second; a second note is an error that undoes the relation too.
CommitAdd(w) ==
    LET s == session[w] IN
    /\ s.op = "add"
    /\ \E plan \in AddPlans(s.rows, s.first, s.second) : WriteRows(plan)
    /\ s.note => s.second \notin s.notes[s.first]
    /\ WriteNotes(s.notes, NoteAdded(s))
    /\ session' = [session EXCEPT ![w] = Idle]

\* RecordRelationsSiblings.remove: the second leaves its group, and the two
\* records forget their notes on each other.
CommitRemove(w) ==
    LET s == session[w] IN
    /\ s.op = "remove"
    /\ \E plan \in RemovePlans(s.rows, s.second) : WriteRows(plan)
    /\ WriteNotes(s.notes,
           [s.notes EXCEPT ![s.first] = @ \ {s.second},
                           ![s.second] = @ \ {s.first}])
    /\ session' = [session EXCEPT ![w] = Idle]

\* an error: a second note, a row another request created, a record another
\* request wrote, a worker killed
Rollback(w) ==
    /\ session[w] # Idle
    /\ session' = [session EXCEPT ![w] = Idle]
    /\ UNCHANGED <<rows, notes>>

Start ==
    \E w \in Workers, first, second \in Pids :
        \/ \E note \in NoteGiven : CreateSiblingRelation(w, first, second, note)
        \/ DeleteSiblingRelation(w, first, second)

Finish == \E w \in Workers : CommitAdd(w) \/ CommitRemove(w) \/ Rollback(w)

Next == Start \/ Finish

Spec == Init /\ [][Next]_vars

\* One request at a time.
SerialNext == (Start /\ \A w \in Workers : session[w] = Idle) \/ Finish

SerialSpec == Init /\ [][SerialNext]_vars

-----------------------------------------------------------------------------
(* Properties.                                                             *)

TypeOK ==
    /\ rows \subseteq Pids \X Pids
    /\ notes \in [Pids -> SUBSET Pids]
    /\ session \in [Workers -> Session]

\* a parent is nobody's child, and a child has one parent
IsStarForest(R) ==
    \A r, s \in R : /\ r[1] # s[2]
                    /\ r[2] = s[2] => r = s

\* "There should be only one possible relation for this PID": each record is
\* in one star, which is what makes the first row get_any_relation_of looks
\* at as good as any.
StarForest == IsStarForest(rows)

\* The rows keep to the groups: adding joins the two groups whole, removing
\* takes out the one record and leaves the others together.
Groups == INSTANCE SiblingGroups WITH
              group <- [p \in Pids |-> GroupOf(rows, p)]

ImplementsGroups == Groups!Spec

\* Adding never separates anybody, whatever it races with: the two ends of
\* each row it deletes are under one parent again when it has committed.
AddKeepsTogether ==
    [][\A w \in Workers :
          session[w].op = "add" /\ session'[w] = Idle =>
              \A r \in rows \ rows' :
                  \E p \in Pids :
                      \A q \in {r[1], r[2]} \ {p} : <<p, q>> \in rows']_vars

\* However requests race, a note is deleted only by a removal that names its
\* two records: nobody writes an old version of a record over it.
NotesAreNotLost ==
    [][\A p, q \in Pids :
          q \in notes[p] \ notes'[p] =>
              \E w \in Workers :
                  /\ session[w].op = "remove" /\ session'[w] = Idle
                  /\ {session[w].first, session[w].second} = {p, q}]_vars

\* A record has notes on its siblings only.
NotesOnSiblings ==
    \A p, q \in Pids : q \in notes[p] => q \in GroupOf(rows, p)
=============================================================================
