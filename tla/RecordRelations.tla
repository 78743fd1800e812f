-------------------------- MODULE RecordRelations --------------------------
(***************************************************************************)
(* Parent-child and sequence relations of documents and series:            *)
(* records_relations (views, api, indexer, retriever) over                 *)
(* ParentChildRelation and SequenceRelation of relations/api.py, beside    *)
(* the deletion of records and the edition of a series' mode.              *)
(*                                                                         *)
(* A request names one record and carries a list of actions, each          *)
(* committed for itself; the records it touched are indexed at the end,    *)
(* the first at once, the others by a task some time later. What a handler *)
(* reads it may find changed when it commits: only a record it writes is   *)
(* checked, by its version, and only against the last thing it read.       *)
(***************************************************************************)
EXTENDS Naturals, FiniteSets

CONSTANTS
    Documents, Series,  \* PIDs
    Pools,              \* bound: sets of relations, one of which requests name
    InitialMode,        \* how the series are catalogued at first
    InitialRows,        \* the relations there are at first
    MaxActions,         \* bound: actions of a request
    MaxEdits,           \* bound: changes of a mode of issuance
    MaxRequests,        \* bound: requests on relations
    Workers,
    None                \* no record

ParentChildTypes == {"multipart_monograph", "serial"}

Types == ParentChildTypes \cup {"sequence"}

Modes == {"MULTIPART_MONOGRAPH", "SERIAL"}

Pids == Documents \cup Series

\* a row of PIDRelation: its type, its parent (or previous), its child (or next)
Rows == Types \X Pids \X Pids

ASSUME PidsAssumption == Documents \cap Series = {}
ASSUME NoneAssumption == None \notin Pids
ASSUME PoolsAssumption == Pools \subseteq SUBSET Rows
ASSUME InitialRowsAssumption == InitialRows \subseteq Rows
ASSUME InitialMultipartAssumption ==
    \A r, s \in InitialRows :
        r[1] = "multipart_monograph" /\ s[1] = r[1] /\ r[3] = s[3] => r = s
ASSUME InitialModeAssumption == InitialMode \in [Series -> Modes]
ASSUME BoundsAssumption == {MaxActions, MaxEdits, MaxRequests} \subseteq Nat

VARIABLES
    offered,  \* the pool of this behaviour
    alive,    \* records that are not deleted
    mode,     \* mode_of_issuance of the series
    rows,     \* the table of relations
    volumes,  \* relations_extra_metadata: rows the child has a volume for
    index,    \* the relations each record's document in the index shows
    tasks,    \* the delayed tasks, each the records it is to index
    session,  \* the request of each worker
    edits, requests,  \* counters of the bounds
    raced,    \* history: written by a request while another wrote them
    broken    \* history: left to a request or a task that failed

vars == <<offered, alive, mode, rows, volumes, index, tasks, session, edits,
          requests, raced, broken>>

-----------------------------------------------------------------------------
Ends(row) == {row[2], row[3]}

RowsOf(p) == {row \in rows : p \in Ends(row)}

\* get_relations: parents, but not children; sequences both ways
RelationsOf(p) ==
    {row \in RowsOf(p) : row[1] \in ParentChildTypes => row[3] = p}

RelatedTo(p) == UNION {Ends(row) : row \in RelationsOf(p)}

\* the resolver of the field: nothing, when a related record is deleted
Shown(p) == IF RelatedTo(p) \subseteq alive THEN RelationsOf(p) ELSE {}

RelationExists(t, p, q) == <<t, p, q>> \in rows \/ <<t, q, p>> \in rows

Idle == [op |-> "idle", record |-> None, row |-> <<>>, volume |-> FALSE,
         mine |-> {}, mode |-> "", read |-> {}, written |-> {}, met |-> {},
         count |-> 0, touched |-> {}]

\* op: "add" for a POST, "remove" for a DELETE of relations; row: the action at
\* work, <<>> between two actions of the list; mine, mode: the record's volumes
\* and mode as this request knows them; read: the volumes of the child when it
\* was read; written: what others wrote since this action began; met: the
\* records others concerned since the request began
Session ==
    [op: {"idle", "add", "remove", "delete"},
     record: Pids \cup {None}, row: Rows \cup {<<>>}, volume: BOOLEAN,
     mine: SUBSET Rows, mode: Modes \cup {""}, read: SUBSET Rows,
     written: SUBSET Pids, met: SUBSET Pids, count: Nat,
     touched: SUBSET Pids]

VolumesOf(p) == {row \in volumes : row[3] = p}

Init ==
    /\ alive = Pids
    /\ mode = InitialMode
    /\ offered \in Pools
    /\ rows = InitialRows \cap offered /\ volumes = {}
    /\ index = [p \in Pids |-> RelationsOf(p)]
    /\ tasks = {}
    /\ session = [w \in Workers |-> Idle]
    /\ edits = 0 /\ requests = 0 /\ raced = {} /\ broken = {}

-----------------------------------------------------------------------------
(* What is validated before anything is written.                           *)

\* mutant: whether the child has a multipart monograph is not asked
KindsOnly(row, modes) ==
    /\ row[2] \in Series
    /\ row[3] \in Series => modes[row[3]] # "SERIAL" /\ modes[row[2]] = "SERIAL"

\* RecordRelationsParentChild._validate_relation_between_records
ValidParentChild(row, modes) ==
    /\ row[1] = "multipart_monograph" =>
           ~\E r \in rows : r[1] = row[1] /\ r[3] = row[3]
    /\ row[2] \in Series
    /\ \/ row[3] \in Documents
       \/ /\ row[3] \in Series
          /\ modes[row[3]] = "MULTIPART_MONOGRAPH" /\ modes[row[2]] = "SERIAL"

\* _validate_sequence_creation_payload and RecordRelationsSequence's
ValidSequence(record, row) ==
    /\ record \in Ends(row)
    /\ row[2] # row[3]
    /\ Ends(row) \subseteq Series

CanAdd(record, row, modes) ==
    /\ IF row[1] = "sequence" THEN ValidSequence(record, row)
                              ELSE ValidParentChild(row, modes)
    /\ ~RelationExists(row[1], row[2], row[3])

CanRemove(record, row) ==
    /\ row[1] = "sequence" => record \in Ends(row) /\ row[2] # row[3]
    /\ row \in rows

\* mutant: the volumes of a series are nobody's reference
CanDeleteChildless(p) == RelationsOf(p) = {}

\* Series.delete and IlsRecordWithRelations.delete: neither children nor
\* relations. A relation to a deleted record makes the question itself fail.
CanDelete(p) == RowsOf(p) = {}

-----------------------------------------------------------------------------
(* Requests.                                                               *)

Set(w, s) == session' = [session EXCEPT ![w] = s]

\* An action of a sequence reads both records; one of them is from then on the
\* record of the request.
Reread(op, record, row) ==
    row[1] = "sequence" /\ record = IF op = "add" THEN row[3] ELSE row[2]

\* The next action of the list. The record of the request is not read again
\* for a parent-child relation.
Begin(w, op, record, row, volume) ==
    LET s == session[w] IN
    /\ \/ s = Idle /\ record \in alive /\ requests < MaxRequests
       \/ /\ s.op = op /\ s.row = <<>>
          /\ s.count < MaxActions /\ record = s.record
    /\ record \in Ends(row) /\ Ends(row) \subseteq alive
    /\ volume => op = "add" /\ row[1] \in ParentChildTypes
    /\ LET fresh == s = Idle \/ Reread(op, record, row)
           mine == IF fresh THEN VolumesOf(record) ELSE s.mine
           mode1 == IF fresh /\ record \in Series THEN mode[record] ELSE s.mode
           modes == [p \in Series |-> IF p = record THEN mode1 ELSE mode[p]]
       IN /\ \/ op = "add" /\ CanAdd(record, row, modes)
             \/ op = "remove" /\ CanRemove(record, row)
          /\ Set(w, [s EXCEPT !.op = op, !.record = record, !.row = row,
                              !.volume = volume, !.mine = mine,
                              !.mode = mode1,
                              !.read = IF record = row[3] THEN mine
                                       ELSE VolumesOf(row[3]),
                              !.written = {}])
    /\ requests' = IF s = Idle THEN requests + 1 ELSE requests
    /\ UNCHANGED <<alive, mode, rows, volumes, index, tasks, edits, raced,
                   broken>>

\* The commit of w's request, which goes on with s: the others meet the
\* records it concerns, of which it wrote some.
Commit(w, s, concerned, written) ==
    /\ session' = [v \in Workers |->
           IF v = w THEN s
           ELSE IF session[v] = Idle THEN Idle
           ELSE [session[v] EXCEPT !.written = @ \cup written,
                                   !.met = @ \cup concerned]]
    /\ raced' = IF session[w].met \cap concerned = {} THEN raced
                ELSE raced \cup concerned

After(s, mine) ==
    [s EXCEPT !.row = <<>>, !.volume = FALSE, !.mine = mine,
              !.read = {}, !.written = {}, !.count = @ + 1,
              !.touched = @ \cup Ends(s.row)]

\* The child is written when its volumes change, and then as it was read,
\* mode included.
WriteVolumes(w, wanted) ==
    LET s == session[w]
        child == s.row[3]
        changed == wanted # s.read
    IN /\ changed => child \notin s.written
       /\ volumes' = IF changed
                     THEN {row \in volumes : row[3] # child} \cup wanted
                     ELSE volumes
       /\ mode' = IF changed /\ child = s.record /\ child \in Series
                  THEN [mode EXCEPT ![child] = s.mode] ELSE mode
       /\ Commit(w, After(s, IF child = s.record THEN wanted ELSE s.mine),
                 Ends(s.row), IF changed THEN {child} ELSE {})

\* mutant: the volume takes the place of the others
AddWithOneVolume(w) ==
    LET s == session[w] IN
    /\ s.op = "add" /\ s.row \notin rows \cup {<<>>}
    /\ rows' = rows \cup {s.row}
    /\ WriteVolumes(w, IF s.volume THEN {s.row} ELSE s.read)
    /\ UNCHANGED <<alive, index, tasks, edits, requests, broken>>

\* RecordRelationsParentChild.add, RecordRelationsSequence.add. A row another
\* request has created meanwhile violates the primary key; a volume the child
\* already has for the row is an error.
Add(w) ==
    LET s == session[w] IN
    /\ s.op = "add" /\ s.row \notin rows \cup {<<>>}
    /\ rows' = rows \cup {s.row}
    /\ s.volume => s.row \notin s.read
    /\ WriteVolumes(w, IF s.volume THEN s.read \cup {s.row} ELSE s.read)
    /\ UNCHANGED <<alive, index, tasks, edits, requests, broken>>

\* mutant: the volume stays in the child
RemoveRowOnly(w) ==
    LET s == session[w] IN
    /\ s.op = "remove" /\ s.row # <<>>
    /\ rows' = rows \ {s.row}
    /\ WriteVolumes(w, s.read)
    /\ UNCHANGED <<alive, index, tasks, edits, requests, broken>>

\* A row another request has deleted meanwhile is no error.
Remove(w) ==
    LET s == session[w] IN
    /\ s.op = "remove" /\ s.row # <<>>
    /\ rows' = rows \ {s.row}
    /\ WriteVolumes(w, s.read \ {s.row})
    /\ UNCHANGED <<alive, index, tasks, edits, requests, broken>>

\* mutant: only the record of the request and the last action's other end
TasksOfRecordOnly(s) == {}

\* RecordRelationIndexer.index: the records touched and those related to them
TasksOf(s) ==
    {(s.touched \cup UNION {RelatedTo(p) : p \in s.touched}) \ {s.record}}

\* The list is over: the request's record is indexed at once, the others later.
IndexTouched(w) ==
    LET s == session[w] IN
    /\ s.op \in {"add", "remove"} /\ s.row = <<>>
    /\ \A p \in s.touched : RelatedTo(p) \subseteq alive
    /\ index' = [index EXCEPT ![s.record] = Shown(s.record)]
    /\ tasks' = tasks \cup TasksOf(s)
    /\ Set(w, Idle)
    /\ UNCHANGED <<alive, mode, rows, volumes, edits, requests, raced, broken>>

\* An action of the list is refused or fails, a related record is deleted, the
\* worker is killed: what was committed stays, and nothing is indexed.
Fail(w) ==
    /\ session[w] # Idle
    /\ broken' = broken \cup session[w].touched
    /\ Set(w, Idle)
    /\ UNCHANGED <<alive, mode, rows, volumes, index, tasks, edits, requests,
                   raced>>

\* index_related_records: a record that was deleted fails the whole task
RunTask(task) ==
    /\ task \in tasks
    /\ tasks' = tasks \ {task}
    /\ IF task \subseteq alive
       THEN /\ index' = [p \in Pids |-> IF p \in task THEN Shown(p)
                                        ELSE index[p]]
            /\ UNCHANGED broken
       ELSE broken' = broken \cup task /\ UNCHANGED index
    /\ UNCHANGED <<alive, mode, rows, volumes, session, edits, requests, raced>>

BeginDelete(w, p) ==
    /\ session[w] = Idle
    /\ p \in alive /\ CanDelete(p)
    /\ Set(w, [Idle EXCEPT !.op = "delete", !.record = p])
    /\ UNCHANGED <<alive, mode, rows, volumes, index, tasks, edits, requests,
                   raced, broken>>

Delete(w) ==
    LET s == session[w] IN
    /\ s.op = "delete"
    /\ s.record \in alive /\ s.record \notin s.written
    /\ alive' = alive \ {s.record}
    /\ index' = [index EXCEPT ![s.record] = {}]
    /\ Commit(w, Idle, {s.record}, {s.record})
    /\ UNCHANGED <<mode, rows, volumes, tasks, edits, requests, broken>>

\* A PUT of a series: no relation is looked at, and clear() keeps the volumes.
\* (The task it schedules indexes its neighbours, whose relations are the same.)
EditMode(p, m) ==
    /\ edits < MaxEdits
    /\ p \in alive \cap Series /\ mode[p] # m
    /\ edits' = edits + 1
    /\ mode' = [mode EXCEPT ![p] = m]
    /\ index' = [index EXCEPT ![p] = Shown(p)]
    /\ session' = [v \in Workers |->
           IF session[v] = Idle THEN Idle
           ELSE [session[v] EXCEPT !.written = @ \cup {p}]]
    /\ UNCHANGED <<alive, rows, volumes, tasks, requests, raced, broken>>

Step ==
    \/ \E w \in Workers :
           \/ \E op \in {"add", "remove"}, record \in Pids, row \in offered,
                 volume \in BOOLEAN : Begin(w, op, record, row, volume)
           \/ Add(w)
           \/ Remove(w)
           \/ IndexTouched(w)
           \/ Fail(w)
           \/ \E p \in Pids : BeginDelete(w, p)
           \/ Delete(w)
    \/ \E task \in tasks : RunTask(task)
    \/ \E p \in Series, m \in Modes : EditMode(p, m)

Next == Step /\ UNCHANGED offered

Spec == Init /\ [][Next]_vars

-----------------------------------------------------------------------------
(* Properties.                                                             *)

TypeOK ==
    /\ offered \in Pools
    /\ alive \subseteq Pids
    /\ mode \in [Series -> Modes]
    /\ rows \subseteq Rows /\ volumes \subseteq Rows
    /\ index \in [Pids -> SUBSET Rows]
    /\ tasks \subseteq SUBSET Pids
    /\ session \in [Workers -> Session]
    /\ edits \in 0 .. MaxEdits /\ requests \in 0 .. MaxRequests
    /\ raced \subseteq Pids /\ broken \subseteq Pids
    /\ \A w \in Workers :
           /\ session[w].op \in {"add", "remove"}
           /\ session[w].record \in Series
           => session[w].mode \in Modes

\* A record is part of two multipart monographs, which the validation
\* refuses, only if two requests for it overlapped.
SecondMultipartOnlyByRace ==
    \A r, s \in rows :
        /\ r[1] = "multipart_monograph" /\ s[1] = r[1]
        /\ r[3] = s[3] /\ r # s
        => r[3] \in raced

\* A relation has a deleted end only if the deletion and the creation of the
\* relation overlapped. (The other end then loses sight of all its relations,
\* and neither it nor the relation can be deleted any more.)
DanglesOnlyByRace ==
    \A row \in rows : Ends(row) \ alive \subseteq raced

\* A volume belongs to a relation: it is left behind only by requests on the
\* child that overlapped.
VolumesHaveRelations ==
    \A row \in volumes : row \in rows \/ row[3] \in raced

\* A volume disappears with its relation, or in a later action of a list,
\* which writes the record of the request as it was when the list began.
VolumesLeaveWithRelations ==
    [][\A row \in volumes \ volumes' :
          \/ row \notin rows'
          \/ \E w \in Workers : session[w].count > 0 /\ session[w].record = row[3]
      ]_vars

\* The index shows the relations of each record, but for those that a request
\* or a task is about to index, and those that one of them failed to.
Awaited(p) ==
    \/ \E w \in Workers : p \in session[w].touched
    \/ \E task \in tasks : p \in task

IndexShowsRelations ==
    \A p \in alive :
        \/ index[p] = Shown(p)
        \/ Awaited(p)
        \/ p \in broken
        \/ ~(RelatedTo(p) \subseteq alive)
=============================================================================
