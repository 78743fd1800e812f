----------------------- MODULE RecordRelationsProofs -----------------------
(***************************************************************************)
(* Theorems about RecordRelations, for any records, relations and workers. *)
(***************************************************************************)
EXTENDS RecordRelations, TLAPS

-----------------------------------------------------------------------------
(* Types.                                                                  *)

LEMMA EndsType ==
    \A row \in Rows : /\ Ends(row) \subseteq Pids
                      /\ row[2] \in Ends(row) /\ row[3] \in Ends(row)
                      /\ row # <<>>
  BY DEF Rows, Ends

LEMMA RelationsType ==
    ASSUME rows \subseteq Rows, NEW p
    PROVE  /\ RelationsOf(p) \subseteq Rows /\ RelatedTo(p) \subseteq Pids
           /\ Shown(p) \subseteq Rows
  <1>1. RelationsOf(p) \subseteq Rows
    BY DEF RelationsOf, RowsOf
  <1>. QED BY <1>1, EndsType DEF RelatedTo, Shown

LEMMA IdleType == Idle \in Session
  BY DEF Idle, Session

LEMMA InitType == Init => TypeOK
  <1>. SUFFICES ASSUME Init PROVE TypeOK
    OBVIOUS
  <1>1. rows \subseteq Rows
    BY InitialRowsAssumption DEF Init
  <1>2. index \in [Pids -> SUBSET Rows]
    BY <1>1, RelationsType DEF Init
  <1>3. session \in [Workers -> Session]
    BY IdleType DEF Init
  <1>4. \A w \in Workers : session[w].op = "idle"
    BY DEF Init, Idle
  <1>. QED
    BY <1>1, <1>2, <1>3, <1>4, InitialModeAssumption, BoundsAssumption
       DEF Init, TypeOK

\* What a worker does to its own session.
LEMMA SetType ==
    ASSUME TypeOK, NEW w \in Workers, NEW s \in Session, Set(w, s)
    PROVE  session' \in [Workers -> Session]
  BY DEF TypeOK, Set

\* Begin, in terms of the session it makes.
Begun(w, op, record, row, s) ==
    /\ s \in Session
    /\ s.op = op /\ s.record = record /\ s.row = row
    /\ \/ s.mine = VolumesOf(record)
       \/ /\ session[w].op = op /\ session[w].record = record
          /\ session[w].row = <<>>
          /\ s.mine = session[w].mine /\ s.count = session[w].count
          /\ s.met = session[w].met
    /\ s.read = IF record = row[3] THEN s.mine ELSE VolumesOf(row[3])
    /\ s.touched = session[w].touched
    /\ record \in Series => s.mode \in Modes
    /\ Set(w, s)

LEMMA BeginSession ==
    ASSUME TypeOK, NEW w \in Workers, NEW op \in {"add", "remove"},
           NEW record \in Pids, NEW row \in Rows, NEW volume \in BOOLEAN,
           Begin(w, op, record, row, volume)
    PROVE  \E s : Begun(w, op, record, row, s)
  <1>. DEFINE t == session[w]
              fresh == t = Idle \/ Reread(op, record, row)
              mine == IF fresh THEN VolumesOf(record) ELSE t.mine
              mode1 == IF fresh /\ record \in Series THEN mode[record]
                       ELSE t.mode
              read == IF record = row[3] THEN mine ELSE VolumesOf(row[3])
              s == [t EXCEPT !.op = op, !.record = record, !.row = row,
                             !.volume = volume, !.mine = mine, !.mode = mode1,
                             !.read = read, !.written = {}]
  <1>1. t \in Session
    BY DEF TypeOK
  <1>2. Set(w, s)
    BY DEF Begin
  <1>3. mine \subseteq Rows /\ read \subseteq Rows
    BY <1>1 DEF TypeOK, Session, VolumesOf
  <1>4. ~fresh => t.op = op /\ t.row = <<>> /\ record = t.record
    BY DEF Begin
  <1>5. mode1 \in Modes \cup {""} /\ (record \in Series => mode1 \in Modes)
    BY <1>1, <1>4 DEF TypeOK, Session
  <1>. HIDE DEF fresh, mine, mode1, read
  <1>6. /\ s \in Session
        /\ s.op = op /\ s.record = record /\ s.row = row /\ s.mine = mine
        /\ s.mode = mode1 /\ s.read = read /\ s.count = t.count
        /\ s.met = t.met /\ s.touched = t.touched
    BY <1>1, <1>3, <1>5 DEF Session
  <1>7. mine = VolumesOf(record) \/ (mine = t.mine /\ ~fresh)
    BY Zenon DEF mine
  <1>8. read = IF record = row[3] THEN mine ELSE VolumesOf(row[3])
    BY DEF read
  <1>. HIDE DEF s
  <1>. QED BY <1>2, <1>4, <1>5, <1>6, <1>7, <1>8 DEF Begun

\* The end of an action, in terms of the sessions it leaves.
Acted(w, concerned, mine) ==
    /\ session'[w].op = session[w].op
    /\ session'[w].record = session[w].record
    /\ session'[w].row = <<>>
    /\ session'[w].mine = mine
    /\ session'[w].mode = session[w].mode
    /\ session'[w].met = session[w].met
    /\ session'[w].count = session[w].count + 1
    /\ session'[w].touched = session[w].touched \cup concerned

\* What the commit of one worker's request does to the sessions of others.
Met(v, concerned, written) ==
    \/ session[v] = Idle /\ session'[v] = Idle
    \/ /\ session'[v].op = session[v].op
       /\ session'[v].record = session[v].record
       /\ session'[v].row = session[v].row
       /\ session'[v].mine = session[v].mine
       /\ session'[v].mode = session[v].mode
       /\ session'[v].read = session[v].read
       /\ session'[v].count = session[v].count
       /\ session'[v].touched = session[v].touched
       /\ session'[v].written = session[v].written \cup written
       /\ session'[v].met = session[v].met \cup concerned

CommitMet(w, concerned, written) ==
    /\ session' \in [Workers -> Session]
    /\ \A v \in Workers : v # w => Met(v, concerned, written)
    /\ raced \subseteq raced'
    /\ raced' \subseteq raced \cup concerned
    /\ session[w].met \cap concerned # {} => concerned \subseteq raced'

\* The sessions a commit makes, with the sets they hold given.
Joined(s, written, met) == [s EXCEPT !.written = written, !.met = met]

Ended(s, mine, count, touched) ==
    [s EXCEPT !.row = <<>>, !.volume = FALSE, !.mine = mine, !.read = {},
              !.written = {}, !.count = count, !.touched = touched]

LEMMA MetType ==
    ASSUME NEW s \in Session, NEW written \in SUBSET Pids, NEW met \in SUBSET Pids
    PROVE  LET t == Joined(s, written, met)
           IN /\ t \in Session
              /\ t.op = s.op /\ t.record = s.record /\ t.row = s.row
              /\ t.mine = s.mine /\ t.mode = s.mode /\ t.read = s.read
              /\ t.count = s.count /\ t.touched = s.touched
              /\ t.written = written /\ t.met = met
  BY DEF Session, Joined

LEMMA CommitMeets ==
    ASSUME TypeOK, NEW w \in Workers, NEW s \in Session,
           NEW concerned \in SUBSET Pids, NEW written \in SUBSET Pids,
           Commit(w, s, concerned, written)
    PROVE  session'[w] = s /\ CommitMet(w, concerned, written)
  <1>1. \A v \in Workers : session[v] \in Session
    BY DEF TypeOK
  <1>2. session' = [v \in Workers |->
            IF v = w THEN s
            ELSE IF session[v] = Idle THEN Idle
            ELSE [session[v] EXCEPT !.written = @ \cup written,
                                    !.met = @ \cup concerned]]
    BY DEF Commit
  <1>3. ASSUME NEW v \in Workers, v # w
        PROVE  session'[v] \in Session /\ Met(v, concerned, written)
    <2>1. CASE session[v] = Idle
      BY <1>2, <1>3, <2>1, IdleType DEF Met
    <2>2. CASE session[v] # Idle
      <3>1. session'[v] = [session[v] EXCEPT
                !.written = session[v].written \cup written,
                !.met = session[v].met \cup concerned]
        BY <1>2, <1>3, <2>2
      <3>2. /\ session[v].written \cup written \in SUBSET Pids
            /\ session[v].met \cup concerned \in SUBSET Pids
        BY <1>1 DEF Session
      <3>. DEFINE W == session[v].written \cup written
                  M == session[v].met \cup concerned
                  t == Joined(session[v], W, M)
      <3>2a. W \in SUBSET Pids /\ M \in SUBSET Pids
        BY <3>2
      <3>. HIDE DEF W, M
      <3>3. /\ t \in Session
            /\ t.op = session[v].op /\ t.record = session[v].record
            /\ t.row = session[v].row /\ t.mine = session[v].mine
            /\ t.mode = session[v].mode /\ t.read = session[v].read
            /\ t.count = session[v].count /\ t.touched = session[v].touched
            /\ t.written = W /\ t.met = M
        BY <1>1, <3>2a, MetType
      <3>4. session'[v] = t
        BY <3>1 DEF W, M, Joined
      <3>. HIDE DEF t
      <3>. QED BY <3>3, <3>4 DEF Met, W, M
    <2>. QED BY <2>1, <2>2
  <1>4. session' \in [Workers -> Session] /\ session'[w] = s
    BY <1>2, <1>3
  <1>5. raced' = IF session[w].met \cap concerned = {} THEN raced
                 ELSE raced \cup concerned
    BY DEF Commit
  <1>. QED BY <1>3, <1>4, <1>5 DEF CommitMet

LEMMA AfterSession ==
    ASSUME NEW s \in Session, NEW mine \in SUBSET Rows, NEW count \in Nat,
           NEW touched \in SUBSET Pids
    PROVE  LET t == Ended(s, mine, count, touched)
           IN /\ t \in Session
              /\ t.op = s.op /\ t.record = s.record /\ t.row = <<>>
              /\ t.mine = mine /\ t.mode = s.mode /\ t.met = s.met
              /\ t.count = count /\ t.touched = touched
  BY DEF Session, Ended

LEMMA AfterType ==
    ASSUME NEW s \in Session, s.row \in Rows, NEW mine \in SUBSET Rows
    PROVE  LET t == After(s, mine)
           IN /\ t \in Session
              /\ t.op = s.op /\ t.record = s.record /\ t.row = <<>>
              /\ t.mine = mine /\ t.mode = s.mode /\ t.met = s.met
              /\ t.count = s.count + 1
              /\ t.touched = s.touched \cup Ends(s.row)
  <1>. DEFINE touched == s.touched \cup Ends(s.row)
              count == s.count + 1
              t == Ended(s, mine, count, touched)
  <1>1. s.count \in Nat /\ s.touched \in SUBSET Pids
    BY DEF Session
  <1>2. touched \in SUBSET Pids /\ count \in Nat
    BY <1>1, EndsType
  <1>3. After(s, mine) = t
    BY DEF After, Ended
  <1>. HIDE DEF touched, count
  <1>4. /\ t \in Session
        /\ t.op = s.op /\ t.record = s.record /\ t.row = <<>>
        /\ t.mine = mine /\ t.mode = s.mode /\ t.met = s.met
        /\ t.count = count /\ t.touched = touched
    BY <1>2, AfterSession
  <1>. HIDE DEF t
  <1>. QED BY <1>3, <1>4 DEF touched, count

\* The row, and the volumes of its child as they were read and are wanted.
LEMMA ActionCommits ==
    ASSUME TypeOK, NEW w \in Workers, session[w].row # <<>>,
           NEW wanted \in SUBSET Rows, WriteVolumes(w, wanted)
    PROVE  LET row == session[w].row
               changed == wanted # session[w].read
               written == IF changed THEN {row[3]} ELSE {}
               mine == IF row[3] = session[w].record THEN wanted
                       ELSE session[w].mine
           IN /\ row \in Rows
              /\ changed => row[3] \notin session[w].written
              /\ volumes' = IF changed
                            THEN {r \in volumes : r[3] # row[3]} \cup wanted
                            ELSE volumes
              /\ Acted(w, Ends(row), mine)
              /\ CommitMet(w, Ends(row), written)
  <1>. DEFINE s == session[w]
              row == s.row
              changed == wanted # s.read
              written == IF changed THEN {row[3]} ELSE {}
              mine == IF row[3] = s.record THEN wanted ELSE s.mine
  <1>1. s \in Session
    BY DEF TypeOK
  <1>2. row \in Rows
    BY <1>1 DEF Session
  <1>3. Ends(row) \in SUBSET Pids /\ row[3] \in Pids
    BY <1>2, EndsType
  <1>4. mine \in SUBSET Rows
    BY <1>1 DEF Session
  <1>5. Commit(w, After(s, mine), Ends(row), written)
    BY DEF WriteVolumes
  <1>6. /\ changed => row[3] \notin s.written
        /\ volumes' = IF changed
                      THEN {r \in volumes : r[3] # row[3]} \cup wanted
                      ELSE volumes
    BY DEF WriteVolumes
  <1>7. written \in SUBSET Pids
    BY <1>3
  <1>. HIDE DEF mine, written
  <1>8. LET t == After(s, mine)
        IN /\ t \in Session
           /\ t.op = s.op /\ t.record = s.record /\ t.row = <<>>
           /\ t.mine = mine /\ t.mode = s.mode /\ t.met = s.met
           /\ t.count = s.count + 1
           /\ t.touched = s.touched \cup Ends(row)
    BY <1>1, <1>2, <1>4, AfterType
  <1>. DEFINE t == After(s, mine)
  <1>9. t \in Session
    BY <1>8
  <1>. HIDE DEF t
  <1>10. session'[w] = t /\ CommitMet(w, Ends(row), written)
    <2>1. Commit(w, t, Ends(row), written)
      BY <1>5 DEF t
    <2>. QED BY <1>3, <1>7, <1>9, <2>1, CommitMeets
  <1>11. Acted(w, Ends(row), mine)
    BY <1>8, <1>10 DEF Acted, t
  <1>. QED BY <1>2, <1>6, <1>10, <1>11 DEF mine, written

LEMMA Acts ==
    \A w \in Workers : Add(w) \/ Remove(w) =>
        /\ session[w].row # <<>> /\ session[w].op \in {"add", "remove"}
        /\ UNCHANGED <<alive, index, tasks, edits, requests, broken>>
  BY DEF Add, Remove

\* Add and Remove, in terms of the volumes they want the child to have.
LEMMA ActionWrites ==
    ASSUME TypeOK, NEW w \in Workers, Add(w) \/ Remove(w)
    PROVE  \E wanted \in SUBSET Rows :
               /\ WriteVolumes(w, wanted)
               /\ Add(w) => /\ session[w].read \subseteq wanted
                            /\ wanted \subseteq session[w].read \cup {session[w].row}
               /\ Remove(w) => wanted = session[w].read \ {session[w].row}
  <1>. DEFINE s == session[w]
  <1>1. s.read \in SUBSET Rows /\ s.row \in Rows \cup {<<>>}
    BY DEF TypeOK, Session
  <1>2. CASE Add(w)
    <2>. DEFINE wanted == IF s.volume THEN s.read \cup {s.row} ELSE s.read
    <2>1. s.op = "add" /\ s.row \in Rows /\ WriteVolumes(w, wanted)
      BY <1>1, <1>2 DEF Add
    <2>2. wanted \in SUBSET Rows
      BY <1>1, <2>1
    <2>3. s.read \subseteq wanted /\ wanted \subseteq s.read \cup {s.row}
      OBVIOUS
    <2>4. ~Remove(w)
      BY <2>1 DEF Remove
    <2>. HIDE DEF wanted
    <2>. QED BY <2>1, <2>2, <2>3, <2>4
  <1>3. CASE Remove(w)
    <2>1. s.op = "remove" /\ WriteVolumes(w, s.read \ {s.row})
      BY <1>3 DEF Remove
    <2>2. ~Add(w)
      BY <2>1 DEF Add
    <2>3. s.read \ {s.row} \in SUBSET Rows
      BY <1>1
    <2>. QED BY <2>1, <2>2, <2>3
  <1>. QED BY <1>2, <1>3

\* What Add and Remove make of the tables.
Written(w, wanted) ==
    LET row == session[w].row
        changed == wanted # session[w].read
    IN /\ row \in Rows
       /\ changed => row[3] \notin session[w].written
       /\ volumes' = IF changed
                     THEN {r \in volumes : r[3] # row[3]} \cup wanted
                     ELSE volumes
       /\ Acted(w, Ends(row), IF row[3] = session[w].record THEN wanted
                              ELSE session[w].mine)
       /\ CommitMet(w, Ends(row), IF changed THEN {row[3]} ELSE {})

LEMMA ActionWritten ==
    ASSUME TypeOK, NEW w \in Workers, session[w].row # <<>>,
           NEW wanted \in SUBSET Rows, WriteVolumes(w, wanted)
    PROVE  Written(w, wanted)
  BY ActionCommits DEF Written

LEMMA ActionType ==
    ASSUME TypeOK, NEW w \in Workers, UNCHANGED offered, Add(w) \/ Remove(w)
    PROVE  TypeOK'
  <1>. DEFINE s == session[w]
  <1>1. PICK wanted \in SUBSET Rows : WriteVolumes(w, wanted)
    BY ActionWrites
  <1>2. Written(w, wanted)
    BY <1>1, Acts, ActionWritten
  <1>3. /\ s.row \in Rows /\ volumes' \subseteq Rows
        /\ session' \in [Workers -> Session]
        /\ raced' \subseteq Pids
    BY <1>2, EndsType DEF Written, CommitMet, TypeOK
  <1>4. rows' \subseteq Rows
    BY <1>3 DEF Add, Remove, TypeOK
  <1>5. \A v \in Workers :
            /\ session'[v].op \in {"add", "remove"}
            /\ session'[v].record \in Series
            => session'[v].mode \in Modes
    <2>1. session'[w].op = s.op /\ session'[w].record = s.record
          /\ session'[w].mode = s.mode
      BY <1>2 DEF Written, Acted
    <2>2. \A v \in Workers : v # w =>
              \/ session'[v] = Idle
              \/ /\ session'[v].op = session[v].op
                 /\ session'[v].record = session[v].record
                 /\ session'[v].mode = session[v].mode
      BY <1>2 DEF Written, CommitMet, Met
    <2>3. Idle.op = "idle"
      BY DEF Idle
    <2>. QED BY <2>1, <2>2, <2>3 DEF TypeOK
  <1>6. mode' \in [Series -> Modes]
    <2>1. s.record \in Series => s.mode \in Modes
      BY Acts DEF TypeOK
    <2>2. \/ mode' = mode
          \/ /\ s.row[3] = s.record /\ s.row[3] \in Series
             /\ mode' = [mode EXCEPT ![s.row[3]] = s.mode]
      BY <1>1 DEF WriteVolumes
    <2>. QED BY <2>1, <2>2 DEF TypeOK
  <1>7. UNCHANGED <<alive, index, tasks, edits, requests, broken>>
    BY Acts
  <1>. QED BY <1>3, <1>4, <1>5, <1>6, <1>7 DEF TypeOK

LEMMA BeginType ==
    ASSUME TypeOK, NEW w \in Workers, NEW op \in {"add", "remove"},
           NEW record \in Pids, NEW row \in Rows, NEW volume \in BOOLEAN,
           UNCHANGED offered, Begin(w, op, record, row, volume)
    PROVE  TypeOK'
  <1>1. PICK s : Begun(w, op, record, row, s)
    BY BeginSession
  <1>2. session' = [session EXCEPT ![w] = s] /\ s \in Session
    BY <1>1 DEF Begun, Set
  <1>3. session' \in [Workers -> Session]
    BY <1>2 DEF TypeOK
  <1>4. \A v \in Workers :
            /\ session'[v].op \in {"add", "remove"}
            /\ session'[v].record \in Series
            => session'[v].mode \in Modes
    BY <1>1, <1>2 DEF TypeOK, Begun
  <1>5. UNCHANGED <<alive, mode, rows, volumes, index, tasks, edits, raced, broken>>
    BY DEF Begin
  <1>6. requests' \in 0 .. MaxRequests
    <2>1. Idle.op = "idle"
      BY DEF Idle
    <2>2. IF session[w] = Idle THEN requests < MaxRequests /\ requests' = requests + 1
          ELSE requests' = requests
      BY <2>1 DEF Begin
    <2>. QED BY <2>2, BoundsAssumption DEF TypeOK
  <1>. QED BY <1>3, <1>4, <1>5, <1>6 DEF TypeOK

\* A step that ends or begins a request and writes nothing.
LEMMA SetKeepsType ==
    ASSUME TypeOK, NEW w \in Workers, NEW s \in Session,
           s.op \notin {"add", "remove"}, Set(w, s),
           UNCHANGED <<offered, alive, mode, rows, volumes, edits, requests, raced>>,
           index' \in [Pids -> SUBSET Rows], tasks' \subseteq SUBSET Pids,
           broken' \subseteq Pids
    PROVE  TypeOK'
  <1>1. session' \in [Workers -> Session]
    BY SetType
  <1>2. \A v \in Workers : session'[v] = IF v = w THEN s ELSE session[v]
    BY DEF TypeOK, Set
  <1>3. \A v \in Workers :
            /\ session'[v].op \in {"add", "remove"}
            /\ session'[v].record \in Series
            => session'[v].mode \in Modes
    BY <1>2 DEF TypeOK
  <1>. QED BY <1>1, <1>3 DEF TypeOK

LEMMA DeletingType ==
    \A p \in Pids : LET s == [Idle EXCEPT !.op = "delete", !.record = p]
                    IN /\ s \in Session /\ s.op = "delete" /\ s.record = p
                       /\ s.row = <<>> /\ s.touched = {} /\ s.met = {}
  BY DEF Idle, Session

Edited(s, written) == [s EXCEPT !.written = written]

LEMMA EditedType ==
    ASSUME NEW s \in Session, NEW written \in SUBSET Pids
    PROVE  LET t == Edited(s, written)
           IN /\ t \in Session
              /\ t.op = s.op /\ t.record = s.record /\ t.row = s.row
              /\ t.mine = s.mine /\ t.mode = s.mode /\ t.read = s.read
              /\ t.count = s.count /\ t.touched = s.touched
              /\ t.written = written /\ t.met = s.met
  BY DEF Session, Edited

\* A saved record is written for every request under way.
LEMMA EditMeets ==
    ASSUME TypeOK, NEW p \in Series, NEW m \in Modes, EditMode(p, m)
    PROVE  \A v \in Workers : session'[v] \in Session /\ Met(v, {}, {p})
  <1>. TAKE v \in Workers
  <1>1. session[v] \in Session /\ {p} \subseteq Pids
    BY DEF TypeOK, Pids
  <1>2. CASE session[v] = Idle
    BY <1>1, <1>2 DEF EditMode, Met
  <1>3. CASE session[v] # Idle
    <2>. DEFINE W == session[v].written \cup {p}
                t == Edited(session[v], W)
    <2>1. session'[v] = t
      BY <1>3 DEF EditMode, Edited
    <2>2. W \in SUBSET Pids
      BY <1>1 DEF Session
    <2>. HIDE DEF W
    <2>3. /\ t \in Session
          /\ t.op = session[v].op /\ t.record = session[v].record
          /\ t.row = session[v].row /\ t.mine = session[v].mine
          /\ t.mode = session[v].mode /\ t.read = session[v].read
          /\ t.count = session[v].count /\ t.touched = session[v].touched
          /\ t.written = W /\ t.met = session[v].met
      BY <1>1, <2>2, EditedType
    <2>. HIDE DEF t
    <2>. QED BY <2>1, <2>3 DEF Met, W
  <1>. QED BY <1>2, <1>3

LEMMA NextType == TypeOK /\ [Next]_vars => TypeOK'
  <1>. SUFFICES ASSUME TypeOK, [Next]_vars PROVE TypeOK'
    OBVIOUS
  <1>0. /\ \A w \in Workers : session[w] \in Session
        /\ Idle \in Session /\ Idle.op = "idle"
        /\ \A p : Shown(p) \subseteq Rows /\ RelatedTo(p) \subseteq Pids
    BY IdleType, RelationsType DEF TypeOK, Idle
  <1>1. CASE UNCHANGED vars
    BY <1>1 DEF vars, TypeOK
  <1>. SUFFICES ASSUME Next PROVE TypeOK'
    BY <1>1
  <1>2. UNCHANGED offered /\ offered \subseteq Rows
    BY PoolsAssumption DEF Next, TypeOK
  <1>3. ASSUME NEW w \in Workers, NEW op \in {"add", "remove"},
               NEW record \in Pids, NEW row \in offered, NEW volume \in BOOLEAN,
               Begin(w, op, record, row, volume)
        PROVE  TypeOK'
    BY <1>2, <1>3, BeginType
  <1>4. ASSUME NEW w \in Workers, Add(w) \/ Remove(w) PROVE TypeOK'
    BY <1>2, <1>4, ActionType
  <1>5. ASSUME NEW w \in Workers, IndexTouched(w) PROVE TypeOK'
    <2>1. index' \in [Pids -> SUBSET Rows]
      BY <1>0, <1>5 DEF IndexTouched, TypeOK
    <2>2. session[w].touched \subseteq Pids
      BY <1>0 DEF Session
    <2>3. tasks' \subseteq SUBSET Pids
      BY <1>0, <1>5, <2>2 DEF IndexTouched, TasksOf, TypeOK
    <2>4. /\ Set(w, Idle) /\ broken' \subseteq Pids
          /\ UNCHANGED <<offered, alive, mode, rows, volumes, edits, requests, raced>>
      BY <1>2, <1>5 DEF IndexTouched, TypeOK
    <2>. QED BY <1>0, <2>1, <2>3, <2>4, SetKeepsType
  <1>6. ASSUME NEW w \in Workers, Fail(w) PROVE TypeOK'
    <2>1. broken' \subseteq Pids
      BY <1>0, <1>6 DEF Fail, TypeOK, Session
    <2>2. /\ Set(w, Idle)
          /\ index' \in [Pids -> SUBSET Rows] /\ tasks' \subseteq SUBSET Pids
          /\ UNCHANGED <<offered, alive, mode, rows, volumes, edits, requests, raced>>
      BY <1>2, <1>6 DEF Fail, TypeOK
    <2>. QED BY <1>0, <2>1, <2>2, SetKeepsType
  <1>7. ASSUME NEW w \in Workers, NEW p \in Pids, BeginDelete(w, p) PROVE TypeOK'
    <2>. DEFINE s == [Idle EXCEPT !.op = "delete", !.record = p]
    <2>1. s \in Session /\ s.op = "delete"
      BY DeletingType
    <2>2. /\ Set(w, s)
          /\ index' \in [Pids -> SUBSET Rows] /\ tasks' \subseteq SUBSET Pids
          /\ broken' \subseteq Pids
          /\ UNCHANGED <<offered, alive, mode, rows, volumes, edits, requests, raced>>
      BY <1>2, <1>7 DEF BeginDelete, TypeOK
    <2>. HIDE DEF s
    <2>. QED BY <2>1, <2>2, SetKeepsType
  <1>8. ASSUME NEW w \in Workers, Delete(w) PROVE TypeOK'
    <2>1. session[w].record \in alive /\ {session[w].record} \in SUBSET Pids
          /\ Commit(w, Idle, {session[w].record}, {session[w].record})
      BY <1>8 DEF Delete, TypeOK
    <2>. DEFINE q == {session[w].record}
    <2>2. session'[w] = Idle /\ CommitMet(w, q, q)
      BY <1>0, <2>1, CommitMeets
    <2>3. /\ session' \in [Workers -> Session]
          /\ raced' \subseteq Pids
          /\ \A v \in Workers :
                \/ session'[v] = Idle
                \/ /\ session'[v].op = session[v].op
                   /\ session'[v].record = session[v].record
                   /\ session'[v].mode = session[v].mode
      BY <2>1, <2>2 DEF CommitMet, Met, TypeOK
    <2>4. alive' \subseteq Pids /\ index' \in [Pids -> SUBSET Rows]
      BY <1>8 DEF Delete, TypeOK
    <2>. QED BY <1>0, <1>2, <1>8, <2>3, <2>4 DEF Delete, TypeOK
  <1>9. ASSUME NEW task \in tasks, RunTask(task) PROVE TypeOK'
    <2>1. index' \in [Pids -> SUBSET Rows] /\ broken' \subseteq Pids
      BY <1>0, <1>9 DEF RunTask, TypeOK
    <2>. QED BY <1>2, <1>9, <2>1 DEF RunTask, TypeOK
  <1>10. ASSUME NEW p \in Series, NEW m \in Modes, EditMode(p, m) PROVE TypeOK'
    <2>1. \A v \in Workers : session'[v] \in Session /\ Met(v, {}, {p})
      BY <1>10, EditMeets
    <2>2. \A v \in Workers :
              \/ session'[v] = Idle
              \/ /\ session'[v].op = session[v].op
                 /\ session'[v].record = session[v].record
                 /\ session'[v].mode = session[v].mode
      BY <2>1 DEF Met
    <2>3. session' \in [Workers -> Session]
      BY <1>10, <2>1 DEF EditMode
    <2>4. mode' \in [Series -> Modes] /\ index' \in [Pids -> SUBSET Rows]
      BY <1>0, <1>10 DEF EditMode, TypeOK
    <2>5. edits' \in 0 .. MaxEdits
      BY <1>10, BoundsAssumption DEF EditMode, TypeOK
    <2>. QED BY <1>0, <1>2, <1>10, <2>2, <2>3, <2>4, <2>5 DEF EditMode, TypeOK
  <1>. QED
    BY <1>3, <1>4, <1>5, <1>6, <1>7, <1>8, <1>9, <1>10 DEF Next, Step

\* Every reachable state of records, relations, index and requests has its type.
THEOREM TypeCorrect == Spec => []TypeOK
  BY InitType, NextType, PTL DEF Spec

-----------------------------------------------------------------------------
(* What goes wrong, goes wrong by a race. A request knows the volumes, the *)
(* relations and the records as they are, unless it has met another that   *)
(* was about them.                                                         *)

Acting(w) == session[w].op \in {"add", "remove"}

\* the volumes a request has read
ReadIsCurrent(w) ==
    Acting(w) =>
        /\ \/ session[w].mine = VolumesOf(session[w].record)
           \/ session[w].record \in session[w].met
        /\ session[w].row # <<>> =>
               \/ session[w].read = VolumesOf(session[w].row[3])
               \/ session[w].row[3] \in session[w].met

\* they are volumes of the records they were read from
ReadIsOfChild(w) ==
    Acting(w) =>
        /\ \A r \in session[w].mine : r[3] = session[w].record
        /\ session[w].row # <<>> =>
               \A r \in session[w].read : r[3] = session[w].row[3]

\* they are older than what the version check sees only in a later action
ReadIsChecked(w) ==
    Acting(w) =>
        IF session[w].row = <<>> THEN session[w].count > 0
        ELSE \/ session[w].read = VolumesOf(session[w].row[3])
             \/ session[w].row[3] \in session[w].written
             \/ session[w].count > 0 /\ session[w].record = session[w].row[3]

\* what the validation of an addition has found
AddIsValid(w) ==
    session[w].op = "add" /\ session[w].row # <<>> =>
        /\ Ends(session[w].row) \ alive \subseteq session[w].met
        /\ session[w].row[1] = "multipart_monograph" =>
               \A r \in rows :
                   /\ r[1] = "multipart_monograph" /\ r[3] = session[w].row[3]
                   => r[3] \in session[w].met

\* and that of a deletion
DeleteIsValid(w) ==
    session[w].op = "delete" =>
        /\ session[w].touched = {}
        /\ RowsOf(session[w].record) # {} => session[w].record \in session[w].met

Sound(w) ==
    /\ ReadIsCurrent(w) /\ ReadIsOfChild(w) /\ ReadIsChecked(w)
    /\ AddIsValid(w) /\ DeleteIsValid(w)

IInv ==
    /\ TypeOK
    /\ \A w \in Workers : Sound(w)
    /\ SecondMultipartOnlyByRace
    /\ DanglesOnlyByRace
    /\ VolumesHaveRelations

LEMMA IdleIsSound ==
    ASSUME NEW w PROVE session[w].op = "idle" => Sound(w)
  BY DEF Sound, Acting, ReadIsCurrent, ReadIsOfChild, ReadIsChecked, AddIsValid,
         DeleteIsValid

LEMMA IdleOp == Idle.op = "idle" /\ Idle.touched = {}
  BY DEF Idle

\* A commit changes nothing but what it is about.
Bounded(concerned, written) ==
    /\ \A p : p \in written \cap concerned \/ VolumesOf(p)' = VolumesOf(p)
    /\ \A r \in rows' : r \in rows \/ Ends(r) \subseteq concerned
    /\ alive \ alive' \subseteq concerned

LEMMA OthersStaySound ==
    ASSUME TypeOK, NEW v \in Workers, Sound(v),
           NEW concerned, NEW written, Met(v, concerned, written),
           rows' \subseteq Rows, Bounded(concerned, written)
    PROVE  Sound(v)'
  <1>1. CASE session'[v] = Idle
    <2>1. session'[v].op = "idle"
      BY <1>1, IdleOp
    <2>. QED
      BY <2>1 DEF Sound, Acting, ReadIsCurrent, ReadIsOfChild, ReadIsChecked,
                  AddIsValid, DeleteIsValid
  <1>2. CASE session'[v] # Idle
    <2>1. /\ session'[v].op = session[v].op
          /\ session'[v].record = session[v].record
          /\ session'[v].row = session[v].row
          /\ session'[v].mine = session[v].mine
          /\ session'[v].read = session[v].read
          /\ session'[v].count = session[v].count
          /\ session'[v].touched = session[v].touched
          /\ session'[v].written = session[v].written \cup written
          /\ session'[v].met = session[v].met \cup concerned
      BY <1>2 DEF Met
    <2>2. ReadIsCurrent(v)' /\ ReadIsOfChild(v)'
      BY <2>1 DEF Sound, ReadIsCurrent, ReadIsOfChild, Acting, Bounded
    <2>3. ReadIsChecked(v)'
      BY <2>1 DEF Sound, ReadIsChecked, Acting, Bounded
    <2>4. AddIsValid(v)'
      <3>. SUFFICES ASSUME session[v].op = "add", session[v].row # <<>>
                    PROVE  /\ Ends(session[v].row) \ alive' \subseteq session'[v].met
                           /\ session[v].row[1] = "multipart_monograph" =>
                                \A r \in rows' :
                                    /\ r[1] = "multipart_monograph"
                                    /\ r[3] = session[v].row[3]
                                    => r[3] \in session'[v].met
        BY <2>1 DEF AddIsValid
      <3>1. Ends(session[v].row) \ alive' \subseteq session'[v].met
        BY <2>1 DEF Sound, AddIsValid, Bounded
      <3>2. ASSUME session[v].row[1] = "multipart_monograph", NEW r \in rows',
                   r[1] = "multipart_monograph", r[3] = session[v].row[3]
            PROVE  r[3] \in session'[v].met
        <4>1. CASE r \in rows
          BY <2>1, <3>2, <4>1 DEF Sound, AddIsValid
        <4>2. CASE r \notin rows
          BY <2>1, <4>2, EndsType DEF Bounded
        <4>. QED BY <4>1, <4>2
      <3>. QED BY <3>1, <3>2
    <2>5. DeleteIsValid(v)'
      <3>. SUFFICES ASSUME session[v].op = "delete",
                           RowsOf(session[v].record)' # {}
                    PROVE  session[v].record \in session'[v].met
        BY <2>1 DEF Sound, DeleteIsValid, RowsOf
      <3>1. PICK r \in rows' : session[v].record \in Ends(r)
        BY <2>1 DEF RowsOf
      <3>2. CASE r \in rows
        BY <2>1, <3>1, <3>2 DEF Sound, DeleteIsValid, RowsOf
      <3>3. CASE r \notin rows
        BY <2>1, <3>1, <3>3 DEF Bounded
      <3>. QED BY <3>2, <3>3
    <2>. QED BY <2>2, <2>3, <2>4, <2>5 DEF Sound
  <1>. QED BY <1>1, <1>2

LEMMA InitInv == Init => IInv
  <1>. SUFFICES ASSUME Init PROVE IInv
    OBVIOUS
  <1>1. \A w \in Workers : session[w].op = "idle"
    BY IdleOp DEF Init
  <1>2. \A w \in Workers : Sound(w)
    BY <1>1, IdleIsSound
  <1>3. SecondMultipartOnlyByRace /\ DanglesOnlyByRace /\ VolumesHaveRelations
    <2>1. rows \subseteq Rows /\ alive = Pids /\ volumes = {}
          /\ rows \subseteq InitialRows
      BY InitialRowsAssumption DEF Init
    <2>. QED
      BY <2>1, EndsType, InitialMultipartAssumption
         DEF SecondMultipartOnlyByRace, DanglesOnlyByRace, VolumesHaveRelations
  <1>. QED BY <1>2, <1>3, InitType DEF IInv

LEMMA UntouchedStaysSound ==
    ASSUME NEW v \in Workers, Sound(v), session'[v] = session[v],
           UNCHANGED <<alive, rows, volumes>>
    PROVE  Sound(v)'
  BY DEF Sound, Acting, ReadIsCurrent, ReadIsOfChild, ReadIsChecked, AddIsValid,
         DeleteIsValid, VolumesOf, RowsOf

LEMMA IdledIsSound ==
    ASSUME NEW v \in Workers, session'[v] = Idle
    PROVE  Sound(v)'
  <1>1. session'[v].op = "idle"
    BY IdleOp
  <1>. QED
    BY <1>1 DEF Sound, Acting, ReadIsCurrent, ReadIsOfChild, ReadIsChecked,
                AddIsValid, DeleteIsValid

\* An action of the list begins with what it has just read, or with what the
\* request knew of its record.
LEMMA BeginSound ==
    ASSUME TypeOK, NEW w \in Workers, Sound(w), NEW op \in {"add", "remove"},
           NEW record \in Pids, NEW row \in Rows, NEW volume \in BOOLEAN,
           Begin(w, op, record, row, volume)
    PROVE  Sound(w)'
  <1>1. PICK s : Begun(w, op, record, row, s)
    BY BeginSession
  <1>2. session'[w] = s
    BY <1>1 DEF Begun, Set, TypeOK
  <1>3. s.op = op /\ s.record = record /\ s.row = row /\ row # <<>>
    BY <1>1, EndsType DEF Begun
  <1>4. UNCHANGED <<alive, rows, volumes>> /\ Ends(row) \subseteq alive
    BY DEF Begin
  <1>5. \/ s.mine = VolumesOf(record)
        \/ /\ Acting(w) /\ session[w].row = <<>> /\ session[w].record = record
           /\ s.mine = session[w].mine /\ s.count = session[w].count
           /\ s.met = session[w].met
    BY <1>1 DEF Begun, Acting
  <1>6. s.read = IF record = row[3] THEN s.mine ELSE VolumesOf(row[3])
    BY <1>1 DEF Begun
  <1>7. \A p : VolumesOf(p)' = VolumesOf(p)
    BY <1>4 DEF VolumesOf
  <1>8. \A p : \A r \in VolumesOf(p) : r[3] = p
    BY DEF VolumesOf
  <1>9. s.mine = VolumesOf(record) \/ record \in s.met
    BY <1>5 DEF Sound, ReadIsCurrent
  <1>10. \A r \in s.mine : r[3] = record
    BY <1>5, <1>8 DEF Sound, ReadIsOfChild
  <1>11. s.mine = VolumesOf(record) \/ s.count > 0
    BY <1>5 DEF Sound, ReadIsChecked
  <1>12. ReadIsCurrent(w)' /\ ReadIsOfChild(w)'
    BY <1>2, <1>3, <1>6, <1>7, <1>8, <1>9, <1>10
       DEF ReadIsCurrent, ReadIsOfChild, Acting
  <1>13. ReadIsChecked(w)'
    BY <1>2, <1>3, <1>6, <1>7, <1>11 DEF ReadIsChecked, Acting
  <1>14. AddIsValid(w)'
    <2>1. op = "add" /\ row[1] = "multipart_monograph" =>
              ~\E r \in rows : r[1] = row[1] /\ r[3] = row[3]
      BY DEF Begin, CanAdd, ValidParentChild
    <2>. QED BY <1>2, <1>3, <1>4, <2>1 DEF AddIsValid
  <1>15. DeleteIsValid(w)'
    BY <1>2, <1>3 DEF DeleteIsValid
  <1>. QED BY <1>12, <1>13, <1>14, <1>15 DEF Sound

\* What Add and Remove do, in terms of what their request wanted.
Did(w, wanted) ==
    /\ wanted \in SUBSET Rows
    /\ Written(w, wanted)
    /\ \A r \in wanted : r[3] = session[w].row[3]
    /\ \/ /\ session[w].op = "add"
          /\ rows' = rows \cup {session[w].row}
          /\ session[w].read \subseteq wanted
          /\ wanted \subseteq session[w].read \cup {session[w].row}
       \/ /\ session[w].op = "remove"
          /\ rows' = rows \ {session[w].row}
          /\ wanted = session[w].read \ {session[w].row}
    /\ session[w].row \in Rows
    /\ UNCHANGED <<alive, index, tasks, broken>>

LEMMA ActionDoes ==
    ASSUME TypeOK, NEW w \in Workers, Sound(w), Add(w) \/ Remove(w)
    PROVE  \E wanted : Did(w, wanted)
  <1>1. PICK wanted \in SUBSET Rows :
            /\ WriteVolumes(w, wanted)
            /\ Add(w) => /\ session[w].read \subseteq wanted
                         /\ wanted \subseteq session[w].read \cup {session[w].row}
            /\ Remove(w) => wanted = session[w].read \ {session[w].row}
    BY ActionWrites
  <1>2. Written(w, wanted)
    BY <1>1, Acts, ActionWritten
  <1>3. session[w].row \in Rows /\ session[w].row # <<>> /\ Acting(w)
    BY <1>2, Acts DEF Written, Acting
  <1>4. \A r \in session[w].read : r[3] = session[w].row[3]
    BY <1>3 DEF Sound, ReadIsOfChild
  <1>5. \A r \in wanted : r[3] = session[w].row[3]
    BY <1>1, <1>4
  <1>6. \/ /\ session[w].op = "add" /\ Add(w)
           /\ rows' = rows \cup {session[w].row}
        \/ /\ session[w].op = "remove" /\ Remove(w)
           /\ rows' = rows \ {session[w].row}
    BY DEF Add, Remove
  <1>. QED BY <1>1, <1>2, <1>3, <1>5, <1>6, Acts DEF Did

\* The volumes of a child after an action are those it wanted.
LEMMA WantedVolumes ==
    ASSUME NEW w \in Workers, NEW wanted, Did(w, wanted)
    PROVE  /\ \A p : p # session[w].row[3] => VolumesOf(p)' = VolumesOf(p)
           /\ wanted # session[w].read =>
                  \A p : p = session[w].row[3] => VolumesOf(p)' = wanted
           /\ wanted = session[w].read => volumes' = volumes
  <1>1. volumes' = IF wanted # session[w].read
                   THEN {r \in volumes : r[3] # session[w].row[3]} \cup wanted
                   ELSE volumes
    BY DEF Did, Written
  <1>2. \A r \in wanted : r[3] = session[w].row[3]
    BY DEF Did
  <1>. QED BY <1>1, <1>2 DEF VolumesOf

LEMMA ActionBounded ==
    ASSUME NEW w \in Workers, NEW wanted, Did(w, wanted)
    PROVE  Bounded(Ends(session[w].row),
                   IF wanted # session[w].read THEN {session[w].row[3]} ELSE {})
  <1>1. session[w].row[3] \in Ends(session[w].row)
    BY EndsType DEF Did
  <1>2. alive' = alive /\ rows' \subseteq rows \cup {session[w].row}
    BY DEF Did
  <1>3. wanted = session[w].read => \A p : VolumesOf(p)' = VolumesOf(p)
    BY WantedVolumes DEF VolumesOf
  <1>4. \A p : p # session[w].row[3] => VolumesOf(p)' = VolumesOf(p)
    BY WantedVolumes
  <1>. QED BY <1>1, <1>2, <1>3, <1>4 DEF Bounded

LEMMA ActionSound ==
    ASSUME TypeOK, NEW w \in Workers, Sound(w), NEW wanted, Did(w, wanted),
           session[w].op \in {"add", "remove"}, session[w].row # <<>>
    PROVE  Sound(w)'
  <1>. DEFINE s == session[w]
              t == session'[w]
              child == session[w].row[3]
              mine == IF child = s.record THEN wanted ELSE s.mine
  <1>1. /\ t.op = s.op /\ t.record = s.record /\ t.row = <<>>
        /\ t.mine = mine /\ t.met = s.met /\ t.count = s.count + 1
    BY DEF Did, Written, Acted
  <1>2. s.count \in Nat
    BY DEF TypeOK, Session
  <1>3. t.count > 0
    BY <1>1, <1>2
  <1>4. s.mine = VolumesOf(s.record) \/ s.record \in s.met
    BY DEF Sound, ReadIsCurrent, Acting
  <1>5. s.read = VolumesOf(child) \/ child \in s.met
    BY DEF Sound, ReadIsCurrent, Acting
  <1>6. \A p : p = s.record => mine = VolumesOf(p)' \/ p \in s.met
    <2>. SUFFICES ASSUME NEW p, p = s.record
                  PROVE  mine = VolumesOf(p)' \/ p \in s.met
      OBVIOUS
    <2>1. /\ \A q : q # child => VolumesOf(q)' = VolumesOf(q)
          /\ wanted # s.read => \A q : q = child => VolumesOf(q)' = wanted
          /\ wanted = s.read => volumes' = volumes
      BY WantedVolumes
    <2>2. CASE child = p
      BY <1>5, <2>1, <2>2 DEF VolumesOf
    <2>3. CASE child # p
      BY <1>4, <2>1, <2>3
    <2>. QED BY <2>2, <2>3
  <1>7. \A r \in mine : r[3] = s.record
    BY DEF Did, Sound, ReadIsOfChild, Acting
  <1>. QED
    BY <1>1, <1>3, <1>6, <1>7
       DEF Sound, ReadIsCurrent, ReadIsOfChild, ReadIsChecked, Acting,
           AddIsValid, DeleteIsValid

LEMMA ActionKeepsSound ==
    ASSUME TypeOK, \A v \in Workers : Sound(v), NEW w \in Workers,
           Add(w) \/ Remove(w), rows' \subseteq Rows
    PROVE  \A v \in Workers : Sound(v)'
  <1>1. PICK wanted : Did(w, wanted)
    BY ActionDoes
  <1>2. Sound(w)'
    BY <1>1, ActionSound, Acts
  <1>. DEFINE concerned == Ends(session[w].row)
              written == IF wanted # session[w].read THEN {session[w].row[3]} ELSE {}
  <1>3. Bounded(concerned, written)
    BY <1>1, ActionBounded
  <1>4. \A v \in Workers : v # w => Met(v, concerned, written)
    BY <1>1 DEF Did, Written, CommitMet
  <1>. HIDE DEF concerned, written
  <1>5. ASSUME NEW v \in Workers, v # w PROVE Sound(v)'
    BY <1>3, <1>4, <1>5, OthersStaySound
  <1>. QED BY <1>2, <1>5

LEMMA DeleteKeepsSound ==
    ASSUME TypeOK, \A v \in Workers : Sound(v), NEW w \in Workers, Delete(w)
    PROVE  \A v \in Workers : Sound(v)'
  <1>. DEFINE q == {session[w].record}
  <1>1. q \in SUBSET Pids /\ Commit(w, Idle, q, q)
    BY DEF Delete, TypeOK
  <1>2. session'[w] = Idle /\ CommitMet(w, q, q)
    BY <1>1, IdleType, CommitMeets
  <1>3. UNCHANGED <<rows, volumes>> /\ alive' = alive \ q
    BY DEF Delete
  <1>. HIDE DEF q
  <1>4. Bounded(q, q)
    BY <1>3 DEF Bounded, VolumesOf
  <1>5. rows' \subseteq Rows
    BY <1>3 DEF TypeOK
  <1>6. ASSUME NEW v \in Workers, v # w PROVE Sound(v)'
    <2>1. Met(v, q, q)
      BY <1>2, <1>6 DEF CommitMet
    <2>. QED BY <1>4, <1>5, <2>1, OthersStaySound
  <1>. QED BY <1>2, <1>6, IdledIsSound

LEMMA NextSound ==
    ASSUME TypeOK, \A v \in Workers : Sound(v), [Next]_vars
    PROVE  \A v \in Workers : Sound(v)'
  <1>1. \A v \in Workers : session[v] \in Session
    BY DEF TypeOK
  <1>2. TypeOK'
    BY NextType
  <1>3. ASSUME NEW w \in Workers, NEW s, Set(w, s),
               UNCHANGED <<alive, rows, volumes>>, Sound(w)'
        PROVE  \A v \in Workers : Sound(v)'
    <2>1. ASSUME NEW v \in Workers, v # w PROVE session'[v] = session[v]
      BY <1>3, <2>1 DEF Set
    <2>. QED BY <1>3, <2>1, UntouchedStaysSound
  <1>4. CASE UNCHANGED vars
    BY <1>4, UntouchedStaysSound DEF vars
  <1>. SUFFICES ASSUME Next PROVE \A v \in Workers : Sound(v)'
    BY <1>4
  <1>5. offered \subseteq Rows
    BY PoolsAssumption DEF TypeOK
  <1>6. ASSUME NEW w \in Workers, NEW op \in {"add", "remove"},
               NEW record \in Pids, NEW row \in offered, NEW volume \in BOOLEAN,
               Begin(w, op, record, row, volume)
        PROVE  \A v \in Workers : Sound(v)'
    <2>1. PICK s : Begun(w, op, record, row, s)
      BY <1>5, <1>6, BeginSession
    <2>2. Set(w, s) /\ UNCHANGED <<alive, rows, volumes>>
      BY <1>6, <2>1 DEF Begun, Begin
    <2>3. Sound(w)'
      BY <1>5, <1>6, BeginSound
    <2>. QED BY <1>3, <2>2, <2>3
  <1>7. ASSUME NEW w \in Workers, Add(w) \/ Remove(w)
        PROVE  \A v \in Workers : Sound(v)'
    <2>1. rows' \subseteq Rows
      BY <1>2 DEF TypeOK
    <2>. QED BY <1>7, <2>1, ActionKeepsSound
  <1>8. ASSUME NEW w \in Workers, IndexTouched(w) \/ Fail(w)
        PROVE  \A v \in Workers : Sound(v)'
    <2>1. Set(w, Idle) /\ UNCHANGED <<alive, rows, volumes>>
      BY <1>8 DEF IndexTouched, Fail
    <2>2. session'[w] = Idle
      BY <2>1 DEF Set, TypeOK
    <2>. QED BY <1>3, <2>1, <2>2, IdledIsSound
  <1>9. ASSUME NEW w \in Workers, NEW p \in Pids, BeginDelete(w, p)
        PROVE  \A v \in Workers : Sound(v)'
    <2>. DEFINE s == [Idle EXCEPT !.op = "delete", !.record = p]
    <2>1. Set(w, s) /\ UNCHANGED <<alive, rows, volumes>> /\ RowsOf(p) = {}
      BY <1>9 DEF BeginDelete, CanDelete
    <2>2. s.op = "delete" /\ s.record = p /\ s.touched = {}
      BY DeletingType
    <2>. HIDE DEF s
    <2>3. session'[w] = s
      BY <2>1 DEF Set, TypeOK
    <2>4. Sound(w)'
      BY <2>1, <2>2, <2>3
         DEF Sound, Acting, ReadIsCurrent, ReadIsOfChild, ReadIsChecked,
             AddIsValid, DeleteIsValid, RowsOf
    <2>. QED BY <1>3, <2>1, <2>4
  <1>10. ASSUME NEW w \in Workers, Delete(w) PROVE \A v \in Workers : Sound(v)'
    BY <1>10, DeleteKeepsSound
  <1>11. ASSUME NEW task \in tasks, RunTask(task)
         PROVE  \A v \in Workers : Sound(v)'
    BY <1>11, UntouchedStaysSound DEF RunTask
  <1>12. ASSUME NEW p \in Series, NEW m \in Modes, EditMode(p, m)
         PROVE  \A v \in Workers : Sound(v)'
    <2>1. UNCHANGED <<alive, rows, volumes>>
      BY <1>12 DEF EditMode
    <2>2. Bounded({}, {p}) /\ rows' \subseteq Rows
      BY <1>2, <2>1 DEF Bounded, VolumesOf, TypeOK
    <2>3. \A v \in Workers : Met(v, {}, {p})
      BY <1>12, EditMeets
    <2>. QED BY <2>2, <2>3, OthersStaySound
  <1>. QED
    BY <1>6, <1>7, <1>8, <1>9, <1>10, <1>11, <1>12 DEF Next, Step

\* What an action adds was valid, or concerns a record it raced for.
LEMMA ActionRaces ==
    ASSUME IInv, NEW w \in Workers, NEW wanted, Did(w, wanted)
    PROVE  /\ SecondMultipartOnlyByRace'
           /\ DanglesOnlyByRace'
           /\ VolumesHaveRelations'
  <1>. DEFINE s == session[w]
              row == session[w].row
              child == session[w].row[3]
  <1>1. Sound(w) /\ Acting(w) /\ row \in Rows /\ row # <<>>
        /\ child \in Ends(row)
    BY EndsType DEF IInv, Did, Acting
  <1>2. /\ raced \subseteq raced'
        /\ s.met \cap Ends(row) # {} => Ends(row) \subseteq raced'
    BY DEF Did, Written, CommitMet
  <1>3. alive' = alive
    BY DEF Did
  <1>4. \/ rows' = rows \ {row}
        \/ /\ s.op = "add"
           /\ rows' = rows \cup {row}
    BY DEF Did
  <1>. HIDE DEF s, row
  <1>5. SecondMultipartOnlyByRace'
    <2>. SUFFICES ASSUME NEW q \in rows', NEW r \in rows',
                         q[1] = "multipart_monograph", r[1] = q[1],
                         q[3] = r[3], q # r
                  PROVE  q[3] \in raced'
      BY DEF SecondMultipartOnlyByRace
    <2>1. CASE q \in rows /\ r \in rows
      BY <1>2, <2>1 DEF IInv, SecondMultipartOnlyByRace
    <2>2. CASE q \notin rows \/ r \notin rows
      <3>1. /\ s.op = "add" /\ q[3] = row[3] /\ row[1] = "multipart_monograph"
            /\ \E o \in rows : o[1] = "multipart_monograph" /\ o[3] = row[3]
        BY <1>4, <2>2
      <3>2. row[3] \in s.met
        BY <1>1, <3>1 DEF Sound, AddIsValid, s, row
      <3>. QED BY <1>1, <1>2, <3>1, <3>2 DEF row
    <2>. QED BY <2>1, <2>2
  <1>6. DanglesOnlyByRace'
    <2>. SUFFICES ASSUME NEW r \in rows', NEW p \in Ends(r), p \notin alive
                  PROVE  p \in raced'
      BY <1>3 DEF DanglesOnlyByRace
    <2>1. CASE r \in rows
      BY <1>2, <2>1 DEF IInv, DanglesOnlyByRace
    <2>2. CASE r \notin rows
      <3>1. s.op = "add" /\ r = row
        BY <1>4, <2>2
      <3>2. p \in s.met
        BY <1>1, <3>1 DEF Sound, AddIsValid, s, row
      <3>. QED BY <1>2, <3>1, <3>2
    <2>. QED BY <2>1, <2>2
  <1>7. VolumesHaveRelations'
    <2>. SUFFICES ASSUME NEW r \in volumes', r \notin rows', r[3] \notin raced'
                  PROVE  FALSE
      BY DEF VolumesHaveRelations
    <2>1. /\ volumes' = IF wanted # s.read
                        THEN {o \in volumes : o[3] # row[3]} \cup wanted
                        ELSE volumes
          /\ \A o \in wanted : o[3] = row[3]
      BY DEF Did, Written, s, row
    <2>2. \A o \in volumes : o \in rows \/ o[3] \in raced
      BY DEF IInv, VolumesHaveRelations
    <2>3. CASE r[3] # row[3]
      <3>1. r \in volumes /\ r # row
        BY <2>1, <2>3
      <3>. QED BY <1>2, <1>4, <2>2, <3>1
    <2>4. CASE r[3] = row[3]
      <3>1. row[3] \notin s.met
        BY <1>1, <1>2, <2>4 DEF row
      <3>2. s.read = VolumesOf(row[3])
        BY <1>1, <3>1 DEF Sound, ReadIsCurrent, s, row
      <3>3. r \in wanted
        BY <2>1, <2>4, <3>2 DEF VolumesOf
      <3>4. \/ rows' = rows \cup {row} /\ wanted \subseteq s.read \cup {row}
            \/ rows' = rows \ {row} /\ wanted = s.read \ {row}
        BY DEF Did, s, row
      <3>5. r \in rows \/ r = row
        BY <1>2, <2>2, <2>4, <3>2, <3>3, <3>4 DEF VolumesOf
      <3>. QED BY <3>3, <3>4, <3>5
    <2>. QED BY <2>3, <2>4
  <1>. QED BY <1>5, <1>6, <1>7

\* A deletion has seen that its record has no relations, or it raced for it.
LEMMA DeleteRaces ==
    ASSUME IInv, NEW w \in Workers, Delete(w)
    PROVE  /\ SecondMultipartOnlyByRace'
           /\ DanglesOnlyByRace'
           /\ VolumesHaveRelations'
  <1>. DEFINE p == session[w].record
              q == {p}
  <1>1. q \in SUBSET Pids /\ Commit(w, Idle, q, q)
    BY DEF Delete, IInv, TypeOK
  <1>2. UNCHANGED <<rows, volumes>> /\ alive' = alive \ q
    BY DEF Delete
  <1>3. CommitMet(w, q, q)
    BY <1>1, IdleType, CommitMeets DEF IInv
  <1>4. raced \subseteq raced' /\ (p \in session[w].met => p \in raced')
    BY <1>3 DEF CommitMet
  <1>5. RowsOf(p) # {} => p \in session[w].met
    BY DEF Delete, IInv, Sound, DeleteIsValid
  <1>6. DanglesOnlyByRace'
    <2>. SUFFICES ASSUME NEW r \in rows, NEW o \in Ends(r), o \notin alive'
                  PROVE  o \in raced'
      BY <1>2 DEF DanglesOnlyByRace
    <2>1. CASE o = p
      BY <1>4, <1>5, <2>1 DEF RowsOf
    <2>2. CASE o # p
      BY <1>2, <1>4, <2>2 DEF IInv, DanglesOnlyByRace
    <2>. QED BY <2>1, <2>2
  <1>. QED
    BY <1>2, <1>4, <1>6
       DEF IInv, SecondMultipartOnlyByRace, VolumesHaveRelations

\* The steps that write records, relations or volumes.
LEMMA WhoWrites ==
    ASSUME [Next]_vars
    PROVE  \/ UNCHANGED <<alive, rows, volumes, raced>>
           \/ \E w \in Workers : Add(w) \/ Remove(w)
           \/ \E w \in Workers : Delete(w)
  <1>. DEFINE Quiet == UNCHANGED <<alive, rows, volumes, raced>>
  <1>1. \A w, op, record, row, volume : Begin(w, op, record, row, volume) => Quiet
    BY DEF Begin
  <1>2. \A w : IndexTouched(w) \/ Fail(w) => Quiet
    BY DEF IndexTouched, Fail
  <1>3. \A w, p : BeginDelete(w, p) => Quiet
    BY DEF BeginDelete
  <1>4. \A task : RunTask(task) => Quiet
    BY DEF RunTask
  <1>5. \A p, m : EditMode(p, m) => Quiet
    BY DEF EditMode
  <1>6. CASE UNCHANGED vars
    BY <1>6 DEF vars
  <1>. HIDE DEF Quiet
  <1>7. Next => \/ Quiet
                \/ \E w \in Workers : Add(w) \/ Remove(w)
                \/ \E w \in Workers : Delete(w)
    BY <1>1, <1>2, <1>3, <1>4, <1>5 DEF Next, Step
  <1>. QED BY <1>6, <1>7 DEF Quiet

LEMMA NextInv == IInv /\ [Next]_vars => IInv'
  <1>. SUFFICES ASSUME IInv, [Next]_vars PROVE IInv'
    OBVIOUS
  <1>1. TypeOK' /\ \A v \in Workers : Sound(v)'
    BY NextType, NextSound DEF IInv
  <1>2. /\ SecondMultipartOnlyByRace'
        /\ DanglesOnlyByRace'
        /\ VolumesHaveRelations'
    <2>1. CASE UNCHANGED <<alive, rows, volumes, raced>>
      BY <2>1
         DEF IInv, SecondMultipartOnlyByRace, DanglesOnlyByRace,
             VolumesHaveRelations
    <2>2. ASSUME NEW w \in Workers, Add(w) \/ Remove(w)
          PROVE  /\ SecondMultipartOnlyByRace'
                 /\ DanglesOnlyByRace'
                 /\ VolumesHaveRelations'
      <3>1. PICK wanted : Did(w, wanted)
        BY <2>2, ActionDoes DEF IInv
      <3>. QED BY <3>1, ActionRaces
    <2>3. ASSUME NEW w \in Workers, Delete(w)
          PROVE  /\ SecondMultipartOnlyByRace'
                 /\ DanglesOnlyByRace'
                 /\ VolumesHaveRelations'
      BY <2>3, DeleteRaces
    <2>. QED BY <2>1, <2>2, <2>3, WhoWrites
  <1>. QED BY <1>1, <1>2 DEF IInv

LEMMA Invariant == Spec => []IInv
  BY InitInv, NextInv, PTL DEF Spec

\* A second multipart monograph of a record, which the validation refuses, is
\* the work of two requests for the record that overlapped.
THEOREM MultipartsAreRaced == Spec => []SecondMultipartOnlyByRace
  <1>1. IInv => SecondMultipartOnlyByRace
    BY DEF IInv
  <1>. QED BY <1>1, Invariant, PTL

\* Nobody deletes a record that has relations, nor relates a record that is
\* deleted, unless the deletion and the new relation overlap.
THEOREM DanglingIsRaced == Spec => []DanglesOnlyByRace
  <1>1. IInv => DanglesOnlyByRace
    BY DEF IInv
  <1>. QED BY <1>1, Invariant, PTL

\* A volume outlives its relation in the metadata of its child only by
\* requests on the child that overlapped.
THEOREM VolumesAreRelated == Spec => []VolumesHaveRelations
  <1>1. IInv => VolumesHaveRelations
    BY DEF IInv
  <1>. QED BY <1>1, Invariant, PTL

\* The version of the child protects its volumes from other requests, but not
\* from an action of a list whose record is the child.
THEOREM VolumesAreKept == Spec => VolumesLeaveWithRelations
  <1>. DEFINE Leave ==
          \A row \in volumes \ volumes' :
              \/ row \notin rows'
              \/ \E w \in Workers : session[w].count > 0 /\ session[w].record = row[3]
  <1>1. IInv /\ [Next]_vars => [Leave]_vars
    <2>. SUFFICES ASSUME IInv, Next, NEW r \in volumes \ volumes', r \in rows'
                  PROVE  \E w \in Workers :
                             session[w].count > 0 /\ session[w].record = r[3]
      OBVIOUS
    <2>1. PICK w \in Workers : Add(w) \/ Remove(w)
      BY WhoWrites DEF Delete
    <2>2. PICK wanted : Did(w, wanted)
      BY <2>1, ActionDoes DEF IInv
    <2>. DEFINE s == session[w]
    <2>3. /\ wanted # s.read
          /\ s.row[3] \notin s.written
          /\ volumes' = {o \in volumes : o[3] # s.row[3]} \cup wanted
      BY <2>2 DEF Did, Written
    <2>4. r[3] = s.row[3] /\ r \notin wanted
      BY <2>3
    <2>5. /\ Acting(w) /\ s.row # <<>>
          /\ \/ s.read \subseteq wanted
             \/ rows' = rows \ {s.row} /\ wanted = s.read \ {s.row}
      BY <2>1, <2>2, Acts DEF Did, Acting
    <2>6. r \notin s.read
      BY <2>4, <2>5
    <2>7. s.read # VolumesOf(s.row[3])
      BY <2>4, <2>6 DEF VolumesOf
    <2>8. s.count > 0 /\ s.record = s.row[3]
      BY <2>3, <2>5, <2>7 DEF IInv, Sound, ReadIsChecked
    <2>. QED BY <2>4, <2>8
  <1>. QED BY <1>1, Invariant, PTL DEF Spec, VolumesLeaveWithRelations

-----------------------------------------------------------------------------
(* The index. Whatever changes a record's relations touches the record.    *)

\* what the index owes a record
Settled(p) ==
    \/ index[p] = Shown(p)
    \/ p \in broken
    \/ ~(RelatedTo(p) \subseteq alive)

LEMMA SameRowsShowTheSame ==
    ASSUME NEW p, RowsOf(p)' = RowsOf(p)
    PROVE  /\ RelatedTo(p)' = RelatedTo(p)
           /\ alive' = alive => Shown(p)' = Shown(p)
  <1>1. RelationsOf(p)' = RelationsOf(p)
    BY DEF RelationsOf
  <1>2. RelatedTo(p)' = RelatedTo(p)
    BY <1>1 DEF RelatedTo
  <1>. QED BY <1>1, <1>2 DEF Shown

\* A step that leaves the relations and the records alone, and forgets no
\* record that waits.
LEMMA IndexKept ==
    ASSUME IndexShowsRelations, UNCHANGED <<alive, rows>>,
           \A p \in alive : Awaited(p) => Awaited(p)' \/ Settled(p)',
           \A p \in alive : index'[p] = index[p] \/ Settled(p)',
           broken \subseteq broken'
    PROVE  IndexShowsRelations'
  <1>. SUFFICES ASSUME NEW p \in alive, ~Settled(p)' PROVE Awaited(p)'
    BY DEF IndexShowsRelations, Settled
  <1>1. RelatedTo(p)' = RelatedTo(p) /\ Shown(p)' = Shown(p)
    BY SameRowsShowTheSame DEF RowsOf
  <1>2. ~Settled(p)
    BY <1>1 DEF Settled
  <1>. QED BY <1>2 DEF IndexShowsRelations, Settled

\* What waits for its request, or for a task, still does.
LEMMA AwaitedStays ==
    ASSUME \A w \in Workers : session[w].touched \subseteq session'[w].touched,
           tasks \subseteq tasks', NEW p, Awaited(p)
    PROVE  Awaited(p)'
  BY DEF Awaited

\* What others do takes nothing from what a request has touched.
LEMMA MetTouched ==
    ASSUME NEW v \in Workers, NEW concerned, NEW written,
           Met(v, concerned, written)
    PROVE  session[v].touched \subseteq session'[v].touched
  BY DEF Met

LEMMA ActionIndex ==
    ASSUME IInv, IndexShowsRelations, NEW w \in Workers, Add(w) \/ Remove(w)
    PROVE  IndexShowsRelations'
  <1>1. PICK wanted : Did(w, wanted)
    BY ActionDoes DEF IInv
  <1>. DEFINE row == session[w].row
  <1>2. session'[w].touched = session[w].touched \cup Ends(row)
    BY <1>1 DEF Did, Written, Acted
  <1>3. ASSUME NEW v \in Workers, v # w
        PROVE  session[v].touched \subseteq session'[v].touched
    BY <1>1, <1>3, MetTouched DEF Did, Written, CommitMet
  <1>4. \A v \in Workers : session[v].touched \subseteq session'[v].touched
    BY <1>2, <1>3
  <1>5. UNCHANGED <<alive, index, tasks, broken>>
    BY <1>1 DEF Did
  <1>6. rows' \subseteq rows \cup {row} /\ rows \subseteq rows' \cup {row}
    BY <1>1 DEF Did
  <1>. HIDE DEF row
  <1>. SUFFICES ASSUME NEW p \in alive, ~Awaited(p)' PROVE Settled(p)'
    BY <1>5 DEF IndexShowsRelations, Settled
  <1>7. p \notin Ends(row)
    BY <1>2 DEF Awaited
  <1>8. RowsOf(p)' = RowsOf(p)
    BY <1>6, <1>7 DEF RowsOf
  <1>9. RelatedTo(p)' = RelatedTo(p) /\ Shown(p)' = Shown(p)
    BY <1>5, <1>8, SameRowsShowTheSame
  <1>10. ~Awaited(p)
    BY <1>4, <1>5, AwaitedStays
  <1>. QED BY <1>5, <1>9, <1>10 DEF IndexShowsRelations, Settled

LEMMA DeleteIndex ==
    ASSUME IInv, IndexShowsRelations, NEW w \in Workers, Delete(w)
    PROVE  IndexShowsRelations'
  <1>. DEFINE q == {session[w].record}
  <1>1. q \in SUBSET Pids /\ Commit(w, Idle, q, q)
    BY DEF Delete, IInv, TypeOK
  <1>2. CommitMet(w, q, q)
    BY <1>1, IdleType, CommitMeets DEF IInv
  <1>3. session[w].touched = {}
    BY DEF Delete, IInv, Sound, DeleteIsValid
  <1>4. ASSUME NEW v \in Workers, v # w
        PROVE  session[v].touched \subseteq session'[v].touched
    BY <1>2, <1>4, MetTouched DEF CommitMet
  <1>5. \A v \in Workers : session[v].touched \subseteq session'[v].touched
    BY <1>3, <1>4
  <1>6. /\ UNCHANGED <<rows, tasks, broken>> /\ alive' = alive \ q
        /\ \A p \in Pids : p \notin q => index'[p] = index[p]
    BY DEF Delete, IInv, TypeOK
  <1>. HIDE DEF q
  <1>. SUFFICES ASSUME NEW p \in alive', ~Awaited(p)', RelatedTo(p)' \subseteq alive'
                PROVE  Settled(p)'
    BY DEF IndexShowsRelations, Settled
  <1>7. ~Awaited(p) /\ p \in alive /\ p \in Pids /\ p \notin q
    BY <1>5, <1>6, AwaitedStays DEF IInv, TypeOK
  <1>8. RelatedTo(p)' = RelatedTo(p) /\ RelationsOf(p)' = RelationsOf(p)
    BY <1>6, SameRowsShowTheSame DEF RowsOf, RelationsOf
  <1>9. RelatedTo(p) \subseteq alive /\ Shown(p)' = Shown(p)
    BY <1>6, <1>8 DEF Shown
  <1>. QED BY <1>6, <1>7, <1>9 DEF IndexShowsRelations, Settled

\* The records a request touched are indexed, or a task is to do it.
LEMMA TouchedIndex ==
    ASSUME IInv, IndexShowsRelations, NEW w \in Workers, IndexTouched(w)
    PROVE  IndexShowsRelations'
  <1>. DEFINE s == session[w]
  <1>1. /\ UNCHANGED <<alive, rows, broken>> /\ tasks' = tasks \cup TasksOf(s)
        /\ index' = [index EXCEPT ![s.record] = Shown(s.record)]
        /\ Set(w, Idle)
    BY DEF IndexTouched
  <1>2. \A p \in alive : index'[p] = IF p = s.record THEN Shown(p) ELSE index[p]
    BY <1>1 DEF IInv, TypeOK
  <1>3. \A p : Shown(p)' = Shown(p)
    BY <1>1, SameRowsShowTheSame DEF RowsOf
  <1>4. \A p \in alive : index'[p] = index[p] \/ Settled(p)'
    BY <1>2, <1>3 DEF Settled
  <1>5. \A v \in Workers : v # w => session'[v] = session[v]
    BY <1>1 DEF Set, IInv, TypeOK
  <1>6. ASSUME NEW p \in alive, Awaited(p) PROVE Awaited(p)' \/ Settled(p)'
    <2>1. CASE p = s.record
      BY <1>2, <1>3, <2>1 DEF Settled
    <2>2. CASE p # s.record /\ p \in s.touched
      <3>1. \E task \in TasksOf(s) : p \in task
        BY <2>2 DEF TasksOf
      <3>. QED BY <1>1, <3>1 DEF Awaited
    <2>3. CASE p \notin s.touched
      BY <1>1, <1>5, <1>6, <2>3 DEF Awaited
    <2>. QED BY <2>1, <2>2, <2>3
  <1>. QED BY <1>1, <1>4, <1>6, IndexKept

LEMMA TaskIndex ==
    ASSUME IInv, IndexShowsRelations, NEW task \in tasks, RunTask(task)
    PROVE  IndexShowsRelations'
  <1>1. UNCHANGED <<alive, rows, session>> /\ tasks' = tasks \ {task}
    BY DEF RunTask
  <1>2. \/ /\ index' = [p \in Pids |-> IF p \in task THEN Shown(p) ELSE index[p]]
           /\ broken' = broken
        \/ broken' = broken \cup task /\ index' = index
    BY DEF RunTask
  <1>3. \A p : Shown(p)' = Shown(p)
    BY <1>1, SameRowsShowTheSame DEF RowsOf
  <1>4. \A p \in alive : p \in task => Settled(p)'
    BY <1>2, <1>3 DEF Settled, IInv, TypeOK
  <1>5. \A p \in alive : index'[p] = index[p] \/ Settled(p)'
    BY <1>2, <1>4 DEF IInv, TypeOK
  <1>6. \A p \in alive : Awaited(p) => Awaited(p)' \/ Settled(p)'
    BY <1>1, <1>4 DEF Awaited
  <1>7. broken \subseteq broken'
    BY <1>2
  <1>. QED BY <1>1, <1>5, <1>6, <1>7, IndexKept

\* Any record that is not deleted is shown with its relations, but for what
\* waits to be indexed, and what a request or a task that failed has left.
THEOREM IndexIsRight == Spec => []IndexShowsRelations
  <1>1. Init => IndexShowsRelations
    <2>. SUFFICES ASSUME Init, NEW p \in Pids
                  PROVE  index[p] = Shown(p) \/ ~(RelatedTo(p) \subseteq alive)
      BY DEF Init, IndexShowsRelations
    <2>. QED BY DEF Init, Shown
  <1>2. IInv /\ IndexShowsRelations /\ [Next]_vars => IndexShowsRelations'
    <2>. SUFFICES ASSUME IInv, IndexShowsRelations, [Next]_vars
                  PROVE  IndexShowsRelations'
      OBVIOUS
    <2>1. CASE UNCHANGED vars
      BY <2>1 DEF vars, IndexShowsRelations, Awaited, Shown, RelatedTo,
                  RelationsOf, RowsOf
    <2>. SUFFICES ASSUME Next PROVE IndexShowsRelations'
      BY <2>1
    <2>2. ASSUME NEW w \in Workers, Set(w, session'[w]),
                 session[w].touched \subseteq session'[w].touched,
                 UNCHANGED <<alive, rows, index, tasks, broken>>
          PROVE  IndexShowsRelations'
      <3>1. \A v \in Workers : session[v].touched \subseteq session'[v].touched
        BY <2>2 DEF Set, IInv, TypeOK
      <3>. QED BY <2>2, <3>1, AwaitedStays, IndexKept
    <2>3. ASSUME NEW w \in Workers, NEW op \in {"add", "remove"},
                 NEW record \in Pids, NEW row \in offered,
                 NEW volume \in BOOLEAN, Begin(w, op, record, row, volume)
          PROVE  IndexShowsRelations'
      <3>1. row \in Rows
        BY PoolsAssumption DEF IInv, TypeOK
      <3>2. PICK s : Begun(w, op, record, row, s)
        BY <2>3, <3>1, BeginSession DEF IInv
      <3>3. session'[w] = s /\ Set(w, s) /\ s.touched = session[w].touched
        BY <3>2 DEF Begun, Set, IInv, TypeOK
      <3>4. UNCHANGED <<alive, rows, index, tasks, broken>>
        BY <2>3 DEF Begin
      <3>. QED BY <2>2, <3>3, <3>4
    <2>4. ASSUME NEW w \in Workers, Add(w) \/ Remove(w)
          PROVE  IndexShowsRelations'
      BY <2>4, ActionIndex
    <2>5. ASSUME NEW w \in Workers, IndexTouched(w) PROVE IndexShowsRelations'
      BY <2>5, TouchedIndex
    <2>6. ASSUME NEW w \in Workers, Fail(w) PROVE IndexShowsRelations'
      <3>1. /\ UNCHANGED <<alive, rows, index, tasks>>
            /\ broken' = broken \cup session[w].touched
            /\ \A v \in Workers : v # w => session'[v] = session[v]
        BY <2>6 DEF Fail, Set, IInv, TypeOK
      <3>2. \A p \in alive : Awaited(p) => Awaited(p)' \/ Settled(p)'
        BY <3>1 DEF Awaited, Settled
      <3>. QED BY <3>1, <3>2, IndexKept
    <2>7. ASSUME NEW w \in Workers, NEW p \in Pids, BeginDelete(w, p)
          PROVE  IndexShowsRelations'
      <3>1. /\ UNCHANGED <<alive, rows, index, tasks, broken>>
            /\ session[w].touched = {}
        BY <2>7, IdleOp DEF BeginDelete
      <3>2. Set(w, session'[w])
        BY <2>7 DEF BeginDelete, Set, IInv, TypeOK
      <3>. QED BY <2>2, <3>1, <3>2
    <2>8. ASSUME NEW w \in Workers, Delete(w) PROVE IndexShowsRelations'
      BY <2>8, DeleteIndex
    <2>9. ASSUME NEW task \in tasks, RunTask(task) PROVE IndexShowsRelations'
      BY <2>9, TaskIndex
    <2>10. ASSUME NEW p \in Series, NEW m \in Modes, EditMode(p, m)
           PROVE  IndexShowsRelations'
      <3>1. /\ UNCHANGED <<alive, rows, tasks, broken>>
            /\ index' = [index EXCEPT ![p] = Shown(p)]
        BY <2>10 DEF EditMode
      <3>2. \A r : Shown(r)' = Shown(r)
        BY <3>1, SameRowsShowTheSame DEF RowsOf
      <3>3. \A r \in alive : index'[r] = index[r] \/ Settled(r)'
        BY <3>1, <3>2 DEF Settled, IInv, TypeOK
      <3>4. \A v \in Workers : Met(v, {}, {p})
        BY <2>10, EditMeets DEF IInv
      <3>5. \A v \in Workers : session[v].touched \subseteq session'[v].touched
        BY <3>4, MetTouched
      <3>. QED BY <3>1, <3>3, <3>5, AwaitedStays, IndexKept
    <2>. QED
      BY <2>3, <2>4, <2>5, <2>6, <2>7, <2>8, <2>9, <2>10 DEF Next, Step
  <1>. QED BY <1>1, <1>2, Invariant, PTL DEF Spec
=============================================================================
