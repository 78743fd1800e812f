--------------------------- MODULE SiblingsProofs ---------------------------
(***************************************************************************)
(* Theorems about SiblingsRelation, for every set of PIDs and workers and  *)
(* every rule of which records may be related.                             *)
(***************************************************************************)
EXTENDS SiblingsRelation, TLAPS

(***************************************************************************)
(* The queries, on a set of rows that is a forest of stars.                *)
(***************************************************************************)

\* Whichever row comes first, get_any_relation_of answers the same.
LEMMA OneAnswer ==
  ASSUME NEW R \in SUBSET (Pids \X Pids), IsStarForest(R), NEW p \in Pids,
         NEW A \in AnyRelationOf(R, p), NEW B \in AnyRelationOf(R, p)
  PROVE  A = B
<1>1. CASE RowsOf(R, p) = {}
  BY <1>1 DEF AnyRelationOf
<1>2. CASE RowsOf(R, p) # {}
  <2>1. PICK r \in RowsOf(R, p) :
           A = IF r[1] = p THEN RowsOf(R, p) ELSE RowsUnder(R, r[1])
    BY <1>2 DEF AnyRelationOf
  <2>2. PICK s \in RowsOf(R, p) :
           B = IF s[1] = p THEN RowsOf(R, p) ELSE RowsUnder(R, s[1])
    BY <1>2 DEF AnyRelationOf
  <2>3. r \in R /\ s \in R /\ (r[1] = p \/ r[2] = p) /\ (s[1] = p \/ s[2] = p)
    BY DEF RowsOf
  <2>4. (r[1] = p /\ s[1] = p) \/ r = s
    BY <2>3 DEF IsStarForest
  <2>5. QED
    BY <2>1, <2>2, <2>4
<1>3. QED
  BY <1>1, <1>2

\* The answer is the whole star: it holds every row that touches it.
LEMMA AnswerIsClosed ==
  ASSUME NEW R \in SUBSET (Pids \X Pids), IsStarForest(R), NEW p \in Pids,
         NEW A \in AnyRelationOf(R, p)
  PROVE  /\ A \subseteq R
         /\ \A r \in R : {r[1], r[2]} \cap (Ends(A) \cup {p}) # {} => r \in A
         /\ A # {} => p \in Ends(A)
<1>1. CASE RowsOf(R, p) = {}
  BY <1>1 DEF AnyRelationOf, RowsOf, Ends
<1>2. CASE RowsOf(R, p) # {}
  <2>1. PICK r \in RowsOf(R, p) :
           A = IF r[1] = p THEN RowsOf(R, p) ELSE RowsUnder(R, r[1])
    BY <1>2 DEF AnyRelationOf
  <2>2. r \in R /\ (r[1] = p \/ r[2] = p)
    BY DEF RowsOf
  <2>3. A = RowsUnder(R, r[1])
    <3>1. CASE r[1] = p
      <4>1. RowsOf(R, p) = RowsUnder(R, p)
        BY <2>2, <3>1 DEF RowsOf, RowsUnder, IsStarForest
      <4>2. QED
        BY <2>1, <3>1, <4>1
    <3>2. CASE r[1] # p
      BY <2>1, <3>2
    <3>3. QED
      BY <3>1, <3>2
  <2>4. A \subseteq R /\ r \in A
    BY <2>2, <2>3 DEF RowsUnder
  <2>5. \A x \in Ends(A) : x = r[1] \/ \E s \in A : s[1] = r[1] /\ s[2] = x
    BY <2>3 DEF Ends, RowsUnder
  <2>6. p \in Ends(A)
    BY <2>2, <2>4 DEF Ends
  <2>7. ASSUME NEW s \in R, NEW x \in Ends(A), s[1] = x \/ s[2] = x
        PROVE  s \in A
    <3>1. CASE x = r[1]
      <4>1. s[1] = r[1]
        BY <2>2, <2>7, <3>1 DEF IsStarForest
      <4>2. QED
        BY <2>3, <4>1 DEF RowsUnder
    <3>2. ASSUME NEW t \in A, t[1] = r[1], t[2] = x PROVE s \in A
      <4>1. t \in R
        BY <2>4
      <4>2. s = t
        BY <2>7, <3>2, <4>1 DEF IsStarForest
      <4>3. QED
        BY <4>2
    <3>3. QED
      BY <2>5, <3>1, <3>2
  <2>8. QED
    BY <2>4, <2>6, <2>7
<1>3. QED
  BY <1>1, <1>2

\* ... and the answer for every record in it.
LEMMA SameAnswer ==
  ASSUME NEW R \in SUBSET (Pids \X Pids), IsStarForest(R), NEW p \in Pids,
         NEW A \in AnyRelationOf(R, p), NEW q \in Ends(A)
  PROVE  q \in Pids /\ A \in AnyRelationOf(R, q)
<1>1. PICK s \in A : s[1] = q \/ s[2] = q
  BY DEF Ends
<1>2. s \in R /\ A \subseteq R
  BY <1>1, AnswerIsClosed
<1>3. q \in Pids
  BY <1>1, <1>2
<1>4. s \in RowsOf(R, q)
  BY <1>1, <1>2 DEF RowsOf
<1>5. PICK r \in RowsOf(R, p) :
         A = IF r[1] = p THEN RowsOf(R, p) ELSE RowsUnder(R, r[1])
  BY <1>1 DEF AnyRelationOf
<1>6. r \in R /\ (r[1] = p \/ r[2] = p)
  BY DEF RowsOf
<1>7. A = RowsUnder(R, r[1])
  <2>1. CASE r[1] = p
    <3>1. RowsOf(R, p) = RowsUnder(R, p)
      BY <1>6, <2>1 DEF RowsOf, RowsUnder, IsStarForest
    <3>2. QED
      BY <1>5, <2>1, <3>1
  <2>2. CASE r[1] # p
    BY <1>5, <2>2
  <2>3. QED
    BY <2>1, <2>2
<1>8. s[1] = r[1]
  BY <1>1, <1>7 DEF RowsUnder
<1>9. A = IF s[1] = q THEN RowsOf(R, q) ELSE RowsUnder(R, s[1])
  <2>1. CASE s[1] = q
    <3>1. RowsOf(R, q) = RowsUnder(R, q)
      BY <1>2, <2>1 DEF RowsOf, RowsUnder, IsStarForest
    <3>2. QED
      BY <1>7, <1>8, <2>1, <3>1
  <2>2. CASE s[1] # q
    BY <1>7, <1>8, <2>2
  <2>3. QED
    BY <2>1, <2>2
<1>10. QED
  BY <1>3, <1>4, <1>9 DEF AnyRelationOf

\* The group of a record is read off any answer.
LEMMA GroupIsAnswer ==
  ASSUME NEW R \in SUBSET (Pids \X Pids), IsStarForest(R), NEW p \in Pids,
         NEW A \in AnyRelationOf(R, p)
  PROVE  GroupOf(R, p) = {p} \cup Ends(A)
<1>1. AnyRelationOf(R, p) = {A}
  BY OneAnswer
<1>2. QED
  BY <1>1 DEF GroupOf

-----------------------------------------------------------------------------
(***************************************************************************)
(* A plan that replaces whole stars D, of members M, by one star q of      *)
(* members N.                                                              *)
(***************************************************************************)

Replaceable(R, D, M, N, q) ==
    /\ R \subseteq Pids \X Pids
    /\ IsStarForest(R)
    /\ D \subseteq R
    /\ M \subseteq Pids
    /\ N \subseteq M
    /\ q \in N
    /\ Ends(D) \subseteq M
    /\ \A r \in R : {r[1], r[2]} \cap M # {} => r \in D

Replaced(R, D, N, q) == (R \ D) \cup Star(q, N)

LEMMA ReplaceKeepsStars ==
  ASSUME NEW R, NEW D, NEW M, NEW N, NEW q, Replaceable(R, D, M, N, q)
  PROVE  IsStarForest(Replaced(R, D, N, q))
<1> USE DEF Replaceable, Replaced
<1> DEFINE S == (R \ D) \cup Star(q, N)
<1>1. SUFFICES ASSUME NEW r \in S, NEW s \in S
               PROVE  r[1] # s[2] /\ (r[2] = s[2] => r = s)
  BY DEF IsStarForest
<1>2. \A t \in R \ D : t[1] \notin M /\ t[2] \notin M
  OBVIOUS
<1>3. \A t \in Star(q, N) : t[1] = q /\ t[2] \in N /\ t[2] # q /\ t = <<q, t[2]>>
  BY DEF Star
<1>4. CASE r \in R \ D /\ s \in R \ D
  BY <1>4 DEF IsStarForest
<1>5. CASE r \in Star(q, N) /\ s \in Star(q, N)
  BY <1>3, <1>5
<1>6. CASE r \in R \ D /\ s \in Star(q, N)
  BY <1>2, <1>3, <1>6
<1>7. CASE r \in Star(q, N) /\ s \in R \ D
  BY <1>2, <1>3, <1>7
<1>8. QED
  BY <1>4, <1>5, <1>6, <1>7

\* The groups after it: N is one, who is in M but not in N is alone, nobody
\* else notices.
LEMMA ReplaceGroups ==
  ASSUME NEW R, NEW D, NEW M, NEW N, NEW q, Replaceable(R, D, M, N, q),
         NEW x \in Pids
  PROVE  /\ x \in N => GroupOf(Replaced(R, D, N, q), x) = N
         /\ x \in M \ N => GroupOf(Replaced(R, D, N, q), x) = {x}
         /\ x \notin M => GroupOf(Replaced(R, D, N, q), x) = GroupOf(R, x)
<1> DEFINE S == (R \ D) \cup Star(q, N)
<1> USE DEF Replaceable, Replaced
<1>1. S \in SUBSET (Pids \X Pids) /\ IsStarForest(S)
  <2>1. Star(q, N) \subseteq Pids \X Pids
    BY DEF Star
  <2>2. IsStarForest(S)
    BY ReplaceKeepsStars
  <2>3. QED
    BY <2>1, <2>2
<1>2. \A t \in R \ D : t[1] \notin M /\ t[2] \notin M
  OBVIOUS
<1>3. \A t \in D : t[1] \in M /\ t[2] \in M
  BY DEF Ends
<1>4. \A t \in Star(q, N) : t[1] = q /\ t[2] \in N /\ t[2] # q
  BY DEF Star
<1> HIDE DEF S
<1>5. ASSUME x \in N PROVE GroupOf(S, x) = N
  <2>1. CASE N = {q}
    <3>1. RowsOf(S, x) = {}
      BY <1>2, <1>4, <1>5, <2>1 DEF S, RowsOf
    <3>2. {} \in AnyRelationOf(S, x) /\ Ends({}) = {}
      BY <3>1 DEF AnyRelationOf, Ends
    <3>3. QED
      BY <1>1, <1>5, <2>1, <3>2, GroupIsAnswer
  <2>2. ASSUME NEW y \in N, y # q PROVE GroupOf(S, x) = N
    <3>1. Star(q, N) = RowsUnder(S, q)
      BY <1>2, <1>4 DEF S, RowsUnder
    <3>2. Ends(Star(q, N)) = N
      <4>1. <<q, y>> \in Star(q, N)
        BY <2>2 DEF Star
      <4>2. \A z \in N : z = q \/ <<q, z>> \in Star(q, N)
        BY DEF Star
      <4>3. Ends(Star(q, N)) \subseteq N
        BY <1>4 DEF Ends
      <4>4. ASSUME NEW z \in N PROVE z \in Ends(Star(q, N))
        <5>1. CASE z = q
          <6>1. <<q, y>>[1] = q
            OBVIOUS
          <6>2. QED
            BY <4>1, <5>1, <6>1 DEF Ends
        <5>2. CASE z # q
          <6>1. <<q, z>> \in Star(q, N) /\ <<q, z>>[2] = z
            BY <4>2, <5>2
          <6>2. QED
            BY <6>1 DEF Ends
        <5>3. QED
          BY <5>1, <5>2
      <4>5. QED
        BY <4>3, <4>4
    <3>3. <<q, y>> \in RowsOf(S, q)
      BY <2>2 DEF S, Star, RowsOf
    <3>4. RowsOf(S, q) = RowsUnder(S, q)
      BY <1>2, <1>4 DEF S, RowsOf, RowsUnder
    <3>5. Star(q, N) \in AnyRelationOf(S, q)
      BY <3>1, <3>3, <3>4 DEF AnyRelationOf
    <3>6. Star(q, N) \in AnyRelationOf(S, x)
      BY <1>1, <1>5, <3>2, <3>5, SameAnswer
    <3>7. GroupOf(S, x) = {x} \cup Ends(Star(q, N))
      BY <1>1, <3>6, GroupIsAnswer
    <3>8. QED
      BY <1>5, <3>2, <3>7
  <2>3. QED
    BY <2>1, <2>2
<1>6. ASSUME x \in M, x \notin N PROVE GroupOf(S, x) = {x}
  <2>1. RowsOf(S, x) = {}
    BY <1>2, <1>4, <1>6 DEF S, RowsOf
  <2>2. {} \in AnyRelationOf(S, x) /\ Ends({}) = {}
    BY <2>1 DEF AnyRelationOf, Ends
  <2>3. QED
    BY <1>1, <2>2, GroupIsAnswer
<1>7. ASSUME x \notin M PROVE GroupOf(S, x) = GroupOf(R, x)
  <2>1. RowsOf(S, x) = RowsOf(R, x)
    BY <1>3, <1>4, <1>7 DEF S, RowsOf
  <2>2. ASSUME NEW r \in RowsOf(R, x) PROVE RowsUnder(S, r[1]) = RowsUnder(R, r[1])
    <3>1. r \in R \ D
      BY <1>3, <1>7 DEF RowsOf
    <3>2. r[1] \notin M
      BY <1>2, <3>1
    <3>3. QED
      BY <1>3, <1>4, <3>2 DEF S, RowsUnder
  <2>3. AnyRelationOf(S, x) = AnyRelationOf(R, x)
    BY <2>1, <2>2 DEF AnyRelationOf
  <2>4. QED
    BY <2>3 DEF GroupOf
<1>8. QED
  BY <1>5, <1>6, <1>7 DEF S

-----------------------------------------------------------------------------
(***************************************************************************)
(* Type correctness, whatever the requests race with.                      *)
(***************************************************************************)

LEMMA AnswerType ==
  ASSUME NEW R \in SUBSET (Pids \X Pids), NEW p, NEW A \in AnyRelationOf(R, p)
  PROVE  A \subseteq R /\ Ends(A) \subseteq Pids
  BY DEF AnyRelationOf, RowsOf, RowsUnder, Ends

LEMMA StarType ==
  ASSUME NEW M \in SUBSET Pids, NEW c \in M
  PROVE  Star(c, M) \subseteq Pids \X Pids
  BY DEF Star

LEMMA AddPlanType ==
  ASSUME NEW R \in SUBSET (Pids \X Pids), NEW p \in Pids, NEW q \in Pids,
         NEW plan \in AddPlans(R, p, q)
  PROVE  plan.create \subseteq Pids \X Pids
<1>1. CASE plan = [delete |-> {}, create |-> {<<p, q>>}]
  BY <1>1
<1>2. CASE plan = Nothing
  BY <1>2 DEF Nothing
<1>3. ASSUME NEW A \in AnyRelationOfBoth(R, p, q),
             plan \in Recreate(A, Ends(A) \cup {p, q})
      PROVE  plan.create \subseteq Pids \X Pids
  <2> DEFINE M == Ends(A) \cup {p, q}
  <2>1. A \subseteq R
    BY AnswerType DEF AnyRelationOfBoth
  <2>2. M \subseteq Pids
    BY <2>1 DEF Ends
  <2>3. PICK c \in M : plan.create = Star(c, M)
    BY <1>3 DEF Recreate
  <2> HIDE DEF M
  <2>4. Star(c, M) \subseteq Pids \X Pids
    BY <2>2, StarType
  <2>5. QED
    BY <2>3, <2>4
<1>4. QED
  BY <1>1, <1>2, <1>3 DEF AddPlans

LEMMA RemovePlanType ==
  ASSUME NEW R \in SUBSET (Pids \X Pids), NEW p \in Pids,
         NEW plan \in RemovePlans(R, p)
  PROVE  plan.create \subseteq Pids \X Pids
<1>1. PICK A \in AnyRelationOf(R, p) : plan \in RemovePlansFor(A, p)
  BY DEF RemovePlans
<1>2. Ends(A) \subseteq Pids
  BY AnswerType
<1>3. CASE plan.create = {}
  BY <1>3
<1>4. CASE plan \in Recreate(A, Ends(A) \ {p})
  <2>1. PICK c \in Ends(A) \ {p} : plan.create = Star(c, Ends(A) \ {p})
    BY <1>4 DEF Recreate
  <2>2. QED
    BY <1>2, <2>1 DEF Star
<1>5. QED
  BY <1>1, <1>3, <1>4 DEF RemovePlansFor, Nothing

\* A request in flight has a first and a second record.
Asked ==
    \A w \in Workers :
        session[w] # Idle =>
            /\ session[w].op \in {"add", "remove"}
            /\ session[w].first \in Pids
            /\ session[w].second \in Pids
            /\ session[w].op = "add" => session[w].first # session[w].second

LEMMA InitType == Init => TypeOK /\ Asked
  BY NoPidAssumption DEF Init, TypeOK, Asked, Idle, Session

LEMMA NextType == TypeOK /\ Asked /\ [Next]_vars => TypeOK' /\ Asked'
<1> SUFFICES ASSUME TypeOK, Asked, [Next]_vars PROVE TypeOK' /\ Asked'
  OBVIOUS
<1> USE NoPidAssumption, NoteGivenAssumption
<1>1. ASSUME NEW w \in Workers, NEW op \in {"add", "remove"},
             NEW first \in Pids, NEW second \in Pids, NEW note \in BOOLEAN,
             op = "add" => first # second, Begin(w, op, first, second, note)
      PROVE TypeOK' /\ Asked'
  <2> DEFINE s == [op |-> op, first |-> first, second |-> second,
                   note |-> note, rows |-> rows,
                   notes |-> [p \in Pids |->
                                IF p \in {first, second} THEN notes[p] ELSE {}]]
  <2>1. s.notes \in [Pids -> SUBSET Pids]
    BY DEF TypeOK
  <2>2. s \in Session
    BY <2>1 DEF Session, TypeOK
  <2>3. session' = [session EXCEPT ![w] = s]
    BY <1>1 DEF Begin
  <2>4. /\ s.op = op /\ s.first = first /\ s.second = second
    OBVIOUS
  <2> HIDE DEF s
  <2>5. TypeOK'
    BY <1>1, <2>2, <2>3 DEF Begin, TypeOK
  <2>6. Asked'
    BY <1>1, <2>3, <2>4 DEF Asked, TypeOK
  <2>7. QED
    BY <2>5, <2>6
<1>2. ASSUME NEW w \in Workers, session' = [session EXCEPT ![w] = Idle]
      PROVE session' \in [Workers -> Session] /\ Asked'
  BY <1>2 DEF TypeOK, Asked, Idle, Session
<1>3. ASSUME NEW read, NEW wanted, wanted \in [Pids -> SUBSET Pids],
             WriteNotes(read, wanted)
      PROVE notes' \in [Pids -> SUBSET Pids]
  BY <1>3 DEF WriteNotes, TypeOK
<1>4. ASSUME NEW w \in Workers, CommitAdd(w) PROVE TypeOK' /\ Asked'
  <2> DEFINE s == session[w]
  <2>1. /\ s \in Session
        /\ s.first \in Pids /\ s.second \in Pids
    BY <1>4 DEF CommitAdd, TypeOK, Asked, Idle
  <2>2. s.rows \in SUBSET (Pids \X Pids) /\ s.notes \in [Pids -> SUBSET Pids]
    BY <2>1 DEF Session
  <2>3. PICK plan \in AddPlans(s.rows, s.first, s.second) : WriteRows(plan)
    BY <1>4 DEF CommitAdd
  <2>4. rows' \subseteq Pids \X Pids
    BY <2>1, <2>2, <2>3, AddPlanType DEF WriteRows, TypeOK
  <2>5. notes' \in [Pids -> SUBSET Pids]
    BY <1>3, <1>4, <2>1, <2>2 DEF CommitAdd, NoteAdded
  <2>6. QED
    BY <1>2, <1>4, <2>4, <2>5 DEF CommitAdd, TypeOK
<1>5. ASSUME NEW w \in Workers, CommitRemove(w) PROVE TypeOK' /\ Asked'
  <2> DEFINE s == session[w]
  <2>1. /\ s \in Session
        /\ s.first \in Pids /\ s.second \in Pids
    BY <1>5 DEF CommitRemove, TypeOK, Asked, Idle
  <2>2. s.rows \in SUBSET (Pids \X Pids) /\ s.notes \in [Pids -> SUBSET Pids]
    BY <2>1 DEF Session
  <2>3. PICK plan \in RemovePlans(s.rows, s.second) : WriteRows(plan)
    BY <1>5 DEF CommitRemove
  <2>4. rows' \subseteq Pids \X Pids
    BY <2>1, <2>2, <2>3, RemovePlanType DEF WriteRows, TypeOK
  <2>5. [s.notes EXCEPT ![s.first] = @ \ {s.second},
                        ![s.second] = @ \ {s.first}] \in [Pids -> SUBSET Pids]
    BY <2>1, <2>2
  <2>6. notes' \in [Pids -> SUBSET Pids]
    BY <1>3, <1>5, <2>5 DEF CommitRemove
  <2>7. QED
    BY <1>2, <1>5, <2>4, <2>6 DEF CommitRemove, TypeOK
<1>6. ASSUME NEW w \in Workers, Rollback(w) PROVE TypeOK' /\ Asked'
  BY <1>2, <1>6 DEF Rollback, TypeOK
<1>7. CASE Start
  BY <1>1, <1>7 DEF Start, CreateSiblingRelation, DeleteSiblingRelation
<1>8. CASE UNCHANGED vars
  BY <1>8 DEF vars, TypeOK, Asked
<1>9. QED
  BY <1>4, <1>5, <1>6, <1>7, <1>8 DEF Next, Finish

\* Rows join known PIDs, notes are on known PIDs, and a session is what a
\* request has read, however requests interleave.
THEOREM SiblingTypes == Spec => []TypeOK
<1>1. Spec => [](TypeOK /\ Asked)
  BY InitType, NextType, PTL DEF Spec
<1>2. QED
  BY <1>1, PTL

-----------------------------------------------------------------------------
(***************************************************************************)
(* One request at a time: stars stay stars and groups stay groups.         *)
(***************************************************************************)

Apply(R, plan) == (R \ plan.delete) \cup plan.create

\* Adding p and q to a forest of stars: nothing, or one star in the place of
\* the two.
LEMMA AddPlanJoins ==
  ASSUME NEW R \in SUBSET (Pids \X Pids), IsStarForest(R),
         NEW p \in Pids, NEW q \in Pids, p # q, NEW plan \in AddPlans(R, p, q)
  PROVE  \/ Apply(R, plan) = R
         \/ /\ IsStarForest(Apply(R, plan))
            /\ \A x \in Pids :
                  GroupOf(Apply(R, plan), x) =
                      IF x \in GroupOf(R, p) \cup GroupOf(R, q)
                      THEN GroupOf(R, p) \cup GroupOf(R, q)
                      ELSE GroupOf(R, x)
<1> DEFINE Goal ==
        /\ IsStarForest(Apply(R, plan))
        /\ \A x \in Pids :
              GroupOf(Apply(R, plan), x) =
                  IF x \in GroupOf(R, p) \cup GroupOf(R, q)
                  THEN GroupOf(R, p) \cup GroupOf(R, q)
                  ELSE GroupOf(R, x)
<1>1. ASSUME NEW A \in AnyRelationOf(R, p), NEW B \in AnyRelationOf(R, q),
             NEW D, D = A \cup B, NEW M, M = Ends(D) \cup {p, q},
             NEW c \in M, plan = [delete |-> D, create |-> Star(c, M)]
      PROVE  Goal
  <2>1. /\ A \subseteq R /\ B \subseteq R /\ D \subseteq R
        /\ Ends(D) = Ends(A) \cup Ends(B)
    BY <1>1, AnswerIsClosed DEF Ends
  <2>2. M \subseteq Pids
    BY <1>1, <2>1, AnswerType
  <2>3. \A r \in R : {r[1], r[2]} \cap M # {} => r \in D
    <3>1. \A r \in R : {r[1], r[2]} \cap (Ends(A) \cup {p}) # {} => r \in A
      BY AnswerIsClosed
    <3>2. \A r \in R : {r[1], r[2]} \cap (Ends(B) \cup {q}) # {} => r \in B
      BY AnswerIsClosed
    <3>3. QED
      BY <1>1, <2>1, <3>1, <3>2
  <2>4. Apply(R, plan) = Replaced(R, D, M, c)
    BY <1>1 DEF Apply, Replaced
  <2>5. M = GroupOf(R, p) \cup GroupOf(R, q)
    <3>1. GroupOf(R, p) = {p} \cup Ends(A)
      BY GroupIsAnswer
    <3>2. GroupOf(R, q) = {q} \cup Ends(B)
      BY GroupIsAnswer
    <3>3. QED
      BY <1>1, <2>1, <3>1, <3>2
  <2>6. Replaceable(R, D, M, M, c)
    BY <1>1, <2>1, <2>2, <2>3 DEF Replaceable
  <2>7. ASSUME NEW x \in Pids
        PROVE  GroupOf(Replaced(R, D, M, c), x) =
                   IF x \in M THEN M ELSE GroupOf(R, x)
    <3>1. /\ x \in M => GroupOf(Replaced(R, D, M, c), x) = M
          /\ x \notin M => GroupOf(Replaced(R, D, M, c), x) = GroupOf(R, x)
      BY <2>6, ReplaceGroups
    <3>2. QED
      BY <3>1
  <2>8. IsStarForest(Replaced(R, D, M, c))
    BY <2>6, ReplaceKeepsStars
  <2>9. QED
    BY <2>4, <2>5, <2>7, <2>8
<1>2. CASE RowsOf(R, p) = {} /\ RowsOf(R, q) = {}
  <2>1. {} \in AnyRelationOf(R, p) /\ {} \in AnyRelationOf(R, q)
    BY <1>2 DEF AnyRelationOf
  <2>2. Ends({}) = {}
    BY DEF Ends
  <2>3. Star(p, {p, q}) = {<<p, q>>}
    BY DEF Star
  <2>4. plan = [delete |-> {}, create |-> Star(p, {p, q})]
    BY <1>2, <2>3 DEF AddPlans
  <2> DEFINE M == Ends({}) \cup {p, q}
  <2>5. p \in M /\ M = {p, q}
    BY <2>2
  <2>6. {} = {} \cup {}
    OBVIOUS
  <2>7. Goal
    <3>1. plan = [delete |-> {}, create |-> Star(p, M)]
      BY <2>4, <2>5
    <3> HIDE DEF Goal
    <3>2. QED
      BY <1>1, <2>1, <2>5, <2>6, <3>1
  <2>8. QED
    BY <2>7
<1>3. CASE plan = Nothing
  BY <1>3 DEF Nothing, Apply
<1>4. ASSUME NEW D \in AnyRelationOfBoth(R, p, q),
             plan \in Recreate(D, Ends(D) \cup {p, q})
      PROVE  Goal
  <2>1. PICK A \in AnyRelationOf(R, p), B \in AnyRelationOf(R, q) : D = A \cup B
    BY DEF AnyRelationOfBoth
  <2>2. PICK c \in Ends(D) \cup {p, q} :
           plan = [delete |-> D, create |-> Star(c, Ends(D) \cup {p, q})]
    BY <1>4 DEF Recreate
  <2>3. QED
    BY <1>1, <2>1, <2>2
<1>5. QED
  BY <1>2, <1>3, <1>4 DEF AddPlans

\* Removing p from a forest of stars: nothing, or p alone and the others of
\* its group in one star.
LEMMA RemovePlanLeaves ==
  ASSUME NEW R \in SUBSET (Pids \X Pids), IsStarForest(R),
         NEW p \in Pids, NEW plan \in RemovePlans(R, p)
  PROVE  \/ Apply(R, plan) = R
         \/ /\ IsStarForest(Apply(R, plan))
            /\ \A x \in Pids :
                  GroupOf(Apply(R, plan), x) =
                      IF x = p THEN {p} ELSE GroupOf(R, x) \ {p}
<1>1. PICK A \in AnyRelationOf(R, p) : plan \in RemovePlansFor(A, p)
  BY DEF RemovePlans
<1> DEFINE M == Ends(A)
           N == M \ {p}
<1>2. CASE A = {}
  BY <1>1, <1>2 DEF RemovePlansFor, Nothing, Apply
<1>3. CASE A # {}
  <2>1. /\ A \subseteq R /\ p \in M /\ M \subseteq Pids
        /\ \A r \in R : {r[1], r[2]} \cap M # {} => r \in A
    BY <1>3, AnswerIsClosed, AnswerType
  <2>2. PICK c \in N : plan.delete = A /\ plan.create = Star(c, N)
    <3>1. ASSUME NEW r \in A, A = {r}
          PROVE  \E c \in N : plan.delete = A /\ plan.create = Star(c, N)
      <4>1. r \in R /\ r[1] # r[2]
        BY <2>1 DEF IsStarForest
      <4>2. M = {r[1], r[2]}
        BY <3>1 DEF Ends
      <4>3. PICK c \in N : N = {c}
        BY <2>1, <4>1, <4>2
      <4>4. Star(c, N) = {}
        BY <4>3 DEF Star
      <4>5. plan = [delete |-> A, create |-> {}]
        BY <1>1, <1>3, <3>1 DEF RemovePlansFor
      <4>6. QED
        BY <4>4, <4>5
    <3>2. CASE ~\E r \in A : A = {r}
      BY <1>1, <1>3, <3>2 DEF RemovePlansFor, Recreate
    <3>3. QED
      BY <3>1, <3>2
  <2>3. Apply(R, plan) = Replaced(R, A, N, c)
    BY <2>2 DEF Apply, Replaced
  <2>4. Replaceable(R, A, M, N, c)
    BY <2>1, <2>2 DEF Replaceable
  <2>5. ASSUME NEW x \in Pids
        PROVE  GroupOf(Replaced(R, A, N, c), x) =
                   IF x = p THEN {p} ELSE GroupOf(R, x) \ {p}
    <3>1. /\ x \in N => GroupOf(Replaced(R, A, N, c), x) = N
          /\ x \in M \ N => GroupOf(Replaced(R, A, N, c), x) = {x}
          /\ x \notin M =>
                 GroupOf(Replaced(R, A, N, c), x) = GroupOf(R, x)
      <4> HIDE DEF M, N
      <4> QED
        BY <2>4, ReplaceGroups
    <3>2. ASSUME x \in M PROVE GroupOf(R, x) = M
      <4>1. A \in AnyRelationOf(R, x)
        BY <3>2, SameAnswer
      <4>2. GroupOf(R, x) = {x} \cup M
        BY <4>1, GroupIsAnswer
      <4>3. QED
        BY <3>2, <4>2
    <3>3. ASSUME x \notin M PROVE p \notin GroupOf(R, x)
      <4>1. PICK B : B \in AnyRelationOf(R, x)
        BY DEF AnyRelationOf
      <4>2. GroupOf(R, x) = {x} \cup Ends(B)
        BY <4>1, GroupIsAnswer
      <4>3. ASSUME p \in Ends(B) PROVE FALSE
        <5>1. B \in AnyRelationOf(R, p)
          BY <4>1, <4>3, SameAnswer
        <5>2. B = A
          BY <5>1, OneAnswer
        <5>3. x \in Ends(B)
          BY <1>3, <4>1, <5>2, AnswerIsClosed
        <5>4. QED
          BY <3>3, <5>2, <5>3
      <4>4. QED
        BY <2>1, <3>3, <4>2, <4>3
    <3>4. QED
      BY <2>1, <3>1, <3>2, <3>3
  <2>6. IsStarForest(Replaced(R, A, N, c))
    BY <2>4, ReplaceKeepsStars
  <2>7. QED
    BY <2>3, <2>5, <2>6
<1>4. QED
  BY <1>2, <1>3

\* The request in flight is the only one, and has read the rows there are.
Fresh ==
    \A w \in Workers :
        session[w] # Idle =>
            /\ session[w].rows = rows
            /\ \A v \in Workers \ {w} : session[v] = Idle

\* One commit, on the rows it has read: a step of the groups, or none.
CommitsGroups ==
    \/ rows' = rows
    \/ /\ StarForest'
       /\ Groups!Next

LEMMA CommitAddStep ==
  ASSUME TypeOK, Asked, Fresh, StarForest, NEW w \in Workers, CommitAdd(w)
  PROVE  CommitsGroups
<1> DEFINE p == session[w].first
           q == session[w].second
<1>1. /\ p \in Pids /\ q \in Pids /\ p # q /\ session[w].rows = rows
      /\ rows \in SUBSET (Pids \X Pids) /\ IsStarForest(rows)
  BY DEF CommitAdd, Asked, Fresh, Idle, TypeOK, StarForest
<1>2. PICK plan \in AddPlans(rows, p, q) : rows' = Apply(rows, plan)
  BY <1>1 DEF CommitAdd, WriteRows, Apply
<1>3. ASSUME IsStarForest(Apply(rows, plan)),
             \A x \in Pids :
                GroupOf(Apply(rows, plan), x) =
                    IF x \in GroupOf(rows, p) \cup GroupOf(rows, q)
                    THEN GroupOf(rows, p) \cup GroupOf(rows, q)
                    ELSE GroupOf(rows, x)
      PROVE  CommitsGroups
  <2>1. StarForest'
    BY <1>2, <1>3 DEF StarForest
  <2> HIDE DEF p, q
  <2>2. Groups!Join(p, q)
    BY <1>1, <1>2, <1>3 DEF Groups!Join
  <2>3. QED
    BY <1>1, <2>1, <2>2 DEF CommitsGroups, Groups!Next
<1>4. QED
  BY <1>1, <1>2, <1>3, AddPlanJoins DEF CommitsGroups

LEMMA CommitRemoveStep ==
  ASSUME TypeOK, Asked, Fresh, StarForest, NEW w \in Workers, CommitRemove(w)
  PROVE  CommitsGroups
<1> DEFINE p == session[w].second
<1>1. /\ p \in Pids /\ session[w].rows = rows
      /\ rows \in SUBSET (Pids \X Pids) /\ IsStarForest(rows)
  BY DEF CommitRemove, Asked, Fresh, Idle, TypeOK, StarForest
<1>2. PICK plan \in RemovePlans(rows, p) : rows' = Apply(rows, plan)
  BY <1>1 DEF CommitRemove, WriteRows, Apply
<1>3. ASSUME IsStarForest(Apply(rows, plan)),
             \A x \in Pids :
                GroupOf(Apply(rows, plan), x) =
                    IF x = p THEN {p} ELSE GroupOf(rows, x) \ {p}
      PROVE  CommitsGroups
  <2>1. StarForest'
    BY <1>2, <1>3 DEF StarForest
  <2> HIDE DEF p
  <2>2. Groups!Leave(p)
    BY <1>1, <1>2, <1>3 DEF Groups!Leave
  <2>3. QED
    BY <1>1, <2>1, <2>2 DEF CommitsGroups, Groups!Next
<1>4. QED
  BY <1>1, <1>2, <1>3, RemovePlanLeaves DEF CommitsGroups

LEMMA SerialStepIsStep == [SerialNext]_vars => [Next]_vars
  BY DEF SerialNext, Next

LEMMA FreshStep ==
  ASSUME TypeOK, Asked, Fresh, [SerialNext]_vars
  PROVE  Fresh'
<1>1. CASE UNCHANGED vars
  BY <1>1 DEF vars, Fresh
<1>2. ASSUME NEW w \in Workers, session[w] # Idle,
             session' = [session EXCEPT ![w] = Idle]
      PROVE  Fresh'
  BY <1>2 DEF Fresh, TypeOK
<1>3. CASE Finish
  BY <1>2, <1>3 DEF Finish, CommitAdd, CommitRemove, Rollback, Idle
<1>4. ASSUME \A w \in Workers : session[w] = Idle, NEW v \in Workers,
             NEW op, NEW first, NEW second, NEW note,
             Begin(v, op, first, second, note)
      PROVE  Fresh'
  <2> DEFINE s == [op |-> op, first |-> first, second |-> second,
                   note |-> note, rows |-> rows,
                   notes |-> [p \in Pids |->
                                IF p \in {first, second} THEN notes[p] ELSE {}]]
  <2>1. s.rows = rows
    OBVIOUS
  <2>2. session' = [session EXCEPT ![v] = s] /\ rows' = rows
    BY <1>4 DEF Begin
  <2> HIDE DEF s
  <2>3. QED
    BY <1>4, <2>1, <2>2 DEF Fresh, TypeOK
<1>5. CASE Start /\ \A w \in Workers : session[w] = Idle
  BY <1>4, <1>5 DEF Start, CreateSiblingRelation, DeleteSiblingRelation
<1>6. QED
  BY <1>1, <1>3, <1>5 DEF SerialNext

\* What one step of a request is to the groups.
LEMMA SerialGroups ==
  ASSUME TypeOK, Asked, Fresh, StarForest, [SerialNext]_vars
  PROVE  CommitsGroups
<1>1. CASE UNCHANGED vars
  BY <1>1 DEF vars, CommitsGroups
<1>2. CASE Start
  BY <1>2 DEF Start, CreateSiblingRelation, DeleteSiblingRelation, Begin,
              CommitsGroups
<1>3. CASE Finish
  BY <1>3, CommitAddStep, CommitRemoveStep
  DEF Finish, Rollback, CommitsGroups
<1>4. QED
  BY <1>1, <1>2, <1>3 DEF SerialNext

LEMMA SerialStars == SerialSpec => [](TypeOK /\ Asked /\ Fresh /\ StarForest)
<1>1. Init => TypeOK /\ Asked /\ Fresh /\ StarForest
  <2>1. Init => Fresh /\ StarForest
    BY DEF Init, Fresh, StarForest, IsStarForest
  <2>2. QED
    BY <2>1, InitType
<1>2. TypeOK /\ Asked /\ Fresh /\ StarForest /\ [SerialNext]_vars
          => (TypeOK /\ Asked /\ Fresh /\ StarForest)'
  <2>1. SUFFICES ASSUME TypeOK, Asked, Fresh, StarForest, [SerialNext]_vars
                 PROVE  (TypeOK /\ Asked /\ Fresh /\ StarForest)'
    OBVIOUS
  <2>2. TypeOK' /\ Asked'
    BY <2>1, SerialStepIsStep, NextType
  <2>3. Fresh'
    BY <2>1, FreshStep
  <2>4. StarForest'
    BY <2>1, SerialGroups DEF CommitsGroups, StarForest
  <2>5. QED
    BY <2>2, <2>3, <2>4
<1>3. QED
  BY <1>1, <1>2, PTL DEF SerialSpec

\* One request at a time, each record is in one star, so the first row
\* get_any_relation_of happens to look at does not matter.
THEOREM OneStarEach == SerialSpec => []StarForest
  BY SerialStars, PTL

\* One request at a time, the rows implement the groups: adding joins two
\* groups, removing takes one record out and leaves the others related.
THEOREM StarsImplementGroups == SerialSpec => ImplementsGroups
<1>1. Init => Groups!Init
  <2>1. ASSUME NEW p \in Pids PROVE GroupOf({}, p) = {p}
    BY DEF GroupOf, AnyRelationOf, RowsOf, Ends
  <2>2. QED
    BY <2>1 DEF Init, Groups!Init
<1>2. TypeOK /\ Asked /\ Fresh /\ StarForest /\ [SerialNext]_vars
          => [Groups!Next]_([p \in Pids |-> GroupOf(rows, p)])
  BY SerialGroups DEF CommitsGroups
<1>3. QED
  BY <1>1, <1>2, SerialStars, PTL DEF SerialSpec, ImplementsGroups, Groups!Spec

-----------------------------------------------------------------------------
(***************************************************************************)
(* Whatever the requests race with.                                        *)
(***************************************************************************)

\* The two ends of each row an add deletes are under one parent it creates.
LEMMA AddPlanKeeps ==
  ASSUME NEW R \in SUBSET (Pids \X Pids), NEW p \in Pids, NEW q \in Pids,
         NEW plan \in AddPlans(R, p, q), NEW r \in plan.delete
  PROVE  \E c \in Pids : \A x \in {r[1], r[2]} \ {c} : <<c, x>> \in plan.create
<1>1. CASE plan.delete = {}
  BY <1>1
<1>2. ASSUME NEW A \in AnyRelationOfBoth(R, p, q),
             plan \in Recreate(A, Ends(A) \cup {p, q})
      PROVE  \E c \in Pids :
                 \A x \in {r[1], r[2]} \ {c} : <<c, x>> \in plan.create
  <2> DEFINE M == Ends(A) \cup {p, q}
  <2>1. PICK c \in M : plan.delete = A /\ plan.create = Star(c, M)
    BY <1>2 DEF Recreate
  <2>2. A \subseteq R
    BY AnswerType DEF AnyRelationOfBoth
  <2>3. c \in Pids
    BY <2>2 DEF Ends
  <2>4. r[1] \in M /\ r[2] \in M
    BY <2>1 DEF Ends
  <2>5. \A x \in {r[1], r[2]} \ {c} : <<c, x>> \in plan.create
    BY <2>1, <2>4 DEF Star
  <2>6. QED
    BY <2>3, <2>5
<1>3. \/ plan.delete = {}
      \/ \E A \in AnyRelationOfBoth(R, p, q) :
             plan \in Recreate(A, Ends(A) \cup {p, q})
  BY DEF AddPlans, Nothing
<1>4. QED
  BY <1>1, <1>2, <1>3

\* Adding never separates two siblings, however stale the rows it read.
THEOREM AddsNeverSeparate == Spec => AddKeepsTogether
<1> DEFINE Kept ==
        \A w \in Workers :
            session[w].op = "add" /\ session'[w] = Idle =>
                \A r \in rows \ rows' :
                    \E p \in Pids :
                        \A q \in {r[1], r[2]} \ {p} : <<p, q>> \in rows'
<1>1. ASSUME TypeOK, Asked, [Next]_vars PROVE [Kept]_vars
  <2>1. CASE rows' = rows
    BY <2>1
  <2>2. ASSUME NEW v \in Workers, CommitAdd(v) PROVE Kept
    <3>1. /\ session[v].rows \in SUBSET (Pids \X Pids)
          /\ session[v].first \in Pids /\ session[v].second \in Pids
      BY <1>1, <2>2 DEF CommitAdd, TypeOK, Session, Asked, Idle
    <3>2. PICK plan \in AddPlans(session[v].rows, session[v].first,
                                 session[v].second) : WriteRows(plan)
      BY <2>2 DEF CommitAdd
    <3>3. ASSUME NEW r \in rows \ rows'
          PROVE  \E p \in Pids :
                     \A q \in {r[1], r[2]} \ {p} : <<p, q>> \in rows'
      <4>1. r \in plan.delete /\ plan.create \subseteq rows'
        BY <3>2, <3>3 DEF WriteRows
      <4>2. QED
        BY <3>1, <4>1, AddPlanKeeps
    <3>4. QED
      BY <3>3
  <2>3. ASSUME NEW v \in Workers, CommitRemove(v) PROVE Kept
    BY <1>1, <2>3 DEF CommitRemove, TypeOK, Session, Idle
  <2>4. QED
    BY <1>1, <2>1, <2>2, <2>3
    DEF Next, Start, CreateSiblingRelation, DeleteSiblingRelation, Begin,
        Finish, Rollback, vars
<1>2. Spec => [](TypeOK /\ Asked)
  BY InitType, NextType, PTL DEF Spec
<1>3. QED
  BY <1>1, <1>2, PTL DEF Spec, AddKeepsTogether

\* No request overwrites a record somebody else has changed: a note goes only
\* with a removal that names its two records.
THEOREM NotesKept == Spec => NotesAreNotLost
<1> DEFINE Kept ==
        \A p, q \in Pids :
            q \in notes[p] \ notes'[p] =>
                \E w \in Workers :
                    /\ session[w].op = "remove" /\ session'[w] = Idle
                    /\ {session[w].first, session[w].second} = {p, q}
<1>1. ASSUME TypeOK, Asked, [Next]_vars PROVE [Kept]_vars
  <2>1. CASE notes' = notes
    BY <2>1
  <2>2. ASSUME NEW v \in Workers, CommitAdd(v) PROVE Kept
    <3> DEFINE s == session[v]
               wanted == IF s.note
                         THEN [s.notes EXCEPT ![s.first] = @ \cup {s.second}]
                         ELSE s.notes
    <3>1. s.notes \in [Pids -> SUBSET Pids]
      BY <1>1 DEF TypeOK, Session
    <3>2. \A p \in Pids : s.notes[p] \subseteq wanted[p]
      BY <3>1
    <3>3. WriteNotes(s.notes, wanted)
      BY <2>2 DEF CommitAdd, NoteAdded
    <3> HIDE DEF wanted, s
    <3>4. \A p \in Pids : notes[p] \subseteq notes'[p]
      BY <3>2, <3>3 DEF WriteNotes
    <3>5. QED
      BY <3>4
  <2>3. ASSUME NEW v \in Workers, CommitRemove(v) PROVE Kept
    <3> DEFINE s == session[v]
               wanted == [s.notes EXCEPT ![s.first] = @ \ {s.second},
                                         ![s.second] = @ \ {s.first}]
    <3>1. /\ s.notes \in [Pids -> SUBSET Pids]
          /\ s.first \in Pids /\ s.second \in Pids
      BY <1>1, <2>3 DEF CommitRemove, TypeOK, Session, Asked, Idle
    <3>2. \A p, q \in Pids : q \in s.notes[p] \ wanted[p]
                                => {s.first, s.second} = {p, q}
      BY <3>1
    <3>3. WriteNotes(s.notes, wanted) /\ s.op = "remove" /\ session'[v] = Idle
      BY <1>1, <2>3 DEF CommitRemove, TypeOK
    <3> HIDE DEF wanted
    <3>4. \A p, q \in Pids : q \in notes[p] \ notes'[p]
                                => {s.first, s.second} = {p, q}
      BY <3>2, <3>3 DEF WriteNotes
    <3>5. QED
      BY <3>3, <3>4
  <2>4. QED
    BY <1>1, <2>1, <2>2, <2>3
    DEF Next, Start, CreateSiblingRelation, DeleteSiblingRelation, Begin,
        Finish, Rollback, vars
<1>2. Spec => [](TypeOK /\ Asked)
  BY InitType, NextType, PTL DEF Spec
<1>3. QED
  BY <1>1, <1>2, PTL DEF Spec, NotesAreNotLost
=============================================================================
