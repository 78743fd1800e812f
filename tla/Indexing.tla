------------------------------ MODULE Indexing ------------------------------
(***************************************************************************)
(* How the search indices follow the tables.  A handler commits a record   *)
(* and indexes it; the entry it sends carries, besides the record, data of *)
(* other records that the JSON resolvers find in the tables or, for what   *)
(* is counted or listed, in the indices as they were last refreshed.  Two  *)
(* seconds later a task of the record's indexer indexes the records that   *)
(* show it.  Those are indexed one level deep only: no further task starts.*)
(*                                                                         *)
(* The data of a record is a version, the records it names and a status.   *)
(* An entry remembers the record it was made of and, for every other       *)
(* record it shows, the path to it and the version shown.  A path is kept  *)
(* only if it ends in a record of `pool', the records that may change.     *)
(***************************************************************************)
EXTENDS Integers, Sequences, FiniteSets

Kinds == {"document", "item", "eitem", "loan", "internal_location", "location",
          "series", "order", "borrowing_request", "document_request", "patron",
          "provider", "vocabulary", "files"}

\* what is in a table or index of a record that is not there
NoRecord == [version |-> -1, names |-> {}, state |-> "-"]
NoEntry == [own |-> NoRecord, sees |-> {}]

CONSTANTS Records,      \* all records of all kinds
          KindOf,       \* the kind of each record
          Start,        \* the tables at the start; NoRecord for one to be made
          After,        \* what each record becomes when it is changed
          Related,      \* <<r, x>>: x is a parent or a sibling of r
          Worlds,       \* which records there are, and which of them may change
          MaxFailures   \* how many times a worker may die

ASSUME KindOfAssumption == KindOf \in [Records -> Kinds]

\* A change makes a new version.
ASSUME VersionsAssumption ==
    \A r \in Records : /\ Start[r].version \in Int
                       /\ After[r].version \in Int
                       /\ After[r] = NoRecord \/ Start[r].version < After[r].version

VARIABLES table,        \* the committed records
          sent,         \* the entries last written to the indices
          visible,      \* the entries searches find: those of the last refresh
          jobs,         \* the requests and tasks that are indexing
          events,       \* the loans of the transitions still in the event queue
          recorded,     \* the loans whose request is in the index of events
          spoiled,      \* the records that lost an indexing, or raced for one
          related,      \* the rows of relations between documents and series
          pool, failures

vars == <<table, sent, visible, jobs, events, recorded, spoiled, related, pool, failures>>

OfKind == [k \in Kinds |-> {r \in Records : KindOf[r] = k}]

Active == {"ITEM_ON_LOAN"}
Open == {"PENDING", "ITEM_ON_LOAN"}

-----------------------------------------------------------------------------
(* Searches and resolvers.  `reads' is what a look-up in the tables gives, *)
(* `finds' what a search does.                                             *)

Named(c, kind) == c.names \cap OfKind[kind]

Found(kind, x, finds) ==
    {r \in OfKind[kind] : finds[r] # NoEntry /\ x \in finds[r].own.names}

FoundIn(kind, x, states, finds) ==
    {r \in Found(kind, x, finds) : finds[r].own.state \in states}

Embedded(c, kind, reads) ==
    {<< <<x>>, reads[x].version >> : x \in {y \in Named(c, kind) : reads[y] # NoRecord}}

ItemsOf(x, finds) == Found("item", x, finds)
EItemsOf(x, finds) == Found("eitem", x, finds)
OrdersOf(x, finds) == Found("order", x, finds)
BorrowingRequestsOf(x, finds) == Found("borrowing_request", x, finds)
DocumentRequestsOf(x, finds) == Found("document_request", x, finds)
InternalLocationsOf(x, finds) == Found("internal_location", x, finds)

\* Items are searched by the location their entries show; none moves here.
ItemsAt(p, finds) ==
    {i \in OfKind["item"] : finds[i] # NoEntry /\
        \E il \in Named(finds[i].own, "internal_location") : p \in table[il].names}

Copied(xs, finds) == {<< <<x>>, finds[x].own.version >> : x \in xs}

\* What the entry of x shows, seen through x, for the paths of the given kinds.
Nested(x, shapes, finds) ==
    {<< <<x>> \o s[1], s[2] >> :
        s \in {t \in finds[x].sees : [n \in 1..Len(t[1]) |-> KindOf[t[1][n]]] \in shapes}}

IntLocLocation(c, reads) == Embedded(c, "location", reads)

ItemDocument(c, reads) == Embedded(c, "document", reads)

ItemInternalLocation(c, reads) ==
    Embedded(c, "internal_location", reads) \cup
    UNION {{<< <<x>> \o s[1], s[2] >> : s \in IntLocLocation(reads[x], reads)} :
              x \in Named(c, "internal_location")}

\* The ongoing loan is taken from the index, its patron included.
ItemLoan(i, finds) ==
    LET loans == FoundIn("loan", i, Active, finds)
    IN  Copied(loans, finds) \cup
        UNION {Nested(l, {<<"patron">>}, finds) : l \in loans}

DocumentCirculation(d, finds) ==
    Copied(Found("loan", d, finds) \cup ItemsOf(d, finds), finds)

\* The entries of the items are copied with their place and ongoing loan.
DocumentItems(d, finds) ==
    UNION {Copied({i}, finds) \cup
           Nested(i, {<<"internal_location">>, <<"internal_location", "location">>, <<"loan">>}, finds) :
              i \in ItemsOf(d, finds)}

DocumentEItems(d, finds) ==
    UNION {Copied({e}, finds) \cup Nested(e, {<<"files">>}, finds) : e \in EItemsOf(d, finds)}

DocumentStock(d, finds) ==
    Copied(ItemsOf(d, finds) \cup EItemsOf(d, finds), finds)

DocumentRelations(d, reads) ==
    {<< <<x>>, reads[x].version >> : x \in {y \in Records : <<d, y>> \in related /\ reads[y] # NoRecord}}

SeriesRelations(s, reads) ==
    {<< <<x>>, reads[x].version >> : x \in {y \in Records : <<s, y>> \in related /\ reads[y] # NoRecord}}

License(c, finds) == Copied({v \in Named(c, "vocabulary") : finds[v] # NoEntry}, finds)

LoanItem(c, reads) ==
    Embedded(c, "item", reads) \cup Embedded(c, "borrowing_request", reads)

LoanPatronAndDocument(c, reads) ==
    Embedded(c, "patron", reads) \cup Embedded(c, "document", reads)

\* available_items_for_loan_count and can_circulate_items_count, from the
\* searches behind the document's circulation.
LoanCounts(c, finds) ==
    UNION {{<< <<d, x>>, finds[x].own.version >> :
              x \in ItemsOf(d, finds) \cup FoundIn("loan", d, Active, finds)} :
              d \in Named(c, "document")}

\* What the event of the request says of the items available at that time.
LoanStats(l) == {<< <<l>>, 0>> : x \in {l} \cap recorded}

EItemDocument(c, reads) == Embedded(c, "document", reads)
EItemFiles(c, reads) == Embedded(c, "files", reads)

OrderLines(c, reads) == Embedded(c, "document", reads) \cup Embedded(c, "patron", reads)
OrderProvider(c, reads) == Embedded(c, "provider", reads)

\* The time a received order kept the document request waiting that it serves.
OrderStats(o, c, finds) ==
    IF c.state # "RECEIVED" THEN {}
    ELSE {<< <<x>>, 0>> : x \in DocumentRequestsOf(o, finds)}

BorrowingRequestDocument(c, reads) == Embedded(c, "document", reads)
BorrowingRequestPatron(c, reads) == Embedded(c, "patron", reads)
BorrowingRequestProvider(c, reads) == Embedded(c, "provider", reads)

DocumentRequestDocument(c, reads) == Embedded(c, "document", reads)
DocumentRequestPatron(c, reads) == Embedded(c, "patron", reads)

\* How long the request waited for its order or borrowing request to be made.
DocumentRequestStats(c, finds) ==
    {<< <<x>>, 0>> : x \in {y \in Named(c, "order") \cup Named(c, "borrowing_request") : finds[y] # NoEntry}}

\* What the entry of r, made of the content c, shows of other records.
Shown(r, c, reads, finds) ==
    LET kind == KindOf[r] IN
    CASE kind = "document" ->
            DocumentCirculation(r, finds) \cup DocumentItems(r, finds) \cup
            DocumentEItems(r, finds) \cup DocumentStock(r, finds) \cup
            DocumentRelations(r, reads) \cup License(c, finds)
      [] kind = "item" ->
            ItemDocument(c, reads) \cup ItemInternalLocation(c, reads) \cup ItemLoan(r, finds)
      [] kind = "eitem" -> EItemDocument(c, reads) \cup EItemFiles(c, reads)
      [] kind = "loan" ->
            LoanItem(c, reads) \cup LoanPatronAndDocument(c, reads) \cup
            LoanCounts(c, finds) \cup LoanStats(r)
      [] kind = "internal_location" -> IntLocLocation(c, reads)
      [] kind = "series" -> SeriesRelations(r, reads)
      [] kind = "order" ->
            OrderLines(c, reads) \cup OrderProvider(c, reads) \cup OrderStats(r, c, finds)
      [] kind = "borrowing_request" ->
            BorrowingRequestDocument(c, reads) \cup BorrowingRequestPatron(c, reads) \cup
            BorrowingRequestProvider(c, reads)
      [] kind = "document_request" ->
            DocumentRequestDocument(c, reads) \cup DocumentRequestPatron(c, reads) \cup
            DocumentRequestStats(c, finds)
      [] OTHER -> {}

Entry(r, c, reads, finds) ==
    [own |-> c, sees |-> {s \in Shown(r, c, reads, finds) : s[1][Len(s[1])] \in pool}]

-----------------------------------------------------------------------------
(* What each indexer's task indexes: its n-th list of records, as a        *)
(* sequence of sets.  The record was handed over as c when it was indexed. *)

DocumentReferenced(d, n) ==
    CASE n = 1 -> <<Found("loan", d, visible)>>
      [] n = 2 -> <<ItemsOf(d, visible)>>
      [] n = 3 -> <<DocumentRequestsOf(d, visible)>>
      [] n = 4 -> <<EItemsOf(d, visible)>>
      [] n = 5 -> <<{x \in Records : <<d, x>> \in related}>>
      [] n = 6 -> <<OrdersOf(d, visible)>>
      [] n = 7 -> <<BorrowingRequestsOf(d, visible)>>

ItemReferenced(c) ==
    <<UNION {Found("loan", d, visible) : d \in Named(c, "document")}, Named(c, "document")>>

\* Variant: the other open loans of the document are not indexed again.
LoanReferencedAlone(l, c) ==
    <<Named(c, "document"), Named(c, "item") \cup Named(c, "borrowing_request"), {l}>>

\* The loan itself again, for its counts, and the other open loans after it.
LoanReferenced(l, c) ==
    <<Named(c, "document"), Named(c, "item") \cup Named(c, "borrowing_request"), {l},
      UNION {FoundIn("loan", d, Open, visible) : d \in Named(c, "document")}>>

EItemReferenced(c) == <<Named(c, "document")>>

LocationReferenced(p, n) ==
    IF n = 1 THEN <<InternalLocationsOf(p, visible)>> ELSE <<ItemsAt(p, visible)>>

InternalLocationReferenced(il) == <<ItemsOf(il, visible)>>

ProviderReferenced(p) ==
    <<OrdersOf(p, visible), BorrowingRequestsOf(p, visible)>>

PatronReferenced(p, n) ==
    CASE n = 1 -> <<Found("loan", p, visible)>>
      [] n = 2 -> <<DocumentRequestsOf(p, visible)>>
      [] n = 3 -> <<OrdersOf(p, visible)>>
      [] n = 4 -> <<BorrowingRequestsOf(p, visible)>>

\* The files of an electronic item changed: the item is searched by its bucket.
FilesReferenced(f) ==
    LET eitems == EItemsOf(f, visible)
    IN  << IF Cardinality(eitems) = 1 THEN eitems ELSE {} >>

SeriesReferenced(s) == <<{x \in Records : <<s, x>> \in related}>>

DocumentRequestReferenced(c) == <<Named(c, "document"), Named(c, "order")>>

\* How many lists the task of each kind looks up, one after the other.
Lists == [k \in Kinds \cup {"request", "index_document"} |->
            CASE k = "document" -> 7
              [] k = "patron" -> 4
              [] k = "location" -> 2
              [] k \in {"order", "borrowing_request", "vocabulary"} -> 0
              [] OTHER -> 1]

Referenced(j) ==
    CASE j.task \in {"request", "index_document"} -> << {j.of} >>
      [] j.task = "document" -> DocumentReferenced(j.of, j.list)
      [] j.task = "item" -> ItemReferenced(j.as)
      [] j.task = "loan" -> LoanReferenced(j.of, j.as)
      [] j.task = "eitem" -> EItemReferenced(j.as)
      [] j.task = "location" -> LocationReferenced(j.of, j.list)
      [] j.task = "internal_location" -> InternalLocationReferenced(j.of)
      [] j.task = "provider" -> ProviderReferenced(j.of)
      [] j.task = "patron" -> PatronReferenced(j.of, j.list)
      [] j.task = "files" -> FilesReferenced(j.of)
      [] j.task = "series" -> SeriesReferenced(j.of)
      [] j.task = "document_request" -> DocumentRequestReferenced(j.as)

-----------------------------------------------------------------------------
(* The jobs.  A "request" indexes one record with its own indexer, which   *)
(* then schedules the task of its kind; a task starts two seconds later,   *)
(* when what was written before has been refreshed.                        *)

Unrefreshed(s) == {k \in Kinds : \E r \in OfKind[k] : s[r] # visible[r]}

Job(task, r, c, waits) ==
    [task |-> task, of |-> r, as |-> c, waits |-> waits, list |-> 1,
     todo |-> <<>>, held |-> <<>>, made |-> <<>>]

Request(r, c) ==
    [Job("request", r, c, {}) EXCEPT !.list = 2, !.todo = << {r} >>, !.held = [x \in {r} |-> c]]

\* The lists of a job are gone through in order: those before are done with,
\* and what is due is what is left of the first that has anything left.
Reached(j) == {n \in DOMAIN j.todo : \A m \in 1..n - 1 : j.todo[m] = {}}
Due(j) == UNION {j.todo[n] : n \in Reached(j)}

\* The jobs left when j has come to the end of its lists.
FollowUp(j) ==
    IF Due(j) # {} \/ j.list <= Lists[j.task] THEN {j}
    ELSE IF j.task \in {"request", "index_document", "files"}
         THEN {Job(KindOf[r], r, j.held[r], Unrefreshed(sent')) :
                  r \in {x \in DOMAIN j.held : Lists[KindOf[x]] > 0}}
         ELSE {}

\* What the entries are when every change has reached every entry.
Indexed(t, r) == t[r] # NoRecord /\ KindOf[r] # "files"

Round(t, finds) ==
    [r \in Records |-> IF Indexed(t, r) THEN Entry(r, t[r], t, finds) ELSE NoEntry]

Settled(t) ==
    LET bare == [r \in Records |-> IF Indexed(t, r) THEN [own |-> t[r], sees |-> {}] ELSE NoEntry]
    IN  Round(t, Round(t, Round(t, bare)))

Init ==
    /\ \E w \in Worlds :
          /\ pool = w.mayChange
          /\ table = [r \in Records |-> IF r \in w.records THEN Start[r] ELSE NoRecord]
          /\ related = {pair \in Related : pair[1] \in w.records /\ pair[2] \in w.records}
    /\ recorded = {r \in OfKind["loan"] : table[r] # NoRecord}
    /\ jobs = {} /\ events = {} /\ spoiled = {} /\ failures = 0
    /\ sent = Settled(table)
    /\ visible = sent

-----------------------------------------------------------------------------
\* The events a change leaves: a transition of a loan, with the counts that are
\* to go with it.
LoanTransition(r) == {r} \cap OfKind["loan"]

(* A request creates or changes a record, commits and goes on to index it. *)
(* A loan changes by a transition, which leaves an event.  The change of a *)
(* file leaves the indexing to a task.                                     *)
Change(r) ==
    /\ r \in pool /\ table[r] = Start[r] /\ After[r] # NoRecord
    /\ table' = [table EXCEPT ![r] = After[r]]
    /\ jobs' = jobs \cup {IF KindOf[r] = "files" THEN Job("files", r, After[r], Unrefreshed(sent))
                           ELSE Request(r, After[r])}
    /\ events' = events \cup LoanTransition(r)
    /\ UNCHANGED <<sent, visible, recorded, spoiled, related, pool, failures>>

(* An item that is not on loan, or an electronic item, is deleted with its *)
(* entry, and its document is to be indexed in a moment.                   *)
Delete(r) ==
    /\ r \in pool /\ After[r] = NoRecord /\ table[r] # NoRecord
    /\ FoundIn("loan", r, Active, visible) = {}
    /\ table' = [table EXCEPT ![r] = NoRecord]
    /\ sent' = [sent EXCEPT ![r] = NoEntry]
    /\ jobs' = jobs \cup {Job("index_document", d, table[d], Unrefreshed(sent')) :
                             d \in Named(table[r], "document")}
    /\ UNCHANGED <<visible, events, recorded, spoiled, related, pool, failures>>

\* The job j stops before its end; what it was about is not followed up.
Stop(j) ==
    /\ jobs' = jobs \ {j}
    /\ spoiled' = spoiled \cup {j.of}

(* The next records to index: those a search finds are read from the table,*)
(* and one that has been deleted since ends the task.                      *)
LookUp(j) ==
    /\ Due(j) = {} /\ j.made = <<>> /\ j.waits = {} /\ j.list <= Lists[j.task]
    /\ LET steps == Referenced(j)
           found == UNION {steps[n] : n \in DOMAIN steps}
           next  == [j EXCEPT !.list = @ + 1, !.todo = steps,
                              !.held = [r \in found |-> table[r]]]
       IN  IF \E r \in found : table[r] = NoRecord
           THEN Stop(j) /\ UNCHANGED sent
           ELSE /\ sent' = sent
                /\ jobs' = (jobs \ {j}) \cup FollowUp(next)
                /\ UNCHANGED spoiled
    /\ UNCHANGED <<table, visible, events, recorded, related, pool, failures>>

(* The entry of the next record is made: the references are resolved now,  *)
(* but a record the session holds is not read again.  Two jobs that make   *)
(* the same entry race, and so does one that holds a record that has been  *)
(* changed since.                                                          *)
Make(j) ==
    /\ j.made = <<>>
    /\ \E r \in Due(j) :
          LET reads == [x \in Records |-> IF x \in DOMAIN j.held THEN j.held[x] ELSE table[x]]
          IN  /\ jobs' = (jobs \ {j}) \cup
                         {[j EXCEPT !.made = <<r, Entry(r, j.held[r], reads, visible)>>]}
              /\ spoiled' = spoiled \cup {x \in DOMAIN j.held : j.held[x] # table[x]} \cup
                            {x \in {r} : \E o \in jobs : o.made # <<>> /\ o.made[1] = x}
    /\ UNCHANGED <<table, sent, visible, events, recorded, related, pool, failures>>

\* Variant: the last to write wins.
AcceptedAlways(r, e) == TRUE

(* The entry is written, unless the index holds a newer version of the     *)
(* record: the conflict ends the job.                                      *)
Accepted(r, e) == sent[r] = NoEntry \/ sent[r].own.version <= e.own.version

Send(j) ==
    /\ j.made # <<>>
    /\ LET r == j.made[1]
           e == j.made[2]
           left == [n \in DOMAIN j.todo |->
                       IF n \in Reached(j) THEN j.todo[n] \ {r} ELSE j.todo[n]]
           next == [j EXCEPT !.made = <<>>, !.todo = left]
       IN  IF Accepted(r, e)
           THEN /\ sent' = [sent EXCEPT ![r] = e]
                /\ jobs' = (jobs \ {j}) \cup FollowUp(next)
                /\ spoiled' = IF table[r] = NoRecord THEN spoiled \cup {r} ELSE spoiled
           ELSE Stop(j) /\ UNCHANGED sent
    /\ UNCHANGED <<table, visible, events, recorded, related, pool, failures>>

(* An index is refreshed: searches find what was written to it.            *)
Refresh(k) ==
    /\ k \in Unrefreshed(sent)
    /\ visible' = [r \in Records |-> IF KindOf[r] = k THEN sent[r] ELSE visible[r]]
    /\ jobs' = {[j EXCEPT !.waits = @ \ {k}] : j \in jobs}
    /\ UNCHANGED <<table, sent, events, recorded, spoiled, related, pool, failures>>

(* Every half an hour the events of the queue are indexed, and then the    *)
(* loans they are about.  A run that comes before the transition's own     *)
(* task is over helps nothing.                                             *)
ProcessEvents ==
    /\ events # {}
    /\ recorded' = recorded \cup events
    /\ jobs' = jobs \cup {Request(l, table[l]) : l \in events}
    /\ events' = {}
    /\ spoiled' = IF jobs # {} \/ Unrefreshed(sent) # {} THEN spoiled \cup events ELSE spoiled
    /\ UNCHANGED <<table, sent, visible, related, pool, failures>>

\* A worker dies with its job, which nobody takes up again.
Die(j) ==
    /\ failures < MaxFailures
    /\ failures' = failures + 1
    /\ Stop(j)
    /\ UNCHANGED <<table, sent, visible, events, recorded, related, pool>>

Next ==
    \/ \E r \in Records : Change(r) \/ Delete(r)
    \/ \E j \in jobs : LookUp(j) \/ Make(j) \/ Send(j) \/ Die(j)
    \/ \E k \in Kinds : Refresh(k)
    \/ ProcessEvents

Spec == Init /\ [][Next]_vars

-----------------------------------------------------------------------------
Quiet == jobs = {} /\ events = {} /\ visible = sent

\* The copies no task refreshes: the entry of a record of the first kind shows
\* records of the kinds that follow.
NeverRefreshed ==
    {<<"document", "item", "internal_location">>,
     <<"document", "item", "internal_location", "location">>,
     <<"document", "vocabulary">>, <<"document", "series">>,
     <<"item", "loan", "patron">>}

ShapeOf(r, path) == <<KindOf[r]>> \o [n \in 1..Len(path) |-> KindOf[path[n]]]

\* The counts of a loan that is over, and the document an item was moved from
\* with its loans, are left as they were.
LeftAsItWas(r, path) ==
    \/ KindOf[r] = "loan" /\ table[r].state \notin Open /\ Len(path) = 2
    \/ \E n \in 1..Len(path) :
          /\ KindOf[path[n]] = "item" /\ Start[path[n]] # NoRecord /\ After[path[n]] # NoRecord
          /\ \E d \in Named(Start[path[n]], "document") : 
                (d = r \/ d \in table[r].names) /\ d \notin After[path[n]].names

(* When all is quiet, every entry shows the records as they are in the     *)
(* tables, through whatever chain of searches and look-ups it was made,    *)
(* except for the copies that no task refreshes and for records whose      *)
(* indexing was cut short or raced with another.                           *)
SettledEntriesAreRight ==
    Quiet =>
        \A r \in Records \ spoiled :
            LET right == Settled(table)[r] IN
            IF ~Indexed(table, r) THEN visible[r] = NoEntry
            ELSE /\ visible[r].own = table[r]
                 /\ \A s \in (visible[r].sees \ right.sees) \cup (right.sees \ visible[r].sees) :
                       \/ ShapeOf(r, s[1]) \in NeverRefreshed
                       \/ \E n \in 1..Len(s[1]) : s[1][n] \in spoiled
                       \/ LeftAsItWas(r, s[1])
=============================================================================
