------------------------------- MODULE DemoData -------------------------------
(***************************************************************************)
(* The setup command: it drops the tables and indices and fills them with  *)
(* drawn records.  Each generator commits its records on its own and       *)
(* indexes none; when all are there they are indexed by kind, in stages,   *)
(* for an entry copies from the indices what the stages before it wrote.   *)
(*                                                                         *)
(* The draws of the generators are choices, as far as other records or     *)
(* entries depend on them.  A generator that cannot draw stops the command *)
(* where it is; the command can then only be started again.  The figures   *)
(* for statistics are left out of the indices: with them no loan could be  *)
(* indexed before the first event of a transition is.                      *)
(***************************************************************************)
EXTENDS Indexing

CONSTANTS Demo,           \* the records the command makes
          Issues,         \* its documents made as issues of a periodical
          Vendors,        \* its providers that are vendors; the others are libraries
          FirstItem, FirstSeries,
          DocumentOrder,  \* its documents, as they are generated
          MaxLines,       \* how many lines an order has at most
          Drawings        \* which generators draw freely in one and the same command

ASSUME DemoAssumption ==
    Demo \subseteq Records /\ Vendors \subseteq {v \in Demo : KindOf[v] = "provider"}

VARIABLES step,     \* where the command is in its script; 0 when there is none
          drawing   \* the generators that draw freely; the others draw one way

demoVars == <<vars, step, drawing>>

Script == <<"users", "vocabularies", "location", "patrons", "internal_location", "series", "document",
            "item", "eitem", "loan", "relations", "library", "borrowing_request",
            "document_request", "vendor", "order",
            "stage_1", "stage_2", "stage_3", "stage_4", "done">>

At(name) == step > 0 /\ Script[step] = name

Drawn(kind) == OfKind[kind] \cap Demo

Draw(name, draws) ==
    IF name \in drawing \/ draws = {} THEN draws ELSE {CHOOSE f \in draws : TRUE}

Statuses ==
    [series |-> {"SERIAL", "MULTIPART_MONOGRAPH"}, document |-> {"BOOK", "SERIAL_ISSUE"},
     item |-> {"CAN_CIRCULATE", "MISSING"}, over |-> {"ITEM_RETURNED", "CANCELLED"},
     borrowing_request |-> {"PENDING", "REQUESTED"}, order |-> {"ORDERED", "RECEIVED"}]

New(names, state) == [version |-> 0, names |-> names, state |-> state]

-----------------------------------------------------------------------------
(* The generators: what each may draw, given what is in the tables.        *)

\* The first location created is the default one.
InternalLocationGenerator ==
    [Drawn("internal_location") -> {New({p}, "-") : p \in {q \in OfKind["location"] : table[q] # NoRecord}}]

SeriesGenerator ==
    {f \in [Drawn("series") -> {New({}, mode) : mode \in Statuses.series}] :
        f[FirstSeries].state = "SERIAL"}

\* After the documents of any type come the issues of a periodical.
IssuesAmong(documents) == \A d \in Issues : documents[d].state = "SERIAL_ISSUE"

DocumentGenerator ==
    {f \in [Drawn("document") -> {New(Drawn("vocabulary"), type) : type \in Statuses.document}] :
        IssuesAmong(f)}

ItemGenerator ==
    [Drawn("item") -> {New({d, il}, status) : d \in Drawn("document"),
                          il \in Drawn("internal_location"), status \in Statuses.item}]

EItemGenerator == [Drawn("eitem") -> {New({d}, "-") : d \in Drawn("document")}]

\* The first item is never drawn; with no other to lend, drawing never ends.
Lendable == {i \in Drawn("item") \ {FirstItem} : table[i].state = "CAN_CIRCULATE"}

\* A loan on an item that has one already is turned into a request, without
\* the item.  The document is drawn apart from the item.
LoanGenerator ==
    LET requests == {New({d, p}, "PENDING") : d \in Drawn("document"), p \in Drawn("patron")}
        loans == {New({d, p, i}, state) : d \in Drawn("document"), p \in Drawn("patron"),
                     i \in Lendable, state \in Active \cup Statuses.over}
    IN  {f \in [Drawn("loan") -> requests \cup loans] :
            \A l, m \in Drawn("loan") :
                l # m => Named(f[l], "item") \cap Named(f[m], "item") = {}}

LibraryGenerator == [Drawn("provider") \ Vendors -> {New({}, "-")}]
VendorGenerator == [Vendors -> {New({}, "-")}]

BorrowingRequestGenerator ==
    [Drawn("borrowing_request") ->
        {New({lib, d, p}, status) : lib \in Drawn("provider") \ Vendors, d \in Drawn("document"),
            p \in Drawn("patron"), status \in Statuses.borrowing_request}]

\* The list of pending requests is the list of all, once one is pending.
PendingBorrowingRequests ==
    IF \E b \in Drawn("borrowing_request") : table[b].state = "PENDING"
    THEN Drawn("borrowing_request") ELSE {}

DocumentRequestGenerator ==
    LET pending == {New({p}, "PENDING") : p \in Drawn("patron")}
        declined == {New({p} \cup ds, "DECLINED") : p \in Drawn("patron"),
                        ds \in {{}} \cup {{d} : d \in Drawn("document")}}
        accepted == {New({p, d, b}, "ACCEPTED") : p \in Drawn("patron"), d \in Drawn("document"),
                        b \in PendingBorrowingRequests}
    IN  [Drawn("document_request") -> pending \cup declined \cup accepted]

OrderGenerator ==
    [Drawn("order") ->
        {New({v, p} \cup ds, status) : v \in Vendors, p \in Drawn("patron"),
            ds \in {s \in SUBSET Drawn("document") : Cardinality(s) \in 1..MaxLines},
            status \in Statuses.order}]

-----------------------------------------------------------------------------
(* Relations.  All the issues go to one serial, some other documents to    *)
(* one multipart series.                                                   *)

SeriesOfMode(mode) == {s \in Drawn("series") : table[s].state = mode}

BothWays(pairs) == pairs \cup {<<p[2], p[1]>> : p \in pairs}

ParentChildRelations ==
    LET issues == {d \in Drawn("document") : table[d].state = "SERIAL_ISSUE"} IN
    {BothWays({<<serial, d>> : d \in issues} \cup {<<multipart, d>> : d \in docs}) :
        serial \in SeriesOfMode("SERIAL"), multipart \in SeriesOfMode("MULTIPART_MONOGRAPH"),
        docs \in SUBSET (Drawn("document") \ issues) \ {{}}}

\* Each of the documents drawn is joined to the first one whose languages or
\* edition are not its own; `equal' says which are.
Partners(docs, equal) ==
    LET fits(n, x) == DocumentOrder[n] # x /\ {DocumentOrder[n], x} \notin equal
        first(x) == {n \in DOMAIN DocumentOrder :
                        fits(n, x) /\ \A m \in 1..n - 1 : ~fits(m, x)}
    IN  UNION {{<<DocumentOrder[n], x>> : n \in first(x)} : x \in docs}

\* The members of a group are all related to each other.
Groups(pairs) ==
    LET members == {p[1] : p \in pairs} \cup {p[2] : p \in pairs}
        unions == {g \in SUBSET members : \A p \in pairs : p[1] \in g <=> p[2] \in g}
    IN  {xy \in members \X members :
            xy[1] # xy[2] /\ \A g \in unions : xy[1] \in g => xy[2] \in g}

DocumentPairs == {pair \in SUBSET Drawn("document") : Cardinality(pair) = 2}

DocumentSamples == {docs \in SUBSET Drawn("document") : Cardinality(docs) >= 2}

LanguageRelations ==
    {Groups(Partners(docs, equal)) : docs \in DocumentSamples, equal \in SUBSET DocumentPairs}

\* A multipart series joins the editions; one of the same edition is an error.
EditionRelations ==
    UNION {{Groups(Partners(docs, equal) \cup {<<d, s>>}) :
               d \in docs, s \in SeriesOfMode("MULTIPART_MONOGRAPH")} :
           docs \in DocumentSamples, equal \in SUBSET DocumentPairs}

-----------------------------------------------------------------------------
(* The command.  What it indexes last is all that is right of its records, *)
(* so that all are spoiled until it is done.                               *)

(* The tables and indices are dropped.  No task is waiting then.           *)
Setup ==
    /\ jobs = {}
    /\ step' = 1 /\ drawing' \in Drawings
    /\ table' = [r \in Records |-> NoRecord]
    /\ sent' = [r \in Records |-> NoEntry]
    /\ visible' = sent'
    /\ pool' = Demo /\ spoiled' = Demo
    /\ jobs' = {} /\ events' = {} /\ recorded' = {} /\ related' = {} /\ failures' = 0

Tabled(rs) == [r \in Records |-> IF r \in rs THEN New({}, "-") ELSE table[r]]

\* the entries once those of some records are made of the table t
IndexedNow(t, rs) ==
    [r \in Records |-> IF r \in rs THEN Entry(r, t[r], t, visible) ELSE sent[r]]

(* Accounts for the patrons and librarians.                                *)
CreateUsers ==
    /\ At("users")
    /\ step' = step + 1 /\ UNCHANGED drawing
    /\ table' = Tabled(Drawn("patron"))
    /\ UNCHANGED <<sent, visible, jobs, events, recorded, spoiled, related, pool, failures>>

(* Vocabularies are in the index only.                                     *)
IndexVocabularies ==
    /\ At("vocabularies")
    /\ step' = step + 1 /\ UNCHANGED drawing
    /\ table' = Tabled(Drawn("vocabulary"))
    /\ sent' = IndexedNow(table', Drawn("vocabulary"))
    /\ UNCHANGED <<visible, jobs, events, recorded, spoiled, related, pool, failures>>

(* The location is indexed as it is made, and the indices are refreshed.   *)
CreateLocation ==
    /\ At("location")
    /\ step' = step + 1 /\ UNCHANGED drawing
    /\ table' = Tabled(Drawn("location"))
    /\ sent' = IndexedNow(table', Drawn("location"))
    /\ visible' = sent'
    /\ UNCHANGED <<jobs, events, recorded, spoiled, related, pool, failures>>

(* All patrons are indexed, one by one and without the tasks of a patron.  *)
IndexPatrons ==
    /\ At("patrons")
    /\ step' = step + 1 /\ UNCHANGED drawing
    /\ sent' = IndexedNow(table, Drawn("patron")) /\ table' = table
    /\ UNCHANGED <<visible, jobs, events, recorded, spoiled, related, pool, failures>>

(* A generator's records are minted and committed together.                *)
Persist(name, draws) ==
    /\ At(name)
    /\ step' = step + 1 /\ UNCHANGED drawing
    /\ \E f \in Draw(name, draws) :
          table' = [r \in Records |-> IF r \in DOMAIN f THEN f[r] ELSE table[r]]
    /\ UNCHANGED <<sent, visible, jobs, events, recorded, spoiled, related, pool, failures>>

PersistRelations ==
    /\ At("relations")
    /\ step' = step + 1 /\ UNCHANGED drawing
    /\ ParentChildRelations # {}
    /\ related' \in Draw("relations",
          {parents \cup languages \cup editions :
              parents \in ParentChildRelations, languages \in LanguageRelations,
              editions \in EditionRelations})
    /\ UNCHANGED <<table, sent, visible, jobs, events, recorded, spoiled, pool, failures>>

\* Variant: loans are indexed in one stage only.
StagesWithLoansOnce ==
    <<Drawn("internal_location") \cup Drawn("series") \cup Drawn("loan"),
      Drawn("eitem") \cup Drawn("item"),
      (Drawn("provider") \ Vendors) \cup Drawn("borrowing_request"),
      Drawn("document") \cup Drawn("document_request") \cup Drawn("item") \cup
          Vendors \cup Drawn("order")>>

(* The loans come first, for items to show them; the items come before the *)
(* documents; and loans come again, to be counted with their items.        *)
Stages ==
    <<Drawn("internal_location") \cup Drawn("series") \cup Drawn("loan"),
      Drawn("eitem") \cup Drawn("item"),
      (Drawn("provider") \ Vendors) \cup Drawn("borrowing_request"),
      Drawn("document") \cup Drawn("document_request") \cup Drawn("loan") \cup Drawn("item") \cup
          Vendors \cup Drawn("order")>>

(* The records of some kinds go through the indexing queue, which is       *)
(* worked off before the indices are refreshed.                            *)
IndexStage(name, batch) ==
    /\ At(name)
    /\ step' = step + 1 /\ UNCHANGED drawing
    /\ sent' = IndexedNow(table, batch)
    /\ visible' = sent'
    /\ spoiled' = IF Script[step'] = "done" THEN {} ELSE spoiled
    /\ UNCHANGED <<table, jobs, events, recorded, related, pool, failures>>

Command ==
    \/ Setup
    \/ CreateUsers \/ IndexVocabularies \/ CreateLocation \/ IndexPatrons
    \/ Persist("internal_location", InternalLocationGenerator)
    \/ Persist("series", SeriesGenerator)
    \/ Persist("document", DocumentGenerator)
    \/ Persist("item", ItemGenerator)
    \/ Persist("eitem", EItemGenerator)
    \/ At("loan") /\ Lendable # {} /\ Persist("loan", LoanGenerator)
    \/ PersistRelations
    \/ Persist("library", LibraryGenerator)
    \/ Persist("borrowing_request", BorrowingRequestGenerator)
    \/ Persist("document_request", DocumentRequestGenerator)
    \/ Persist("vendor", VendorGenerator)
    \/ Persist("order", OrderGenerator)
    \/ IndexStage("stage_1", Stages[1]) \/ IndexStage("stage_2", Stages[2])
    \/ IndexStage("stage_3", Stages[3]) \/ IndexStage("stage_4", Stages[4])

DemoInit == Init /\ step = 0 /\ drawing = {}

DemoNext ==
    \/ step = 0 /\ Next /\ UNCHANGED <<step, drawing>>
    \/ Command

DemoSpec == DemoInit /\ [][DemoNext]_demoVars

-----------------------------------------------------------------------------
(* When the command is done its entries show the tables as they are: the   *)
(* order of its stages makes up for tasks that nobody scheduled.           *)
DemoEntriesAreRight == At("done") => visible = Settled(table)

(* While no worker dies, the version check alone brings every entry to the *)
(* data its record has: whatever jobs race, and however old the copy of    *)
(* the record is that one of them holds, nothing older stays in the index. *)
EntriesAreCurrent ==
    (step = 0 \/ At("done")) /\ Quiet /\ failures = 0 =>
        \A r \in Records : Indexed(table, r) => visible[r].own = table[r]
=============================================================================
