----------------------------- MODULE Catalogue -----------------------------
(***************************************************************************)
(* The public catalogue over a seed bundle (catalogue/search_service.py    *)
(* and its views): a reader goes from page to page by the links a page     *)
(* offers, some of which say how many records wait behind them, while a    *)
(* curator may save the file and a script read it.                         *)
(*                                                                         *)
(* The counts are made from the whole bundle, with values stripped; the    *)
(* results from filters of which some compare the values as they are; what *)
(* a result says of its access from the links of its e-items, the filter   *)
(* from the e-items.                                                       *)
(***************************************************************************)
EXTENDS SeedBundle

CONSTANTS
    Terms,        \* the words a reader may search for
    MaxValue,     \* bound: values of a field are 1 .. MaxValue, 0 is none
    DefaultSize,  \* DEFAULT_PAGE_SIZE
    SizeLimit,    \* from_mapping's cap on the size
    SizeLinks,    \* the page sizes a page offers
    MaxPage,      \* bound: pages an address may name
    FacetLimit    \* facets of a field that are shown

ASSUME NumbersAssumption ==
    /\ DefaultSize \in 1 .. SizeLimit /\ SizeLinks \subseteq 1 .. SizeLimit
    /\ {SizeLimit, MaxPage, FacetLimit} \subseteq Nat \ {0}
    /\ MaxValue \in Nat

VARIABLES
    audience, \* who is at work: they only read the file, so looking at one of
              \* them at a time loses nothing
    shown,    \* the version of the file the reader's page was made from
    query,    \* the CatalogueSearchQuery of that page
    promise,  \* the link that led here, if it told a number of records
    walked    \* history: PIDs read from a first page on by "Next" links

catalogueVars == <<bundle, script, audience, shown, query, promise, walked>>

-----------------------------------------------------------------------------
(* Records.                                                                *)

Values == 0 .. MaxValue

Single == {"type", "year", "source"}
Multiple == {"language", "subject"}
Filters == Single \cup Multiple \cup {"availability"}

Documents(b) == RecordsOf(b, "documents")

\* a value as it is stored
Field == [value: Values, padded: BOOLEAN]

ASSUME FieldsAssumption ==
    \A b \in Bundles :
        /\ \A d \in AllOf(b, "documents") :
               /\ \A f \in Single : d[f] \in Field
               /\ \A f \in Multiple : d[f] \in Seq(Field)
        /\ \A e \in AllOf(b, "eitems") : e.url \in BOOLEAN

\* eitem_document_pids: the references of e-items that may be equal to a PID as
\* they are
EItemDocumentPids ==
    [b \in Bundles |->
        {e.refs["documents"].pid :
            e \in {f \in AllOf(b, "eitems") : f.refs["documents"].text}}]

HasEItem(b, d) == d.pid \in EItemDocumentPids[b]

\* _eitems_by_document_pid, _present_result_access: those whose reference reads
\* like it, and that have an address
HasOnlineAccess(b, d) ==
    \E e \in AllOf(b, "eitems") : e.refs["documents"].pid = d.pid /\ e.url

\* get_record: the first document with the PID; its page is not found without
RecordOf(b, pid) ==
    {d \in AllOf(b, "documents") :
        d.pid = pid /\ \E i \in DOMAIN Documents(b) :
            Documents(b)[i] = d /\ \A j \in 1 .. i - 1 : Documents(b)[j].pid # pid}

\* _present_access: the page of a record compares as it is again
RecordPageHasAccess(b, d) ==
    \E e \in AllOf(b, "eitems") :
        e.refs["documents"] = [pid |-> d.pid, text |-> TRUE] /\ e.url

\* what search and seed_review take from the file without asking
CanServe(b) ==
    /\ SectionsIn(b) \subseteq Sections /\ "documents" \in SectionsIn(b)
    /\ \A d \in AllOf(b, "documents") : d.pid # NoPid
    /\ \A e \in AllOf(b, "eitems") : e.refs["documents"].pid # NoPid

\* _document_languages, _document_keywords: stripped, and not empty
Stripped(d, f) == {d[f][i].value : i \in DOMAIN d[f]} \ {0}

-----------------------------------------------------------------------------
(* Queries.                                                                *)

NoQuery ==
    [q |-> "", type |-> 0, year |-> 0, source |-> 0, language |-> 0,
     subject |-> 0, availability |-> "", page |-> 1, size |-> DefaultSize]

IsSet(f, v) == v # (IF f = "availability" THEN "" ELSE 0)

NotSet(f) == IF f = "availability" THEN "" ELSE 0

\* from_mapping: numbers that are none, or not positive, give way to defaults
FromMapping(address) ==
    [address EXCEPT
        !.page = IF @ > 0 THEN @ ELSE 1,
        !.size = IF @ > SizeLimit THEN SizeLimit
                 ELSE IF @ > 0 THEN @ ELSE DefaultSize]

\* mutant: records with e-items are not left out of the review
MatchesOnline(b, d, f, v) ==
    IF f \in Single THEN d[f] = As(v)
    ELSE IF f \in Multiple THEN v \in Stripped(d, f)
    ELSE v = "online" => HasEItem(b, d)

\* one condition of _filter_documents
Matches(b, d, f, v) ==
    IF f \in Single THEN d[f] = As(v)
    ELSE IF f \in Multiple THEN v \in Stripped(d, f)
    ELSE (v = "online" => HasEItem(b, d)) /\ (v = "review" => ~HasEItem(b, d))

Selected(b, q, d) ==
    /\ \A f \in Filters : IsSet(f, q[f]) => Matches(b, d, f, q[f])
    /\ q.q # "" => q.q \in d.terms

\* the documents at some positions, in order: the loop of _filter_documents
Chosen(docs, positions) ==
    LET chosen[n \in 0 .. Len(docs)] ==
            IF n = 0 THEN <<>>
            ELSE IF n \in positions THEN Append(chosen[n - 1], docs[n])
            ELSE chosen[n - 1]
    IN chosen[Len(docs)]

\* the positions of those for which no condition is a reason to go on
Passing(b, q) == {i \in DOMAIN Documents(b) : Selected(b, q, Documents(b)[i])}

\* _filter_documents
Filtered(b, q) == Chosen(Documents(b), Passing(b, q))

-----------------------------------------------------------------------------
(* Pages.                                                                  *)

Smaller(a, b) == IF a < b THEN a ELSE b

\* mutant: a last page that is not full is not counted
FullPages(count, size) == count \div size

PageCount(count, size) == (count + size - 1) \div size

\* what a page offers that is asked for by a number, of so many
Paginated(asked, pages) ==
    LET page == IF pages = 0 THEN 1 ELSE Smaller(asked, pages)
    IN [page |-> page, previous |-> page > 1, next |-> page < pages]

\* _build_pagination
Pagination(b, q) ==
    Paginated(q.page, PageCount(Len(Filtered(b, q)), q.size))

Offset(b, q) == (Pagination(b, q).page - 1) * q.size

Slice(all, offset, size) ==
    SubSeq(all, offset + 1, Smaller(offset + size, Len(all)))

\* the documents of the page, as search slices them
Results(b, q) == Slice(Filtered(b, q), Offset(b, q), q.size)

PidsOf(docs) == [i \in DOMAIN docs |-> docs[i].pid]

-----------------------------------------------------------------------------
(* Counts.                                                                 *)

HowMany(b, test(_)) == Cardinality({i \in DOMAIN Documents(b) : test(Documents(b)[i])})

\* mutant: each document counts for its first value
FirstCount(b, f, v) ==
    HowMany(b, LAMBDA d : IF f \in Single THEN d[f].value = v
                          ELSE d[f] # <<>> /\ d[f][1].value = v)

\* _build_count_facets, _build_language_facets, _build_keyword_facets: as often
\* as a document lists the value
Count(b, f, v) ==
    IF f \in Single
    THEN HowMany(b, LAMBDA d : d[f].value = v)
    ELSE Cardinality(UNION {{<<i, j>> : j \in {k \in DOMAIN Documents(b)[i][f] :
                                                  Documents(b)[i][f][k].value = v}} :
                            i \in DOMAIN Documents(b)})

Counted == [b \in Bundles |-> [f \in Single \cup Multiple |->
                                 [v \in Values |-> Count(b, f, v)]]]

\* the most frequent values, and of equals the first
FacetValues(b, f) ==
    LET counts == Counted[b][f]
        found  == {v \in Values \ {0} : counts[v] > 0}
        before(v) == {u \in found : \/ counts[u] > counts[v]
                                    \/ counts[u] = counts[v] /\ u < v}
    IN {v \in found : Cardinality(before(v)) < FacetLimit}

\* _build_availability_facets
AvailabilityCount(b, v) ==
    LET online == HowMany(b, LAMBDA d : HasEItem(b, d))
    IN IF v = "online" THEN online ELSE Len(Documents(b)) - online

\* records_missing_digital_access of seed_review
MissingAccess(b) == HowMany(b, LAMBDA d : ~HasOnlineAccess(b, d))

-----------------------------------------------------------------------------
Silent == [count |-> 0, kind |-> "none", alone |-> FALSE]

CatalogueInit ==
    /\ bundle \in Bundles
    /\ CanServe(bundle)
    /\ script = Idle
    /\ audience \in {"reader", "scripts"}
    /\ shown = bundle
    /\ query = NoQuery
    /\ promise = Silent
    /\ walked = PidsOf(Results(shown, NoQuery))

\* The page a link or an address leads to is made from the file as it is now.
Load(address, p) ==
    /\ audience = "reader" /\ CanServe(bundle)
    /\ shown' = bundle
    /\ query' = FromMapping(address)
    /\ promise' = IF shown = bundle THEN p ELSE Silent
    /\ UNCHANGED <<bundle, script, audience>>

\* Reading starts over with each first page.
Arrive(address, p) ==
    LET q == FromMapping(address)
    IN /\ Load(address, p)
       /\ walked' = IF q.page = 1 THEN PidsOf(Results(bundle, q)) ELSE <<>>

\* an address from outside
Visit(q, page, size) ==
    Arrive([NoQuery EXCEPT !.q = q, !.page = page, !.size = size], Silent)

\* Removing the filter leaves no other, nor words searched for.
Alone(f) == query.q = "" /\ \A g \in Filters \ {f} : ~IsSet(g, query[g])

\* filter_link: a facet, or the way back from the one selected; the size is not
\* kept
FollowFacet(f, v) ==
    LET there(w) == [query EXCEPT ![f] = w, !.page = 1, !.size = DefaultSize]
    IN /\ IF f = "availability" THEN v \in {"online", "review"}
                                ELSE v \in FacetValues(shown, f)
       /\ IF query[f] = v THEN Arrive(there(NotSet(f)), Silent)
          ELSE Arrive(there(v),
                      [count |-> IF f = "availability" THEN AvailabilityCount(shown, v)
                                 ELSE Counted[shown][f][v],
                       kind |-> "facet", alone |-> Alone(f)])

\* _build_search_href: the size is kept, the page is not
SearchHref(f, v) == [query EXCEPT ![f] = v, !.page = 1]

RemoveFilter(f) ==
    /\ IsSet(f, query[f])
    /\ Arrive(SearchHref(f, NotSet(f)), Silent)

\* the quick filters: both kinds of access, one year and one type
QuickFilters ==
    {<<"availability", "online">>, <<"availability", "review">>, <<"year", 1>>,
     <<"type", 1>>}

\* each takes the place of the one of its kind in force
QuickFilter(f, v) == Arrive(SearchHref(f, v), Silent)

\* size_link
SizeLink(size) ==
    Arrive([query EXCEPT !.size = size, !.page = 1], Silent)

\* page_link
NextPage ==
    LET address == [query EXCEPT !.page = Pagination(shown, query).page + 1]
    IN /\ Pagination(shown, query).next
       /\ Load(address, promise)
       /\ walked' = IF walked = <<>> \/ shown # bundle THEN <<>>
                    ELSE walked \o PidsOf(Results(bundle, FromMapping(address)))

PreviousPage ==
    /\ Pagination(shown, query).previous
    /\ Arrive([query EXCEPT !.page = Pagination(shown, query).page - 1], promise)

\* The page of a result that is still there, and the link back from it.
ReturnFromRecord ==
    /\ \E i \in DOMAIN Results(shown, query) :
           RecordOf(bundle, Results(shown, query)[i].pid) # {}
    /\ Load(query, promise)
    /\ walked' = IF shown = bundle THEN walked ELSE <<>>

\* the cards of the collections page, which count the exact type
FollowCollection(v) ==
    Arrive([NoQuery EXCEPT !.type = v],
           [count |-> TypeCount(shown, As(v)), kind |-> "collection", alone |-> TRUE])

\* "Missing digital access" and "All seed records" of the seed review
FollowReviewAction ==
    \/ Arrive([NoQuery EXCEPT !.availability = "review"],
              [count |-> MissingAccess(shown), kind |-> "review", alone |-> TRUE])
    \/ Arrive(NoQuery,
              [count |-> Len(Documents(shown)), kind |-> "all", alone |-> TRUE])

ReaderActs ==
    \/ \E q \in Terms \cup {""}, page \in 0 .. MaxPage,
          size \in 0 .. SizeLimit + 1 : Visit(q, page, size)
    \/ \E f \in Single \cup Multiple, v \in Values : FollowFacet(f, v)
    \/ \E v \in {"online", "review"} : FollowFacet("availability", v)
    \/ \E f \in Filters : RemoveFilter(f)
    \/ \E quick \in QuickFilters : QuickFilter(quick[1], quick[2])
    \/ \E size \in SizeLinks : SizeLink(size)
    \/ NextPage
    \/ PreviousPage
    \/ ReturnFromRecord
    \/ \E v \in Values \ {0} : FollowCollection(v)
    \/ FollowReviewAction

\* A curator puts a new version of the file in place.
SaveBundle(b) ==
    /\ bundle' = b
    /\ UNCHANGED <<script, audience, shown, query, promise, walked>>

CatalogueNext ==
    \/ \E b \in Bundles : SaveBundle(b)
    \/ ReaderActs
    \/ /\ audience = "scripts"
       /\ (\E kind \in DOMAIN Reads : StartScript(kind)) \/ ReadAgain
       /\ UNCHANGED <<audience, shown, query, promise, walked>>

CatalogueSpec == CatalogueInit /\ [][CatalogueNext]_catalogueVars

-----------------------------------------------------------------------------
(* Properties.                                                             *)

\* Who reads from the first page to the last has seen every record found, once
\* and in order.
WalkSeesEachOnce ==
    walked # <<>> /\ ~Pagination(shown, query).next => walked = PidsOf(Filtered(shown, query))

\* no field holds a padded value, and no document lists a value twice
Tidy ==
    \A d \in AllOf(shown, "documents") :
        /\ \A f \in Single : ~d[f].padded
        /\ \A f \in Multiple :
               Cardinality({d[f][i].value : i \in DOMAIN d[f]}) = Len(d[f])

\* every e-item refers to its document by text
Written(b) == \A e \in AllOf(b, "eitems") : e.refs["documents"].text

\* A link never leads to more records than it tells; and to just as many, if
\* it adds no filter to others: always from the cards of the collections and
\* to all records, from facets when the bundle is tidy, and from the review
\* when every e-item has an address. Of the review it takes e-items that refer
\* to documents by text.
LinksTellTheCount ==
    LET n == Len(Filtered(shown, query))
    IN CASE promise.kind = "none" -> TRUE
         [] promise.kind \in {"collection", "all"} -> n = promise.count
         [] promise.kind = "facet" ->
                n <= promise.count /\ (promise.alone /\ Tidy => n = promise.count)
         [] promise.kind = "review" ->
                Written(shown) =>
                    /\ n <= promise.count
                    /\ (\A e \in AllOf(shown, "eitems") : e.url) => n = promise.count

\* What a result says of its access is what it was filtered by and what its
\* own page says, unless an e-item has no address; where e-items refer to
\* documents by text.
PagesAgreeOnAccess ==
    Written(shown) =>
        \A i \in DOMAIN Results(shown, query) :
            LET d == Results(shown, query)[i]
            IN /\ HasOnlineAccess(shown, d) <=> RecordPageHasAccess(shown, d)
               /\ query.availability = "review" => ~HasOnlineAccess(shown, d)
               /\ query.availability = "online" =>
                      \/ HasOnlineAccess(shown, d)
                      \/ \E e \in AllOf(shown, "eitems") :
                            e.refs["documents"].pid = d.pid /\ ~e.url

\* A bundle found valid, other than the empty object, is one the catalogue can
\* serve; and a review of it, if nobody saved it meanwhile, lists links for just
\* the documents the catalogue has under "Digital access".
ReviewAgreesWithCatalogue ==
    script.kind = "review" /\ Finished(script) /\ SameFile(script)
      /\ script.read[1] \in ValidBundles =>
        LET b    == script.read[3]
            rows == Rows(b)
        IN /\ CanServe(b) \/ SectionsIn(b) = {}
           /\ Written(b) =>
                \A i \in DOMAIN rows :
                    rows[i].links > 0 <=> HasEItem(b, RecordsOf(b, "documents")[i])
=============================================================================
