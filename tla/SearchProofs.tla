---------------------------- MODULE SearchProofs ----------------------------
(***************************************************************************)
(* Theorems about what searches find.  The first part is about Catalogue   *)
(* and SeedBundle, for any versions of the file, with as many records as   *)
(* it may hold, and any page sizes; the second about DemoData and the jobs *)
(* of Indexing it extends, for any records and any draws of the generators.*)
(***************************************************************************)
EXTENDS Catalogue, DemoData, FiniteSetTheorems, TLAPS

-----------------------------------------------------------------------------
(* Numbers.                                                                *)

LEMMA Least ==
    ASSUME NEW S \in SUBSET Nat, S # {}
    PROVE  \E n \in S : \A m \in S : n <= m
  <1>. DEFINE R == {ss \in Nat \X Nat : ss[1] < ss[2]}
  <1>1. IsWellFoundedOn(R, Nat)
    BY NatLessThanWellFounded DEF OpToRel
  <1>. HIDE DEF R
  <1>2. PICK n \in S : \A m \in S : ~ (<<m, n>> \in R)
    BY <1>1, WFMin
  <1>3. \A m \in S : m \in Nat /\ n \in Nat
    OBVIOUS
  <1>4. \A m \in S : ~ (m < n)
    BY <1>2, <1>3 DEF R
  <1>. QED BY <1>3, <1>4

\* The last page begins before the end of what is found and reaches it.
LEMMA PageCountIsEnough ==
    ASSUME NEW count \in Nat, NEW size \in Nat \ {0}
    PROVE  /\ PageCount(count, size) \in Nat
           /\ PageCount(count, size) * size >= count
           /\ \A p \in Nat : p < PageCount(count, size) => p * size < count
  <1>. DEFINE k == (count + size - 1) \div size
              r == (count + size - 1) % size
  <1>1. k \in Int /\ r \in 0 .. size - 1 /\ count + size - 1 = size * k + r
    BY SMT
  <1>2. PageCount(count, size) = k
    BY DEF PageCount
  <1>. HIDE DEF k, r
  <1>3. k >= 0 /\ k * size >= count
    BY <1>1
  <1>4. ASSUME NEW p \in Nat, p < k PROVE p * size < count
    <2>1. size * k >= size * (p + 1)
      BY <1>1, <1>4
    <2>2. size * (p + 1) = p * size + size
      OBVIOUS
    <2>. QED BY <1>1, <2>1, <2>2
  <1>. QED BY <1>1, <1>2, <1>3, <1>4

-----------------------------------------------------------------------------
(* The loop of _filter_documents.                                          *)

ChosenFrom(docs, positions, chosen, n) ==
    IF n = 0 THEN <<>>
    ELSE IF n \in positions THEN Append(chosen[n - 1], docs[n])
    ELSE chosen[n - 1]

LEMMA ChosenExists ==
    ASSUME NEW docs, NEW positions, NEW length \in Nat
    PROVE  \E chosen :
               chosen = [n \in 0 .. length |-> ChosenFrom(docs, positions, chosen, n)]
  <1>. DEFINE Has(k) == \E chosen :
                  chosen = [n \in 0 .. k |-> ChosenFrom(docs, positions, chosen, n)]
              Wrong == {k \in Nat : ~Has(k)}
  <1>. SUFFICES ASSUME Wrong # {} PROVE FALSE
    OBVIOUS
  <1>1. PICK k \in Wrong : \A j \in Wrong : k <= j
    BY Least
  <1>2. k # 0
    <2>. DEFINE chosen == [n \in 0 .. 0 |-> <<>>]
    <2>1. chosen = [n \in 0 .. 0 |-> ChosenFrom(docs, positions, chosen, n)]
      BY DEF ChosenFrom
    <2>. HIDE DEF chosen
    <2>. QED BY <2>1
  <1>3. PICK chosen : chosen = [n \in 0 .. k - 1 |-> ChosenFrom(docs, positions, chosen, n)]
    <2>1. k - 1 \in Nat /\ k - 1 \notin Wrong
      BY <1>1, <1>2
    <2>. QED BY <2>1
  <1>. DEFINE more == [n \in 0 .. k |->
                          IF n = k THEN ChosenFrom(docs, positions, chosen, k)
                          ELSE chosen[n]]
  <1>4. more = [n \in 0 .. k |-> ChosenFrom(docs, positions, more, n)]
    <2>1. k \in Nat /\ k # 0
      BY <1>2
    <2>2. \A n \in 0 .. k - 1 : chosen[n] = ChosenFrom(docs, positions, chosen, n)
      BY <1>3
    <2>3. \A n \in 0 .. k - 1 : more[n] = chosen[n]
      BY <2>1
    <2>4. \A n \in 0 .. k : n # 0 => n - 1 \in 0 .. k - 1
      BY <2>1
    <2>5. \A n \in 0 .. k : ChosenFrom(docs, positions, more, n)
                              = ChosenFrom(docs, positions, chosen, n)
      BY <2>3, <2>4 DEF ChosenFrom
    <2>6. \A n \in 0 .. k : more[n] = ChosenFrom(docs, positions, chosen, n)
      BY <2>1, <2>2
    <2>7. more = [n \in 0 .. k |-> more[n]]
      OBVIOUS
    <2>. HIDE DEF more
    <2>. QED BY <2>5, <2>6, <2>7
  <1>. HIDE DEF more
  <1>. QED BY <1>4

LEMMA ChosenDef ==
    ASSUME NEW T, NEW docs \in Seq(T), NEW positions
    PROVE  \E chosen :
               /\ chosen = [n \in 0 .. Len(docs) |->
                               ChosenFrom(docs, positions, chosen, n)]
               /\ Chosen(docs, positions) = chosen[Len(docs)]
  <1>. DEFINE chosen[n \in 0 .. Len(docs)] ==
                  IF n = 0 THEN <<>>
                  ELSE IF n \in positions THEN Append(chosen[n - 1], docs[n])
                  ELSE chosen[n - 1]
  <1>1. \E f : f = [n \in 0 .. Len(docs) |-> ChosenFrom(docs, positions, f, n)]
    <2>1. Len(docs) \in Nat
      OBVIOUS
    <2>. QED BY <2>1, ChosenExists
  <1>2. chosen = [n \in 0 .. Len(docs) |-> ChosenFrom(docs, positions, chosen, n)]
    BY <1>1 DEF ChosenFrom
  <1>3. Chosen(docs, positions) = chosen[Len(docs)]
    BY DEF Chosen
  <1>. HIDE DEF chosen
  <1>. QED BY <1>2, <1>3

\* c holds those of the first n documents that are at the positions
HoldsChosen(T, docs, positions, n, c) ==
    /\ c \in Seq(T)
    /\ \A i \in DOMAIN c : \E j \in positions \cap (1 .. n) : c[i] = docs[j]
    /\ IsFiniteSet(positions \cap (1 .. n))
    /\ Len(c) = Cardinality(positions \cap (1 .. n))

LEMMA ChoosesOne ==
    ASSUME NEW T, NEW docs \in Seq(T), NEW positions, NEW n \in DOMAIN docs,
           NEW c, HoldsChosen(T, docs, positions, n - 1, c), n \in positions
    PROVE  HoldsChosen(T, docs, positions, n, Append(c, docs[n]))
  <1>. DEFINE more   == Append(c, docs[n])
              before == positions \cap (1 .. n - 1)
              upto   == positions \cap (1 .. n)
  <1>0. c \in Seq(T) /\ docs[n] \in T /\ n \in Nat \ {0} /\ Len(c) \in Nat
    BY DEF HoldsChosen
  <1>1. /\ c \in Seq(T) /\ docs[n] \in T /\ n \in Nat \ {0} /\ Len(c) \in Nat
        /\ \A i \in DOMAIN c : \E j \in before : c[i] = docs[j]
        /\ IsFiniteSet(before) /\ Len(c) = Cardinality(before)
    BY <1>0 DEF HoldsChosen
  <1>2. upto = before \cup {n} /\ n \notin before
    BY <1>1
  <1>. HIDE DEF before, upto
  <1>3. IsFiniteSet(upto) /\ Cardinality(upto) = Cardinality(before) + 1
    BY <1>1, <1>2, FS_AddElement
  <1>4. /\ more \in Seq(T) /\ Len(more) = Len(c) + 1
        /\ \A i \in DOMAIN more : i \in DOMAIN c \/ i = Len(c) + 1
        /\ \A i \in DOMAIN c : more[i] = c[i]
        /\ more[Len(c) + 1] = docs[n]
    BY <1>1
  <1>. HIDE DEF more
  <1>5. \A i \in DOMAIN more : \E j \in upto : more[i] = docs[j]
    BY <1>1, <1>2, <1>4
  <1>6. HoldsChosen(T, docs, positions, n, more)
    BY <1>1, <1>3, <1>4, <1>5 DEF HoldsChosen, upto
  <1>. QED BY <1>6 DEF more

LEMMA SkipsOne ==
    ASSUME NEW T, NEW docs \in Seq(T), NEW positions, NEW n \in DOMAIN docs,
           NEW c, HoldsChosen(T, docs, positions, n - 1, c), n \notin positions
    PROVE  HoldsChosen(T, docs, positions, n, c)
  <1>1. positions \cap (1 .. n) = positions \cap (1 .. n - 1)
    OBVIOUS
  <1>. QED BY <1>1 DEF HoldsChosen

\* The loop keeps as many documents as there are positions, each from one.
LEMMA ChosenIsRight ==
    ASSUME NEW T, NEW docs \in Seq(T), NEW positions
    PROVE  HoldsChosen(T, docs, positions, Len(docs), Chosen(docs, positions))
  <1>1. PICK chosen :
            /\ chosen = [n \in 0 .. Len(docs) |-> ChosenFrom(docs, positions, chosen, n)]
            /\ Chosen(docs, positions) = chosen[Len(docs)]
    BY ChosenDef
  <1>2. Len(docs) \in Nat /\ DOMAIN docs = 1 .. Len(docs)
    OBVIOUS
  <1>. DEFINE Wrong == {n \in 0 .. Len(docs) :
                           ~HoldsChosen(T, docs, positions, n, chosen[n])}
  <1>. SUFFICES ASSUME Wrong # {} PROVE FALSE
    BY <1>1, <1>2
  <1>3. PICK n \in Wrong : \A m \in Wrong : n <= m
    <2>1. Wrong \in SUBSET Nat
      BY <1>2
    <2>. QED BY <2>1, Least
  <1>4. n \in 0 .. Len(docs) /\ chosen[n] = ChosenFrom(docs, positions, chosen, n)
    BY <1>1
  <1>5. n # 0
    <2>. SUFFICES ASSUME n = 0 PROVE FALSE
      OBVIOUS
    <2>1. chosen[0] = <<>>
      BY <1>4 DEF ChosenFrom
    <2>2. positions \cap (1 .. 0) = {}
      OBVIOUS
    <2>3. HoldsChosen(T, docs, positions, 0, <<>>)
      BY <2>2, FS_EmptySet DEF HoldsChosen
    <2>. QED BY <2>1, <2>3
  <1>6. n - 1 \in 0 .. Len(docs) /\ n \in DOMAIN docs /\ n - 1 \notin Wrong
    BY <1>2, <1>3, <1>4, <1>5
  <1>7. HoldsChosen(T, docs, positions, n - 1, chosen[n - 1])
    BY <1>6
  <1>8. CASE n \in positions
    <2>1. chosen[n] = Append(chosen[n - 1], docs[n])
      BY <1>4, <1>5, <1>8 DEF ChosenFrom
    <2>. QED BY <1>6, <1>7, <1>8, <2>1, ChoosesOne
  <1>9. CASE n \notin positions
    <2>1. chosen[n] = chosen[n - 1]
      BY <1>4, <1>5, <1>9 DEF ChosenFrom
    <2>. QED BY <1>6, <1>7, <1>9, <2>1, SkipsOne
  <1>. QED BY <1>8, <1>9

-----------------------------------------------------------------------------
(* Bundles and queries.                                                    *)

LEMMA DocumentsType ==
    ASSUME NEW b \in Bundles
    PROVE  /\ Documents(b) \in Seq(AllOf(b, "documents"))
           /\ Len(Documents(b)) \in Nat
           /\ DOMAIN Documents(b) = 1 .. Len(Documents(b))
           /\ \A i \in DOMAIN Documents(b) : Documents(b)[i] \in AllOf(b, "documents")
  <1>1. "documents" \in Sections
    BY DEF Sections
  <1>2. RecordsOf(b, "documents") \in Seq(AllOf(b, "documents"))
    BY <1>1, FilesAssumption
  <1>. QED BY <1>2 DEF Documents, AllOf

\* What is found are documents that pass, as many as do.
LEMMA FilteredType ==
    ASSUME NEW b \in Bundles, NEW q
    PROVE  /\ Filtered(b, q) \in Seq(AllOf(b, "documents"))
           /\ Len(Filtered(b, q)) \in Nat
           /\ DOMAIN Filtered(b, q) = 1 .. Len(Filtered(b, q))
           /\ \A i \in DOMAIN Filtered(b, q) :
                  /\ Filtered(b, q)[i] \in AllOf(b, "documents")
                  /\ Selected(b, q, Filtered(b, q)[i])
           /\ IsFiniteSet(Passing(b, q))
           /\ Len(Filtered(b, q)) = Cardinality(Passing(b, q))
  <1>. DEFINE docs == Documents(b)
              T    == AllOf(b, "documents")
              S    == Passing(b, q)
              all  == Chosen(docs, S)
  <1>1. docs \in Seq(T) /\ DOMAIN docs = 1 .. Len(docs)
    BY DocumentsType
  <1>2. S \cap (1 .. Len(docs)) = S /\ \A j \in S : Selected(b, q, docs[j])
    BY <1>1 DEF Passing
  <1>3. Filtered(b, q) = all
    BY DEF Filtered
  <1>. HIDE DEF docs, T, S, all
  <1>4. HoldsChosen(T, docs, S, Len(docs), all)
    BY <1>1, ChosenIsRight DEF all
  <1>5. /\ all \in Seq(T) /\ IsFiniteSet(S) /\ Len(all) = Cardinality(S)
        /\ \A i \in DOMAIN all : \E j \in S : all[i] = docs[j]
    BY <1>2, <1>4 DEF HoldsChosen
  <1>6. \A i \in DOMAIN all : all[i] \in T /\ Selected(b, q, all[i])
    BY <1>2, <1>5
  <1>7. Len(all) \in Nat /\ DOMAIN all = 1 .. Len(all)
    BY <1>5
  <1>. QED BY <1>3, <1>5, <1>6, <1>7 DEF T, S

Fields == {"q", "page", "size"} \cup Filters

\* what an address may ask for
IsAddress(a) ==
    /\ a = [f \in Fields |-> a[f]]
    /\ a.page \in Nat /\ a.size \in Nat

IsQuery(q) ==
    /\ q = [f \in Fields |-> q[f]]
    /\ q.page \in Nat \ {0} /\ q.size \in 1 .. SizeLimit

LEMMA SizesType ==
    /\ SizeLimit \in Nat \ {0} /\ DefaultSize \in 1 .. SizeLimit
    /\ SizeLinks \subseteq 1 .. SizeLimit
  BY NumbersAssumption

LEMMA NoQueryType == IsQuery(NoQuery) /\ NoQuery.page = 1
  <1>1. DOMAIN NoQuery = Fields
    BY DEF NoQuery, Fields, Filters, Single, Multiple
  <1>2. NoQuery = [f \in DOMAIN NoQuery |-> NoQuery[f]]
    BY DEF NoQuery
  <1>3. NoQuery.page = 1 /\ NoQuery.size = DefaultSize
    BY DEF NoQuery
  <1>. QED BY <1>1, <1>2, <1>3, SizesType DEF IsQuery

LEMMA QueryIsAddress == \A q : IsQuery(q) => IsAddress(q)
  BY SizesType DEF IsQuery, IsAddress

\* from_mapping makes a query of an address, and leaves a query as it is.
LEMMA MappingType ==
    ASSUME NEW a, IsAddress(a)
    PROVE  /\ IsQuery(FromMapping(a))
           /\ \A f \in Filters \cup {"q"} : FromMapping(a)[f] = a[f]
           /\ IsQuery(a) => FromMapping(a) = a
  <1>. DEFINE page == IF a.page > 0 THEN a.page ELSE 1
              size == IF a.size > SizeLimit THEN SizeLimit
                      ELSE IF a.size > 0 THEN a.size ELSE DefaultSize
  <1>1. FromMapping(a) = [a EXCEPT !.page = page, !.size = size]
    BY DEF FromMapping
  <1>2. page \in Nat \ {0} /\ size \in 1 .. SizeLimit
    BY SizesType DEF IsAddress
  <1>3. IsQuery(a) => page = a.page /\ size = a.size
    BY SizesType DEF IsQuery
  <1>. HIDE DEF page, size
  <1>4. a = [f \in Fields |-> a[f]] /\ "page" \in Fields /\ "size" \in Fields
    BY DEF IsAddress, Fields
  <1>5. \A f \in Filters \cup {"q"} : f \in Fields /\ f # "page" /\ f # "size"
    BY DEF Fields, Filters, Single, Multiple
  <1>. DEFINE q == [a EXCEPT !.page = page, !.size = size]
  <1>6. /\ q.page = page /\ q.size = size
        /\ \A f \in Fields \ {"page", "size"} : q[f] = a[f]
        /\ q = [f \in Fields |-> q[f]]
    BY <1>4
  <1>7. IsQuery(a) => q = a
    BY <1>3, <1>4
  <1>. HIDE DEF q
  <1>. QED BY <1>1, <1>2, <1>5, <1>6, <1>7 DEF IsQuery, q

\* The pages of what is found do not change what is found.
LEMMA FoundBySame ==
    ASSUME NEW b, NEW q, NEW p, \A f \in Filters \cup {"q"} : q[f] = p[f]
    PROVE  Filtered(b, q) = Filtered(b, p)
  <1>1. /\ q.q = p.q
        /\ \A f \in Filters : q[f] = p[f]
    OBVIOUS
  <1>2. \A d : Selected(b, q, d) <=> Selected(b, p, d)
    BY <1>1 DEF Selected
  <1>3. Passing(b, q) = Passing(b, p)
    BY <1>2 DEF Passing
  <1>. QED BY <1>3 DEF Filtered

-----------------------------------------------------------------------------
(* What every step keeps of the reader's page.                             *)

Typed == bundle \in Bundles /\ shown \in Bundles /\ IsQuery(query)

LEMMA LoadType ==
    ASSUME Typed, NEW a, NEW p, IsAddress(a), Load(a, p)
    PROVE  Typed'
  BY MappingType DEF Typed, Load

\* The links of a page are addresses.
LEMMA LinkIsAddress ==
    ASSUME NEW q, IsQuery(q)
    PROVE  /\ \A f \in Filters : \A v : IsAddress([q EXCEPT ![f] = v, !.page = 1, !.size = DefaultSize])
           /\ \A f \in Filters : \A v : IsAddress([q EXCEPT ![f] = v, !.page = 1])
           /\ \A n \in Nat : IsAddress([q EXCEPT !.size = n, !.page = 1])
           /\ \A n \in Nat : IsAddress([q EXCEPT !.page = n])
           /\ \A w : \A n, m \in Nat :
                  IsAddress([q EXCEPT !.q = w, !.page = n, !.size = m])
           /\ \A v : IsAddress([q EXCEPT !.type = v])
           /\ \A v : IsAddress([q EXCEPT !.availability = v])
  <1>1. /\ q = [f \in Fields |-> q[f]] /\ q.page \in Nat /\ q.size \in Nat
        /\ DefaultSize \in Nat
    BY SizesType DEF IsQuery
  <1>2. /\ {"q", "page", "size", "type", "availability"} \subseteq Fields
        /\ \A f \in Filters : f \in Fields /\ f # "page" /\ f # "size"
    BY DEF Fields, Filters, Single, Multiple
  <1>. QED BY <1>1, <1>2 DEF IsAddress

LEMMA LastPageHasNoNext ==
    ASSUME NEW asked, NEW pages
    PROVE  Paginated(asked, pages).next <=> Paginated(asked, pages).page < pages
  <1>. DEFINE page == IF pages = 0 THEN 1 ELSE Smaller(asked, pages)
  <1>1. Paginated(asked, pages) =
            [page |-> page, previous |-> page > 1, next |-> page < pages]
    BY DEF Paginated
  <1>. HIDE DEF page
  <1>2. Paginated(asked, pages).page = page
    BY <1>1
  <1>3. Paginated(asked, pages).next = (page < pages)
    BY <1>1
  <1>. QED BY <1>2, <1>3

LEMMA PaginationType ==
    ASSUME NEW b \in Bundles, NEW q, IsQuery(q)
    PROVE  /\ Pagination(b, q).page \in Nat \ {0}
           /\ Pagination(b, q).page <= q.page
           /\ Pagination(b, q).previous <=> Pagination(b, q).page > 1
  <1>. DEFINE pages == PageCount(Len(Filtered(b, q)), q.size)
  <1>1. pages \in Nat /\ q.page \in Nat \ {0}
    <2>1. Len(Filtered(b, q)) \in Nat /\ q.size \in Nat \ {0} /\ q.page \in Nat \ {0}
      BY FilteredType, SizesType DEF IsQuery
    <2>. QED BY <2>1, PageCountIsEnough
  <1>2. Pagination(b, q) = Paginated(q.page, pages)
    BY DEF Pagination
  <1>. HIDE DEF pages
  <1>. DEFINE page == IF pages = 0 THEN 1 ELSE Smaller(q.page, pages)
  <1>3. /\ Pagination(b, q).page = page
        /\ Pagination(b, q).previous = (page > 1)
    BY <1>2 DEF Paginated
  <1>4. page \in Nat \ {0} /\ page <= q.page
    BY <1>1 DEF Smaller
  <1>. QED BY <1>3, <1>4

\* What a step of the reader does to the page: it loads one, reading starting
\* over or going on.
LEMMA ReaderSteps ==
    ASSUME Typed, ReaderActs
    PROVE  \/ \E a, p : IsAddress(a) /\ Arrive(a, p)
           \/ NextPage
           \/ ReturnFromRecord
  <1>. DEFINE Arrives == \E a, p : IsAddress(a) /\ Arrive(a, p)
  <1>0. IsQuery(query) /\ IsQuery(NoQuery)
    BY NoQueryType DEF Typed
  <1>bounds. 0 .. MaxPage \subseteq Nat /\ 0 .. SizeLimit + 1 \subseteq Nat
    <2>1. SizeLimit \in Nat /\ MaxPage \in Nat
      BY NumbersAssumption
    <2>. QED BY <2>1
  <1>1. ASSUME NEW q \in Terms \cup {""}, NEW page \in 0 .. MaxPage,
               NEW size \in 0 .. SizeLimit + 1, Visit(q, page, size)
        PROVE  Arrives
    <2>1. page \in Nat
      BY <1>bounds
    <2>2. size \in Nat
      BY <1>bounds
    <2>. QED BY <1>0, <1>1, <2>1, <2>2, LinkIsAddress DEF Visit
  <1>2. ASSUME NEW f \in Filters, NEW v, FollowFacet(f, v) PROVE Arrives
    <2>1. \A w : IsAddress([query EXCEPT ![f] = w, !.page = 1, !.size = DefaultSize])
      BY <1>0, LinkIsAddress
    <2>. QED BY <1>2, <2>1 DEF FollowFacet
  <1>3. ASSUME NEW f \in Filters, RemoveFilter(f) PROVE Arrives
    <2>1. IsAddress(SearchHref(f, NotSet(f)))
      BY <1>0, LinkIsAddress DEF SearchHref
    <2>. QED BY <1>3, <2>1 DEF RemoveFilter
  <1>4. ASSUME NEW quick \in QuickFilters, QuickFilter(quick[1], quick[2])
        PROVE  Arrives
    <2>1. quick[1] \in Filters
      BY DEF QuickFilters, Filters, Single
    <2>2. IsAddress(SearchHref(quick[1], quick[2]))
      BY <1>0, <2>1, LinkIsAddress DEF SearchHref
    <2>. QED BY <1>4, <2>2 DEF QuickFilter
  <1>5. ASSUME NEW size \in SizeLinks, SizeLink(size) PROVE Arrives
    <2>1. size \in Nat
      BY SizesType
    <2>. QED BY <1>0, <1>5, <2>1, LinkIsAddress DEF SizeLink
  <1>6. ASSUME PreviousPage PROVE Arrives
    <2>1. Pagination(shown, query).page - 1 \in Nat
      BY PaginationType DEF Typed
    <2>. QED BY <1>0, <1>6, <2>1, LinkIsAddress DEF PreviousPage
  <1>7. ASSUME NEW v, FollowCollection(v) PROVE Arrives
    BY <1>0, <1>7, LinkIsAddress DEF FollowCollection
  <1>8. ASSUME FollowReviewAction PROVE Arrives
    BY <1>0, <1>8, LinkIsAddress, QueryIsAddress DEF FollowReviewAction
  <1>9. Single \cup Multiple \subseteq Filters /\ "availability" \in Filters
    BY DEF Filters
  <1>. HIDE DEF Arrives
  <1>10. Arrives \/ NextPage \/ ReturnFromRecord
    BY <1>1, <1>2, <1>3, <1>4, <1>5, <1>6, <1>7, <1>8, <1>9 DEF ReaderActs
  <1>. QED BY <1>10 DEF Arrives

LEMMA NextPageLoads ==
    ASSUME Typed, NextPage
    PROVE  \E a : IsAddress(a) /\ Load(a, promise)
  <1>1. Pagination(shown, query).page + 1 \in Nat
    BY PaginationType DEF Typed
  <1>. QED BY <1>1, LinkIsAddress DEF NextPage, Typed

LEMMA InitTyped == CatalogueInit => Typed
  BY NoQueryType DEF CatalogueInit, Typed

LEMMA NextTyped == Typed /\ [CatalogueNext]_catalogueVars => Typed'
  <1>. SUFFICES ASSUME Typed, [CatalogueNext]_catalogueVars PROVE Typed'
    OBVIOUS
  <1>1. ASSUME NEW b \in Bundles, SaveBundle(b) PROVE Typed'
    BY <1>1 DEF SaveBundle, Typed
  <1>2. CASE ReaderActs
    <2>1. ASSUME NEW a, NEW p, IsAddress(a), Arrive(a, p) PROVE Typed'
      BY <2>1, LoadType DEF Arrive
    <2>2. CASE NextPage
      BY <2>2, NextPageLoads, LoadType
    <2>3. CASE ReturnFromRecord
      BY <2>3, LoadType, QueryIsAddress DEF ReturnFromRecord, Typed
    <2>. QED BY <1>2, <2>1, <2>2, <2>3, ReaderSteps
  <1>3. CASE UNCHANGED <<bundle, shown, query>>
    BY <1>3 DEF Typed
  <1>4. (\E kind \in DOMAIN Reads : StartScript(kind)) \/ ReadAgain => UNCHANGED bundle
    BY DEF StartScript, ReadAgain
  <1>. QED BY <1>1, <1>2, <1>3, <1>4 DEF CatalogueNext, catalogueVars

-----------------------------------------------------------------------------
(* Reading from page to page.  What has been read since the first page are *)
(* all records found, to the end of the page shown.                        *)

Read(b, q) ==
    PidsOf(SubSeq(Filtered(b, q), 1,
                  Smaller(Pagination(b, q).page * q.size, Len(Filtered(b, q)))))

WalkInv == walked # <<>> => walked = Read(shown, query)

LEMMA JoinPids ==
    ASSUME NEW T, NEW all \in Seq(T), NEW m \in 0 .. Len(all), NEW n \in m .. Len(all)
    PROVE  PidsOf(SubSeq(all, 1, m)) \o PidsOf(SubSeq(all, m + 1, n))
             = PidsOf(SubSeq(all, 1, n))
  <1>. DEFINE before == SubSeq(all, 1, m)
              after  == SubSeq(all, m + 1, n)
              both   == SubSeq(all, 1, n)
  <1>1. /\ Len(all) \in Nat /\ m \in Nat /\ n \in Nat /\ m <= n /\ n <= Len(all)
    OBVIOUS
  <1>2. before = [i \in 1 .. m |-> all[i]]
    BY <1>1
  <1>3. after = [i \in 1 .. n - m |-> all[i + m]]
    BY <1>1
  <1>4. both = [i \in 1 .. n |-> all[i]]
    BY <1>1
  <1>. HIDE DEF before, after, both
  <1>5. PidsOf(before) = [i \in 1 .. m |-> all[i].pid]
    BY <1>2 DEF PidsOf
  <1>6. PidsOf(after) = [i \in 1 .. n - m |-> all[i + m].pid]
    BY <1>3 DEF PidsOf
  <1>7. PidsOf(both) = [i \in 1 .. n |-> all[i].pid]
    BY <1>4 DEF PidsOf
  <1>8. PidsOf(before) \o PidsOf(after) = [i \in 1 .. n |-> all[i].pid]
    <2>. DEFINE P == {all[i].pid : i \in 1 .. n}
    <2>1. PidsOf(before) \in Seq(P) /\ Len(PidsOf(before)) = m
      <3>1. \A i \in 1 .. m : i \in 1 .. n
        BY <1>1
      <3>2. \A i \in 1 .. m : all[i].pid \in P
        BY <3>1
      <3>. HIDE DEF P
      <3>. QED BY <1>1, <1>5, <3>2
    <2>0. PidsOf(after) \in Seq(P) /\ Len(PidsOf(after)) = n - m
      <3>1. \A i \in 1 .. n - m : i + m \in 1 .. n
        BY <1>1
      <3>2. \A i \in 1 .. n - m : all[i + m].pid \in P
        BY <3>1
      <3>3. n - m \in Nat
        BY <1>1
      <3>. HIDE DEF P
      <3>. QED BY <3>3, <1>6, <3>2
    <2>. HIDE DEF P
    <2>2. \A i \in 1 .. n : i <= m => (PidsOf(before) \o PidsOf(after))[i] = all[i].pid
      BY <1>1, <1>5, <2>0, <2>1
    <2>3. \A i \in 1 .. n : i > m => (PidsOf(before) \o PidsOf(after))[i] = all[i].pid
      <3>. SUFFICES ASSUME NEW i \in 1 .. n, i > m
                    PROVE  (PidsOf(before) \o PidsOf(after))[i] = all[i].pid
        OBVIOUS
      <3>1. i - m \in 1 .. n - m /\ i - m + m = i
        BY <1>1
      <3>2. PidsOf(after)[i - m] = all[i].pid
        BY <1>6, <3>1
      <3>. QED BY <1>1, <2>0, <2>1, <3>1, <3>2
    <2>4. /\ PidsOf(before) \o PidsOf(after) \in Seq(P)
          /\ Len(PidsOf(before) \o PidsOf(after)) = n
      BY <1>1, <2>0, <2>1
    <2>. DEFINE joined == PidsOf(before) \o PidsOf(after)
    <2>5. joined \in Seq(P) /\ Len(joined) = n
      BY <2>4
    <2>6. /\ \A i \in 1 .. n : i <= m => joined[i] = all[i].pid
          /\ \A i \in 1 .. n : i > m => joined[i] = all[i].pid
      BY <2>2, <2>3
    <2>. HIDE DEF joined
    <2>7. \A i \in 1 .. n : joined[i] = all[i].pid
      <3>1. \A i \in 1 .. n : i <= m \/ i > m
        BY <1>1
      <3>. QED BY <2>6, <3>1
    <2>8. joined = [i \in 1 .. n |-> joined[i]]
      BY <1>1, <2>5
    <2>9. joined = [i \in 1 .. n |-> all[i].pid]
      BY <2>7, <2>8
    <2>. QED BY <2>9 DEF joined
  <1>. QED BY <1>7, <1>8 DEF before, after, both

\* A first page is read from the first record on.
LEMMA FirstPageIsRead ==
    ASSUME NEW b \in Bundles, NEW q, IsQuery(q), q.page = 1
    PROVE  PidsOf(Results(b, q)) = Read(b, q)
  <1>1. Pagination(b, q).page = 1
    BY PaginationType
  <1>2. q.size \in Nat
    BY SizesType DEF IsQuery
  <1>3. Offset(b, q) = 0 /\ 1 * q.size = q.size /\ 0 + q.size = q.size /\ 0 + 1 = 1
    BY <1>1, <1>2 DEF Offset
  <1>. QED BY <1>1, <1>3 DEF Results, Slice, Read

\* The next page goes on where the one before ends.
LEMMA NextPageGoesOn ==
    ASSUME NEW b \in Bundles, NEW q, IsQuery(q), Pagination(b, q).next,
           NEW p, p = FromMapping([q EXCEPT !.page = Pagination(b, q).page + 1])
    PROVE  Read(b, q) \o PidsOf(Results(b, p)) = Read(b, p)
  <1>. DEFINE all   == Filtered(b, q)
              page  == Pagination(b, q).page
              size  == q.size
              pages == PageCount(Len(all), size)
              a     == [q EXCEPT !.page = page + 1]
  <1>1. page \in Nat \ {0} /\ size \in Nat \ {0} /\ Len(all) \in Nat
    BY PaginationType, FilteredType, SizesType DEF IsQuery
  <1>2. page < pages /\ pages \in Nat
    <2>1. Pagination(b, q) = Paginated(q.page, pages)
      BY DEF Pagination
    <2>2. Paginated(q.page, pages).next <=> Paginated(q.page, pages).page < pages
      BY LastPageHasNoNext
    <2>3. pages \in Nat
      BY <1>1, PageCountIsEnough
    <2>. HIDE DEF pages
    <2>. QED BY <2>1, <2>2, <2>3
  <1>3. page * size < Len(all)
    BY <1>1, <1>2, PageCountIsEnough
  <1>4. p = a /\ IsQuery(a)
    <2>1. IsAddress(a)
      <3>1. page + 1 \in Nat
        BY <1>1
      <3>. HIDE DEF page
      <3>. QED BY <3>1, LinkIsAddress
    <2>2. a.page = page + 1 /\ a.size = size /\ a = [f \in Fields |-> a[f]]
      BY DEF IsQuery, Fields
    <2>3. IsQuery(a)
      BY <1>1, <2>2 DEF IsQuery
    <2>. QED BY <2>1, <2>3, MappingType
  <1>5. p.page = page + 1 /\ p.size = size
    BY <1>4 DEF IsQuery, Fields
  <1>6. Filtered(b, p) = all
    <2>1. \A f \in Filters \cup {"q"} : f \in Fields /\ f # "page"
      BY DEF Fields, Filters, Single, Multiple
    <2>2. \A f \in Filters \cup {"q"} : p[f] = q[f]
      BY <1>4, <2>1 DEF IsQuery
    <2>. QED BY <2>2, FoundBySame
  <1>7. Pagination(b, p).page = page + 1
    <2>1. Pagination(b, p) = Paginated(page + 1, pages)
      BY <1>5, <1>6 DEF Pagination
    <2>. HIDE DEF page, pages
    <2>. QED BY <1>1, <1>2, <2>1 DEF Paginated, Smaller
  <1>8. all \in Seq(AllOf(b, "documents"))
    BY FilteredType
  <1>. HIDE DEF all, page, size, pages, a
  <1>. DEFINE m == page * size
              n == Smaller(m + size, Len(all))
  <1>9. m \in 0 .. Len(all) /\ n \in m .. Len(all) /\ m + size = (page + 1) * size
    <2>1. m \in Nat /\ (page + 1) * size = page * size + size
      BY <1>1
    <2>. HIDE DEF m
    <2>2. n \in m .. Len(all)
      BY <1>1, <1>3, <2>1 DEF Smaller, m
    <2>. QED BY <1>1, <1>3, <2>1, <2>2 DEF m
  <1>10. Read(b, q) = PidsOf(SubSeq(all, 1, m))
    <2>1. Smaller(page * size, Len(all)) = m
      BY <1>3 DEF Smaller
    <2>. QED BY <2>1 DEF Read, all, page, size
  <1>11. Read(b, p) = PidsOf(SubSeq(all, 1, n))
    BY <1>5, <1>6, <1>7, <1>9 DEF Read
  <1>12. Results(b, p) = SubSeq(all, m + 1, n)
    <2>1. Offset(b, p) = m
      BY <1>1, <1>5, <1>7 DEF Offset
    <2>. QED BY <1>5, <1>6, <2>1 DEF Results, Slice
  <1>. HIDE DEF m, n
  <1>. QED BY <1>8, <1>9, <1>10, <1>11, <1>12, JoinPids

LEMMA ArriveKeepsWalk ==
    ASSUME Typed, NEW a, NEW p, IsAddress(a), Arrive(a, p)
    PROVE  WalkInv'
  <1>. DEFINE q == FromMapping(a)
  <1>1. /\ shown' = bundle /\ query' = q /\ bundle \in Bundles /\ IsQuery(q)
        /\ walked' = IF q.page = 1 THEN PidsOf(Results(bundle, q)) ELSE <<>>
    BY MappingType DEF Arrive, Load, Typed
  <1>. HIDE DEF q
  <1>. QED BY <1>1, FirstPageIsRead DEF WalkInv

LEMMA InitWalk == CatalogueInit => WalkInv
  <1>. SUFFICES ASSUME CatalogueInit PROVE WalkInv
    OBVIOUS
  <1>1. /\ shown \in Bundles /\ query = NoQuery
        /\ walked = PidsOf(Results(shown, NoQuery))
    BY DEF CatalogueInit
  <1>. QED BY <1>1, NoQueryType, FirstPageIsRead DEF WalkInv

LEMMA NextWalk == Typed /\ WalkInv /\ [CatalogueNext]_catalogueVars => WalkInv'
  <1>. SUFFICES ASSUME Typed, WalkInv, [CatalogueNext]_catalogueVars PROVE WalkInv'
    OBVIOUS
  <1>1. CASE UNCHANGED <<shown, query, walked>>
    BY <1>1 DEF WalkInv
  <1>2. ASSUME NEW a, NEW p, IsAddress(a), Arrive(a, p) PROVE WalkInv'
    BY <1>2, ArriveKeepsWalk
  <1>3. CASE NextPage
    <2>. DEFINE p == FromMapping([query EXCEPT !.page = Pagination(shown, query).page + 1])
    <2>1. /\ Pagination(shown, query).next /\ shown' = bundle /\ query' = p
          /\ walked' = IF walked = <<>> \/ shown # bundle THEN <<>>
                       ELSE walked \o PidsOf(Results(bundle, p))
      BY <1>3 DEF NextPage, Load
    <2>. HIDE DEF p
    <2>2. CASE walked = <<>> \/ shown # bundle
      BY <2>1, <2>2 DEF WalkInv
    <2>3. CASE walked # <<>> /\ shown = bundle
      <3>1. Read(shown, query) \o PidsOf(Results(shown, p)) = Read(shown, p)
        BY <2>1, NextPageGoesOn DEF Typed, p
      <3>2. walked' = Read(shown', query')
        BY <2>1, <2>3, <3>1 DEF WalkInv
      <3>. QED BY <3>2 DEF WalkInv
    <2>. QED BY <2>2, <2>3
  <1>4. CASE ReturnFromRecord
    <2>1. /\ shown' = bundle /\ query' = query
          /\ walked' = IF shown = bundle THEN walked ELSE <<>>
      BY <1>4, MappingType, QueryIsAddress DEF ReturnFromRecord, Load, Typed
    <2>. QED BY <2>1 DEF WalkInv
  <1>5. CASE ReaderActs
    BY <1>2, <1>3, <1>4, <1>5, ReaderSteps
  <1>. QED BY <1>1, <1>5 DEF CatalogueNext, catalogueVars, SaveBundle

LEMMA WalkInvariant == CatalogueSpec => [](Typed /\ WalkInv)
  BY InitTyped, NextTyped, InitWalk, NextWalk, PTL DEF CatalogueSpec

\* Whoever starts at a first page and takes the link to the next one until there
\* is none has read every record found, once and in order, for any bundle,
\* query and page size, though the file is read anew for each page.
THEOREM WalksAreComplete == CatalogueSpec => []WalkSeesEachOnce
  <1>1. Typed /\ WalkInv => WalkSeesEachOnce
    <2>. SUFFICES ASSUME Typed, WalkInv, walked # <<>>, ~Pagination(shown, query).next
                  PROVE  walked = PidsOf(Filtered(shown, query))
      BY DEF WalkSeesEachOnce
    <2>. DEFINE all   == Filtered(shown, query)
                page  == Pagination(shown, query).page
                size  == query.size
                pages == PageCount(Len(all), size)
    <2>1. /\ page \in Nat \ {0} /\ size \in Nat \ {0} /\ Len(all) \in Nat
          /\ all \in Seq(AllOf(shown, "documents"))
      BY PaginationType, FilteredType, SizesType DEF IsQuery, Typed
    <2>2. pages \in Nat /\ pages * size >= Len(all)
      BY <2>1, PageCountIsEnough
    <2>3. page >= pages
      <3>1. Pagination(shown, query) = Paginated(query.page, pages)
        BY DEF Pagination
      <3>2. ~(Paginated(query.page, pages).page < pages)
        BY <3>1, LastPageHasNoNext
      <3>3. page = Paginated(query.page, pages).page
        BY <3>1
      <3>. HIDE DEF page, pages
      <3>. QED BY <2>1, <2>2, <3>2, <3>3
    <2>4. walked = PidsOf(SubSeq(all, 1, Smaller(page * size, Len(all))))
      BY DEF WalkInv, Read
    <2>. HIDE DEF all, page, size, pages
    <2>5. page * size >= Len(all)
      <3>1. page * size >= pages * size
        BY <2>1, <2>2, <2>3
      <3>2. page * size \in Nat /\ pages * size \in Nat
        BY <2>1, <2>2
      <3>. QED BY <2>1, <2>2, <3>1, <3>2
    <2>6. Smaller(page * size, Len(all)) = Len(all)
      BY <2>1, <2>5 DEF Smaller
    <2>7. SubSeq(all, 1, Len(all)) = all
      BY <2>1
    <2>. QED BY <2>4, <2>6, <2>7 DEF all
  <1>. QED BY <1>1, WalkInvariant, PTL

-----------------------------------------------------------------------------
(* The scripts.                                                            *)

ScriptType == [kind: DOMAIN Reads, read: Seq(Bundles) \ {<<>>}]

ScriptTyped == script.kind = "none" \/ script \in ScriptType

LEMMA InitScript == CatalogueInit => ScriptTyped
  BY DEF CatalogueInit, Idle, ScriptTyped

LEMMA NextScript == Typed /\ ScriptTyped /\ [CatalogueNext]_catalogueVars => ScriptTyped'
  <1>. SUFFICES ASSUME Typed, ScriptTyped, [CatalogueNext]_catalogueVars PROVE ScriptTyped'
    OBVIOUS
  <1>1. ASSUME NEW kind \in DOMAIN Reads, StartScript(kind) PROVE ScriptTyped'
    <2>1. bundle \in Bundles
      BY DEF Typed
    <2>2. <<bundle>> \in Seq(Bundles) \ {<<>>}
      BY <2>1
    <2>. QED BY <1>1, <2>2 DEF StartScript, ScriptTyped, ScriptType
  <1>2. CASE ReadAgain
    <2>1. bundle \in Bundles /\ script \in ScriptType
      BY <1>2 DEF ReadAgain, Typed, ScriptTyped
    <2>2. Append(script.read, bundle) \in Seq(Bundles) \ {<<>>}
      <3>1. script.read \in Seq(Bundles)
        BY <2>1 DEF ScriptType
      <3>. QED BY <2>1, <3>1
    <2>3. script' = [script EXCEPT !.read = Append(script.read, bundle)]
      BY <1>2 DEF ReadAgain
    <2>. QED BY <2>1, <2>2, <2>3 DEF ScriptTyped, ScriptType
  <1>3. CASE UNCHANGED script
    BY <1>3 DEF ScriptTyped
  <1>4. ReaderActs => UNCHANGED script
    <2>1. ASSUME NEW a, NEW p, Arrive(a, p) PROVE UNCHANGED script
      BY <2>1 DEF Arrive, Load
    <2>. QED BY <2>1, ReaderSteps DEF NextPage, ReturnFromRecord, Load
  <1>. QED BY <1>1, <1>2, <1>3, <1>4 DEF CatalogueNext, catalogueVars, SaveBundle

LEMMA ScriptInvariant == CatalogueSpec => [](Typed /\ ScriptTyped)
  BY InitTyped, NextTyped, InitScript, NextScript, PTL DEF CatalogueSpec

\* A script that has found its file valid and has finished, nobody having saved
\* the file meanwhile, has read one valid version as often as it does.
LEMMA OneValidVersion ==
    ASSUME ScriptTyped, Finished(script), SameFile(script),
           script.read[1] \in ValidBundles
    PROVE  /\ Len(script.read) = Reads[script.kind]
           /\ script.read[1] \in Bundles /\ Valid(script.read[1])
           /\ \A i \in 1 .. Reads[script.kind] : script.read[i] = script.read[1]
  <1>1. script \in ScriptType /\ Len(script.read) = Reads[script.kind]
    BY DEF Finished, ScriptTyped
  <1>2. script.read \in Seq(Bundles)
    BY <1>1 DEF ScriptType
  <1>3. DOMAIN script.read = 1 .. Reads[script.kind]
    BY <1>1, <1>2
  <1>4. script.read[1] \in Bundles /\ Valid(script.read[1])
    BY DEF ValidBundles
  <1>. QED BY <1>1, <1>3, <1>4 DEF SameFile

LEMMA Places ==
    /\ Place("locations") = 1 /\ Place("internal_locations") = 2
    /\ Place("documents") = 3 /\ Place("eitems") = 4 /\ Place("items") = 5
  <1>1. /\ DOMAIN ImportOrder = 1 .. 5
        /\ ImportOrder[1] = "locations" /\ ImportOrder[2] = "internal_locations"
        /\ ImportOrder[3] = "documents" /\ ImportOrder[4] = "eitems"
        /\ ImportOrder[5] = "items"
    BY DEF ImportOrder
  <1>2. \A i \in DOMAIN ImportOrder : i = 1 \/ i = 2 \/ i = 3 \/ i = 4 \/ i = 5
    BY <1>1
  <1>3. Place("locations") = 1
    BY <1>1, <1>2 DEF Place
  <1>4. Place("internal_locations") = 2
    BY <1>1, <1>2 DEF Place
  <1>5. Place("documents") = 3
    BY <1>1, <1>2 DEF Place
  <1>6. Place("eitems") = 4
    BY <1>1, <1>2 DEF Place
  <1>7. Place("items") = 5
    BY <1>1, <1>2 DEF Place
  <1>. QED BY <1>3, <1>4, <1>5, <1>6, <1>7

\* The order of import is one in which a reference leads back.
LEMMA ReferencesLeadBack ==
    ASSUME NEW s \in Sections, NEW t \in RefersTo(s)
    PROVE  t \in Sections /\ Place(t) < Place(s)
  <1>1. CASE s = "internal_locations"
    <2>1. t = "locations"
      BY <1>1 DEF RefersTo
    <2>. QED BY <1>1, <2>1, Places DEF Sections
  <1>2. CASE s = "eitems"
    <2>1. t = "documents"
      BY <1>2 DEF RefersTo
    <2>. QED BY <1>2, <2>1, Places DEF Sections
  <1>3. CASE s = "items"
    <2>1. t = "documents" \/ t = "internal_locations"
      BY <1>3 DEF RefersTo
    <2>. QED BY <1>3, <2>1, Places DEF Sections
  <1>4. CASE s = "locations" \/ s = "documents"
    <2>1. RefersTo(s) = {}
      BY <1>4 DEF RefersTo
    <2>. QED BY <2>1
  <1>. QED BY <1>1, <1>2, <1>3, <1>4 DEF Sections

LEMMA EmptyObject ==
    ASSUME NEW b \in Bundles, SectionsIn(b) = {}, NEW s \in Sections
    PROVE  RecordsOf(b, s) = <<>> /\ AllOf(b, s) = {}
  <1>1. RecordsOf(b, s) = <<>>
    BY DEF RecordsOf, RecordLists
  <1>. QED BY <1>1 DEF AllOf

\* A finished plan of one version of the file plans just what was validated,
\* and each record after those it refers to, whatever the file holds.
THEOREM PlansAreReady == CatalogueSpec => []PlanIsReady
  <1>1. ScriptTyped => PlanIsReady
    <2>. SUFFICES ASSUME ScriptTyped, script.kind = "import", Finished(script),
                         SameFile(script), script.read[1] \in ValidBundles,
                         NEW b, b = script.read[2]
                  PROVE  /\ \A i \in DOMAIN Plan(script) :
                              Plan(script)[i].count =
                                Counts(script.read[1])[Plan(script)[i].section]
                         /\ \A s \in Sections : \A r \in AllOf(b, s) :
                              \A t \in RefersTo(s) :
                                r.refs[t].text =>
                                  r.refs[t].pid \in PlannedBefore(b, s) \cap PidsIn(b, t)
      BY DEF PlanIsReady
    <2>1. b = script.read[1] /\ b \in Bundles /\ Valid(b)
      <3>1. Reads[script.kind] = 2
        BY DEF Reads
      <3>2. 2 \in 1 .. Reads[script.kind]
        BY <3>1
      <3>. QED BY <3>2, OneValidVersion
    <2>2. ASSUME NEW i \in DOMAIN Plan(script)
          PROVE  Plan(script)[i].count
                   = Counts(script.read[1])[Plan(script)[i].section]
      <3>1. Plan(script) = [j \in DOMAIN ImportOrder |->
                              [section |-> ImportOrder[j],
                               count |-> Len(RecordsOf(b, ImportOrder[j]))]]
        BY DEF Plan
      <3>2. i \in DOMAIN ImportOrder
        BY <3>1
      <3>3. ImportOrder[i] \in Sections
        BY <3>2 DEF ImportOrder, Sections
      <3>. QED BY <2>1, <3>1, <3>2, <3>3 DEF Counts
    <2>3. ASSUME NEW s \in Sections, NEW r \in AllOf(b, s), NEW t \in RefersTo(s),
                 r.refs[t].text
          PROVE  r.refs[t].pid \in PlannedBefore(b, s) \cap PidsIn(b, t)
      <3>1. SectionsIn(b) # {}
        BY <2>1, <2>3, EmptyObject
      <3>2. Resolved(b, s, r)
        BY <2>1, <3>1 DEF Valid, SectionValid
      <3>3. r.refs[t].pid \in PidsIn(b, t)
        BY <2>3, <3>2 DEF Resolved
      <3>4. t \in {u \in Sections : Place(u) < Place(s)}
        BY ReferencesLeadBack
      <3>5. PidsIn(b, t) \subseteq PlannedBefore(b, s)
        BY <3>4 DEF PlannedBefore
      <3>. QED BY <3>3, <3>5
    <2>. QED BY <2>2, <2>3
  <1>. QED BY <1>1, ScriptInvariant, PTL

\* digital_links counts at least one e-item where the catalogue knows of one.
LEMMA LinksOfEItems ==
    ASSUME NEW b \in Bundles, NEW d, Written(b)
    PROVE  DigitalLinks(b, d) > 0 <=> HasEItem(b, d)
  <1>. DEFINE es    == RecordsOf(b, "eitems")
              links == {i \in DOMAIN es : es[i].refs["documents"].pid = d.pid}
  <1>1. es \in Seq(AllOf(b, "eitems"))
    BY FilesAssumption DEF Sections
  <1>2. IsFiniteSet(DOMAIN es)
    <2>1. DOMAIN es = 1 .. Len(es) /\ Len(es) \in Nat
      BY <1>1
    <2>. QED BY <2>1, FS_Interval
  <1>3. IsFiniteSet(links)
    BY <1>2, FS_Subset
  <1>4. Cardinality(links) \in Nat /\ (Cardinality(links) = 0 <=> links = {})
    BY <1>3, FS_CardinalityType, FS_EmptySet
  <1>5. DigitalLinks(b, d) = Cardinality(links)
    BY DEF DigitalLinks
  <1>6. HasEItem(b, d) <=>
            \E e \in AllOf(b, "eitems") : e.refs["documents"].pid = d.pid
    BY DEF HasEItem, EItemDocumentPids, Written
  <1>7. links # {} <=> \E e \in AllOf(b, "eitems") : e.refs["documents"].pid = d.pid
    BY DEF AllOf
  <1>. HIDE DEF links
  <1>. QED BY <1>4, <1>5, <1>6, <1>7

\* A bundle found valid and reviewed, nobody having saved it meanwhile, is one
\* the catalogue can serve, and the review and the filter of the catalogue agree
\* on the access to each document.
THEOREM ReviewsAgree == CatalogueSpec => []ReviewAgreesWithCatalogue
  <1>1. ScriptTyped => ReviewAgreesWithCatalogue
    <2>. SUFFICES ASSUME ScriptTyped, script.kind = "review", Finished(script),
                         SameFile(script), script.read[1] \in ValidBundles,
                         NEW b, b = script.read[3]
                  PROVE  /\ CanServe(b) \/ SectionsIn(b) = {}
                         /\ Written(b) =>
                              \A i \in DOMAIN Rows(b) :
                                Rows(b)[i].links > 0 <=>
                                  HasEItem(b, RecordsOf(b, "documents")[i])
      BY DEF ReviewAgreesWithCatalogue
    <2>1. b \in Bundles /\ Valid(b)
      <3>1. Reads[script.kind] = 3
        BY DEF Reads
      <3>2. 3 \in 1 .. Reads[script.kind]
        BY <3>1
      <3>. QED BY <3>2, OneValidVersion
    <2>2. ASSUME SectionsIn(b) # {} PROVE CanServe(b)
      <3>1. SectionsIn(b) = Sections /\ \A s \in Sections : SectionValid(b, s)
        BY <2>1, <2>2 DEF Valid
      <3>2. "documents" \in Sections /\ "eitems" \in Sections
            /\ "documents" \in RefersTo("eitems")
        BY DEF Sections, RefersTo
      <3>3. \A d \in AllOf(b, "documents") : d.pid # NoPid
        BY <3>1, <3>2 DEF SectionValid
      <3>4. \A e \in AllOf(b, "eitems") : e.refs["documents"].pid # NoPid
        BY <3>1, <3>2 DEF SectionValid
      <3>5. SectionsIn(b) \subseteq Sections /\ "documents" \in SectionsIn(b)
        BY <3>1, <3>2
      <3>. QED BY <3>3, <3>4, <3>5 DEF CanServe
    <2>3. ASSUME Written(b), NEW i \in DOMAIN Rows(b)
          PROVE  Rows(b)[i].links > 0 <=> HasEItem(b, RecordsOf(b, "documents")[i])
      <3>1. Rows(b)[i].links = DigitalLinks(b, RecordsOf(b, "documents")[i])
        BY DEF Rows
      <3>. QED BY <2>1, <2>3, <3>1, LinksOfEItems
    <2>. QED BY <2>2, <2>3
  <1>. QED BY <1>1, ScriptInvariant, PTL

-----------------------------------------------------------------------------
(* Access, as the pages tell it.                                           *)

LEMMA EItemsType ==
    ASSUME NEW b \in Bundles, NEW e \in AllOf(b, "eitems")
    PROVE  /\ e.refs["documents"] = [pid |-> e.refs["documents"].pid,
                                     text |-> e.refs["documents"].text]
           /\ e.refs["documents"].text \in BOOLEAN
  <1>1. "eitems" \in Sections /\ "documents" \in RefersTo("eitems")
    BY DEF Sections, RefersTo
  <1>. QED BY <1>1, FilesAssumption

\* Where e-items refer to documents by text, the filter knows of the e-items the
\* results count on.
LEMMA WrittenAccess ==
    ASSUME NEW b \in Bundles, Written(b), NEW d
    PROVE  /\ HasEItem(b, d) <=>
                  \E e \in AllOf(b, "eitems") : e.refs["documents"].pid = d.pid
           /\ HasOnlineAccess(b, d) => HasEItem(b, d)
           /\ HasOnlineAccess(b, d) <=> RecordPageHasAccess(b, d)
           /\ (\A e \in AllOf(b, "eitems") : e.url) =>
                  (HasEItem(b, d) <=> HasOnlineAccess(b, d))
  <1>1. HasEItem(b, d) <=>
            \E e \in AllOf(b, "eitems") : e.refs["documents"].pid = d.pid
    BY DEF HasEItem, EItemDocumentPids, Written
  <1>2. HasOnlineAccess(b, d) <=>
            \E e \in AllOf(b, "eitems") : e.refs["documents"].pid = d.pid /\ e.url
    BY DEF HasOnlineAccess
  <1>3. ASSUME NEW e \in AllOf(b, "eitems")
        PROVE  e.refs["documents"] = [pid |-> d.pid, text |-> TRUE]
                 <=> e.refs["documents"].pid = d.pid
    <2>1. e.refs["documents"].text
      BY DEF Written
    <2>2. e.refs["documents"].text = TRUE
      BY <2>1, EItemsType
    <2>. DEFINE ref == e.refs["documents"]
    <2>3. ref = [pid |-> ref.pid, text |-> TRUE]
      BY <2>2, EItemsType
    <2>. HIDE DEF ref
    <2>4. ref = [pid |-> d.pid, text |-> TRUE] <=> ref.pid = d.pid
      BY <2>3
    <2>. QED BY <2>4 DEF ref
  <1>4. HasOnlineAccess(b, d) <=> RecordPageHasAccess(b, d)
    BY <1>2, <1>3 DEF RecordPageHasAccess
  <1>. QED BY <1>1, <1>2, <1>4

\* A filter in force is a condition that what is found meets.
LEMMA SelectedMatches ==
    ASSUME NEW b, NEW q, NEW d, NEW f \in Filters, IsSet(f, q[f]), Selected(b, q, d)
    PROVE  Matches(b, d, f, q[f])
  BY DEF Selected

LEMMA AvailabilityMatches ==
    ASSUME NEW b, NEW d
    PROVE  /\ Matches(b, d, "availability", "online") <=> HasEItem(b, d)
           /\ Matches(b, d, "availability", "review") <=> ~HasEItem(b, d)
  BY DEF Matches, Single, Multiple

\* On every page, what a result says of its access is what it was filtered by
\* and what its own page says, but for e-items without an address.
THEOREM AccessIsOne == CatalogueSpec => []PagesAgreeOnAccess
  <1>1. Typed => PagesAgreeOnAccess
    <2>. SUFFICES ASSUME Typed, Written(shown),
                         NEW i \in DOMAIN Results(shown, query),
                         NEW d, d = Results(shown, query)[i]
                  PROVE  /\ HasOnlineAccess(shown, d) <=> RecordPageHasAccess(shown, d)
                         /\ query.availability = "review" => ~HasOnlineAccess(shown, d)
                         /\ query.availability = "online" =>
                              \/ HasOnlineAccess(shown, d)
                              \/ \E e \in AllOf(shown, "eitems") :
                                    e.refs["documents"].pid = d.pid /\ ~e.url
      BY DEF PagesAgreeOnAccess
    <2>. DEFINE all    == Filtered(shown, query)
                offset == Offset(shown, query)
                end    == Smaller(offset + query.size, Len(all))
    <2>1. shown \in Bundles /\ IsQuery(query)
      BY DEF Typed
    <2>2. /\ all \in Seq(AllOf(shown, "documents")) /\ Len(all) \in Nat
          /\ DOMAIN all = 1 .. Len(all)
      BY <2>1, FilteredType
    <2>3. offset \in Nat /\ query.size \in Nat
      <3>1. Pagination(shown, query).page \in Nat \ {0} /\ query.size \in Nat
        BY <2>1, PaginationType, SizesType DEF IsQuery
      <3>. QED BY <3>1 DEF Offset
    <2>4. Results(shown, query) = SubSeq(all, offset + 1, end)
      BY DEF Results, Slice
    <2>. HIDE DEF all, offset
    <2>5. end \in Nat /\ end <= Len(all)
      BY <2>2, <2>3 DEF Smaller
    <2>. HIDE DEF end
    <2>6. offset + i \in DOMAIN all /\ d = all[offset + i]
      <3>1. SubSeq(all, offset + 1, end)
              = [j \in 1 .. end - offset |-> all[offset + j]]
        BY <2>2, <2>3, <2>5
      <3>2. i \in 1 .. end - offset
        BY <2>4, <3>1
      <3>3. offset + i \in 1 .. Len(all)
        BY <2>2, <2>3, <2>5, <3>2
      <3>. QED BY <2>2, <2>4, <3>1, <3>2, <3>3
    <2>7. Selected(shown, query, d)
      BY <2>1, <2>6, FilteredType DEF all
    <2>8. "availability" \in Filters
      BY DEF Filters
    <2>9. ASSUME query.availability = "review" PROVE ~HasEItem(shown, d)
      <3>1. IsSet("availability", query["availability"])
        BY <2>9 DEF IsSet
      <3>. QED BY <2>7, <2>8, <2>9, <3>1, SelectedMatches, AvailabilityMatches
    <2>10. ASSUME query.availability = "online" PROVE HasEItem(shown, d)
      <3>1. IsSet("availability", query["availability"])
        BY <2>10 DEF IsSet
      <3>. QED BY <2>7, <2>8, <2>10, <3>1, SelectedMatches, AvailabilityMatches
    <2>11. ASSUME HasEItem(shown, d), ~HasOnlineAccess(shown, d)
           PROVE  \E e \in AllOf(shown, "eitems") :
                      e.refs["documents"].pid = d.pid /\ ~e.url
      BY <2>1, <2>11, WrittenAccess DEF HasOnlineAccess
    <2>. QED BY <2>1, <2>9, <2>10, <2>11, WrittenAccess
  <1>2. CatalogueSpec => []Typed
    BY InitTyped, NextTyped, PTL DEF CatalogueSpec
  <1>. QED BY <1>1, <1>2, PTL

-----------------------------------------------------------------------------
(* Counting.                                                               *)

LEMMA CountUpTo ==
    ASSUME NEW n \in Nat
    PROVE  IsFiniteSet(1 .. n) /\ Cardinality(1 .. n) = n
  <1>1. 1 \in Int /\ n \in Int
    OBVIOUS
  <1>2. /\ IsFiniteSet(1 .. n)
        /\ Cardinality(1 .. n) = IF 1 > n THEN 0 ELSE n - 1 + 1
    BY <1>1, FS_Interval
  <1>. QED BY <1>2

\* the numbers up to n have finite sets of others: these are the pairs, and S
\* are some of those that have any
ArePairs(n, J, P, S) ==
    /\ \A i \in 1 .. n : IsFiniteSet(J[i])
    /\ \A p : p \in P <=> \E i \in 1 .. n : \E j \in J[i] : p = <<i, j>>
    /\ S \in SUBSET (1 .. n) /\ \A i \in S : J[i] # {}

\* ... all of them, and none has more than one
AllHaveOne(n, J, S) ==
    /\ \A i \in 1 .. n : J[i] # {} => i \in S
    /\ \A i \in 1 .. n : \A j, k \in J[i] : j = k

LEMMA PairsCount ==
    ASSUME NEW n \in Nat, NEW J, NEW P, NEW S, ArePairs(n, J, P, S)
    PROVE  /\ Cardinality(S) \in Nat /\ Cardinality(P) \in Nat
           /\ Cardinality(S) <= Cardinality(P)
           /\ AllHaveOne(n, J, S) => Cardinality(S) = Cardinality(P)
  <1>0. /\ \A i \in 1 .. n : IsFiniteSet(J[i])
        /\ \A p : p \in P <=> \E i \in 1 .. n : \E j \in J[i] : p = <<i, j>>
        /\ S \in SUBSET (1 .. n) /\ \A i \in S : J[i] # {}
    BY DEF ArePairs
  <1>. DEFINE Of(i)  == {<<i, j>> : j \in J[i]}
              Sets   == {Of(i) : i \in 1 .. n}
  <1>1. IsFiniteSet(1 .. n) /\ IsFiniteSet(S)
    BY <1>0, CountUpTo, FS_Subset
  <1>2. ASSUME NEW i \in 1 .. n PROVE IsFiniteSet(Of(i))
    <2>. DEFINE pair == [j \in J[i] |-> <<i, j>>]
    <2>1. pair \in Surjection(J[i], Of(i))
      BY DEF Surjection
    <2>. QED BY <1>0, <2>1, FS_Surjection
  <1>3. IsFiniteSet(Sets)
    <2>. DEFINE of == [i \in 1 .. n |-> Of(i)]
    <2>1. of \in Surjection(1 .. n, Sets)
      BY DEF Surjection
    <2>. QED BY <1>1, <2>1, FS_Surjection
  <1>4. IsFiniteSet(P)
    <2>1. P = UNION Sets
      BY <1>0
    <2>2. \A s \in Sets : IsFiniteSet(s)
      BY <1>2
    <2>. HIDE DEF Sets
    <2>. QED BY <1>3, <2>1, <2>2, FS_UNION
  <1>. DEFINE first == [i \in S |-> <<i, CHOOSE j \in J[i] : TRUE>>]
  <1>6. first \in Injection(S, P)
    <2>1. \A i \in S : i \in 1 .. n /\ (CHOOSE j \in J[i] : TRUE) \in J[i]
      BY <1>0
    <2>2. \A i \in S : first[i] \in P
      BY <1>0, <2>1
    <2>3. first \in [S -> P]
      BY <2>2
    <2>4. \A i, k \in S : first[i] = first[k] => i = k
      OBVIOUS
    <2>. HIDE DEF first
    <2>. QED BY <2>3, <2>4 DEF Injection, IsInjective
  <1>7. Cardinality(S) <= Cardinality(P)
        /\ (Cardinality(S) = Cardinality(P) <=> first \in Surjection(S, P))
    <2>. HIDE DEF first
    <2>. QED BY <1>4, <1>6, FS_Injection
  <1>8. ASSUME AllHaveOne(n, J, S) PROVE first \in Surjection(S, P)
    <2>0. /\ \A i \in 1 .. n : J[i] # {} => i \in S
          /\ \A i \in 1 .. n : \A j, k \in J[i] : j = k
      BY <1>8 DEF AllHaveOne
    <2>1. ASSUME NEW p \in P PROVE \E i \in S : first[i] = p
      <3>1. PICK i \in 1 .. n : \E j \in J[i] : p = <<i, j>>
        BY <1>0
      <3>2. PICK j \in J[i] : p = <<i, j>>
        BY <3>1
      <3>3. i \in S /\ (CHOOSE k \in J[i] : TRUE) \in J[i]
        BY <1>0, <2>0
      <3>4. (CHOOSE k \in J[i] : TRUE) = j
        BY <2>0, <3>3
      <3>. QED BY <3>2, <3>3, <3>4
    <2>2. first \in [S -> P]
      BY <1>6 DEF Injection
    <2>. HIDE DEF first
    <2>. QED BY <2>1, <2>2 DEF Surjection
  <1>. QED BY <1>1, <1>4, <1>7, <1>8, FS_CardinalityType

\* A set of positions is finite, and one within another is no larger.
LEMMA PositionsCount ==
    ASSUME NEW b \in Bundles, NEW T \in SUBSET (DOMAIN Documents(b)),
           NEW S \in SUBSET T
    PROVE  /\ IsFiniteSet(T) /\ Cardinality(T) \in Nat
           /\ Cardinality(S) \in Nat /\ Cardinality(S) <= Cardinality(T)
  <1>1. IsFiniteSet(DOMAIN Documents(b))
    BY DocumentsType, FS_Interval
  <1>2. IsFiniteSet(T)
    BY <1>1, FS_Subset
  <1>. QED BY <1>2, FS_Subset, FS_CardinalityType

-----------------------------------------------------------------------------
(* The numbers links tell.                                                 *)

\* without other filters, or words, a record is found by the one
OnlyFilter(q, f) ==
    q.q = "" /\ \A g \in Filters \ {f} : ~IsSet(g, q[g])

LEMMA OnlyFilterSelects ==
    ASSUME NEW b, NEW q, NEW f \in Filters, IsSet(f, q[f])
    PROVE  /\ Passing(b, q) \subseteq
                {i \in DOMAIN Documents(b) : Matches(b, Documents(b)[i], f, q[f])}
           /\ OnlyFilter(q, f) =>
                Passing(b, q) =
                  {i \in DOMAIN Documents(b) : Matches(b, Documents(b)[i], f, q[f])}
  <1>1. \A d : Selected(b, q, d) => Matches(b, d, f, q[f])
    BY DEF Selected
  <1>2. OnlyFilter(q, f) => \A d : Matches(b, d, f, q[f]) => Selected(b, q, d)
    BY DEF OnlyFilter, Selected
  <1>. QED BY <1>1, <1>2 DEF Passing

\* Tidy, of any bundle
TidyIn(b) ==
    \A d \in AllOf(b, "documents") :
        /\ \A f \in Single : ~d[f].padded
        /\ \A f \in Multiple :
               Cardinality({d[f][i].value : i \in DOMAIN d[f]}) = Len(d[f])

\* LinksTellTheCount, of any page and promise
Told(b, q, p) ==
    LET n == Len(Filtered(b, q))
    IN CASE p.kind = "none" -> TRUE
         [] p.kind \in {"collection", "all"} -> n = p.count
         [] p.kind = "facet" ->
                n <= p.count /\ (p.alone /\ TidyIn(b) => n = p.count)
         [] p.kind = "review" ->
                Written(b) =>
                    /\ n <= p.count
                    /\ (\A e \in AllOf(b, "eitems") : e.url) => n = p.count

LEMMA ToldShown ==
    /\ LinksTellTheCount <=> Told(shown, query, promise)
    /\ LinksTellTheCount' <=> Told(shown', query', promise')
  <1>1. LinksTellTheCount <=> Told(shown, query, promise)
    BY DEF LinksTellTheCount, Told, Tidy, TidyIn
  <1>2. LinksTellTheCount' <=> Told(shown', query', promise')
    BY DEF LinksTellTheCount, Told, Tidy, TidyIn
  <1>. QED BY <1>1, <1>2

\* The types of a document's values.
LEMMA ValuesType ==
    ASSUME NEW b \in Bundles, NEW i \in DOMAIN Documents(b)
    PROVE  /\ Documents(b)[i] \in AllOf(b, "documents")
           /\ \A f \in Single : Documents(b)[i][f] \in Field
           /\ \A f \in Multiple :
                  /\ Documents(b)[i][f] \in Seq(Field)
                  /\ IsFiniteSet(DOMAIN Documents(b)[i][f])
  <1>1. Documents(b)[i] \in AllOf(b, "documents")
    BY DocumentsType
  <1>2. ASSUME NEW f \in Multiple
        PROVE  /\ Documents(b)[i][f] \in Seq(Field)
               /\ IsFiniteSet(DOMAIN Documents(b)[i][f])
    <2>1. Documents(b)[i][f] \in Seq(Field)
      BY <1>1, FieldsAssumption
    <2>2. /\ DOMAIN Documents(b)[i][f] = 1 .. Len(Documents(b)[i][f])
          /\ Len(Documents(b)[i][f]) \in Nat
      BY <2>1
    <2>. QED BY <2>1, <2>2, FS_Interval
  <1>. QED BY <1>1, <1>2, FieldsAssumption

\* A list of values without two alike has each at one position only.
LEMMA TidyLists ==
    ASSUME NEW s \in Seq(Field),
           Cardinality({s[i].value : i \in DOMAIN s}) = Len(s)
    PROVE  \A i, j \in DOMAIN s : s[i].value = s[j].value => i = j
  <1>. DEFINE V == {s[i].value : i \in DOMAIN s}
              value == [i \in DOMAIN s |-> s[i].value]
  <1>1. DOMAIN s = 1 .. Len(s) /\ Len(s) \in Nat
    OBVIOUS
  <1>2. IsFiniteSet(DOMAIN s) /\ Cardinality(DOMAIN s) = Len(s)
    BY <1>1, CountUpTo
  <1>3. value \in Surjection(DOMAIN s, V)
    BY DEF Surjection
  <1>4. value \in Injection(DOMAIN s, V)
    <2>1. Cardinality(V) = Cardinality(DOMAIN s)
      BY <1>2
    <2>. HIDE DEF value, V
    <2>. QED BY <1>2, <1>3, <2>1, FS_Surjection
  <1>5. \A i, j \in DOMAIN s : value[i] = value[j] => i = j
    <2>. HIDE DEF value, V
    <2>. QED BY <1>4 DEF Injection, IsInjective
  <1>. QED BY <1>5

\* The facet of a field of one value counts at least those the filter finds.
LEMMA SingleFacet ==
    ASSUME NEW b \in Bundles, NEW f \in Single, NEW v \in Values, NEW q, q[f] = v,
           IsSet(f, v)
    PROVE  /\ Len(Filtered(b, q)) <= Count(b, f, v)
           /\ OnlyFilter(q, f) /\ TidyIn(b) => Len(Filtered(b, q)) = Count(b, f, v)
  <1>. DEFINE T == {i \in DOMAIN Documents(b) : Documents(b)[i][f].value = v}
              M == {i \in DOMAIN Documents(b) : Matches(b, Documents(b)[i], f, v)}
  <1>1. Count(b, f, v) = Cardinality(T)
    BY DEF Count, HowMany
  <1>2. f \in Filters
    BY DEF Filters
  <1>3. \A d : Matches(b, d, f, v) <=> d[f] = [value |-> v, padded |-> FALSE]
    BY DEF Matches, As
  <1>4. M \subseteq T
    BY <1>3
  <1>5. ASSUME TidyIn(b) PROVE M = T
    <2>1. ASSUME NEW i \in T PROVE Matches(b, Documents(b)[i], f, v)
      <3>1. Documents(b)[i][f] \in Field /\ ~Documents(b)[i][f].padded
        BY <1>5, ValuesType DEF TidyIn
      <3>2. Documents(b)[i][f].value = v
        OBVIOUS
      <3>3. Documents(b)[i][f] = [value |-> v, padded |-> FALSE]
        BY <3>1, <3>2 DEF Field
      <3>. QED BY <1>3, <3>3
    <2>. QED BY <1>4, <2>1
  <1>6. Passing(b, q) \subseteq M /\ (OnlyFilter(q, f) => Passing(b, q) = M)
    BY <1>2, OnlyFilterSelects
  <1>. HIDE DEF M
  <1>7. T \subseteq DOMAIN Documents(b)
    OBVIOUS
  <1>. HIDE DEF T
  <1>8. Cardinality(Passing(b, q)) <= Cardinality(T)
    BY <1>4, <1>6, <1>7, PositionsCount
  <1>9. Len(Filtered(b, q)) = Cardinality(Passing(b, q))
    BY FilteredType
  <1>. QED BY <1>1, <1>5, <1>6, <1>8, <1>9

\* The facet of a field of lists counts each time a value is listed.
LEMMA MultipleFacet ==
    ASSUME NEW b \in Bundles, NEW f \in Multiple, NEW v \in Values, v # 0, NEW q,
           q[f] = v, IsSet(f, v)
    PROVE  /\ Len(Filtered(b, q)) <= Count(b, f, v)
           /\ OnlyFilter(q, f) /\ TidyIn(b) => Len(Filtered(b, q)) = Count(b, f, v)
  <1>. DEFINE docs == Documents(b)
              n    == Len(docs)
              J    == [i \in 1 .. n |-> {k \in DOMAIN docs[i][f] : docs[i][f][k].value = v}]
              P    == UNION {{<<i, j>> : j \in J[i]} : i \in 1 .. n}
              S    == Passing(b, q)
              M    == {i \in DOMAIN docs : Matches(b, docs[i], f, v)}
  <1>1. n \in Nat /\ DOMAIN docs = 1 .. n
    BY DocumentsType
  <1>2. f \in Filters /\ f \notin Single
    BY DEF Filters, Multiple, Single
  <1>3. Count(b, f, v) = Cardinality(P)
    <2>1. Count(b, f, v) =
            Cardinality(UNION {{<<i, j>> : j \in {k \in DOMAIN docs[i][f] : docs[i][f][k].value = v}} :
                               i \in DOMAIN docs})
      BY <1>2 DEF Count
    <2>2. \A i \in 1 .. n : J[i] = {k \in DOMAIN docs[i][f] : docs[i][f][k].value = v}
      OBVIOUS
    <2>. HIDE DEF J, docs, n
    <2>3. {{<<i, j>> : j \in {k \in DOMAIN docs[i][f] : docs[i][f][k].value = v}} : i \in DOMAIN docs}
            = {{<<i, j>> : j \in J[i]} : i \in 1 .. n}
      BY <1>1, <2>2
    <2>. QED BY <2>1, <2>3
  <1>4. \A i \in 1 .. n : Matches(b, docs[i], f, v) <=> J[i] # {}
    <2>. SUFFICES ASSUME NEW i \in 1 .. n
                  PROVE  Matches(b, docs[i], f, v) <=> J[i] # {}
      OBVIOUS
    <2>1. Matches(b, docs[i], f, v) <=> v \in Stripped(docs[i], f)
      BY <1>2 DEF Matches
    <2>2. v \in Stripped(docs[i], f) <=> \E k \in DOMAIN docs[i][f] : docs[i][f][k].value = v
      BY DEF Stripped
    <2>3. J[i] = {k \in DOMAIN docs[i][f] : docs[i][f][k].value = v}
      OBVIOUS
    <2>. HIDE DEF J, docs, n
    <2>. QED BY <2>1, <2>2, <2>3
  <1>5. \A i \in 1 .. n : IsFiniteSet(J[i])
    <2>1. \A i \in 1 .. n : IsFiniteSet(DOMAIN docs[i][f])
      BY <1>1, ValuesType
    <2>2. \A i \in 1 .. n : J[i] \subseteq DOMAIN docs[i][f]
      OBVIOUS
    <2>. HIDE DEF J, docs, n
    <2>. QED BY <2>1, <2>2, FS_Subset
  <1>6. ASSUME TidyIn(b), NEW i \in 1 .. n PROVE \A j, k \in J[i] : j = k
    <2>1. docs[i] \in AllOf(b, "documents") /\ docs[i][f] \in Seq(Field)
      BY <1>1, ValuesType
    <2>2. Cardinality({docs[i][f][j].value : j \in DOMAIN docs[i][f]}) = Len(docs[i][f])
      BY <1>6, <2>1 DEF TidyIn
    <2>3. \A j, k \in DOMAIN docs[i][f] : docs[i][f][j].value = docs[i][f][k].value => j = k
      BY <2>1, <2>2, TidyLists
    <2>. QED BY <2>3
  <1>7. S \subseteq M /\ (OnlyFilter(q, f) => S = M)
    BY <1>2, OnlyFilterSelects
  <1>. HIDE DEF J
  <1>8. S \in SUBSET (1 .. n) /\ (\A i \in S : J[i] # {})
        /\ (OnlyFilter(q, f) => \A i \in 1 .. n : J[i] # {} => i \in S)
    BY <1>1, <1>4, <1>7
  <1>. HIDE DEF S, P, docs, n, M
  <1>9. /\ Cardinality(S) <= Cardinality(P)
        /\ AllHaveOne(n, J, S) => Cardinality(S) = Cardinality(P)
    <2>1. \A p : p \in P <=> \E i \in 1 .. n : \E j \in J[i] : p = <<i, j>>
      BY DEF P
    <2>2. ArePairs(n, J, P, S)
      BY <1>5, <1>8, <2>1 DEF ArePairs
    <2>. QED BY <1>1, <2>2, PairsCount
  <1>10. Len(Filtered(b, q)) = Cardinality(S)
    BY FilteredType DEF S
  <1>11. OnlyFilter(q, f) /\ TidyIn(b) => AllHaveOne(n, J, S)
    BY <1>6, <1>8 DEF AllHaveOne
  <1>. QED BY <1>3, <1>9, <1>10, <1>11

\* The facets of access count those the filter finds.
LEMMA AvailabilityFacet ==
    ASSUME NEW b \in Bundles, NEW v \in {"online", "review"}, NEW q,
           q["availability"] = v
    PROVE  /\ Len(Filtered(b, q)) <= AvailabilityCount(b, v)
           /\ OnlyFilter(q, "availability") =>
                  Len(Filtered(b, q)) = AvailabilityCount(b, v)
  <1>. DEFINE docs   == Documents(b)
              online == {i \in DOMAIN docs : HasEItem(b, docs[i])}
              M      == {i \in DOMAIN docs : Matches(b, docs[i], "availability", v)}
  <1>1. Len(docs) \in Nat /\ DOMAIN docs = 1 .. Len(docs)
    BY DocumentsType
  <1>2. IsFiniteSet(DOMAIN docs) /\ Cardinality(DOMAIN docs) = Len(docs)
    BY <1>1, CountUpTo
  <1>3. M = IF v = "online" THEN online ELSE DOMAIN docs \ online
    BY AvailabilityMatches
  <1>4. AvailabilityCount(b, v) =
          IF v = "online" THEN Cardinality(online) ELSE Len(docs) - Cardinality(online)
    BY DEF AvailabilityCount, HowMany
  <1>5. "availability" \in Filters /\ IsSet("availability", v)
    BY DEF Filters, IsSet
  <1>6. /\ Passing(b, q) \subseteq M
        /\ OnlyFilter(q, "availability") => Passing(b, q) = M
    BY <1>5, OnlyFilterSelects
  <1>7. M \subseteq DOMAIN docs /\ online \subseteq DOMAIN docs
    OBVIOUS
  <1>. HIDE DEF M, online
  <1>8. Cardinality(Passing(b, q)) <= Cardinality(M)
    <2>. HIDE DEF docs
    <2>. QED BY <1>6, <1>7, PositionsCount DEF docs
  <1>9. Cardinality(DOMAIN docs \ online) = Len(docs) - Cardinality(online)
    <2>1. DOMAIN docs \cap online = online
      BY <1>7
    <2>2. Cardinality(DOMAIN docs \ online)
            = Cardinality(DOMAIN docs) - Cardinality(DOMAIN docs \cap online)
      BY <1>2, FS_Difference
    <2>. QED BY <1>2, <2>1, <2>2
  <1>10. Cardinality(M) = AvailabilityCount(b, v)
    BY <1>3, <1>4, <1>9
  <1>11. Len(Filtered(b, q)) = Cardinality(Passing(b, q))
    BY FilteredType
  <1>. QED BY <1>6, <1>8, <1>10, <1>11

LEMMA NoQueryIsEmpty ==
    /\ NoQuery.q = ""
    /\ \A g \in Filters : ~IsSet(g, NoQuery[g])
  <1>1. NoQuery.q = ""
    BY DEF NoQuery
  <1>2. \A g \in {"type", "year", "source", "language", "subject"} :
            ~IsSet(g, NoQuery[g])
    <2>1. /\ NoQuery["type"] = 0 /\ NoQuery["year"] = 0 /\ NoQuery["source"] = 0
          /\ NoQuery["language"] = 0 /\ NoQuery["subject"] = 0
      BY DEF NoQuery
    <2>2. \A g : g # "availability" => ~IsSet(g, 0)
      BY DEF IsSet
    <2>. QED BY <2>1, <2>2
  <1>3. NoQuery["availability"] = "" /\ ~IsSet("availability", "")
    BY DEF NoQuery, IsSet
  <1>. QED BY <1>1, <1>2, <1>3 DEF Filters, Single, Multiple

\* The card of a collection tells what its page finds ...
LEMMA CollectionIsCounted ==
    ASSUME NEW b \in Bundles, NEW v \in Values \ {0},
           NEW q, q = [NoQuery EXCEPT !.type = v]
    PROVE  Len(Filtered(b, q)) = TypeCount(b, As(v))
  <1>1. /\ q["type"] = v /\ q.q = NoQuery.q
        /\ \A g \in Filters \ {"type"} : q[g] = NoQuery[g]
    <2>1. NoQuery = [f \in Fields |-> NoQuery[f]]
      BY NoQueryType DEF IsQuery
    <2>2. Filters \subseteq Fields /\ "type" \in Fields /\ "q" \in Fields
      BY DEF Fields, Filters, Single, Multiple
    <2>. HIDE DEF NoQuery
    <2>. QED BY <2>1, <2>2
  <1>2. "type" \in Filters /\ "type" \in Single /\ IsSet("type", v)
    BY DEF Filters, Single, IsSet
  <1>3. OnlyFilter(q, "type")
    BY <1>1, NoQueryIsEmpty DEF OnlyFilter
  <1>4. \A d : Matches(b, d, "type", v) <=> d["type"] = As(v)
    BY <1>2 DEF Matches
  <1>5. Passing(b, q) = {i \in DOMAIN Documents(b) : Documents(b)[i].type = As(v)}
    <2>1. IsSet("type", q["type"])
      BY <1>1, <1>2
    <2>2. Passing(b, q) = {i \in DOMAIN Documents(b) :
                             Matches(b, Documents(b)[i], "type", q["type"])}
      BY <1>2, <1>3, <2>1, OnlyFilterSelects
    <2>. QED BY <1>1, <1>4, <2>2
  <1>6. TypeCount(b, As(v)) = Cardinality(Passing(b, q))
    BY <1>5 DEF TypeCount, Documents
  <1>. QED BY <1>6, FilteredType

\* ... so does the link to all records ...
LEMMA AllAreCounted ==
    ASSUME NEW b \in Bundles
    PROVE  Len(Filtered(b, NoQuery)) = Len(Documents(b))
  <1>1. \A d : Selected(b, NoQuery, d)
    BY NoQueryIsEmpty DEF Selected
  <1>2. Passing(b, NoQuery) = DOMAIN Documents(b)
    BY <1>1 DEF Passing
  <1>3. Cardinality(DOMAIN Documents(b)) = Len(Documents(b))
    BY DocumentsType, CountUpTo
  <1>. QED BY <1>2, <1>3, FilteredType

\* ... and the review, which takes e-items with an address only, tells of as many
\* records or more.
LEMMA MissingAreCounted ==
    ASSUME NEW b \in Bundles, Written(b),
           NEW q, q = [NoQuery EXCEPT !.availability = "review"]
    PROVE  /\ Len(Filtered(b, q)) <= MissingAccess(b)
           /\ (\A e \in AllOf(b, "eitems") : e.url) =>
                  Len(Filtered(b, q)) = MissingAccess(b)
  <1>. DEFINE T == {i \in DOMAIN Documents(b) : ~HasOnlineAccess(b, Documents(b)[i])}
              M == {i \in DOMAIN Documents(b) :
                       Matches(b, Documents(b)[i], "availability", "review")}
  <1>1. q["availability"] = "review"
    <2>1. NoQuery = [f \in Fields |-> NoQuery[f]]
      BY NoQueryType DEF IsQuery
    <2>2. "availability" \in Fields
      BY DEF Fields, Filters
    <2>. HIDE DEF NoQuery
    <2>. QED BY <2>1, <2>2
  <1>2. "availability" \in Filters /\ IsSet("availability", "review")
    BY DEF Filters, IsSet
  <1>3. OnlyFilter(q, "availability")
    <2>1. NoQuery = [f \in Fields |-> NoQuery[f]]
      BY NoQueryType DEF IsQuery
    <2>2. Filters \subseteq Fields /\ "q" \in Fields
      BY DEF Fields
    <2>3. q.q = NoQuery.q /\ \A g \in Filters \ {"availability"} : q[g] = NoQuery[g]
      BY <2>1, <2>2
    <2>. QED BY <2>3, NoQueryIsEmpty DEF OnlyFilter
  <1>4. Passing(b, q) = M
    <2>1. IsSet("availability", q["availability"])
      BY <1>1, <1>2
    <2>2. Passing(b, q) = {i \in DOMAIN Documents(b) :
                  Matches(b, Documents(b)[i], "availability", q["availability"])}
      BY <1>2, <1>3, <2>1, OnlyFilterSelects
    <2>. QED BY <1>1, <2>2
  <1>5. M \subseteq T
    BY WrittenAccess, AvailabilityMatches
  <1>6. (\A e \in AllOf(b, "eitems") : e.url) => M = T
    BY WrittenAccess, AvailabilityMatches
  <1>7. MissingAccess(b) = Cardinality(T)
    BY DEF MissingAccess, HowMany
  <1>8. T \subseteq DOMAIN Documents(b)
    OBVIOUS
  <1>. HIDE DEF T, M
  <1>9. Cardinality(M) <= Cardinality(T)
    BY <1>5, <1>8, PositionsCount
  <1>. QED BY <1>4, <1>6, <1>7, <1>9, FilteredType

-----------------------------------------------------------------------------
(* Every link tells the truth, and its page keeps it.                      *)

LEMMA SilentTold == \A b, q : Told(b, q, Silent)
  BY DEF Told, Silent

LEMMA FacetTold ==
    ASSUME NEW b, NEW q, NEW c, NEW alone \in BOOLEAN, Len(Filtered(b, q)) <= c,
           alone /\ TidyIn(b) => Len(Filtered(b, q)) = c
    PROVE  Told(b, q, [count |-> c, kind |-> "facet", alone |-> alone])
  <1>. DEFINE p == [count |-> c, kind |-> "facet", alone |-> alone]
  <1>1. p.count = c /\ p.kind = "facet" /\ p.alone = alone
    OBVIOUS
  <1>. HIDE DEF p
  <1>2. p.alone => alone
    BY <1>1
  <1>3. Told(b, q, p)
    BY <1>1, <1>2 DEF Told
  <1>. QED BY <1>3 DEF p

\* Told depends on what is found only.
LEMMA ToldBySame ==
    ASSUME NEW b, NEW q, NEW a, NEW p, Filtered(b, q) = Filtered(b, a), Told(b, q, p)
    PROVE  Told(b, a, p)
  BY DEF Told

LEMMA FacetLink ==
    ASSUME Typed, NEW f \in Filters, NEW v, NEW a,
           a = [query EXCEPT ![f] = v, !.page = 1, !.size = DefaultSize]
    PROVE  a[f] = v /\ (Alone(f) => OnlyFilter(a, f))
  <1>1. query = [g \in Fields |-> query[g]]
    BY DEF Typed, IsQuery
  <1>2. /\ Filters \subseteq Fields /\ "q" \in Fields
        /\ \A g \in Filters : g # "page" /\ g # "size" /\ g # "q"
    BY DEF Fields, Filters, Single, Multiple
  <1>3. /\ a[f] = v /\ a.q = query.q
        /\ \A g \in Filters \ {f} : a[g] = query[g]
    BY <1>1, <1>2
  <1>. QED BY <1>3 DEF Alone, OnlyFilter

LEMMA FacetsTell ==
    ASSUME Typed, NEW f \in Filters, NEW v, FollowFacet(f, v)
    PROVE  \E a, p : IsAddress(a) /\ Load(a, p) /\ Told(shown, a, p)
  <1>. DEFINE there(w) == [query EXCEPT ![f] = w, !.page = 1, !.size = DefaultSize]
              count == IF f = "availability" THEN AvailabilityCount(shown, v)
                       ELSE Counted[shown][f][v]
              told  == [count |-> count, kind |-> "facet", alone |-> Alone(f)]
  <1>1. /\ IF f = "availability" THEN v \in {"online", "review"}
                                ELSE v \in FacetValues(shown, f)
        /\ IF query[f] = v THEN Arrive(there(NotSet(f)), Silent)
           ELSE Arrive(there(v), told)
    BY DEF FollowFacet
  <1>2. \A w : IsAddress(there(w))
    BY LinkIsAddress DEF Typed
  <1>3. shown \in Bundles /\ Alone(f) \in BOOLEAN
    BY DEF Typed, Alone
  <1>4. there(v)[f] = v /\ (Alone(f) => OnlyFilter(there(v), f))
    BY FacetLink
  <1>5. CASE query[f] = v
    <2>1. Load(there(NotSet(f)), Silent)
      BY <1>1, <1>5 DEF Arrive
    <2>. QED BY <1>2, <2>1, SilentTold
  <1>6. CASE query[f] # v
    <2>1. Load(there(v), told)
      BY <1>1, <1>6 DEF Arrive
    <2>. DEFINE n == Len(Filtered(shown, there(v)))
    <2>2. n <= count /\ (OnlyFilter(there(v), f) /\ TidyIn(shown) => n = count)
      <3>. HIDE DEF there
      <3>1. CASE f = "availability"
        <4>1. v \in {"online", "review"}
          BY <1>1, <3>1
        <4>. QED BY <1>3, <1>4, <3>1, <4>1, AvailabilityFacet
      <3>2. CASE f # "availability"
        <4>1. f \in Single \cup Multiple
          BY <3>2 DEF Filters
        <4>2. v \in Values \ {0}
          BY <1>1, <3>2 DEF FacetValues
        <4>3. count = Count(shown, f, v)
          BY <1>3, <3>2, <4>1, <4>2 DEF Counted
        <4>4. IsSet(f, v)
          BY <3>2, <4>2 DEF IsSet
        <4>. HIDE DEF count
        <4>5. CASE f \in Single
          BY <1>3, <1>4, <4>2, <4>3, <4>4, <4>5, SingleFacet
        <4>6. CASE f \in Multiple
          BY <1>3, <1>4, <4>2, <4>3, <4>4, <4>6, MultipleFacet
        <4>. QED BY <4>1, <4>5, <4>6
      <3>. QED BY <3>1, <3>2
    <2>3. Told(shown, there(v), told)
      <3>. HIDE DEF count, there
      <3>. QED BY <1>3, <1>4, <2>2, FacetTold
    <2>. HIDE DEF told
    <2>. QED BY <1>2, <2>1, <2>3
  <1>. QED BY <1>5, <1>6

\* Every page a reader loads, by whatever link, finds what the link tells.
LEMMA LinksTell ==
    ASSUME Typed, LinksTellTheCount, ReaderActs
    PROVE  \E a, p : IsAddress(a) /\ Load(a, p) /\ Told(shown, a, p)
  <1>. DEFINE Tells == \E a, p : IsAddress(a) /\ Load(a, p) /\ Told(shown, a, p)
  <1>0. /\ IsQuery(query) /\ IsQuery(NoQuery) /\ shown \in Bundles
        /\ Told(shown, query, promise)
    BY NoQueryType, ToldShown DEF Typed
  <1>bounds. 0 .. MaxPage \subseteq Nat /\ 0 .. SizeLimit + 1 \subseteq Nat
    <2>1. SizeLimit \in Nat /\ MaxPage \in Nat
      BY NumbersAssumption
    <2>. QED BY <2>1
  <1>1. ASSUME NEW q \in Terms \cup {""}, NEW page \in 0 .. MaxPage,
               NEW size \in 0 .. SizeLimit + 1, Visit(q, page, size)
        PROVE  Tells
    <2>1. page \in Nat
      BY <1>bounds
    <2>2. size \in Nat
      BY <1>bounds
    <2>3. IsAddress([NoQuery EXCEPT !.q = q, !.page = page, !.size = size])
      BY <1>0, <2>1, <2>2, LinkIsAddress
    <2>. QED BY <1>1, <2>3, SilentTold DEF Visit, Arrive
  <1>2. ASSUME NEW f \in Filters, NEW v, FollowFacet(f, v) PROVE Tells
    BY <1>2, FacetsTell
  <1>3. ASSUME NEW f \in Filters, RemoveFilter(f) PROVE Tells
    <2>1. IsAddress(SearchHref(f, NotSet(f)))
      BY <1>0, LinkIsAddress DEF SearchHref
    <2>. QED BY <1>3, <2>1, SilentTold DEF RemoveFilter, Arrive
  <1>4. ASSUME NEW quick \in QuickFilters, QuickFilter(quick[1], quick[2])
        PROVE  Tells
    <2>1. quick[1] \in Filters
      BY DEF QuickFilters, Filters, Single
    <2>2. IsAddress(SearchHref(quick[1], quick[2]))
      BY <1>0, <2>1, LinkIsAddress DEF SearchHref
    <2>. QED BY <1>4, <2>2, SilentTold DEF QuickFilter, Arrive
  <1>5. ASSUME NEW size \in SizeLinks, SizeLink(size) PROVE Tells
    <2>1. size \in Nat
      BY SizesType
    <2>2. IsAddress([query EXCEPT !.size = size, !.page = 1])
      BY <1>0, <2>1, LinkIsAddress
    <2>. QED BY <1>5, <2>2, SilentTold DEF SizeLink, Arrive
  <1>6. ASSUME NEW page \in Nat, Load([query EXCEPT !.page = page], promise)
        PROVE  Tells
    <2>. DEFINE a == [query EXCEPT !.page = page]
    <2>1. IsAddress(a)
      BY <1>0, LinkIsAddress
    <2>2. \A f \in Filters \cup {"q"} : a[f] = query[f]
      <3>1. \A f \in Filters \cup {"q"} : f \in Fields /\ f # "page"
        BY DEF Fields, Filters, Single, Multiple
      <3>. QED BY <1>0, <3>1 DEF IsQuery
    <2>. HIDE DEF a
    <2>3. Told(shown, a, promise)
      BY <1>0, <2>2, FoundBySame, ToldBySame
    <2>. QED BY <1>6, <2>1, <2>3 DEF a
  <1>7. ASSUME NextPage PROVE Tells
    <2>1. Pagination(shown, query).page + 1 \in Nat
      BY <1>0, PaginationType
    <2>. HIDE DEF Tells
    <2>. QED BY <1>6, <1>7, <2>1 DEF NextPage
  <1>8. ASSUME PreviousPage PROVE Tells
    <2>1. Pagination(shown, query).page - 1 \in Nat
      BY <1>0, PaginationType
    <2>. HIDE DEF Tells
    <2>. QED BY <1>6, <1>8, <2>1 DEF PreviousPage, Arrive
  <1>9. ASSUME ReturnFromRecord PROVE Tells
    BY <1>0, <1>9, QueryIsAddress DEF ReturnFromRecord
  <1>10. ASSUME NEW v \in Values \ {0}, FollowCollection(v) PROVE Tells
    <2>. DEFINE a == [NoQuery EXCEPT !.type = v]
                p == [count |-> TypeCount(shown, As(v)), kind |-> "collection",
                      alone |-> TRUE]
    <2>1. IsAddress(a) /\ Load(a, p)
      BY <1>0, <1>10, LinkIsAddress DEF FollowCollection, Arrive
    <2>2. Len(Filtered(shown, a)) = TypeCount(shown, As(v))
      BY <1>0, CollectionIsCounted
    <2>3. p.kind = "collection" /\ p.count = TypeCount(shown, As(v))
      OBVIOUS
    <2>. HIDE DEF a, p
    <2>4. Told(shown, a, p)
      BY <2>2, <2>3 DEF Told
    <2>. QED BY <2>1, <2>4
  <1>11. ASSUME FollowReviewAction PROVE Tells
    <2>. DEFINE a == [NoQuery EXCEPT !.availability = "review"]
                p == [count |-> MissingAccess(shown), kind |-> "review", alone |-> TRUE]
                r == [count |-> Len(Documents(shown)), kind |-> "all", alone |-> TRUE]
    <2>1. IsAddress(a) /\ IsAddress(NoQuery)
      BY <1>0, LinkIsAddress, QueryIsAddress
    <2>2. Load(a, p) \/ Load(NoQuery, r)
      BY <1>11 DEF FollowReviewAction, Arrive
    <2>3. Told(shown, a, p)
      <3>1. p.kind = "review" /\ p.count = MissingAccess(shown)
        OBVIOUS
      <3>2. Written(shown) =>
              /\ Len(Filtered(shown, a)) <= MissingAccess(shown)
              /\ (\A e \in AllOf(shown, "eitems") : e.url) =>
                    Len(Filtered(shown, a)) = MissingAccess(shown)
        BY <1>0, MissingAreCounted
      <3>. HIDE DEF a, p
      <3>. QED BY <3>1, <3>2 DEF Told
    <2>4. Told(shown, NoQuery, r)
      <3>1. r.kind = "all" /\ r.count = Len(Documents(shown))
        OBVIOUS
      <3>. HIDE DEF r
      <3>. QED BY <1>0, <3>1, AllAreCounted DEF Told
    <2>. HIDE DEF a, p, r
    <2>. QED BY <2>1, <2>2, <2>3, <2>4
  <1>12. Single \cup Multiple \subseteq Filters /\ "availability" \in Filters
    BY DEF Filters
  <1>. HIDE DEF Tells
  <1>13. Tells
    BY <1>1, <1>2, <1>3, <1>4, <1>5, <1>7, <1>8, <1>9, <1>10, <1>11, <1>12
       DEF ReaderActs
  <1>. QED BY <1>13 DEF Tells

LEMMA LoadTells ==
    ASSUME Typed, NEW a, NEW p, IsAddress(a), Load(a, p), Told(shown, a, p)
    PROVE  LinksTellTheCount'
  <1>1. /\ shown' = bundle /\ query' = FromMapping(a)
        /\ promise' = IF shown = bundle THEN p ELSE Silent
    BY DEF Load
  <1>2. Filtered(shown, a) = Filtered(shown, FromMapping(a))
    BY MappingType, FoundBySame
  <1>3. Told(shown, FromMapping(a), p)
    BY <1>2, ToldBySame
  <1>4. Told(shown', query', promise')
    BY <1>1, <1>3, SilentTold
  <1>. QED BY <1>4, ToldShown

\* No link tells of fewer records than its page finds, and those that add no
\* filter to others tell of just as many, for any bundle.
THEOREM LinksAreTrue == CatalogueSpec => []LinksTellTheCount
  <1>1. CatalogueInit => LinksTellTheCount
    BY SilentTold, ToldShown DEF CatalogueInit
  <1>2. Typed /\ LinksTellTheCount /\ [CatalogueNext]_catalogueVars => LinksTellTheCount'
    <2>. SUFFICES ASSUME Typed, LinksTellTheCount, [CatalogueNext]_catalogueVars
                  PROVE  LinksTellTheCount'
      OBVIOUS
    <2>1. CASE ReaderActs
      BY <2>1, LinksTell, LoadTells
    <2>2. CASE UNCHANGED <<shown, query, promise>>
      BY <2>2, ToldShown
    <2>. QED BY <2>1, <2>2 DEF CatalogueNext, catalogueVars, SaveBundle
  <1>. QED BY <1>1, <1>2, InitTyped, NextTyped, PTL DEF CatalogueSpec

-----------------------------------------------------------------------------
(* What an entry depends on.                                               *)

\* the kinds whose entries take nothing from searches
Fixed == Kinds \ {"document", "item", "loan", "order", "document_request"}

\* Entries of those kinds are the same whatever searches find.
LEMMA FixedEntries ==
    ASSUME NEW r, KindOf[r] \in Fixed, NEW c, NEW reads, NEW f, NEW g
    PROVE  Entry(r, c, reads, f) = Entry(r, c, reads, g)
  <1>1. Shown(r, c, reads, f) = Shown(r, c, reads, g)
    <2>1. CASE KindOf[r] = "eitem"
      BY <2>1 DEF Shown
    <2>2. CASE KindOf[r] = "internal_location"
      BY <2>2 DEF Shown
    <2>3. CASE KindOf[r] = "series"
      BY <2>3 DEF Shown
    <2>4. CASE KindOf[r] = "borrowing_request"
      BY <2>4 DEF Shown
    <2>5. CASE KindOf[r] \in {"location", "patron", "provider", "vocabulary", "files"}
      BY <2>5 DEF Shown
    <2>. QED BY <2>1, <2>2, <2>3, <2>4, <2>5 DEF Fixed, Kinds
  <1>. QED BY <1>1 DEF Entry

\* Those of some show nothing of other records.
LEMMA BareEntries ==
    ASSUME NEW r, KindOf[r] \in {"location", "patron", "provider", "vocabulary"},
           NEW c, NEW reads, NEW f
    PROVE  Entry(r, c, reads, f) = [own |-> c, sees |-> {}]
  BY DEF Entry, Shown

LEMMA EntryThere ==
    ASSUME NEW r, NEW c, NEW reads, NEW f
    PROVE  /\ Entry(r, c, reads, f).own = c
           /\ c # NoRecord => Entry(r, c, reads, f) # NoEntry
  BY DEF Entry, NoEntry

\* A longer path has another shape.
LEMMA ShapeOfOne ==
    ASSUME NEW d, NEW x, NEW k
    PROVE  [n \in 1 .. Len(<<d, x>>) |-> KindOf[<<d, x>>[n]]] # <<k>>
  <1>. DEFINE shape == [n \in 1 .. Len(<<d, x>>) |-> KindOf[<<d, x>>[n]]]
  <1>1. 2 \in DOMAIN shape /\ 2 \notin DOMAIN <<k>>
    OBVIOUS
  <1>. QED BY <1>1

ToPatron(path) == [n \in 1 .. Len(path) |-> KindOf[path[n]]] = <<"patron">>

\* What the entry of a loan shows of its patron does not come from a search.
LEMMA LoanShowsPatron ==
    ASSUME NEW l, KindOf[l] = "loan", NEW c, NEW reads, NEW f, NEW g,
           NEW s \in Entry(l, c, reads, f).sees, ToPatron(s[1])
    PROVE  s \in Entry(l, c, reads, g).sees
  <1>1. /\ s \in LoanItem(c, reads) \cup LoanPatronAndDocument(c, reads) \cup
                 LoanCounts(c, f) \cup LoanStats(l)
        /\ s[1][Len(s[1])] \in pool
    BY DEF Entry, Shown
  <1>2. s \notin LoanCounts(c, f)
    <2>. SUFFICES ASSUME s \in LoanCounts(c, f) PROVE FALSE
      OBVIOUS
    <2>1. PICK d, x : s[1] = <<d, x>>
      BY DEF LoanCounts
    <2>. QED BY <2>1, ShapeOfOne DEF ToPatron
  <1>. QED BY <1>1, <1>2 DEF Entry, Shown

\* the same loans, with the same patrons
LoansAlike(f, g) ==
    \A l \in OfKind["loan"] :
        /\ f[l] = NoEntry <=> g[l] = NoEntry
        /\ f[l].own = g[l].own
        /\ Nested(l, {<<"patron">>}, f) = Nested(l, {<<"patron">>}, g)

LEMMA ItemEntries ==
    ASSUME NEW i, KindOf[i] = "item", NEW c, NEW reads, NEW f, NEW g, LoansAlike(f, g)
    PROVE  Entry(i, c, reads, f) = Entry(i, c, reads, g)
  <1>1. FoundIn("loan", i, Active, f) = FoundIn("loan", i, Active, g)
    BY DEF FoundIn, Found, LoansAlike
  <1>2. FoundIn("loan", i, Active, f) \subseteq OfKind["loan"]
    BY DEF FoundIn, Found
  <1>3. Copied(FoundIn("loan", i, Active, f), f) = Copied(FoundIn("loan", i, Active, g), g)
    BY <1>1, <1>2 DEF Copied, LoansAlike
  <1>4. ItemLoan(i, f) = ItemLoan(i, g)
    BY <1>1, <1>2, <1>3 DEF ItemLoan, LoansAlike
  <1>. QED BY <1>4 DEF Entry, Shown

\* f has an entry made of the table, by whatever search, for each loan
LoansShow(f) ==
    \A l \in OfKind["loan"] :
        IF table[l] = NoRecord THEN f[l] = NoEntry
        ELSE \E h : f[l] = Entry(l, table[l], table, h)

LEMMA LoansShowAlike ==
    ASSUME NEW f, NEW g, LoansShow(f), LoansShow(g)
    PROVE  LoansAlike(f, g)
  <1>. SUFFICES ASSUME NEW l \in OfKind["loan"]
                PROVE  /\ f[l] = NoEntry <=> g[l] = NoEntry
                       /\ f[l].own = g[l].own
                       /\ Nested(l, {<<"patron">>}, f) = Nested(l, {<<"patron">>}, g)
    BY DEF LoansAlike
  <1>1. CASE table[l] = NoRecord
    BY <1>1 DEF LoansShow, Nested
  <1>2. CASE table[l] # NoRecord
    <2>1. PICK h : f[l] = Entry(l, table[l], table, h)
      BY <1>2 DEF LoansShow
    <2>2. PICK k : g[l] = Entry(l, table[l], table, k)
      BY <1>2 DEF LoansShow
    <2>3. KindOf[l] = "loan"
      BY DEF OfKind, Kinds
    <2>4. /\ f[l] # NoEntry /\ g[l] # NoEntry
          /\ f[l].own = g[l].own
      BY <1>2, <2>1, <2>2, EntryThere
    <2>. DEFINE Patrons(e) ==
                  {t \in e.sees : [n \in 1 .. Len(t[1]) |-> KindOf[t[1][n]]] \in {<<"patron">>}}
    <2>5. Patrons(f[l]) = Patrons(g[l])
      <3>1. ASSUME NEW s \in Patrons(f[l]) PROVE s \in g[l].sees
        <4>1. ToPatron(s[1])
          BY DEF ToPatron
        <4>2. s \in Entry(l, table[l], table, h).sees
          BY <2>1
        <4>. QED BY <2>2, <2>3, <4>1, <4>2, LoanShowsPatron
      <3>2. ASSUME NEW s \in Patrons(g[l]) PROVE s \in f[l].sees
        <4>1. ToPatron(s[1])
          BY DEF ToPatron
        <4>2. s \in Entry(l, table[l], table, k).sees
          BY <2>2
        <4>. QED BY <2>1, <2>3, <4>1, <4>2, LoanShowsPatron
      <3>. QED BY <3>1, <3>2
    <2>6. Nested(l, {<<"patron">>}, f) = Nested(l, {<<"patron">>}, g)
      BY <2>5 DEF Nested
    <2>. QED BY <2>4, <2>6
  <1>. QED BY <1>1, <1>2

\* what the entries of documents, loans, orders and requests take from searches
Alike(f, g) ==
    /\ LoansAlike(f, g)
    /\ \A r \in OfKind["item"] \cup OfKind["eitem"] : f[r] = g[r]
    /\ \A r \in OfKind["borrowing_request"] \cup OfKind["vocabulary"] :
           /\ f[r] = NoEntry <=> g[r] = NoEntry
           /\ f[r].own = g[r].own

\* no document request names an order, in the table or an entry of f
OrdersUnnamed(f) ==
    \A q \in OfKind["document_request"] :
        /\ Named(table[q], "order") = {}
        /\ \A o \in OfKind["order"] : f[q] # NoEntry => o \notin f[q].own.names

LEMMA AlikeEntries ==
    ASSUME NEW r \in Records, NEW f, NEW g, NEW reads,
           Alike(f, g), OrdersUnnamed(f), OrdersUnnamed(g)
    PROVE  Entry(r, table[r], reads, f) = Entry(r, table[r], reads, g)
  <1>. DEFINE c == table[r]
  <1>1. \A x : /\ Found("loan", x, f) = Found("loan", x, g)
               /\ ItemsOf(x, f) = ItemsOf(x, g) /\ EItemsOf(x, f) = EItemsOf(x, g)
               /\ FoundIn("loan", x, Active, f) = FoundIn("loan", x, Active, g)
    BY DEF Found, FoundIn, ItemsOf, EItemsOf, Alike, LoansAlike
  <1>2. \A x : /\ Found("loan", x, f) \subseteq OfKind["loan"]
               /\ FoundIn("loan", x, Active, f) \subseteq OfKind["loan"]
               /\ ItemsOf(x, f) \subseteq OfKind["item"] /\ EItemsOf(x, f) \subseteq OfKind["eitem"]
    BY DEF Found, FoundIn, ItemsOf, EItemsOf
  <1>3. \A x \in OfKind["loan"] \cup OfKind["item"] \cup OfKind["eitem"] \cup OfKind["vocabulary"] :
            f[x].own = g[x].own
    BY DEF Alike, LoansAlike
  <1>4. CASE KindOf[r] = "document"
    <2>1. DocumentCirculation(r, f) = DocumentCirculation(r, g)
      BY <1>1, <1>2, <1>3 DEF DocumentCirculation, Copied
    <2>2. DocumentItems(r, f) = DocumentItems(r, g)
      <3>. DEFINE places == {<<"internal_location">>, <<"internal_location", "location">>, <<"loan">>}
      <3>1. \A i \in ItemsOf(r, f) : /\ Copied({i}, f) = Copied({i}, g)
                                     /\ Nested(i, places, f) = Nested(i, places, g)
        BY <1>2 DEF Copied, Nested, Alike
      <3>. DEFINE given(i, h) == Copied({i}, h) \cup Nested(i, places, h)
      <3>2. /\ DocumentItems(r, f) = UNION {given(i, f) : i \in ItemsOf(r, f)}
            /\ DocumentItems(r, g) = UNION {given(i, g) : i \in ItemsOf(r, g)}
        BY DEF DocumentItems
      <3>3. ItemsOf(r, f) = ItemsOf(r, g) /\ \A i \in ItemsOf(r, f) : given(i, f) = given(i, g)
        BY <1>1, <3>1
      <3>. HIDE DEF given
      <3>. QED BY <3>2, <3>3
    <2>3. DocumentEItems(r, f) = DocumentEItems(r, g)
      <3>1. \A e \in EItemsOf(r, f) : /\ Copied({e}, f) = Copied({e}, g)
                                      /\ Nested(e, {<<"files">>}, f) = Nested(e, {<<"files">>}, g)
        BY <1>2 DEF Copied, Nested, Alike
      <3>. DEFINE given(e, h) == Copied({e}, h) \cup Nested(e, {<<"files">>}, h)
      <3>2. /\ DocumentEItems(r, f) = UNION {given(e, f) : e \in EItemsOf(r, f)}
            /\ DocumentEItems(r, g) = UNION {given(e, g) : e \in EItemsOf(r, g)}
        BY DEF DocumentEItems
      <3>3. EItemsOf(r, f) = EItemsOf(r, g) /\ \A e \in EItemsOf(r, f) : given(e, f) = given(e, g)
        BY <1>1, <3>1
      <3>. HIDE DEF given
      <3>. QED BY <3>2, <3>3
    <2>4. DocumentStock(r, f) = DocumentStock(r, g)
      BY <1>1, <1>2, <1>3 DEF DocumentStock, Copied
    <2>5. License(c, f) = License(c, g)
      <3>1. Named(c, "vocabulary") \subseteq OfKind["vocabulary"]
        BY DEF Named
      <3>. QED BY <1>3, <3>1 DEF License, Copied, Alike
    <2>. QED BY <1>4, <2>1, <2>2, <2>3, <2>4, <2>5 DEF Entry, Shown
  <1>5. CASE KindOf[r] = "item"
    BY <1>5, ItemEntries DEF Alike
  <1>6. CASE KindOf[r] = "loan"
    <2>1. LoanCounts(c, f) = LoanCounts(c, g)
      BY <1>1, <1>2, <1>3 DEF LoanCounts
    <2>. QED BY <1>6, <2>1 DEF Entry, Shown
  <1>7. CASE KindOf[r] = "order"
    <2>1. r \in OfKind["order"]
      BY <1>7 DEF OfKind, Kinds
    <2>2. DocumentRequestsOf(r, f) = {} /\ DocumentRequestsOf(r, g) = {}
      BY <2>1 DEF DocumentRequestsOf, Found, OrdersUnnamed
    <2>3. OrderStats(r, c, f) = OrderStats(r, c, g)
      BY <2>2 DEF OrderStats
    <2>. QED BY <1>7, <2>3 DEF Entry, Shown
  <1>8. CASE KindOf[r] = "document_request"
    <2>1. r \in OfKind["document_request"]
      BY <1>8 DEF OfKind, Kinds
    <2>2. Named(c, "order") = {}
      BY <2>1 DEF OrdersUnnamed
    <2>3. \A y \in Named(c, "borrowing_request") : f[y] = NoEntry <=> g[y] = NoEntry
      BY DEF Named, Alike
    <2>4. DocumentRequestStats(c, f) = DocumentRequestStats(c, g)
      BY <2>2, <2>3 DEF DocumentRequestStats
    <2>. QED BY <1>8, <2>4 DEF Entry, Shown
  <1>9. CASE KindOf[r] \in Fixed
    BY <1>9, FixedEntries
  <1>. QED BY <1>4, <1>5, <1>6, <1>7, <1>8, <1>9, KindOfAssumption DEF Fixed

-----------------------------------------------------------------------------
(* The setup command: its steps, and the rows they make.                   *)

LEMMA Positions ==
    ASSUME step \in 0 .. 21
    PROVE  /\ At("users") => step = 1
           /\ At("vocabularies") => step = 2
           /\ At("location") => step = 3
           /\ At("patrons") => step = 4
           /\ At("internal_location") => step = 5
           /\ At("series") => step = 6
           /\ At("document") => step = 7
           /\ At("item") => step = 8
           /\ At("eitem") => step = 9
           /\ At("loan") => step = 10
           /\ At("relations") => step = 11
           /\ At("library") => step = 12
           /\ At("borrowing_request") => step = 13
           /\ At("document_request") => step = 14
           /\ At("vendor") => step = 15
           /\ At("order") => step = 16
           /\ At("stage_1") => step = 17
           /\ At("stage_2") => step = 18
           /\ At("stage_3") => step = 19
           /\ At("stage_4") => step = 20
           /\ At("done") => step = 21
  BY DEF At, Script

\* the kinds a row may have, and that no request names an order
Row(r, c) ==
    /\ c.version = 0
    /\ KindOf[r] = "document_request" => Named(c, "order") = {}

There(rs) == \A r \in rs : table[r] # NoRecord

Tables ==
    /\ DOMAIN table = Records
    /\ \A r \in Records :
           table[r] = NoRecord \/ (r \in Demo /\ KindOf[r] # "files" /\ Row(r, table[r]))

\* what is in the table before each step
Progress ==
    /\ step > 1 => There(Drawn("patron"))
    /\ step > 2 => There(Drawn("vocabulary"))
    /\ step > 3 => There(Drawn("location"))
    /\ step > 5 => There(Drawn("internal_location"))
    /\ step > 6 => There(Drawn("series"))
    /\ step > 7 => There(Drawn("document"))
    /\ step > 8 => There(Drawn("item"))
    /\ step > 9 => There(Drawn("eitem"))
    /\ step > 10 => There(Drawn("loan"))
    /\ step > 12 => There(Drawn("provider") \ Vendors)
    /\ step > 13 => There(Drawn("borrowing_request"))
    /\ step > 14 => There(Drawn("document_request"))
    /\ step > 15 => There(Vendors)
    /\ step > 16 => There(Drawn("order"))

\* the entries of records that are indexed outside the stages
BareIn(rs) == \A r \in rs : sent[r] = [own |-> table[r], sees |-> {}]

Sents ==
    /\ DOMAIN sent = Records
    /\ \A r \in Records : table[r] = NoRecord => sent[r] = NoEntry
    /\ step > 2 => BareIn(Drawn("vocabulary"))
    /\ step > 3 => BareIn(Drawn("location"))
    /\ step > 4 => BareIn(Drawn("patron"))
    /\ step < 21 => \A q \in OfKind["document_request"] : sent[q] = NoEntry

LEMMA NewRow ==
    ASSUME NEW names, NEW state
    PROVE  /\ New(names, state).version = 0 /\ New(names, state).names = names
           /\ New(names, state) # NoRecord
  BY DEF New, NoRecord

LEMMA RowsAreThere ==
    ASSUME NEW r, NEW c, Row(r, c)
    PROVE  c # NoRecord
  BY DEF Row, NoRecord

\* A step that makes the records of rs, none of them with an entry yet.
LEMMA AddRows ==
    ASSUME Tables, NEW rs \in SUBSET Demo, DOMAIN table' = Records,
           \A r \in rs : KindOf[r] # "files" /\ Row(r, table'[r]),
           \A r \in Records \ rs : table'[r] = table[r]
    PROVE  /\ Tables'
           /\ There(rs)'
           /\ \A others \in SUBSET Records : There(others) => There(others)'
           /\ \A r \in Records : table'[r] = NoRecord => table[r] = NoRecord
  <1>1. Tables'
    BY DemoAssumption DEF Tables
  <1>2. \A r \in rs : table'[r] # NoRecord
    BY RowsAreThere
  <1>3. There(rs)'
    BY <1>2 DEF There
  <1>4. \A r \in Records : table'[r] = NoRecord => table[r] = NoRecord
    BY <1>2
  <1>5. \A others \in SUBSET Records : There(others) => There(others)'
    BY <1>4 DEF There
  <1>. QED BY <1>1, <1>3, <1>4, <1>5

LEMMA DrawnType ==
    ASSUME NEW k \in Kinds
    PROVE  /\ Drawn(k) = {r \in Records : r \in Demo /\ KindOf[r] = k}
           /\ Drawn(k) \subseteq Demo /\ Drawn(k) \subseteq Records
  BY DEF Drawn, OfKind

LEMMA DrawIsOne ==
    ASSUME NEW name, NEW draws, NEW f \in Draw(name, draws)
    PROVE  f \in draws
  BY Zenon DEF Draw

\* A generator's step.
LEMMA PersistRows ==
    ASSUME NEW name, NEW draws, NEW rs \in SUBSET Demo, Persist(name, draws), Tables,
           \A f \in draws : DOMAIN f = rs /\ \A r \in rs : KindOf[r] # "files" /\ Row(r, f[r])
    PROVE  /\ Tables'
           /\ There(rs)'
           /\ \A others \in SUBSET Records : There(others) => There(others)'
           /\ \A r \in Records : table'[r] = NoRecord => table[r] = NoRecord
           /\ \A r \in Records \ rs : table'[r] = table[r]
           /\ step' = step + 1 /\ sent' = sent
  <1>1. PICK f \in Draw(name, draws) : table' = [r \in Records |-> IF r \in DOMAIN f THEN f[r] ELSE table[r]]
    BY DEF Persist
  <1>2. f \in draws
    BY DrawIsOne
  <1>3. /\ DOMAIN f = rs /\ \A r \in rs : KindOf[r] # "files" /\ Row(r, f[r])
        /\ DOMAIN table = Records /\ rs \subseteq Records
    BY <1>2, DemoAssumption DEF Tables
  <1>4. table' = [r \in Records |-> IF r \in rs THEN f[r] ELSE table[r]]
    BY <1>1, <1>3
  <1>5. /\ DOMAIN table' = Records
        /\ \A r \in rs : table'[r] = f[r]
        /\ \A r \in Records \ rs : table'[r] = table[r]
    BY <1>3, <1>4
  <1>6. step' = step + 1 /\ sent' = sent
    BY DEF Persist
  <1>. QED BY <1>3, <1>5, <1>6, AddRows

-----------------------------------------------------------------------------
(* The setup command: what holds before each step.                         *)

Bare == [r \in Records |-> IF Indexed(table, r) THEN [own |-> table[r], sees |-> {}] ELSE NoEntry]

Looked == Round(table, Bare)

FixedShow(rs) == \A r \in rs : sent[r] = Entry(r, table[r], table, Bare)

ItemsShow == \A i \in Drawn("item") : sent[i] = Entry(i, table[i], table, Looked)

\* what the entries say before each stage
Staged ==
    /\ step > 17 => /\ visible = sent /\ LoansShow(sent)
                    /\ FixedShow(Drawn("internal_location") \cup Drawn("series"))
    /\ step > 18 => ItemsShow /\ FixedShow(Drawn("eitem"))
    /\ step > 19 => FixedShow((Drawn("provider") \ Vendors) \cup Drawn("borrowing_request"))
    /\ step > 20 => visible = Settled(table)

CommandInv ==
    /\ step \in 0 .. 21
    /\ step > 0 => Tables /\ Progress /\ Sents /\ Staged

\* what a generator draws is rows for the records of rs
Draws(draws, rs) == \A f \in draws : DOMAIN f = rs /\ \A r \in rs : Row(r, f[r])

\* the early kinds are drawn by no generator
LEMMA GeneratorStep ==
    ASSUME CommandInv, step \in 5 .. 16, NEW name, NEW draws, NEW rs \in SUBSET Demo,
           Persist(name, draws),
           \A r \in rs : KindOf[r] \notin {"files", "patron", "vocabulary", "location"},
           Draws(draws, rs)
    PROVE  /\ step' = step + 1 /\ Tables' /\ Sents' /\ Staged'
           /\ There(rs)'
           /\ \A others \in SUBSET Records : There(others) => There(others)'
  <1>1. Tables /\ Sents
    BY DEF CommandInv
  <1>2. /\ Tables'
        /\ There(rs)'
        /\ \A others \in SUBSET Records : There(others) => There(others)'
        /\ \A r \in Records : table'[r] = NoRecord => table[r] = NoRecord
        /\ \A r \in Records \ rs : table'[r] = table[r]
        /\ step' = step + 1 /\ sent' = sent
    BY <1>1, PersistRows DEF Draws
  <1>3. Staged'
    BY <1>2 DEF Staged
  <1>4. \A r \in Drawn("patron") \cup Drawn("vocabulary") \cup Drawn("location") :
            table'[r] = table[r]
    BY <1>2, DrawnType DEF Kinds
  <1>5. Sents'
    BY <1>1, <1>2, <1>4 DEF Sents, BareIn
  <1>. QED BY <1>2, <1>3, <1>5

LEMMA DrawsNew ==
    ASSUME NEW draws, NEW rs, \A r \in rs : KindOf[r] # "document_request",
           \A f \in draws : DOMAIN f = rs,
           \A f \in draws : \A r \in rs : \E names, state : f[r] = New(names, state)
    PROVE  Draws(draws, rs)
  BY NewRow DEF Draws, Row

LEMMA DrawsRows ==
    ASSUME NEW draws, NEW rs, NEW rows, draws \subseteq [rs -> rows],
           \A r \in rs : KindOf[r] # "document_request",
           \A c \in rows : c.version = 0
    PROVE  Draws(draws, rs)
  BY DEF Draws, Row

LEMMA GeneratorRows ==
    /\ Draws(InternalLocationGenerator, Drawn("internal_location"))
    /\ Draws(SeriesGenerator, Drawn("series"))
    /\ Draws(DocumentGenerator, Drawn("document"))
    /\ Draws(ItemGenerator, Drawn("item"))
    /\ Draws(EItemGenerator, Drawn("eitem"))
    /\ Draws(LoanGenerator, Drawn("loan"))
    /\ Draws(LibraryGenerator, Drawn("provider") \ Vendors)
    /\ Draws(BorrowingRequestGenerator, Drawn("borrowing_request"))
    /\ Draws(DocumentRequestGenerator, Drawn("document_request"))
    /\ Draws(VendorGenerator, Vendors)
    /\ Draws(OrderGenerator, Drawn("order"))
  <1>0. /\ \A k \in Kinds : \A r \in Drawn(k) : KindOf[r] = k
        /\ \A r \in Vendors : KindOf[r] = "provider"
    BY DrawnType, DemoAssumption
  <1>1. Draws(InternalLocationGenerator, Drawn("internal_location"))
    <2>1. /\ \A f \in InternalLocationGenerator : DOMAIN f = Drawn("internal_location")
          /\ \A f \in InternalLocationGenerator : \A r \in Drawn("internal_location") : \E names, state : f[r] = New(names, state)
      BY DEF InternalLocationGenerator
    <2>2. \A r \in Drawn("internal_location") : KindOf[r] # "document_request"
      BY <1>0 DEF Kinds
    <2>. QED BY <2>1, <2>2, DrawsNew
  <1>2. Draws(SeriesGenerator, Drawn("series"))
    <2>1. /\ \A f \in SeriesGenerator : DOMAIN f = Drawn("series")
          /\ \A f \in SeriesGenerator : \A r \in Drawn("series") : \E names, state : f[r] = New(names, state)
      BY DEF SeriesGenerator
    <2>2. \A r \in Drawn("series") : KindOf[r] # "document_request"
      BY <1>0 DEF Kinds
    <2>. QED BY <2>1, <2>2, DrawsNew
  <1>3. Draws(DocumentGenerator, Drawn("document"))
    <2>1. /\ \A f \in DocumentGenerator : DOMAIN f = Drawn("document")
          /\ \A f \in DocumentGenerator : \A r \in Drawn("document") : \E names, state : f[r] = New(names, state)
      BY DEF DocumentGenerator
    <2>2. \A r \in Drawn("document") : KindOf[r] # "document_request"
      BY <1>0 DEF Kinds
    <2>. QED BY <2>1, <2>2, DrawsNew
  <1>4. Draws(ItemGenerator, Drawn("item"))
    <2>. DEFINE rows == {New({d, il}, status) : d \in Drawn("document"),
                          il \in Drawn("internal_location"), status \in Statuses.item}
    <2>1. ItemGenerator \subseteq [Drawn("item") -> rows]
      BY DEF ItemGenerator
    <2>2. ASSUME NEW c \in rows PROVE c.version = 0
      <3>1. PICK d \in Drawn("document"), il \in Drawn("internal_location"),
                 status \in Statuses.item : c = New({d, il}, status)
        OBVIOUS
      <3>. QED BY <3>1, NewRow
    <2>3. \A r \in Drawn("item") : KindOf[r] # "document_request"
      BY <1>0 DEF Kinds
    <2>. HIDE DEF rows
    <2>. QED BY <2>1, <2>2, <2>3, DrawsRows
  <1>5. Draws(EItemGenerator, Drawn("eitem"))
    <2>1. /\ \A f \in EItemGenerator : DOMAIN f = Drawn("eitem")
          /\ \A f \in EItemGenerator : \A r \in Drawn("eitem") : \E names, state : f[r] = New(names, state)
      BY DEF EItemGenerator
    <2>2. \A r \in Drawn("eitem") : KindOf[r] # "document_request"
      BY <1>0 DEF Kinds
    <2>. QED BY <2>1, <2>2, DrawsNew
  <1>6. Draws(LoanGenerator, Drawn("loan"))
    <2>. DEFINE asked == {New({d, p}, "PENDING") : d \in Drawn("document"), p \in Drawn("patron")}
                lent == {New({d, p, i}, state) : d \in Drawn("document"), p \in Drawn("patron"),
                             i \in Lendable, state \in Active \cup Statuses.over}
                rows == asked \cup lent
    <2>1. LoanGenerator \subseteq [Drawn("loan") -> rows]
      <3>1. LoanGenerator = {f \in [Drawn("loan") -> rows] :
                \A l, m \in Drawn("loan") :
                    l # m => Named(f[l], "item") \cap Named(f[m], "item") = {}}
        BY DEF LoanGenerator
      <3>. HIDE DEF rows
      <3>. QED BY <3>1
    <2>2. ASSUME NEW c \in asked PROVE c.version = 0
      <3>1. PICK d \in Drawn("document"), p \in Drawn("patron") : c = New({d, p}, "PENDING")
        OBVIOUS
      <3>. QED BY <3>1, NewRow
    <2>3. ASSUME NEW c \in lent PROVE c.version = 0
      <3>1. PICK d \in Drawn("document"), p \in Drawn("patron"), i \in Lendable,
                 state \in Active \cup Statuses.over : c = New({d, p, i}, state)
        OBVIOUS
      <3>. QED BY <3>1, NewRow
    <2>. HIDE DEF asked, lent
    <2>4. \A c \in rows : c.version = 0
      BY <2>2, <2>3
    <2>5. \A r \in Drawn("loan") : KindOf[r] # "document_request"
      BY <1>0 DEF Kinds
    <2>. HIDE DEF rows
    <2>. QED BY <2>1, <2>4, <2>5, DrawsRows
  <1>7. Draws(LibraryGenerator, Drawn("provider") \ Vendors)
    <2>1. /\ \A f \in LibraryGenerator : DOMAIN f = Drawn("provider") \ Vendors
          /\ \A f \in LibraryGenerator : \A r \in Drawn("provider") \ Vendors : \E names, state : f[r] = New(names, state)
      BY DEF LibraryGenerator
    <2>2. \A r \in Drawn("provider") \ Vendors : KindOf[r] # "document_request"
      BY <1>0 DEF Kinds
    <2>. QED BY <2>1, <2>2, DrawsNew
  <1>8. Draws(BorrowingRequestGenerator, Drawn("borrowing_request"))
    <2>. DEFINE libraries == Drawn("provider") \ Vendors
                row(lib, d, p, status) == New({lib, d, p}, status)
                rows == {row(lib, d, p, status) : lib \in libraries, d \in Drawn("document"),
                             p \in Drawn("patron"), status \in Statuses.borrowing_request}
    <2>1. BorrowingRequestGenerator \subseteq [Drawn("borrowing_request") -> rows]
      BY DEF BorrowingRequestGenerator
    <2>2. ASSUME NEW c \in rows PROVE c.version = 0
      <3>0. \A lib, d, p, status : row(lib, d, p, status).version = 0
        BY NewRow
      <3>. HIDE DEF row
      <3>1. PICK lib \in libraries, d \in Drawn("document"), p \in Drawn("patron"),
                 status \in Statuses.borrowing_request : c = row(lib, d, p, status)
        OBVIOUS
      <3>. QED BY <3>0, <3>1
    <2>3. \A r \in Drawn("borrowing_request") : KindOf[r] # "document_request"
      BY <1>0 DEF Kinds
    <2>. HIDE DEF rows
    <2>. QED BY <2>1, <2>2, <2>3, DrawsRows
  <1>9. Draws(DocumentRequestGenerator, Drawn("document_request"))
    <2>. DEFINE undecided == {New({p}, "PENDING") : p \in Drawn("patron")}
                wanted == {{}} \cup {{d} : d \in Drawn("document")}
                declined == {New({p} \cup ds, "DECLINED") : p \in Drawn("patron"), ds \in wanted}
                row(p, d, b) == New({p, d, b}, "ACCEPTED")
                accepted == {row(p, d, b) : p \in Drawn("patron"), d \in Drawn("document"),
                                 b \in PendingBorrowingRequests}
                rows == undecided \cup declined \cup accepted
    <2>1. DocumentRequestGenerator \subseteq [Drawn("document_request") -> rows]
      BY DEF DocumentRequestGenerator
    <2>2. /\ OfKind["order"] \cap Drawn("patron") = {}
          /\ OfKind["order"] \cap Drawn("document") = {}
          /\ OfKind["order"] \cap PendingBorrowingRequests = {}
      BY DEF PendingBorrowingRequests, Drawn, OfKind, Kinds
    <2>3. ASSUME NEW c \in undecided PROVE c.version = 0 /\ Named(c, "order") = {}
      <3>1. PICK p \in Drawn("patron") : c = New({p}, "PENDING")
        OBVIOUS
      <3>. QED BY <2>2, <3>1, NewRow DEF Named
    <2>4. ASSUME NEW c \in declined PROVE c.version = 0 /\ Named(c, "order") = {}
      <3>1. \A ds \in wanted : ds \subseteq Drawn("document")
        OBVIOUS
      <3>. HIDE DEF wanted
      <3>2. PICK p \in Drawn("patron"), ds \in wanted : c = New({p} \cup ds, "DECLINED")
        OBVIOUS
      <3>. QED BY <2>2, <3>1, <3>2, NewRow DEF Named
    <2>5. ASSUME NEW c \in accepted PROVE c.version = 0 /\ Named(c, "order") = {}
      <3>0. \A p, d, b : row(p, d, b).version = 0 /\ row(p, d, b).names = {p, d, b}
        BY NewRow
      <3>. HIDE DEF row
      <3>1. PICK p \in Drawn("patron"), d \in Drawn("document"),
                 b \in PendingBorrowingRequests : c = row(p, d, b)
        OBVIOUS
      <3>. QED BY <2>2, <3>0, <3>1 DEF Named
    <2>. HIDE DEF undecided, declined, accepted
    <2>6. \A c \in rows : c.version = 0 /\ Named(c, "order") = {}
      BY <2>3, <2>4, <2>5
    <2>. HIDE DEF rows
    <2>. QED BY <2>1, <2>6 DEF Draws, Row
  <1>10. Draws(VendorGenerator, Vendors)
    <2>1. /\ \A f \in VendorGenerator : DOMAIN f = Vendors
          /\ \A f \in VendorGenerator : \A r \in Vendors : \E names, state : f[r] = New(names, state)
      BY DEF VendorGenerator
    <2>2. \A r \in Vendors : KindOf[r] # "document_request"
      BY <1>0 DEF Kinds
    <2>. QED BY <2>1, <2>2, DrawsNew
  <1>11. Draws(OrderGenerator, Drawn("order"))
    <2>. DEFINE lines == {ds \in SUBSET Drawn("document") : Cardinality(ds) \in 1..MaxLines}
                rows == {New({v, p} \cup ds, status) : v \in Vendors, p \in Drawn("patron"),
                             ds \in lines, status \in Statuses.order}
    <2>1. OrderGenerator \subseteq [Drawn("order") -> rows]
      BY DEF OrderGenerator
    <2>2. ASSUME NEW c \in rows PROVE c.version = 0
      <3>1. PICK v \in Vendors, p \in Drawn("patron"), ds \in lines,
                 status \in Statuses.order : c = New({v, p} \cup ds, status)
        OBVIOUS
      <3>. QED BY <3>1, NewRow
    <2>3. \A r \in Drawn("order") : KindOf[r] # "document_request"
      BY <1>0 DEF Kinds
    <2>. HIDE DEF rows
    <2>. QED BY <2>1, <2>2, <2>3, DrawsRows
  <1>. QED BY <1>1, <1>2, <1>3, <1>4, <1>5, <1>6, <1>7, <1>8, <1>9, <1>10, <1>11

-----------------------------------------------------------------------------
(* The setup command: each step.                                           *)

\* the steps of the generators
Generated ==
    \/ Persist("internal_location", InternalLocationGenerator)
    \/ Persist("series", SeriesGenerator)
    \/ Persist("document", DocumentGenerator)
    \/ Persist("item", ItemGenerator)
    \/ Persist("eitem", EItemGenerator)
    \/ Persist("loan", LoanGenerator)
    \/ Persist("library", LibraryGenerator)
    \/ Persist("borrowing_request", BorrowingRequestGenerator)
    \/ Persist("document_request", DocumentRequestGenerator)
    \/ Persist("vendor", VendorGenerator)
    \/ Persist("order", OrderGenerator)

\* the sets whose records the table has once a step has made them
LEMMA MadeSoFar ==
    ASSUME CommandInv, step \in 1 .. 16, step' = step + 1,
           \A others \in SUBSET Records : There(others) => There(others)',
           step = 1 => There(Drawn("patron"))',
           step = 2 => There(Drawn("vocabulary"))',
           step = 3 => There(Drawn("location"))',
           step = 5 => There(Drawn("internal_location"))',
           step = 6 => There(Drawn("series"))',
           step = 7 => There(Drawn("document"))',
           step = 8 => There(Drawn("item"))',
           step = 9 => There(Drawn("eitem"))',
           step = 10 => There(Drawn("loan"))',
           step = 12 => There(Drawn("provider") \ Vendors)',
           step = 13 => There(Drawn("borrowing_request"))',
           step = 14 => There(Drawn("document_request"))',
           step = 15 => There(Vendors)',
           step = 16 => There(Drawn("order"))'
    PROVE  Progress'
  <1>1. Progress
    BY DEF CommandInv
  <1>2. /\ \A k \in Kinds : Drawn(k) \in SUBSET Records
        /\ Vendors \in SUBSET Records /\ Drawn("provider") \ Vendors \in SUBSET Records
    BY DrawnType, DemoAssumption DEF Kinds
  <1>3. /\ There(Drawn("patron")) => There(Drawn("patron"))'
        /\ There(Drawn("vocabulary")) => There(Drawn("vocabulary"))'
        /\ There(Drawn("location")) => There(Drawn("location"))'
        /\ There(Drawn("internal_location")) => There(Drawn("internal_location"))'
        /\ There(Drawn("series")) => There(Drawn("series"))'
        /\ There(Drawn("document")) => There(Drawn("document"))'
        /\ There(Drawn("item")) => There(Drawn("item"))'
        /\ There(Drawn("eitem")) => There(Drawn("eitem"))'
        /\ There(Drawn("loan")) => There(Drawn("loan"))'
        /\ There(Drawn("provider") \ Vendors) => There(Drawn("provider") \ Vendors)'
        /\ There(Drawn("borrowing_request")) => There(Drawn("borrowing_request"))'
        /\ There(Drawn("document_request")) => There(Drawn("document_request"))'
        /\ There(Vendors) => There(Vendors)'
        /\ There(Drawn("order")) => There(Drawn("order"))'
    BY <1>2 DEF Kinds
  <1>. QED BY <1>1, <1>3 DEF Progress

LEMMA GeneratedKeeps ==
    ASSUME CommandInv, Generated
    PROVE  CommandInv'
  <1>0. step \in 0 .. 21
    BY DEF CommandInv
  <1>. DEFINE Kept(n, rs) ==
                /\ step = n /\ step' = n + 1 /\ Tables' /\ Sents' /\ Staged' /\ There(rs)'
                /\ \A others \in SUBSET Records : There(others) => There(others)'
  <1>1. CASE Persist("internal_location", InternalLocationGenerator)
    <2>1. step = 5
      BY <1>0, <1>1, Positions DEF Persist
    <2>2. /\ Drawn("internal_location") \in SUBSET Demo
          /\ \A r \in Drawn("internal_location") : KindOf[r] \notin {"files", "patron", "vocabulary", "location"}
      BY DrawnType, DemoAssumption DEF Kinds
    <2>3. Kept(5, Drawn("internal_location"))
      BY <1>1, <2>1, <2>2, GeneratorRows, GeneratorStep
    <2>4. Progress'
      BY <2>1, <2>3, MadeSoFar
    <2>. QED BY <2>1, <2>3, <2>4 DEF CommandInv
  <1>2. CASE Persist("series", SeriesGenerator)
    <2>1. step = 6
      BY <1>0, <1>2, Positions DEF Persist
    <2>2. /\ Drawn("series") \in SUBSET Demo
          /\ \A r \in Drawn("series") : KindOf[r] \notin {"files", "patron", "vocabulary", "location"}
      BY DrawnType, DemoAssumption DEF Kinds
    <2>3. Kept(6, Drawn("series"))
      BY <1>2, <2>1, <2>2, GeneratorRows, GeneratorStep
    <2>4. Progress'
      BY <2>1, <2>3, MadeSoFar
    <2>. QED BY <2>1, <2>3, <2>4 DEF CommandInv
  <1>3. CASE Persist("document", DocumentGenerator)
    <2>1. step = 7
      BY <1>0, <1>3, Positions DEF Persist
    <2>2. /\ Drawn("document") \in SUBSET Demo
          /\ \A r \in Drawn("document") : KindOf[r] \notin {"files", "patron", "vocabulary", "location"}
      BY DrawnType, DemoAssumption DEF Kinds
    <2>3. Kept(7, Drawn("document"))
      BY <1>3, <2>1, <2>2, GeneratorRows, GeneratorStep
    <2>4. Progress'
      BY <2>1, <2>3, MadeSoFar
    <2>. QED BY <2>1, <2>3, <2>4 DEF CommandInv
  <1>4. CASE Persist("item", ItemGenerator)
    <2>1. step = 8
      BY <1>0, <1>4, Positions DEF Persist
    <2>2. /\ Drawn("item") \in SUBSET Demo
          /\ \A r \in Drawn("item") : KindOf[r] \notin {"files", "patron", "vocabulary", "location"}
      BY DrawnType, DemoAssumption DEF Kinds
    <2>3. Kept(8, Drawn("item"))
      BY <1>4, <2>1, <2>2, GeneratorRows, GeneratorStep
    <2>4. Progress'
      BY <2>1, <2>3, MadeSoFar
    <2>. QED BY <2>1, <2>3, <2>4 DEF CommandInv
  <1>5. CASE Persist("eitem", EItemGenerator)
    <2>1. step = 9
      BY <1>0, <1>5, Positions DEF Persist
    <2>2. /\ Drawn("eitem") \in SUBSET Demo
          /\ \A r \in Drawn("eitem") : KindOf[r] \notin {"files", "patron", "vocabulary", "location"}
      BY DrawnType, DemoAssumption DEF Kinds
    <2>3. Kept(9, Drawn("eitem"))
      BY <1>5, <2>1, <2>2, GeneratorRows, GeneratorStep
    <2>4. Progress'
      BY <2>1, <2>3, MadeSoFar
    <2>. QED BY <2>1, <2>3, <2>4 DEF CommandInv
  <1>6. CASE Persist("loan", LoanGenerator)
    <2>1. step = 10
      BY <1>0, <1>6, Positions DEF Persist
    <2>2. /\ Drawn("loan") \in SUBSET Demo
          /\ \A r \in Drawn("loan") : KindOf[r] \notin {"files", "patron", "vocabulary", "location"}
      BY DrawnType, DemoAssumption DEF Kinds
    <2>3. Kept(10, Drawn("loan"))
      BY <1>6, <2>1, <2>2, GeneratorRows, GeneratorStep
    <2>4. Progress'
      BY <2>1, <2>3, MadeSoFar
    <2>. QED BY <2>1, <2>3, <2>4 DEF CommandInv
  <1>7. CASE Persist("library", LibraryGenerator)
    <2>1. step = 12
      BY <1>0, <1>7, Positions DEF Persist
    <2>2. /\ Drawn("provider") \ Vendors \in SUBSET Demo
          /\ \A r \in Drawn("provider") \ Vendors : KindOf[r] \notin {"files", "patron", "vocabulary", "location"}
      BY DrawnType, DemoAssumption DEF Kinds
    <2>3. Kept(12, Drawn("provider") \ Vendors)
      BY <1>7, <2>1, <2>2, GeneratorRows, GeneratorStep
    <2>4. Progress'
      BY <2>1, <2>3, MadeSoFar
    <2>. QED BY <2>1, <2>3, <2>4 DEF CommandInv
  <1>8. CASE Persist("borrowing_request", BorrowingRequestGenerator)
    <2>1. step = 13
      BY <1>0, <1>8, Positions DEF Persist
    <2>2. /\ Drawn("borrowing_request") \in SUBSET Demo
          /\ \A r \in Drawn("borrowing_request") : KindOf[r] \notin {"files", "patron", "vocabulary", "location"}
      BY DrawnType, DemoAssumption DEF Kinds
    <2>3. Kept(13, Drawn("borrowing_request"))
      BY <1>8, <2>1, <2>2, GeneratorRows, GeneratorStep
    <2>4. Progress'
      BY <2>1, <2>3, MadeSoFar
    <2>. QED BY <2>1, <2>3, <2>4 DEF CommandInv
  <1>9. CASE Persist("document_request", DocumentRequestGenerator)
    <2>1. step = 14
      BY <1>0, <1>9, Positions DEF Persist
    <2>2. /\ Drawn("document_request") \in SUBSET Demo
          /\ \A r \in Drawn("document_request") : KindOf[r] \notin {"files", "patron", "vocabulary", "location"}
      BY DrawnType, DemoAssumption DEF Kinds
    <2>3. Kept(14, Drawn("document_request"))
      BY <1>9, <2>1, <2>2, GeneratorRows, GeneratorStep
    <2>4. Progress'
      BY <2>1, <2>3, MadeSoFar
    <2>. QED BY <2>1, <2>3, <2>4 DEF CommandInv
  <1>10. CASE Persist("vendor", VendorGenerator)
    <2>1. step = 15
      BY <1>0, <1>10, Positions DEF Persist
    <2>2. /\ Vendors \in SUBSET Demo
          /\ \A r \in Vendors : KindOf[r] \notin {"files", "patron", "vocabulary", "location"}
      BY DrawnType, DemoAssumption DEF Kinds
    <2>3. Kept(15, Vendors)
      BY <1>10, <2>1, <2>2, GeneratorRows, GeneratorStep
    <2>4. Progress'
      BY <2>1, <2>3, MadeSoFar
    <2>. QED BY <2>1, <2>3, <2>4 DEF CommandInv
  <1>11. CASE Persist("order", OrderGenerator)
    <2>1. step = 16
      BY <1>0, <1>11, Positions DEF Persist
    <2>2. /\ Drawn("order") \in SUBSET Demo
          /\ \A r \in Drawn("order") : KindOf[r] \notin {"files", "patron", "vocabulary", "location"}
      BY DrawnType, DemoAssumption DEF Kinds
    <2>3. Kept(16, Drawn("order"))
      BY <1>11, <2>1, <2>2, GeneratorRows, GeneratorStep
    <2>4. Progress'
      BY <2>1, <2>3, MadeSoFar
    <2>. QED BY <2>1, <2>3, <2>4 DEF CommandInv
  <1>. QED
    BY <1>1, <1>2, <1>3, <1>4, <1>5, <1>6, <1>7, <1>8, <1>9, <1>10, <1>11 DEF Generated

LEMMA DocumentRequestsAreRecords ==
    \A q \in OfKind["document_request"] :
        /\ q \in Records /\ KindOf[q] = "document_request"
        /\ \A k \in Kinds \ {"document_request"} : q \in Records \ Drawn(k)
  BY DrawnType DEF OfKind, Kinds

LEMMA SetupKeeps ==
    ASSUME Setup
    PROVE  CommandInv'
  <1>1. step' = 1 /\ Progress' /\ Staged'
    BY DEF Setup, Progress, Staged
  <1>2. Tables' /\ Sents'
    BY DocumentRequestsAreRecords DEF Setup, Tables, Sents
  <1>. QED BY <1>1, <1>2 DEF CommandInv

\* A step that makes empty records of a kind.
LEMMA TabledRows ==
    ASSUME Tables, NEW k \in Kinds \ {"files", "document_request"}, table' = Tabled(Drawn(k))
    PROVE  /\ Tables' /\ There(Drawn(k))'
           /\ \A others \in SUBSET Records : There(others) => There(others)'
           /\ \A r \in Records : table'[r] = NoRecord => table[r] = NoRecord
           /\ \A r \in Records \ Drawn(k) : table'[r] = table[r]
  <1>1. table' = [r \in Records |-> IF r \in Drawn(k) THEN New({}, "-") ELSE table[r]]
    BY DEF Tabled
  <1>2. \A r \in Drawn(k) : KindOf[r] = k /\ r \in Records
    BY DrawnType
  <1>3. DOMAIN table' = Records
    BY <1>1
  <1>4. \A r \in Drawn(k) : KindOf[r] # "files" /\ Row(r, table'[r])
    BY <1>1, <1>2, NewRow DEF Row
  <1>5. \A r \in Records \ Drawn(k) : table'[r] = table[r]
    BY <1>1
  <1>6. Drawn(k) \in SUBSET Demo
    BY DrawnType
  <1>. QED BY <1>3, <1>4, <1>5, <1>6, AddRows

LEMMA OtherKinds ==
    ASSUME NEW k \in Kinds, NEW m \in Kinds, k # m
    PROVE  Drawn(k) \subseteq Records \ Drawn(m)
  BY DrawnType

LEMMA UsersKeep ==
    ASSUME CommandInv, CreateUsers
    PROVE  CommandInv'
  <1>1. step \in 0 .. 21 /\ step = 1
    BY Positions DEF CommandInv, CreateUsers
  <1>2. /\ Tables /\ Sents
        /\ step' = 2 /\ table' = Tabled(Drawn("patron")) /\ sent' = sent
    BY <1>1 DEF CommandInv, CreateUsers
  <1>3. /\ Tables' /\ There(Drawn("patron"))'
        /\ \A others \in SUBSET Records : There(others) => There(others)'
        /\ \A r \in Records : table'[r] = NoRecord => table[r] = NoRecord
    BY <1>2, TabledRows DEF Kinds
  <1>4. Progress'
    BY <1>1, <1>2, <1>3, MadeSoFar
  <1>5. Sents' /\ Staged'
    BY <1>1, <1>2, <1>3 DEF Sents, Staged
  <1>. QED BY <1>2, <1>3, <1>4, <1>5 DEF CommandInv

\* Vocabularies and the location are indexed as they are made.
LEMMA IndexedAsMade ==
    ASSUME Tables, Sents, NEW k \in {"location", "vocabulary", "patron"},
           table' = Tabled(Drawn(k)), sent' = IndexedNow(table', Drawn(k))
    PROVE  /\ DOMAIN sent' = Records
           /\ \A r \in Drawn(k) : sent'[r] = [own |-> table'[r], sees |-> {}]
           /\ \A r \in Records \ Drawn(k) : sent'[r] = sent[r]
           /\ \A r \in Records : table'[r] = NoRecord => sent'[r] = NoEntry
           /\ \A q \in OfKind["document_request"] : sent'[q] = sent[q]
  <1>1. sent' = [r \in Records |-> IF r \in Drawn(k) THEN Entry(r, table'[r], table', visible)
                                  ELSE sent[r]]
    BY DEF IndexedNow
  <1>2. k \in Kinds \ {"files", "document_request"}
    BY DEF Kinds
  <1>3. \A r \in Drawn(k) : KindOf[r] = k /\ r \in Records
    BY <1>2, DrawnType
  <1>4. DOMAIN sent' = Records
    BY <1>1
  <1>5. ASSUME NEW r \in Drawn(k) PROVE sent'[r] = [own |-> table'[r], sees |-> {}]
    <2>1. sent'[r] = Entry(r, table'[r], table', visible)
      BY <1>1, <1>3
    <2>2. KindOf[r] \in {"location", "patron", "provider", "vocabulary"}
      BY <1>3
    <2>. QED BY <2>1, <2>2, BareEntries
  <1>6. \A r \in Records \ Drawn(k) : sent'[r] = sent[r]
    BY <1>1
  <1>7. /\ There(Drawn(k))'
        /\ \A r \in Records : table'[r] = NoRecord => table[r] = NoRecord
    BY <1>2, TabledRows
  <1>8. \A r \in Records : table'[r] = NoRecord => sent'[r] = NoEntry
    BY <1>6, <1>7 DEF There, Sents
  <1>9. \A q \in OfKind["document_request"] : sent'[q] = sent[q]
    BY <1>2, <1>6, DocumentRequestsAreRecords
  <1>. QED BY <1>4, <1>5, <1>6, <1>8, <1>9

LEMMA VocabulariesKeep ==
    ASSUME CommandInv, IndexVocabularies
    PROVE  CommandInv'
  <1>1. step \in 0 .. 21 /\ step = 2
    BY Positions DEF CommandInv, IndexVocabularies
  <1>2. /\ Tables /\ Sents
        /\ step' = 3 /\ table' = Tabled(Drawn("vocabulary")) /\ sent' = IndexedNow(table', Drawn("vocabulary"))
    BY <1>1 DEF CommandInv, IndexVocabularies
  <1>3. /\ Tables' /\ There(Drawn("vocabulary"))'
        /\ \A others \in SUBSET Records : There(others) => There(others)'
    BY <1>2, TabledRows DEF Kinds
  <1>4. Progress'
    BY <1>1, <1>2, <1>3, MadeSoFar
  <1>5. Sents' /\ Staged'
    <2>1. /\ DOMAIN sent' = Records
          /\ \A r \in Drawn("vocabulary") : sent'[r] = [own |-> table'[r], sees |-> {}]
          /\ \A r \in Records : table'[r] = NoRecord => sent'[r] = NoEntry
          /\ \A q \in OfKind["document_request"] : sent'[q] = sent[q]
      BY <1>2, IndexedAsMade
    <2>. QED BY <1>1, <1>2, <2>1 DEF Sents, BareIn, Staged
  <1>. QED BY <1>2, <1>3, <1>4, <1>5 DEF CommandInv

LEMMA LocationKeeps ==
    ASSUME CommandInv, CreateLocation
    PROVE  CommandInv'
  <1>1. step \in 0 .. 21 /\ step = 3
    BY Positions DEF CommandInv, CreateLocation
  <1>2. /\ Tables /\ Sents
        /\ step' = 4 /\ table' = Tabled(Drawn("location")) /\ sent' = IndexedNow(table', Drawn("location"))
    BY <1>1 DEF CommandInv, CreateLocation
  <1>3. /\ Tables' /\ There(Drawn("location"))'
        /\ \A others \in SUBSET Records : There(others) => There(others)'
        /\ \A r \in Records \ Drawn("location") : table'[r] = table[r]
    BY <1>2, TabledRows DEF Kinds
  <1>4. Progress'
    BY <1>1, <1>2, <1>3, MadeSoFar
  <1>5. Drawn("vocabulary") \subseteq Records \ Drawn("location")
    BY OtherKinds DEF Kinds
  <1>6. Sents' /\ Staged'
    <2>1. /\ DOMAIN sent' = Records
          /\ \A r \in Drawn("location") : sent'[r] = [own |-> table'[r], sees |-> {}]
          /\ \A r \in Records \ Drawn("location") : sent'[r] = sent[r]
          /\ \A r \in Records : table'[r] = NoRecord => sent'[r] = NoEntry
          /\ \A q \in OfKind["document_request"] : sent'[q] = sent[q]
      BY <1>2, IndexedAsMade
    <2>. QED BY <1>1, <1>2, <1>3, <1>5, <2>1 DEF Sents, BareIn, Staged
  <1>. QED BY <1>2, <1>3, <1>4, <1>6 DEF CommandInv

LEMMA PatronsKeep ==
    ASSUME CommandInv, IndexPatrons
    PROVE  CommandInv'
  <1>1. step \in 0 .. 21 /\ step = 4
    BY Positions DEF CommandInv, IndexPatrons
  <1>2. /\ Tables /\ Sents /\ Progress
        /\ step' = 5 /\ table' = table /\ sent' = IndexedNow(table, Drawn("patron"))
    BY <1>1 DEF CommandInv, IndexPatrons
  <1>3. Tables' /\ Progress' /\ Staged'
    BY <1>1, <1>2 DEF Tables, Progress, There, Staged
  <1>4. \A r \in Drawn("patron") : KindOf[r] = "patron" /\ r \in Records
    BY DrawnType DEF Kinds
  <1>5. /\ DOMAIN sent' = Records
        /\ \A r \in Drawn("patron") : sent'[r] = [own |-> table[r], sees |-> {}]
        /\ \A r \in Records \ Drawn("patron") : sent'[r] = sent[r]
    BY <1>2, <1>4, BareEntries DEF IndexedNow
  <1>6. There(Drawn("patron"))
    BY <1>1, <1>2 DEF Progress
  <1>7. /\ Drawn("vocabulary") \subseteq Records \ Drawn("patron")
        /\ Drawn("location") \subseteq Records \ Drawn("patron")
    BY OtherKinds DEF Kinds
  <1>8. \A q \in OfKind["document_request"] : sent'[q] = sent[q]
    BY <1>5, DocumentRequestsAreRecords DEF Kinds
  <1>9. Sents'
    BY <1>1, <1>2, <1>5, <1>6, <1>7, <1>8 DEF Sents, BareIn, There
  <1>. QED BY <1>2, <1>3, <1>9 DEF CommandInv

LEMMA RelationsKeep ==
    ASSUME CommandInv, PersistRelations
    PROVE  CommandInv'
  <1>1. step \in 0 .. 21 /\ step = 11
    BY Positions DEF CommandInv, PersistRelations
  <1>2. /\ Tables /\ Sents /\ Progress
        /\ step' = 12 /\ table' = table /\ sent' = sent
    BY <1>1 DEF CommandInv, PersistRelations
  <1>3. Tables' /\ Progress' /\ Staged' /\ Sents'
    BY <1>1, <1>2 DEF Tables, Progress, There, Staged, Sents, BareIn
  <1>. QED BY <1>2, <1>3 DEF CommandInv

-----------------------------------------------------------------------------
(* The setup command: the stages.                                          *)

\* Entries depend on the tables, the relations, the events and the pool only.
LEMMA SameEntries ==
    ASSUME UNCHANGED <<related, recorded, pool>>
    PROVE  \A r, c, reads, f : Entry(r, c, reads, f)' = Entry(r, c, reads, f)
  BY DEF Entry, Shown, DocumentRelations, SeriesRelations, LoanStats

LEMMA SameRounds ==
    ASSUME UNCHANGED <<table, related, recorded, pool>>
    PROVE  /\ Bare' = Bare /\ Looked' = Looked
           /\ Settled(table)' = Settled(table)
  <1>1. \A t, f : Round(t, f)' = Round(t, f)
    BY SameEntries DEF Round, Indexed
  <1>2. Bare' = Bare
    BY DEF Bare, Indexed
  <1>3. Looked' = Looked
    BY <1>1, <1>2 DEF Looked
  <1>4. Settled(table) = Round(table, Round(table, Looked))
    BY DEF Settled, Looked, Bare
  <1>5. Settled(table)' = Round(table, Round(table, Looked))'
    BY DEF Settled, Looked, Bare
  <1>. QED BY <1>1, <1>2, <1>3, <1>4, <1>5

\* What a stage leaves, whichever.
LEMMA StageKeeps ==
    ASSUME CommandInv, step \in 17 .. 20, NEW name, NEW batch \in SUBSET Records,
           IndexStage(name, batch), There(batch),
           step = 20 \/ \A r \in batch : KindOf[r] # "document_request"
    PROVE  /\ step' = step + 1 /\ table' = table
           /\ Tables' /\ Progress' /\ Sents'
           /\ UNCHANGED <<related, recorded, pool>>
           /\ visible' = sent'
           /\ \A r \in batch : sent'[r] = Entry(r, table[r], table, visible)
           /\ \A r \in Records \ batch : sent'[r] = sent[r]
  <1>1. /\ Tables /\ Progress /\ Sents
        /\ step' = step + 1 /\ table' = table /\ sent' = IndexedNow(table, batch)
        /\ visible' = sent' /\ UNCHANGED <<related, recorded, pool>>
    BY DEF CommandInv, IndexStage
  <1>2. /\ DOMAIN sent' = Records
        /\ \A r \in batch : sent'[r] = Entry(r, table[r], table, visible)
        /\ \A r \in Records \ batch : sent'[r] = sent[r]
    BY <1>1 DEF IndexedNow
  <1>3. Tables' /\ Progress'
    BY <1>1 DEF Tables, Progress, There
  <1>4. \A r \in Records : table[r] = NoRecord => sent'[r] = NoEntry
    BY <1>1, <1>2 DEF There, Sents
  <1>5. ASSUME NEW k \in {"vocabulary", "location", "patron"}
        PROVE  \A r \in Drawn(k) : sent'[r] = [own |-> table[r], sees |-> {}]
    <2>1. \A r \in Drawn(k) : KindOf[r] = k /\ r \in Records
      BY DrawnType DEF Kinds
    <2>2. BareIn(Drawn(k))
      BY <1>1 DEF Sents
    <2>. QED BY <1>2, <2>1, <2>2, BareEntries DEF BareIn
  <1>6. step' < 21 => \A q \in OfKind["document_request"] : sent'[q] = NoEntry
    BY <1>1, <1>2, DocumentRequestsAreRecords DEF Sents
  <1>7. Sents'
    BY <1>1, <1>2, <1>4, <1>5, <1>6 DEF Sents, BareIn
  <1>. QED BY <1>1, <1>2, <1>3, <1>7

\* The records there are once all generators have run.
LEMMA AllDrawn ==
    ASSUME CommandInv, step \in 17 .. 21
    PROVE  /\ \A k \in Kinds \ {"files"} : There(Drawn(k))
           /\ \A r \in Records : table[r] # NoRecord =>
                  r \in Demo /\ KindOf[r] # "files" /\ r \in Drawn(KindOf[r])
           /\ \A r \in Records : Indexed(table, r) <=> table[r] # NoRecord
  <1>1. Tables /\ Progress
    BY DEF CommandInv
  <1>2. There(Drawn("provider"))
    BY <1>1 DEF Progress, There
  <1>3. \A k \in Kinds \ {"files"} : There(Drawn(k))
    BY <1>1, <1>2 DEF Progress, Kinds
  <1>4. \A r \in Records : table[r] # NoRecord => r \in Demo /\ KindOf[r] # "files"
    BY <1>1 DEF Tables
  <1>5. \A r \in Demo : r \in Drawn(KindOf[r])
    BY DrawnType, DemoAssumption, KindOfAssumption
  <1>. QED BY <1>3, <1>4, <1>5 DEF Indexed

LEMMA StageOneKeeps ==
    ASSUME CommandInv, IndexStage("stage_1", Stages[1])
    PROVE  CommandInv'
  <1>. DEFINE batch == Drawn("internal_location") \cup Drawn("series") \cup Drawn("loan")
  <1>1. step \in 0 .. 21 /\ step = 17
    BY Positions DEF CommandInv, IndexStage
  <1>2. /\ batch \in SUBSET Records /\ There(batch) /\ Stages[1] = batch
        /\ \A k \in {"internal_location", "series", "loan"} : \A r \in Drawn(k) : KindOf[r] = k
    BY <1>1, AllDrawn, DrawnType DEF There, Stages, Kinds
  <1>kinds. \A r \in batch : KindOf[r] # "document_request"
    BY <1>2 DEF Kinds
  <1>3. /\ step' = 18 /\ table' = table
        /\ Tables' /\ Progress' /\ Sents'
        /\ UNCHANGED <<related, recorded, pool>>
        /\ visible' = sent'
        /\ \A r \in batch : sent'[r] = Entry(r, table[r], table, visible)
        /\ \A r \in Records \ batch : sent'[r] = sent[r]
    <2>. HIDE DEF batch
    <2>. QED BY <1>1, <1>2, <1>kinds, StageKeeps
  <1>4. /\ Bare' = Bare
        /\ \A r, c, reads, f : Entry(r, c, reads, f)' = Entry(r, c, reads, f)
    BY <1>3, SameRounds, SameEntries
  <1>5. LoansShow(sent)'
    <2>. SUFFICES ASSUME NEW l \in OfKind["loan"]
                  PROVE  IF table[l] = NoRecord THEN sent'[l] = NoEntry
                         ELSE \E h : sent'[l] = Entry(l, table[l], table, h)
      BY <1>3, <1>4 DEF LoansShow
    <2>1. l \in Records /\ KindOf[l] = "loan"
      BY DEF OfKind, Kinds
    <2>2. CASE table[l] = NoRecord
      BY <1>3, <2>1, <2>2 DEF Sents
    <2>3. CASE table[l] # NoRecord
      <3>1. l \in Drawn("loan")
        BY <1>1, <2>1, <2>3, AllDrawn
      <3>. QED BY <1>3, <2>3, <3>1
    <2>. QED BY <2>2, <2>3
  <1>6. \A r \in Drawn("internal_location") \cup Drawn("series") :
            sent'[r] = Entry(r, table[r], table, Bare)
    BY <1>2, <1>3, FixedEntries DEF Fixed, Kinds
  <1>7. Staged'
    BY <1>3, <1>4, <1>5, <1>6 DEF Staged, FixedShow
  <1>. QED BY <1>3, <1>7 DEF CommandInv

LEMMA LookedShows ==
    ASSUME CommandInv, step \in 17 .. 21
    PROVE  /\ LoansShow(Looked) /\ LoansShow(Round(table, Looked))
           /\ \A r \in Records : table[r] = NoRecord => Round(table, Looked)[r] = NoEntry
           /\ \A r \in Records : table[r] # NoRecord =>
                  Round(table, Looked)[r] = Entry(r, table[r], table, Looked)
  <1>1. /\ \A r \in Records : Indexed(table, r) <=> table[r] # NoRecord
        /\ OfKind["loan"] \subseteq Records
    BY AllDrawn DEF OfKind, Kinds
  <1>2. ASSUME NEW f
        PROVE  /\ LoansShow(Round(table, f))
               /\ \A r \in Records : table[r] = NoRecord => Round(table, f)[r] = NoEntry
               /\ \A r \in Records : table[r] # NoRecord =>
                      Round(table, f)[r] = Entry(r, table[r], table, f)
    BY <1>1 DEF LoansShow, Round
  <1>. QED BY <1>2 DEF Looked

LEMMA StageTwoKeeps ==
    ASSUME CommandInv, IndexStage("stage_2", Stages[2])
    PROVE  CommandInv'
  <1>. DEFINE batch == Drawn("eitem") \cup Drawn("item")
  <1>1. step \in 0 .. 21 /\ step = 18
    BY Positions DEF CommandInv, IndexStage
  <1>2. /\ batch \in SUBSET Records /\ There(batch) /\ Stages[2] = batch
        /\ \A k \in Kinds : Drawn(k) \subseteq Records /\ \A r \in Drawn(k) : KindOf[r] = k
    BY <1>1, AllDrawn, DrawnType DEF There, Stages, Kinds
  <1>kinds. \A r \in batch : KindOf[r] # "document_request"
    BY <1>2 DEF Kinds
  <1>3. /\ step' = 19 /\ table' = table
        /\ Tables' /\ Progress' /\ Sents'
        /\ UNCHANGED <<related, recorded, pool>>
        /\ visible' = sent'
        /\ \A r \in batch : sent'[r] = Entry(r, table[r], table, visible)
        /\ \A r \in Records \ batch : sent'[r] = sent[r]
    <2>. HIDE DEF batch
    <2>. QED BY <1>1, <1>2, <1>kinds, StageKeeps
  <1>4. /\ Bare' = Bare /\ Looked' = Looked
        /\ \A r, c, reads, f : Entry(r, c, reads, f)' = Entry(r, c, reads, f)
    BY <1>3, SameRounds, SameEntries
  <1>5. /\ visible = sent /\ LoansShow(sent)
        /\ FixedShow(Drawn("internal_location") \cup Drawn("series"))
    BY <1>1 DEF CommandInv, Staged
  <1>6. \A k \in {"internal_location", "series", "loan"} : Drawn(k) \subseteq Records \ batch
    BY <1>2 DEF Kinds
  <1>7. LoansShow(sent)'
    <2>. SUFFICES ASSUME NEW l \in OfKind["loan"]
                  PROVE  IF table[l] = NoRecord THEN sent'[l] = NoEntry
                         ELSE \E h : sent'[l] = Entry(l, table[l], table, h)
      BY <1>3, <1>4 DEF LoansShow
    <2>1. l \in Records \ batch
      BY <1>2 DEF OfKind, Kinds
    <2>. QED BY <1>3, <1>5, <2>1 DEF LoansShow
  <1>8. \A i \in Drawn("item") : sent'[i] = Entry(i, table[i], table, Looked)
    <2>1. LoansAlike(visible, Looked)
      BY <1>1, <1>5, LookedShows, LoansShowAlike
    <2>. QED BY <1>2, <1>3, <2>1, ItemEntries DEF Kinds
  <1>9. \A r \in Drawn("eitem") : sent'[r] = Entry(r, table[r], table, Bare)
    BY <1>2, <1>3, FixedEntries DEF Fixed, Kinds
  <1>10. \A r \in Drawn("internal_location") \cup Drawn("series") :
            sent'[r] = Entry(r, table[r], table, Bare)
    BY <1>3, <1>5, <1>6 DEF FixedShow
  <1>11. Staged'
    BY <1>3, <1>4, <1>7, <1>8, <1>9, <1>10 DEF Staged, FixedShow, ItemsShow
  <1>. QED BY <1>3, <1>11 DEF CommandInv

LEMMA StageThreeKeeps ==
    ASSUME CommandInv, IndexStage("stage_3", Stages[3])
    PROVE  CommandInv'
  <1>. DEFINE batch == (Drawn("provider") \ Vendors) \cup Drawn("borrowing_request")
  <1>1. step \in 0 .. 21 /\ step = 19
    BY Positions DEF CommandInv, IndexStage
  <1>2. /\ batch \in SUBSET Records /\ There(batch) /\ Stages[3] = batch
        /\ \A k \in Kinds : Drawn(k) \subseteq Records /\ \A r \in Drawn(k) : KindOf[r] = k
    BY <1>1, AllDrawn, DrawnType DEF There, Stages, Kinds
  <1>kinds. \A r \in batch : KindOf[r] # "document_request"
    BY <1>2 DEF Kinds
  <1>3. /\ step' = 20 /\ table' = table
        /\ Tables' /\ Progress' /\ Sents'
        /\ UNCHANGED <<related, recorded, pool>>
        /\ visible' = sent'
        /\ \A r \in batch : sent'[r] = Entry(r, table[r], table, visible)
        /\ \A r \in Records \ batch : sent'[r] = sent[r]
    <2>. HIDE DEF batch
    <2>. QED BY <1>1, <1>2, <1>kinds, StageKeeps
  <1>4. /\ Bare' = Bare /\ Looked' = Looked
        /\ \A r, c, reads, f : Entry(r, c, reads, f)' = Entry(r, c, reads, f)
    BY <1>3, SameRounds, SameEntries
  <1>5. /\ visible = sent /\ LoansShow(sent) /\ ItemsShow /\ FixedShow(Drawn("eitem"))
        /\ FixedShow(Drawn("internal_location") \cup Drawn("series"))
    BY <1>1 DEF CommandInv, Staged
  <1>6. \A k \in {"internal_location", "series", "loan", "item", "eitem"} :
            Drawn(k) \subseteq Records \ batch
    BY <1>2 DEF Kinds
  <1>7. LoansShow(sent)'
    <2>. SUFFICES ASSUME NEW l \in OfKind["loan"]
                  PROVE  IF table[l] = NoRecord THEN sent'[l] = NoEntry
                         ELSE \E h : sent'[l] = Entry(l, table[l], table, h)
      BY <1>3, <1>4 DEF LoansShow
    <2>1. l \in Records \ batch
      BY <1>2 DEF OfKind, Kinds
    <2>. QED BY <1>3, <1>5, <2>1 DEF LoansShow
  <1>8. \A i \in Drawn("item") : sent'[i] = Entry(i, table[i], table, Looked)
    BY <1>3, <1>5, <1>6 DEF ItemsShow
  <1>9. \A r \in Drawn("internal_location") \cup Drawn("series") \cup Drawn("eitem") :
            sent'[r] = Entry(r, table[r], table, Bare)
    BY <1>3, <1>5, <1>6 DEF FixedShow
  <1>10. \A r \in batch : sent'[r] = Entry(r, table[r], table, Bare)
    BY <1>2, <1>3, FixedEntries DEF Fixed, Kinds
  <1>11. Staged'
    BY <1>3, <1>4, <1>7, <1>8, <1>9, <1>10 DEF Staged, FixedShow, ItemsShow
  <1>. QED BY <1>3, <1>11 DEF CommandInv

\* What searches find before the last stage is as good as all there is to find.
LEMMA LastStageFinds ==
    ASSUME CommandInv, step = 20
    PROVE  /\ Alike(visible, Round(table, Looked))
           /\ OrdersUnnamed(visible) /\ OrdersUnnamed(Round(table, Looked))
  <1>. DEFINE g == Round(table, Looked)
  <1>1. /\ Tables /\ Sents
        /\ visible = sent /\ LoansShow(visible) /\ ItemsShow /\ FixedShow(Drawn("eitem"))
        /\ FixedShow((Drawn("provider") \ Vendors) \cup Drawn("borrowing_request"))
        /\ BareIn(Drawn("vocabulary"))
    BY DEF CommandInv, Staged, Sents
  <1>2. /\ \A r \in Records : table[r] # NoRecord => r \in Drawn(KindOf[r])
        /\ \A k \in Kinds \ {"files"} : There(Drawn(k))
    BY AllDrawn
  <1>3. /\ LoansShow(g)
        /\ \A r \in Records : table[r] = NoRecord => g[r] = NoEntry
        /\ \A r \in Records : table[r] # NoRecord => g[r] = Entry(r, table[r], table, Looked)
    BY LookedShows
  <1>. HIDE DEF g
  <1>4. LoansAlike(visible, g)
    BY <1>1, <1>3, LoansShowAlike
  <1>5. ASSUME NEW k \in {"item", "eitem", "borrowing_request", "vocabulary"}, NEW r \in OfKind[k]
        PROVE  visible[r] = g[r]
    <2>1. r \in Records /\ KindOf[r] = k
      BY <1>5 DEF OfKind, Kinds
    <2>2. CASE table[r] = NoRecord
      BY <1>1, <1>3, <2>1, <2>2 DEF Sents
    <2>3. CASE table[r] # NoRecord
      <3>1. r \in Drawn(k)
        BY <1>2, <2>1, <2>3
      <3>2. visible[r] = Entry(r, table[r], table, Looked)
        <4>1. CASE k = "item"
          BY <1>1, <3>1, <4>1 DEF ItemsShow
        <4>2. CASE k \in {"eitem", "borrowing_request"}
          <5>1. visible[r] = Entry(r, table[r], table, Bare)
            BY <1>1, <3>1, <4>2 DEF FixedShow
          <5>. QED BY <2>1, <4>2, <5>1, FixedEntries DEF Fixed, Kinds
        <4>3. CASE k = "vocabulary"
          BY <1>1, <2>1, <3>1, <4>3, BareEntries DEF BareIn
        <4>. QED BY <4>1, <4>2, <4>3
      <3>. QED BY <1>3, <2>1, <2>3, <3>2
    <2>. QED BY <2>2, <2>3
  <1>6. Alike(visible, g)
    BY <1>4, <1>5 DEF Alike
  <1>7. \A q \in OfKind["document_request"] : q \in Records /\ KindOf[q] = "document_request"
    BY DEF OfKind, Kinds
  <1>8. \A q \in OfKind["document_request"] : Named(table[q], "order") = {}
    BY <1>1, <1>7 DEF Tables, Row, Named, NoRecord
  <1>9. OrdersUnnamed(g)
    <2>1. \A q \in OfKind["document_request"] : g[q] # NoEntry => g[q].own = table[q]
      BY <1>3, <1>7, EntryThere
    <2>. QED BY <1>8, <2>1 DEF OrdersUnnamed, Named
  <1>10. OrdersUnnamed(visible)
    <2>1. \A q \in OfKind["document_request"] : visible[q] = NoEntry
      BY <1>1 DEF Sents
    <2>. QED BY <1>8, <2>1 DEF OrdersUnnamed
  <1>. QED BY <1>6, <1>9, <1>10 DEF g

LEMMA StageFourKeeps ==
    ASSUME CommandInv, IndexStage("stage_4", Stages[4])
    PROVE  CommandInv'
  <1>. DEFINE batch == Drawn("document") \cup Drawn("document_request") \cup Drawn("loan") \cup
                          Drawn("item") \cup Vendors \cup Drawn("order")
              g == Round(table, Looked)
  <1>1. step \in 0 .. 21 /\ step = 20
    BY Positions DEF CommandInv, IndexStage
  <1>2. /\ \A k \in Kinds : Drawn(k) \subseteq Records /\ \A r \in Drawn(k) : KindOf[r] = k
        /\ \A k \in Kinds \ {"files"} : There(Drawn(k))
        /\ Vendors \subseteq Drawn("provider")
    BY <1>1, AllDrawn, DrawnType, DemoAssumption DEF Kinds
  <1>3. batch \in SUBSET Records /\ There(batch) /\ Stages[4] = batch
    BY <1>2 DEF There, Stages, Kinds
  <1>4. /\ step' = 21 /\ table' = table
        /\ Tables' /\ Progress' /\ Sents'
        /\ UNCHANGED <<related, recorded, pool>>
        /\ visible' = sent'
        /\ \A r \in batch : sent'[r] = Entry(r, table[r], table, visible)
        /\ \A r \in Records \ batch : sent'[r] = sent[r]
    <2>. HIDE DEF batch
    <2>. QED BY <1>1, <1>3, StageKeeps
  <1>5. /\ Settled(table)' = Round(table, g)
        /\ \A r, c, reads, f : Entry(r, c, reads, f)' = Entry(r, c, reads, f)
        /\ Bare' = Bare /\ Looked' = Looked
    <2>1. Settled(table) = Round(table, g)
      BY DEF Settled, Looked, Bare
    <2>. QED BY <1>4, <2>1, SameRounds, SameEntries
  <1>6. /\ Tables /\ Sents
        /\ visible = sent /\ LoansShow(sent) /\ ItemsShow /\ FixedShow(Drawn("eitem"))
        /\ FixedShow(Drawn("internal_location") \cup Drawn("series"))
        /\ FixedShow((Drawn("provider") \ Vendors) \cup Drawn("borrowing_request"))
        /\ BareIn(Drawn("vocabulary")) /\ BareIn(Drawn("location")) /\ BareIn(Drawn("patron"))
    BY <1>1 DEF CommandInv, Staged, Sents
  <1>7. /\ \A r \in Records : Indexed(table, r) <=> table[r] # NoRecord
        /\ \A r \in Records : table[r] # NoRecord => KindOf[r] # "files" /\ r \in Drawn(KindOf[r])
    BY <1>1, AllDrawn
  <1>8. ASSUME NEW r \in Records, table[r] = NoRecord
        PROVE  sent'[r] = NoEntry
    BY <1>4, <1>8 DEF Sents
  <1>9. ASSUME NEW r \in Records, table[r] # NoRecord
        PROVE  sent'[r] = Entry(r, table[r], table, g)
    <2>. HIDE DEF g
    <2>1. r \in Drawn(KindOf[r]) /\ KindOf[r] \in Kinds \ {"files"}
      BY <1>7, <1>9, KindOfAssumption
    <2>2. CASE r \in batch
      <3>1. Entry(r, table[r], table, visible) = Entry(r, table[r], table, g)
        BY <1>1, LastStageFinds, AlikeEntries DEF g
      <3>. QED BY <1>4, <2>2, <3>1
    <2>3. CASE r \notin batch
      <3>1. sent'[r] = sent[r]
        BY <1>4, <2>3
      <3>2. CASE KindOf[r] \in {"vocabulary", "location", "patron"}
        <4>1. sent[r] = [own |-> table[r], sees |-> {}]
          BY <1>6, <2>1, <3>2 DEF BareIn
        <4>. QED BY <3>1, <3>2, <4>1, BareEntries
      <3>3. CASE KindOf[r] \in {"internal_location", "series", "eitem", "provider", "borrowing_request"}
        <4>1. sent[r] = Entry(r, table[r], table, Bare)
          BY <1>6, <2>1, <2>3, <3>3 DEF FixedShow
        <4>. QED BY <3>1, <3>3, <4>1, FixedEntries DEF Fixed, Kinds
      <3>. QED BY <2>1, <2>3, <3>2, <3>3 DEF Kinds
    <2>. QED BY <2>2, <2>3
  <1>10. sent' = Round(table, g)
    <2>. HIDE DEF g
    <2>1. sent' = [r \in Records |-> sent'[r]]
      BY DEF IndexStage, IndexedNow
    <2>2. \A r \in Records :
              sent'[r] = IF Indexed(table, r) THEN Entry(r, table[r], table, g) ELSE NoEntry
      BY <1>7, <1>8, <1>9
    <2>3. [r \in Records |-> sent'[r]] =
              [r \in Records |-> IF Indexed(table, r) THEN Entry(r, table[r], table, g) ELSE NoEntry]
      BY <2>2, Zenon
    <2>. QED BY <2>1, <2>3 DEF Round
  <1>11. Staged'
    <2>1. LoansShow(sent)'
      <3>. SUFFICES ASSUME NEW l \in OfKind["loan"]
                    PROVE  IF table[l] = NoRecord THEN sent'[l] = NoEntry
                           ELSE \E h : sent'[l] = Entry(l, table[l], table, h)
        BY <1>4, <1>5 DEF LoansShow
      <3>1. l \in Records
        BY DEF OfKind, Kinds
      <3>. QED BY <1>8, <1>9, <3>1
    <2>2. \A i \in Drawn("item") : sent'[i] = Entry(i, table[i], table, Looked)
      <3>1. LoansAlike(visible, Looked)
        BY <1>1, <1>6, LookedShows, LoansShowAlike
      <3>. QED BY <1>2, <1>4, <3>1, ItemEntries DEF Kinds
    <2>3. /\ \A k \in {"internal_location", "series", "eitem", "borrowing_request"} :
                 Drawn(k) \subseteq Records \ batch
          /\ Drawn("provider") \ Vendors \subseteq Records \ batch
      BY <1>2 DEF Kinds
    <2>4. \A r \in Drawn("internal_location") \cup Drawn("series") \cup Drawn("eitem") \cup
                   (Drawn("provider") \ Vendors) \cup Drawn("borrowing_request") :
              sent'[r] = Entry(r, table[r], table, Bare)
      BY <1>4, <1>6, <2>3 DEF FixedShow
    <2>. QED BY <1>4, <1>5, <1>10, <2>1, <2>2, <2>4 DEF Staged, FixedShow, ItemsShow
  <1>. QED BY <1>4, <1>11 DEF CommandInv

-----------------------------------------------------------------------------
LEMMA CommandKeeps ==
    ASSUME CommandInv, Command
    PROVE  CommandInv'
  <1>1. \/ Setup \/ CreateUsers \/ IndexVocabularies \/ CreateLocation \/ IndexPatrons
        \/ Generated \/ PersistRelations
        \/ IndexStage("stage_1", Stages[1]) \/ IndexStage("stage_2", Stages[2])
        \/ IndexStage("stage_3", Stages[3]) \/ IndexStage("stage_4", Stages[4])
    BY DEF Command, Generated
  <1>. QED
    BY <1>1, SetupKeeps, UsersKeep, VocabulariesKeep, LocationKeeps, PatronsKeep, GeneratedKeeps,
       RelationsKeep, StageOneKeeps, StageTwoKeeps, StageThreeKeeps, StageFourKeeps

LEMMA NextKeeps ==
    ASSUME CommandInv, [DemoNext]_demoVars
    PROVE  CommandInv'
  <1>1. CASE step = 0 /\ Next /\ UNCHANGED <<step, drawing>>
    BY <1>1 DEF CommandInv
  <1>2. CASE Command
    BY <1>2, CommandKeeps
  <1>3. CASE UNCHANGED demoVars
    <2>1. UNCHANGED <<table, sent, visible, related, recorded, pool, step>>
      BY <1>3 DEF demoVars, vars
    <2>2. /\ Bare' = Bare /\ Looked' = Looked /\ Settled(table)' = Settled(table)
          /\ \A r, c, reads, f : Entry(r, c, reads, f)' = Entry(r, c, reads, f)
      BY <2>1, SameRounds, SameEntries
    <2>3. Tables' = Tables /\ Progress' = Progress /\ Sents' = Sents
      BY <2>1 DEF Tables, Progress, Sents, There, BareIn
    <2>4. /\ LoansShow(sent)' = LoansShow(sent) /\ ItemsShow' = ItemsShow
          /\ \A rs : FixedShow(rs)' = FixedShow(rs)
      BY <2>1, <2>2 DEF LoansShow, ItemsShow, FixedShow
    <2>5. Staged => Staged'
      BY <2>1, <2>2, <2>4 DEF Staged
    <2>. QED BY <2>1, <2>3, <2>5 DEF CommandInv
  <1>. QED BY <1>1, <1>2, <1>3 DEF DemoNext

\* When the command is done, what searches find is what the tables say,
\* whatever its generators drew and in whatever state it found the system: a
\* record indexed before another it shows is either given nothing by searches,
\* or indexed again.  (default_invenio_app_ils demo, invenio_app_ils/cli.py)
THEOREM DemoIsRight == DemoSpec => []DemoEntriesAreRight
  <1>1. DemoInit => CommandInv
    BY DEF DemoInit, CommandInv
  <1>2. CommandInv /\ [DemoNext]_demoVars => CommandInv'
    BY NextKeeps
  <1>3. CommandInv => DemoEntriesAreRight
    <2>. SUFFICES ASSUME CommandInv, At("done") PROVE visible = Settled(table)
      BY DEF DemoEntriesAreRight
    <2>1. step = 21
      BY Positions DEF CommandInv
    <2>. QED BY <2>1 DEF CommandInv, Staged
  <1>. QED BY <1>1, <1>2, <1>3, PTL DEF DemoSpec

-----------------------------------------------------------------------------
(* Races of jobs: what an entry was made of.                               *)

LEMMA SettledOwn ==
    ASSUME NEW t
    PROVE  /\ DOMAIN Settled(t) = Records
           /\ \A r \in Records : IF Indexed(t, r) THEN Settled(t)[r].own = t[r]
                                 ELSE Settled(t)[r] = NoEntry
  <1>1. \A f : /\ DOMAIN Round(t, f) = Records
               /\ \A r \in Records : IF Indexed(t, r) THEN Round(t, f)[r].own = t[r]
                                     ELSE Round(t, f)[r] = NoEntry
    BY EntryThere DEF Round
  <1>2. \E f : Settled(t) = Round(t, f)
    BY DEF Settled
  <1>. QED BY <1>1, <1>2

\* c is what the table has of r, or older
Older(c, r) == c.version \in Int /\ (c = table[r] \/ c.version < table[r].version)

\* r is not in the table, and will not be
Gone(r) == table[r] = NoRecord /\ After[r] = NoRecord

JobShape(j) ==
    j = [x \in {"task", "of", "as", "waits", "list", "todo", "held", "made"} |-> j[x]]

\* what a job holds is old at worst, and it makes entries of that
JobSound(j) ==
    /\ \A x \in DOMAIN j.held \cap Records : Gone(x) \/ Older(j.held[x], x)
    /\ \A n \in DOMAIN j.todo : j.todo[n] \subseteq DOMAIN j.held
    /\ j.made # <<>> => j.made[1] \in DOMAIN j.held /\ j.made[2].own = j.held[j.made[1]]

\* j is going to write what the table has of r
Brings(j, r) ==
    /\ r \in DOMAIN j.held /\ j.held[r] = table[r]
    /\ Due(j) = {r}
    /\ j.made # <<>> => j.made[1] = r

RowsSound ==
    /\ DOMAIN table = Records
    /\ \A r \in Records : table[r] \in {NoRecord, Start[r], After[r]}

EntriesSound ==
    /\ DOMAIN sent = Records
    /\ \A r \in Records : sent[r] = NoEntry \/ Gone(r) \/ Older(sent[r].own, r)

Brought ==
    \A r \in Records : Indexed(table, r) =>
        sent[r].own = table[r] \/ \E j \in jobs : Brings(j, r)

RaceInv ==
    /\ failures \in Nat /\ RowsSound /\ EntriesSound
    /\ \A j \in jobs : JobShape(j) /\ JobSound(j)
    /\ failures = 0 => Brought

LEMMA TableVersions ==
    ASSUME RowsSound, NEW r \in Records
    PROVE  table[r].version \in Int /\ Older(table[r], r)
  <1>1. NoRecord.version \in Int
    BY DEF NoRecord
  <1>. QED BY <1>1, VersionsAssumption DEF RowsSound, Older

LEMMA InitRace == Init => RaceInv
  <1>. SUFFICES ASSUME Init PROVE RaceInv
    OBVIOUS
  <1>1. RowsSound
    BY DEF Init, RowsSound
  <1>2. /\ sent = Settled(table) /\ jobs = {} /\ failures = 0
    BY DEF Init
  <1>3. DOMAIN sent = Records
        /\ \A r \in Records : IF Indexed(table, r) THEN sent[r].own = table[r]
                              ELSE sent[r] = NoEntry
    BY <1>2, SettledOwn
  <1>4. EntriesSound
    BY <1>1, <1>3, TableVersions DEF EntriesSound
  <1>5. Brought
    BY <1>3 DEF Brought
  <1>. QED BY <1>1, <1>2, <1>4, <1>5 DEF RaceInv

LEMMA SameDue ==
    ASSUME NEW i, NEW j, i.todo = j.todo
    PROVE  Due(i) = Due(j)
  BY DEF Due, Reached

LEMMA DueIsHeld ==
    ASSUME NEW j, JobSound(j)
    PROVE  Due(j) \subseteq DOMAIN j.held
  BY DEF Due, Reached, JobSound

LEMMA JobIsSound ==
    ASSUME NEW task, NEW r, NEW c, NEW waits
    PROVE  JobShape(Job(task, r, c, waits)) /\ JobSound(Job(task, r, c, waits))
  BY DEF Job, JobShape, JobSound

LEMMA RequestIs ==
    ASSUME NEW r, NEW c
    PROVE  /\ JobShape(Request(r, c))
           /\ DOMAIN Request(r, c).held = {r} /\ Request(r, c).held[r] = c
           /\ Request(r, c).todo = << {r} >> /\ Request(r, c).made = <<>>
           /\ Due(Request(r, c)) = {r}
  <1>. DEFINE j == Request(r, c)
  <1>1. /\ JobShape(j) /\ DOMAIN j.held = {r} /\ j.held[r] = c
        /\ j.todo = << {r} >> /\ j.made = <<>>
    BY JobIsSound DEF Request, JobShape, Job
  <1>. HIDE DEF j
  <1>2. Reached(j) = {1}
    BY <1>1 DEF Reached
  <1>3. Due(j) = {r}
    BY <1>1, <1>2 DEF Due
  <1>. QED BY <1>1, <1>3 DEF j

LEMMA FollowUpIsSound ==
    ASSUME NEW j, JobShape(j), JobSound(j), NEW x \in FollowUp(j)
    PROVE  JobShape(x) /\ JobSound(x)
  BY JobIsSound DEF FollowUp

\* Steps that leave the table as it is.
LEMMA SameRows ==
    ASSUME UNCHANGED table
    PROVE  /\ RowsSound' = RowsSound
           /\ \A c, r : Older(c, r)' = Older(c, r)
           /\ \A r : Gone(r)' = Gone(r) /\ Indexed(table, r)' = Indexed(table, r)
           /\ \A j : JobSound(j)' = JobSound(j)
           /\ \A j, r : Brings(j, r)' = Brings(j, r)
  BY DEF RowsSound, Older, Gone, Indexed, JobSound, Brings, Due, Reached

LEMMA ChangeRaces ==
    ASSUME RaceInv, NEW r \in Records, Change(r)
    PROVE  RaceInv'
  <1>1. /\ table[r] = Start[r] /\ After[r] # NoRecord
        /\ table' = [table EXCEPT ![r] = After[r]]
        /\ jobs' = jobs \cup {IF KindOf[r] = "files" THEN Job("files", r, After[r], Unrefreshed(sent))
                              ELSE Request(r, After[r])}
        /\ UNCHANGED <<sent, failures>>
    BY DEF Change
  <1>2. RowsSound /\ EntriesSound
    BY DEF RaceInv
  <1>3. /\ DOMAIN table' = Records /\ table'[r] = After[r]
        /\ \A x \in Records \ {r} : table'[x] = table[x]
    BY <1>1, <1>2 DEF RowsSound
  <1>4. RowsSound'
    BY <1>2, <1>3 DEF RowsSound
  <1>5. \A c : \A x \in Records : Gone(x) \/ Older(c, x) => Gone(x)' \/ Older(c, x)'
    <2>. SUFFICES ASSUME NEW x \in Records, NEW c, Gone(x) \/ Older(c, x)
                  PROVE  Gone(x)' \/ Older(c, x)'
      OBVIOUS
    <2>1. CASE x # r
      BY <1>3, <2>1 DEF Gone, Older
    <2>2. CASE x = r
      <3>1. Older(c, r)
        BY <1>1, <2>2 DEF Gone
      <3>. QED BY <1>1, <1>3, <2>2, <3>1, VersionsAssumption DEF Older
    <2>. QED BY <2>1, <2>2
  <1>6. EntriesSound'
    BY <1>1, <1>2, <1>5 DEF EntriesSound
  <1>7. \A j \in jobs : JobShape(j) /\ JobSound(j)'
    BY <1>5 DEF RaceInv, JobSound
  <1>req. PICK q : /\ q = Request(r, After[r])
                   /\ JobShape(q) /\ DOMAIN q.held = {r} /\ q.held[r] = After[r]
                   /\ q.todo = << {r} >> /\ q.made = <<>> /\ Due(q) = {r}
    BY RequestIs
  <1>8. ASSUME NEW j \in jobs' PROVE JobShape(j) /\ JobSound(j)'
    <2>1. Older(After[r], r)'
      BY <1>3, VersionsAssumption DEF Older
    <2>2. JobShape(q) /\ JobSound(q)'
      BY <1>req, <2>1 DEF JobSound
    <2>3. \A waits : LET n == Job("files", r, After[r], waits) IN JobShape(n) /\ JobSound(n)'
      BY DEF Job, JobShape, JobSound
    <2>. QED BY <1>1, <1>7, <1>req, <2>2, <2>3
  <1>9. ASSUME failures = 0 PROVE Brought'
    <2>. SUFFICES ASSUME NEW x \in Records, Indexed(table, x)'
                  PROVE  sent'[x].own = table'[x] \/ \E j \in jobs' : Brings(j, x)'
      BY DEF Brought
    <2>1. CASE x # r
      <3>1. Indexed(table, x)
        BY <1>3, <2>1 DEF Indexed
      <3>2. sent[x].own = table[x] \/ \E j \in jobs : Brings(j, x)
        BY <1>9, <3>1 DEF RaceInv, Brought
      <3>. QED BY <1>1, <1>3, <2>1, <3>2 DEF Brings, Due, Reached
    <2>2. CASE x = r
      <3>1. q \in jobs'
        BY <1>1, <1>req, <2>2 DEF Indexed
      <3>2. Brings(q, r)'
        BY <1>3, <1>req DEF Brings, Due, Reached
      <3>. QED BY <1>3, <2>2, <3>1, <3>2
    <2>. QED BY <2>1, <2>2
  <1>. QED BY <1>1, <1>4, <1>6, <1>8, <1>9 DEF RaceInv, JobShape

LEMMA DeleteRaces ==
    ASSUME RaceInv, NEW r \in Records, Delete(r)
    PROVE  RaceInv'
  <1>1. /\ After[r] = NoRecord
        /\ table' = [table EXCEPT ![r] = NoRecord]
        /\ sent' = [sent EXCEPT ![r] = NoEntry]
        /\ failures' = failures
    BY DEF Delete
  <1>2. \A j \in jobs' : j \in jobs \/ \E d, w : j = Job("index_document", d, table[d], w)
    BY DEF Delete
  <1>3. jobs \subseteq jobs'
    BY DEF Delete
  <1>4. RowsSound /\ EntriesSound
    BY DEF RaceInv
  <1>5. /\ DOMAIN table' = Records /\ table'[r] = NoRecord
        /\ \A x \in Records \ {r} : table'[x] = table[x]
        /\ DOMAIN sent' = Records /\ sent'[r] = NoEntry
        /\ \A x \in Records \ {r} : sent'[x] = sent[x]
    BY <1>1, <1>4 DEF RowsSound, EntriesSound
  <1>6. RowsSound'
    BY <1>4, <1>5 DEF RowsSound
  <1>7. \A c : \A x \in Records : Gone(x) \/ Older(c, x) => Gone(x)' \/ Older(c, x)'
    BY <1>1, <1>5 DEF Gone, Older
  <1>8. EntriesSound'
    BY <1>4, <1>5, <1>7 DEF EntriesSound
  <1>9. ASSUME NEW j \in jobs' PROVE JobShape(j) /\ JobSound(j)'
    <2>1. CASE j \in jobs
      BY <1>7, <2>1 DEF RaceInv, JobSound
    <2>2. ASSUME NEW d, NEW w, j = Job("index_document", d, table[d], w)
          PROVE  JobShape(j) /\ JobSound(j)'
      <3>1. j.held = <<>> /\ j.todo = <<>> /\ j.made = <<>>
        BY <2>2 DEF Job
      <3>. QED BY <2>2, <3>1, JobIsSound DEF JobSound
    <2>. QED BY <1>2, <2>1, <2>2
  <1>10. ASSUME failures = 0 PROVE Brought'
    <2>. SUFFICES ASSUME NEW x \in Records, Indexed(table, x)'
                  PROVE  sent'[x].own = table'[x] \/ \E j \in jobs' : Brings(j, x)'
      BY DEF Brought
    <2>1. x # r
      BY <1>5 DEF Indexed
    <2>2. Indexed(table, x)
      BY <1>5, <2>1 DEF Indexed
    <2>3. sent[x].own = table[x] \/ \E j \in jobs : Brings(j, x)
      BY <1>10, <2>2 DEF RaceInv, Brought
    <2>. QED BY <1>3, <1>5, <2>1, <2>3 DEF Brings, Due, Reached
  <1>. QED BY <1>1, <1>6, <1>8, <1>9, <1>10 DEF RaceInv, JobShape

\* What a job looks up it holds as the table has it.
LEMMA LookUpRaces ==
    ASSUME RaceInv, NEW j \in jobs, LookUp(j)
    PROVE  RaceInv'
  <1>. DEFINE steps == Referenced(j)
              found == UNION {steps[n] : n \in DOMAIN steps}
              next  == [j EXCEPT !.list = @ + 1, !.todo = steps, !.held = [r \in found |-> table[r]]]
  <1>1. /\ Due(j) = {} /\ j.made = <<>>
        /\ UNCHANGED <<table, sent, failures>>
    <2>1. Due(j) = {} /\ j.made = <<>> /\ UNCHANGED <<table, failures>>
      BY Zenon DEF LookUp
    <2>2. UNCHANGED sent
      BY Zenon DEF LookUp
    <2>. QED BY <2>1, <2>2
  <1>2. \/ jobs' = jobs \ {j}
        \/ jobs' = (jobs \ {j}) \cup FollowUp(next)
    BY Zenon DEF LookUp, Stop
  <1>3. RowsSound /\ JobShape(j)
    BY DEF RaceInv
  <1>4. JobShape(next) /\ JobSound(next)
    <2>. HIDE DEF steps
    <2>1. JobShape(next) /\ next.todo = steps /\ next.made = <<>>
          /\ next.held = [r \in found |-> table[r]]
      BY <1>1, <1>3 DEF JobShape
    <2>. HIDE DEF next
    <2>2. \A x \in found \cap Records : Older(table[x], x)
      BY <1>3, TableVersions
    <2>3. \A n \in DOMAIN steps : steps[n] \subseteq found
      OBVIOUS
    <2>. HIDE DEF found
    <2>. QED BY <2>1, <2>2, <2>3 DEF JobSound
  <1>. HIDE DEF next
  <1>5. \A x \in jobs' : JobShape(x) /\ JobSound(x)
    BY <1>2, <1>4, FollowUpIsSound DEF RaceInv
  <1>6. \A x \in jobs : x # j => x \in jobs'
    BY <1>2
  <1>7. \A r : ~ Brings(j, r)
    BY <1>1 DEF Brings
  <1>8. ASSUME failures = 0 PROVE Brought'
    BY <1>1, <1>6, <1>7, <1>8, SameRows DEF RaceInv, Brought
  <1>. QED BY <1>1, <1>5, <1>8, SameRows DEF RaceInv, EntriesSound, JobShape

\* The entry it makes is of what it holds.
LEMMA MakeRaces ==
    ASSUME RaceInv, NEW j \in jobs, Make(j)
    PROVE  RaceInv'
  <1>1. /\ j.made = <<>> /\ UNCHANGED <<table, sent, failures>>
    BY DEF Make
  <1>2. PICK r \in Due(j) : \E reads :
            jobs' = (jobs \ {j}) \cup
                    {[j EXCEPT !.made = <<r, Entry(r, j.held[r], reads, visible)>>]}
    BY DEF Make
  <1>reads. PICK reads :
            jobs' = (jobs \ {j}) \cup
                    {[j EXCEPT !.made = <<r, Entry(r, j.held[r], reads, visible)>>]}
    BY <1>2
  <1>3. PICK e : /\ e.own = j.held[r]
                 /\ jobs' = (jobs \ {j}) \cup {[j EXCEPT !.made = <<r, e>>]}
    <2>. DEFINE e == Entry(r, j.held[r], reads, visible)
    <2>1. e.own = j.held[r]
      BY EntryThere
    <2>2. jobs' = (jobs \ {j}) \cup {[j EXCEPT !.made = <<r, e>>]}
      BY <1>reads
    <2>. HIDE DEF e
    <2>. QED BY <2>1, <2>2
  <1>. DEFINE next == [j EXCEPT !.made = <<r, e>>]
  <1>4. JobShape(j) /\ JobSound(j)
    BY DEF RaceInv
  <1>5. JobShape(next) /\ next.made = <<r, e>> /\ next.todo = j.todo /\ next.held = j.held
    BY <1>4 DEF JobShape
  <1>6. next \in jobs' /\ \A x \in jobs' : x = next \/ x \in jobs
    BY <1>3
  <1>7. \A x \in jobs : x # j => x \in jobs'
    BY <1>3
  <1>. HIDE DEF next
  <1>8. JobSound(next)
    BY <1>3, <1>4, <1>5, DueIsHeld DEF JobSound
  <1>9. \A x : Brings(j, x) => Brings(next, x)
    <2>1. Due(next) = Due(j)
      BY <1>5, SameDue
    <2>. QED BY <1>1, <1>2, <1>5, <2>1 DEF Brings
  <1>10. \A x \in jobs' : JobShape(x) /\ JobSound(x)
    BY <1>5, <1>6, <1>8 DEF RaceInv
  <1>11. ASSUME failures = 0 PROVE Brought'
    BY <1>1, <1>6, <1>7, <1>9, <1>11, SameRows DEF RaceInv, Brought
  <1>. QED BY <1>1, <1>10, <1>11, SameRows DEF RaceInv, EntriesSound, JobShape

\* The version check refuses what is older than the entry there is.
LEMMA SendRaces ==
    ASSUME RaceInv, NEW j \in jobs, Send(j)
    PROVE  RaceInv'
  <1>. DEFINE r == j.made[1]
              e == j.made[2]
              left == [n \in DOMAIN j.todo |->
                          IF n \in Reached(j) THEN j.todo[n] \ {r} ELSE j.todo[n]]
              next == [j EXCEPT !.made = <<>>, !.todo = left]
  <1>1. j.made # <<>> /\ UNCHANGED <<table, failures>>
    BY Zenon DEF Send
  <1>2. JobShape(j) /\ JobSound(j) /\ RowsSound /\ EntriesSound
    BY DEF RaceInv
  <1>3. /\ r \in Records => Gone(r) \/ Older(e.own, r)
        /\ \A x : Brings(j, x) => x = r /\ e.own = table[x]
    BY <1>1, <1>2 DEF JobSound, Brings
  <1>4. JobShape(next) /\ JobSound(next)
    <2>1. JobShape(next) /\ next.todo = left /\ next.made = <<>> /\ next.held = j.held
      <3>. HIDE DEF left
      <3>. QED BY <1>2 DEF JobShape
    <2>2. DOMAIN left = DOMAIN j.todo /\ \A n \in DOMAIN left : left[n] \subseteq j.todo[n]
      OBVIOUS
    <2>. HIDE DEF next, left
    <2>. QED BY <1>2, <2>1, <2>2 DEF JobSound
  <1>5. CASE Accepted(r, e)
    <2>1. sent' = [sent EXCEPT ![r] = e] /\ jobs' = (jobs \ {j}) \cup FollowUp(next)
      BY <1>5, Zenon DEF Send
    <2>. HIDE DEF next, r, e
    <2>2. /\ DOMAIN sent' = Records
          /\ r \in Records => sent'[r] = e
          /\ \A x \in Records : x # r => sent'[x] = sent[x]
      BY <1>2, <2>1 DEF EntriesSound
    <2>3. EntriesSound'
      BY <1>1, <1>2, <1>3, <2>2, SameRows DEF EntriesSound
    <2>4. \A x \in jobs' : JobShape(x) /\ JobSound(x)
      BY <1>4, <2>1, FollowUpIsSound DEF RaceInv
    <2>5. \A x \in jobs : x # j => x \in jobs'
      BY <2>1
    <2>6. ASSUME failures = 0, NEW x \in Records, Indexed(table, x)
          PROVE  sent'[x].own = table[x] \/ \E i \in jobs' : Brings(i, x)
      <3>1. sent[x].own = table[x] \/ \E i \in jobs : Brings(i, x)
        BY <2>6 DEF RaceInv, Brought
      <3>2. CASE x # r
        BY <1>3, <2>2, <2>5, <3>1, <3>2
      <3>3. CASE x = r
        <4>1. sent'[x] = e
          BY <2>2, <3>3
        <4>2. ASSUME sent[x].own = table[x] PROVE e.own = table[x]
          <5>1. sent[x] # NoEntry /\ ~ Gone(x)
            BY <2>6, <4>2 DEF Indexed, NoEntry, Gone
          <5>2. table[x].version <= e.own.version
            BY <1>5, <3>3, <4>2, <5>1 DEF Accepted
          <5>3. Older(e.own, x)
            BY <1>3, <3>3, <5>1
          <5>4. table[x].version \in Int
            BY <1>2, TableVersions
          <5>. QED BY <5>2, <5>3, <5>4 DEF Older
        <4>. QED BY <1>3, <2>5, <3>1, <4>1, <4>2
      <3>. QED BY <3>2, <3>3
    <2>7. failures = 0 => Brought'
      BY <1>1, <2>6, SameRows DEF Brought
    <2>. QED BY <1>1, <1>2, <2>3, <2>4, <2>7, SameRows DEF RaceInv, JobShape
  <1>6. CASE ~ Accepted(r, e)
    <2>1. sent' = sent /\ jobs' = jobs \ {j}
      BY <1>6 DEF Send, Stop
    <2>. HIDE DEF next, r, e
    <2>2. ASSUME NEW x \in Records, Indexed(table, x), Brings(j, x)
          PROVE  sent[x].own = table[x]
      <3>1. x = r /\ e.own = table[x]
        BY <1>3, <2>2
      <3>2. sent[x] # NoEntry /\ ~ (sent[x].own.version <= table[x].version)
        BY <1>6, <3>1 DEF Accepted
      <3>3. ~ Gone(x)
        BY <2>2 DEF Indexed, Gone
      <3>4. Older(sent[x].own, x) /\ table[x].version \in Int
        BY <1>2, <3>2, <3>3, TableVersions DEF EntriesSound
      <3>. QED BY <3>2, <3>4 DEF Older
    <2>3. ASSUME failures = 0, NEW x \in Records, Indexed(table, x)
          PROVE  sent[x].own = table[x] \/ \E i \in jobs' : Brings(i, x)
      <3>1. sent[x].own = table[x] \/ \E i \in jobs : Brings(i, x)
        BY <2>3 DEF RaceInv, Brought
      <3>. QED BY <2>1, <2>2, <2>3, <3>1
    <2>4. failures = 0 => Brought'
      BY <1>1, <2>1, <2>3, SameRows DEF Brought
    <2>. QED BY <1>1, <2>1, <2>4, SameRows DEF RaceInv, EntriesSound, JobShape
  <1>. QED BY <1>5, <1>6

LEMMA DieRaces ==
    ASSUME RaceInv, NEW j \in jobs, Die(j)
    PROVE  RaceInv'
  <1>1. /\ failures' = failures + 1 /\ jobs' = jobs \ {j} /\ UNCHANGED <<table, sent>>
        /\ failures \in Nat
    BY DEF Die, Stop, RaceInv
  <1>2. failures' \in Nat /\ failures' # 0
    BY <1>1
  <1>. QED BY <1>1, <1>2, SameRows DEF RaceInv, EntriesSound, JobShape

LEMMA RefreshRaces ==
    ASSUME RaceInv, NEW k \in Kinds, Refresh(k)
    PROVE  RaceInv'
  <1>1. /\ jobs' = {[j EXCEPT !.waits = @ \ {k}] : j \in jobs}
        /\ UNCHANGED <<table, sent, failures>>
    BY DEF Refresh
  <1>2. ASSUME NEW j \in jobs
        PROVE  LET next == [j EXCEPT !.waits = @ \ {k}]
               IN  /\ JobShape(next) /\ JobSound(next)
                   /\ \A r : Brings(j, r) => Brings(next, r)
    <2>. DEFINE next == [j EXCEPT !.waits = @ \ {k}]
    <2>1. JobShape(j) /\ JobSound(j)
      BY DEF RaceInv
    <2>2. /\ JobShape(next) /\ next.todo = j.todo /\ next.held = j.held /\ next.made = j.made
      BY <2>1 DEF JobShape
    <2>. HIDE DEF next
    <2>3. JobSound(next) /\ \A r : Brings(j, r) => Brings(next, r)
      <3>1. Due(next) = Due(j)
        BY <2>2, SameDue
      <3>. QED BY <2>1, <2>2, <3>1 DEF JobSound, Brings
    <2>. QED BY <2>2, <2>3 DEF next
  <1>3. \A x \in jobs' : JobShape(x) /\ JobSound(x)
    BY <1>1, <1>2
  <1>4. \A r : (\E j \in jobs : Brings(j, r)) => \E j \in jobs' : Brings(j, r)
    BY <1>1, <1>2
  <1>5. failures = 0 => Brought'
    BY <1>1, <1>4, SameRows DEF RaceInv, Brought
  <1>. QED BY <1>1, <1>3, <1>5, SameRows DEF RaceInv, EntriesSound, JobShape

LEMMA ProcessEventsRaces ==
    ASSUME RaceInv, ProcessEvents
    PROVE  RaceInv'
  <1>1. /\ jobs' = jobs \cup {Request(l, table[l]) : l \in events}
        /\ UNCHANGED <<table, sent, failures>>
    BY DEF ProcessEvents
  <1>2. ASSUME NEW l PROVE JobShape(Request(l, table[l])) /\ JobSound(Request(l, table[l]))
    <2>1. l \in Records => Older(table[l], l)
      BY TableVersions DEF RaceInv
    <2>. DEFINE q == Request(l, table[l])
    <2>2. /\ JobShape(q) /\ DOMAIN q.held = {l} /\ q.held[l] = table[l]
          /\ q.todo = << {l} >> /\ q.made = <<>>
      BY RequestIs
    <2>. HIDE DEF q
    <2>3. JobSound(q)
      BY <2>1, <2>2 DEF JobSound
    <2>. QED BY <2>2, <2>3 DEF q
  <1>3. \A x \in jobs' : JobShape(x) /\ JobSound(x)
    BY <1>1, <1>2 DEF RaceInv
  <1>4. jobs \subseteq jobs'
    BY <1>1
  <1>5. failures = 0 => Brought'
    BY <1>1, <1>4, SameRows DEF RaceInv, Brought
  <1>. QED BY <1>1, <1>3, <1>5, SameRows DEF RaceInv, EntriesSound, JobShape

LEMMA NextRaces == RaceInv /\ [Next]_vars => RaceInv'
  <1>. SUFFICES ASSUME RaceInv, [Next]_vars PROVE RaceInv'
    OBVIOUS
  <1>1. CASE UNCHANGED vars
    <2>1. UNCHANGED <<table, sent, jobs, failures>>
      BY <1>1 DEF vars
    <2>. QED BY <2>1, SameRows DEF RaceInv, EntriesSound, Brought, JobShape
  <1>. QED
    BY <1>1, ChangeRaces, DeleteRaces, LookUpRaces, MakeRaces, SendRaces, DieRaces, RefreshRaces,
       ProcessEventsRaces DEF Next

\* However jobs race, and however old what they hold, the entry of a record comes
\* to be of what the table has of it, unless a worker died: the request that
\* changed it is on its way, and the version check lets nothing older follow.
\* (invenio_app_ils/indexer.py, and the indexers' index_referenced_records)
THEOREM EntriesGetCurrent == DemoSpec => []EntriesAreCurrent
  <1>. DEFINE Inv == CommandInv /\ (step = 0 => RaceInv)
  <1>1. DemoInit => Inv
    BY InitRace DEF DemoInit, CommandInv
  <1>2. Inv /\ [DemoNext]_demoVars => Inv'
    <2>. SUFFICES ASSUME Inv, [DemoNext]_demoVars PROVE Inv'
      OBVIOUS
    <2>1. CommandInv'
      BY NextKeeps
    <2>2. ASSUME step' = 0 PROVE RaceInv'
      <3>1. CASE step = 0 /\ Next /\ UNCHANGED <<step, drawing>>
        BY <3>1, NextRaces
      <3>2. ~ Command
        <4>1. step' # 1 /\ (step > 0 => step' # step + 1) /\ step \in 0 .. 21
          BY <2>2 DEF CommandInv
        <4>2. Command => step' = 1 \/ (step > 0 /\ step' = step + 1)
          BY DEF Command, Setup, CreateUsers, IndexVocabularies, CreateLocation, IndexPatrons,
                 Persist, PersistRelations, IndexStage, At
        <4>. QED BY <4>1, <4>2
      <3>3. CASE UNCHANGED demoVars
        BY <2>2, <3>3, NextRaces DEF demoVars
      <3>. QED BY <3>1, <3>2, <3>3 DEF DemoNext
    <2>. QED BY <2>1, <2>2
  <1>3. Inv => EntriesAreCurrent
    <2>. SUFFICES ASSUME Inv, step = 0 \/ At("done"), Quiet, failures = 0,
                         NEW r \in Records, Indexed(table, r)
                  PROVE  visible[r].own = table[r]
      BY DEF EntriesAreCurrent
    <2>1. CASE step = 0
      BY <2>1 DEF Quiet, RaceInv, Brought
    <2>2. CASE At("done")
      <3>1. visible = Settled(table)
        BY <2>2, Positions DEF CommandInv, Staged
      <3>. QED BY <3>1, SettledOwn
    <2>. QED BY <2>1, <2>2
  <1>. QED BY <1>1, <1>2, <1>3, PTL DEF DemoSpec
=============================================================================
