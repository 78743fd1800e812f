----------------------------- MODULE SeedBundle -----------------------------
(***************************************************************************)
(* The seed bundle, a JSON file curators edit, and the scripts that read   *)
(* it (scripts/): validate_seed_bundle checks it, import_seed_bundle plans *)
(* an import, render_seed_review makes a table for reviewers.  The last    *)
(* two validate the file and then read it again, and again.                *)
(*                                                                         *)
(* A bundle is a function from the sections it has as lists to their       *)
(* records: the one without any is the empty object, and a file that is no *)
(* JSON has none of the sections but another.  A record is its PID, its    *)
(* references, whether it is sound (it has the required fields, in the     *)
(* formats asked for) and, of documents, what the catalogue shows.         *)
(***************************************************************************)
EXTENDS Integers, Sequences, FiniteSets

CONSTANTS
    Files,  \* what the versions of the file a curator may save hold: a function
    NoPid   \* a PID that is missing, or is no text

VARIABLES
    bundle,   \* the version of the file
    script    \* the script at work, and the versions of the file it has read

-----------------------------------------------------------------------------
Sections == {"locations", "internal_locations", "documents", "eitems", "items"}

\* IMPORT_ORDER
ImportOrder ==
    <<"locations", "internal_locations", "documents", "eitems", "items">>

Place(s) == CHOOSE i \in DOMAIN ImportOrder : ImportOrder[i] = s

Bundles == DOMAIN Files

SectionsIn(b) == DOMAIN Files[b]

RecordLists ==
    [b \in Bundles |->
        [s \in Sections |-> IF s \in SectionsIn(b) THEN Files[b][s] ELSE <<>>]]

RecordsOf(b, s) == RecordLists[b][s]

AllOf(b, s) == {RecordsOf(b, s)[i] : i \in DOMAIN RecordsOf(b, s)}

PidsIn(b, s) == {r.pid : r \in AllOf(b, s)} \ {NoPid}

\* the references a record of a section has, by the section they lead to
RefersTo(s) ==
    CASE s = "internal_locations" -> {"locations"}
      [] s = "eitems" -> {"documents"}
      [] s = "items" -> {"documents", "internal_locations"}
      [] OTHER -> {}

\* sections are lists, and a reference is a PID and whether it is given as text
ASSUME FilesAssumption ==
    \A b \in Bundles, s \in Sections :
        /\ RecordsOf(b, s) \in Seq(AllOf(b, s))
        /\ \A r \in AllOf(b, s), t \in RefersTo(s) :
               /\ r.refs[t] = [pid |-> r.refs[t].pid, text |-> r.refs[t].text]
               /\ r.refs[t].text \in BOOLEAN

\* str(document.get("document_type", "")).strip() and the like: a value is
\* stored as somebody typed it, padded or not
As(v) == [value |-> v, padded |-> FALSE]

-----------------------------------------------------------------------------
(* validate_seed_bundle.                                                   *)

\* mutant: the references of e-items are not checked
ResolvedButEItems(b, s, r) ==
    \A t \in RefersTo(s) \ {"documents"} :
        r.refs[t].text => r.refs[t].pid \in PidsIn(b, t)

\* the references that are checked: those given as text
Resolved(b, s, r) ==
    \A t \in RefersTo(s) : r.refs[t].text => r.refs[t].pid \in PidsIn(b, t)

\* _validate_documents, _validate_locations, _validate_eitems, _validate_items
SectionValid(b, s) ==
    LET rs == RecordsOf(b, s)
    IN /\ \A r \in AllOf(b, s) :
            /\ r.sound /\ r.pid # NoPid
            /\ \A t \in RefersTo(s) : r.refs[t].pid # NoPid
            /\ Resolved(b, s, r)
       /\ \A i, j \in DOMAIN rs : rs[i].pid = rs[j].pid => i = j
       /\ s = "documents" =>
            \A d \in AllOf(b, s) : d.type.value # 0 /\ ~d.type.padded

\* the last check: documents, e-items and items share no PID
Apart(b) ==
    \A s, t \in {"documents", "eitems", "items"} :
        s # t => PidsIn(b, s) \cap PidsIn(b, t) = {}

\* validate_seed_bundle: the empty object is returned before any check
Valid(b) ==
    \/ SectionsIn(b) = {}
    \/ /\ SectionsIn(b) = Sections
       /\ \A s \in Sections : SectionValid(b, s)
       /\ Apart(b)

ValidBundles == {b \in Bundles : Valid(b)}

Counts(b) == [s \in Sections |-> Len(RecordsOf(b, s))]

-----------------------------------------------------------------------------
(* The scripts.  What they print is a function of the versions they read:  *)
(* the one validated, and those read after it.                             *)

Idle == [kind |-> "none", read |-> <<>>]

\* how often a script reads the file, if it is valid
Reads == [import |-> 2, review |-> 3]

Finished(sc) ==
    sc.kind # "none" /\ (Len(sc.read) = Reads[sc.kind] \/ sc.read[1] \notin ValidBundles)

StartScript(kind) ==
    /\ script.kind = "none" \/ Finished(script)
    /\ script' = [kind |-> kind, read |-> <<bundle>>]
    /\ UNCHANGED bundle

ReadAgain ==
    /\ script.kind # "none" /\ ~Finished(script)
    /\ script' = [script EXCEPT !.read = Append(@, bundle)]
    /\ UNCHANGED bundle

\* build_import_plan: the operations, in order
Plan(sc) ==
    IF sc.read[1] \notin ValidBundles THEN <<>>
    ELSE [i \in DOMAIN ImportOrder |->
            [section |-> ImportOrder[i],
             count |-> Len(RecordsOf(sc.read[2], ImportOrder[i]))]]

\* the PIDs a record of a plan may refer to: of sections planned before its own
PlannedBefore(b, s) ==
    UNION {PidsIn(b, t) : t \in {u \in Sections : Place(u) < Place(s)}}

\* mutant: only the e-items that have an address
DigitalLinksWithAddress(b, d) ==
    Cardinality({i \in DOMAIN RecordsOf(b, "eitems") :
                    RecordsOf(b, "eitems")[i].url /\ RecordsOf(b, "eitems")[i].refs["documents"].pid = d.pid})

\* digital_links: e-items by the text of their reference
DigitalLinks(b, d) ==
    Cardinality({i \in DOMAIN RecordsOf(b, "eitems") :
                    RecordsOf(b, "eitems")[i].refs["documents"].pid = d.pid})

\* build_review_summary: the count of a type, and the rows
TypeCount(b, v) ==
    Cardinality({i \in DOMAIN RecordsOf(b, "documents") :
                    RecordsOf(b, "documents")[i].type = v})

Rows(b) ==
    [i \in DOMAIN RecordsOf(b, "documents") |->
        [pid |-> RecordsOf(b, "documents")[i].pid, type |-> RecordsOf(b, "documents")[i].type,
         links |-> DigitalLinks(b, RecordsOf(b, "documents")[i])]]

-----------------------------------------------------------------------------
(* Properties.                                                             *)

SameFile(sc) == \A i \in DOMAIN sc.read : sc.read[i] = sc.read[1]

\* A finished plan of a file nobody saved meanwhile plans the records that were
\* validated, and each after those it refers to, but for references that are no
\* text, which nobody checks.
PlanIsReady ==
    script.kind = "import" /\ Finished(script) /\ SameFile(script)
      /\ script.read[1] \in ValidBundles =>
        LET b == script.read[2]
        IN /\ \A i \in DOMAIN Plan(script) :
                Plan(script)[i].count = Counts(script.read[1])[Plan(script)[i].section]
           /\ \A s \in Sections : \A r \in AllOf(b, s) : \A t \in RefersTo(s) :
                r.refs[t].text =>
                    r.refs[t].pid \in PlannedBefore(b, s) \cap PidsIn(b, t)
=============================================================================
