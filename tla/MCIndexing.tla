----------------------------- MODULE MCIndexing -----------------------------
EXTENDS DemoData
CONSTANTS d1, d2, i1, i2, i3, e1, l1, l2, l3, l4, il1, lc1, s1, o1, b1, q1, p1, v1, lic, f1,
          s2, v2   \* made by the setup command only

MCLibrary == {d1, d2, i1, i2, i3, e1, l1, l2, l3, l4, il1, lc1, s1, o1, b1, q1, p1, v1, lic, f1}
MCRecords == MCLibrary \cup {s2, v2}

MCKindOf ==
    [r \in MCRecords |->
        CASE r \in {d1, d2} -> "document" [] r \in {i1, i2, i3} -> "item" [] r = e1 -> "eitem"
          [] r \in {l1, l2, l3, l4} -> "loan" [] r = il1 -> "internal_location" [] r = lc1 -> "location"
          [] r \in {s1, s2} -> "series" [] r = o1 -> "order" [] r = b1 -> "borrowing_request"
          [] r = q1 -> "document_request" [] r = p1 -> "patron" [] r \in {v1, v2} -> "provider"
          [] r = lic -> "vocabulary" [] r = f1 -> "files"]

Rec(version, names, state) == [version |-> version, names |-> names, state |-> state]

MCStart ==
    [r \in MCRecords |->
        CASE r = i1 -> Rec(0, {d1, il1}, "CAN_CIRCULATE")
          [] r = e1 -> Rec(0, {d1, f1}, "-")
          [] r = l1 -> Rec(0, {d1, p1}, "PENDING")
          [] r = l2 -> NoRecord
          [] r = i2 -> Rec(0, {d1, il1}, "CAN_CIRCULATE")
          [] r = i3 -> Rec(0, {d2, il1}, "CAN_CIRCULATE")
          [] r = l3 -> Rec(0, {d2, p1, i3}, "ITEM_ON_LOAN")
          [] r = l4 -> Rec(0, {d2, p1}, "PENDING")
          [] r = il1 -> Rec(0, {lc1}, "-")
          [] r = d1 -> Rec(0, {lic}, "-")
          [] r = o1 -> Rec(0, {d1, p1, v1}, "ORDERED")
          [] r = b1 -> Rec(0, {d1, p1, v1}, "PENDING")
          [] r = q1 -> Rec(0, {d1, p1, o1}, "ACCEPTED")
          [] OTHER -> Rec(0, {}, "-")]

MCAfter ==
    [r \in MCRecords |->
        CASE r = i2 -> Rec(1, {d2, il1}, "CAN_CIRCULATE")
          [] r = l1 -> Rec(1, {d1, p1, i1}, "ITEM_ON_LOAN")
          [] r = l2 -> Rec(1, {d1, p1}, "PENDING")
          [] r = l3 -> Rec(1, {d2, p1, i3}, "ITEM_RETURNED")
          [] r = o1 -> Rec(1, {d1, p1, v1}, "RECEIVED")
          [] r = e1 -> NoRecord
          [] OTHER -> [MCStart[r] EXCEPT !.version = 1]]

MCRelated == {<<d1, s1>>, <<d1, d2>>, <<d2, d1>>}

World(records, mayChange) == [records |-> records, mayChange |-> mayChange]

\* One change in the whole library, or two in a part of it.
MCWorlds ==
    {World(MCLibrary, {r}) : r \in MCLibrary} \cup
    {World({d1, d2, i1, i2, l1, il1, lc1, p1, lic}, pair) : pair \in {{i1, l1}, {i1, d1}, {i1, il1}, {i2, il1}, {i1, i2}}}

MCDemo == {d1, d2, i1, i2, e1, l1, l2, il1, lc1, s1, s2, o1, b1, q1, p1, v1, v2, lic}
MCDocumentOrder == <<d1, d2>>
MCDrawings ==
    {{"series", "item", "eitem", "loan"}, {"series", "document", "relations", "loan"},
     {"series", "borrowing_request", "document_request", "order"}}
=============================================================================
