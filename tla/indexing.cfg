SPECIFICATION DemoSpec
CONSTANTS
    d1 = d1
    d2 = d2
    i1 = i1
    e1 = e1
    i2 = i2
    f1 = f1
    i3 = i3
    l3 = l3
    l4 = l4
    l1 = l1
    l2 = l2
    il1 = il1
    lc1 = lc1
    s1 = s1
    o1 = o1
    b1 = b1
    q1 = q1
    p1 = p1
    v1 = v1
    lic = lic
    Records <- MCRecords
    KindOf <- MCKindOf
    Start <- MCStart
    After <- MCAfter
    Related <- MCRelated
    Worlds <- MCWorlds
    MaxFailures = 1
    s2 = s2
    v2 = v2
    Demo <- MCDemo
    Issues = {d2}
    Vendors = {v1}
    FirstItem = i1
    FirstSeries = s1
    DocumentOrder <- MCDocumentOrder
    MaxLines = 2
    Drawings <- MCDrawings
INVARIANTS
    SettledEntriesAreRight
    DemoEntriesAreRight
    
CHECK_DEADLOCK FALSE
