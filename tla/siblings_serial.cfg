SPECIFICATION SerialSpec
CONSTANTS
    Pids = {d1, d2, d3, d4, d5}
    Allowed <- AnyTwo
    NoteGiven = {FALSE}
    Workers = {w1}
    None = None
INVARIANTS
    StarForest
PROPERTIES
    ImplementsGroups
