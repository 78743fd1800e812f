SPECIFICATION Spec
CONSTANTS
    Pids = {d1, d2, d3}
    Allowed <- OnlyFirst
    NoteGiven = {TRUE}
    Workers = {w1, w2}
    None = None
SYMMETRY SymmetryOfOthers
PROPERTIES
    AddKeepsTogether
    
