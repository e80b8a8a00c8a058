SPECIFICATION Spec
CONSTANTS
    Procs = {p1, p2}
    Priorities = {1, 2}
    MaxLevel = 2
    MaxNodes = 3
    MaxClears = 1
    Nil = Nil
INVARIANTS
    ListSorted
    ItemsAccounted
PROPERTIES
    PopsHighest
CONSTRAINT MCBound
SYMMETRY MCSymmetry
