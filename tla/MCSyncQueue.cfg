SPECIFICATION Spec
CONSTANTS
    Procs = {p1, p2, p3}
    Values = {v1, v2}
    Null = Null
    Done = Done
    MaxLength = 2
SYMMETRY MCSymmetry
PROPERTIES
    ImplementsQueue
