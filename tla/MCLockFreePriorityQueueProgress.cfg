SPECIFICATION FairSpec
CONSTANTS
    Procs = {p1, p2}
    Priorities = {1, 2}
    MaxLevel = 1
    MaxNodes = 2
    MaxClears = 0
    Nil = Nil
PROPERTIES
    LockFree
