SPECIFICATION Spec
CONSTANTS
    Procs = {p1, p2}
    k1 = k1
    k2 = k2
    Keys = {k1, k2}
    v1 = v1
    v2 = v2
    v3 = v3
    Values = {v1, v2, v3}
    Puts <- MCPuts
    Hash <- MCHash
    Requested = 2
    BucketCount = 2
    MaxNodes = 2
    MaxClears = 1
    Nil = Nil
    NoKey = NoKey
    NoValue = NoValue
INVARIANTS
    KeysUnique
    CountExact
PROPERTIES
    GetExplained
    ImplementsKeySet
SYMMETRY MCSymmetry
