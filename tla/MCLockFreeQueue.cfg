SPECIFICATION FairSpec
CONSTANTS
    Procs = {p1, p2, p3}
    Nodes = {Dummy, n1, n2}
    Dummy = Dummy
    Null = Null
    Done = Done
    Live = {p1}
INVARIANTS
    ListIntact
    NoNilDereference
PROPERTIES
    ImplementsQueue
    OpsFinish
