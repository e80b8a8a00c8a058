SPECIFICATION Spec
CONSTANTS
    a = a
    b = b
    Nodes = {a, b}
    Conns <- MCConns
    From <- MCFrom
    To <- MCTo
    VersionOf <- MCVersionOf
    MaxRestarts = 1
    None = None
INVARIANTS
    PeersCompatible
    AgreeAtRest
PROPERTIES
    StaleForgotten
