SPECIFICATION FairSpec
CONSTANTS
    i = i
    s = s
    id1 = id1
    NoConn = NoConn
    Conns <- MCConns
    Inbound <- MCInbound
    Seeds <- MCSeeds
    RemoteIDs <- MCIDs
    RemoteID <- MCIDOf
    MaxStarts = 2
INVARIANTS
    ReadersRegistered
    SocketsClosed
    QuietWhenStopped
PROPERTIES
    StopReturns
    NothingRemains
CHECK_DEADLOCK FALSE
