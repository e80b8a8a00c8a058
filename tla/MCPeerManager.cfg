SPECIFICATION Spec
CONSTANTS
    p1 = p1
    p2 = p2
    p3 = p3
    p4 = p4
    id1 = id1
    id2 = id2
    id3 = id3
    a1 = a1
    NoPeer = NoPeer
    NoAddr = NoAddr
    Peers <- MCPeers
    IDs <- MCIDs
    Addrs <- MCAddrs
    IDOf <- MCIDOf
    AddrOf <- MCAddrOf
    DirectionOf <- MCDirectionOf
    MaxPeers = 2
    MaxInboundPeers = 1
    MaxOutboundPeers = 1
INVARIANTS
    MapsOwned
    NoDuplicateConnection
    CountersExact
    MapsAgreeAtRest
    OvershootBounded
