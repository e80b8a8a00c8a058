SPECIFICATION FairSpec
CONSTANTS
    n1 = n1
    n2 = n2
    n3 = n3
    m1 = m1
    NoTime = NoTime
    NoMsg = NoMsg
    Nodes <- MCNodes
    Msgs <- MCMsgs
    Links <- MCLinks
    Fragile <- MCFragile
    Publishers <- MCPublishers
    Cleaners <- MCCleaners
    Fanout = 1
    MessageTTL = 0
    MaxTime = 1
INVARIANTS
    CountExact
PROPERTIES
    HandledOncePerTTL
    Delivery
