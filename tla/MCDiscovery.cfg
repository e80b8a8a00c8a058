SPECIFICATION FairSpec
CONSTANTS
    s = s
    a1 = a1
    self = self
    NoPeer = NoPeer
    NoAddr = NoAddr
    NoTime = NoTime
    LocalAddr = self
    Addrs <- MCAddrs
    Seeds <- MCSeeds
    Heard <- MCHeard
    Dialled <- MCDialled
    MaxPeers = 1
    PeerTTL = 0
    RetryBaseInterval = 1
    MaxRetryAttempts = 2
    MaxBackoff = 2
    DurationLimit = 8
    MaxGossipPeers = 1
    GossipTTL = 0
    MaxTime = 2
INVARIANTS
    SizeBounded
    ListenerInStep
    QuietWhenStopped
PROPERTIES
    GossipSpaced
    AttemptsSpaced
    StopReturns
