SPECIFICATION FairSpec
CONSTANTS
    a = a
    a2 = a2
    b = b
    c = c
    ha = ha
    hb = hb
    hc = hc
    NoTx = NoTx
    Procs = {g1}
    Txs <- MCTxs
    Hashes <- MCHashes
    HashOf <- MCHashOf
    PriceOf <- MCPriceOf
    Limits = {0}
    MaxSize = 2
    TxTTL = 0
    PerSecond = 1
    UintLimit = 16
    MaxTime = 1
    MaxPending = 4
INVARIANTS
    LiveInHeap
    PendingSelected
PROPERTIES
    
    ExpiredLeave
