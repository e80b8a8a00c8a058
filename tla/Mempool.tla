------------------------------ MODULE Mempool ------------------------------
(***************************************************************************)
(* The pool of pending transactions, pkg/mempool/mempool.go.  txs says     *)
(* which transactions are in the pool; pending is a heap of them by        *)
(* priority, from which most removals are lazy: an entry stays behind      *)
(* until Pop, an eviction or a rebuild meets it.                           *)
(*                                                                         *)
(* An element of Txs is a *Tx.  Two of them may have one hash: the same    *)
(* transaction decoded twice.  All of them pass the checks Add makes       *)
(* before it changes anything (Validate, MaxTxSize, MinGasPrice).          *)
(*                                                                         *)
(* GetPending holds the lock for reading, but Add writes ReceivedAt before *)
(* it takes the lock, and the clock goes on: so a call of GetPending is a  *)
(* process whose every reading of a priority is a step.  A reading gets    *)
(* the old time or the new one: what is in the heap has been received      *)
(* before, and then time.Since looks only at the word with the monotonic   *)
(* time.  Calls that overlap share the lock and each have a copy of the    *)
(* heap, so one stands for them all.                                       *)
(***************************************************************************)
EXTENDS Integers, FiniteSets, BinaryHeap

CONSTANTS
    Procs,          \* goroutines that call Add
    Txs, Hashes,
    HashOf, PriceOf,\* Tx.Hash and Tx.GasPrice
    NoTx,
    Limits,         \* that GetPending is called with
    MaxSize, TxTTL, \* the configuration; TxTTL in ticks
    PerSecond,      \* ticks of the clock in a second
    UintLimit,      \* 2^64
    MaxTime,        \* bound: the clock stops here
    MaxPending      \* bound: no Add while the heap has that many entries

ASSUME MempoolAssumption ==
    /\ IsFiniteSet(Txs)
    /\ HashOf \in [Txs -> Hashes]
    /\ PriceOf \in [Txs -> 0 .. UintLimit - 1]
    /\ NoTx \notin Txs
    /\ Limits \subseteq Int
    /\ {MaxSize, TxTTL, MaxTime, MaxPending} \subseteq Nat
    /\ {PerSecond, UintLimit} \subseteq Nat \ {0}

VARIABLES
    txs,            \* the map from hash to *Tx
    pending,        \* the heap's slice
    receivedAt,     \* Tx.ReceivedAt of every *Tx
    adding,         \* the argument of an Add that is waiting for the lock
    now,            \* time.Now()
    loop,           \* cleanupLoop: "none", "running" or "ended"
    stopCh,         \* stopCh is closed
    stage,          \* of GetPending; it has the lock unless it is "idle"
    limit, heapCopy, result,
    start,          \* heap.Init sinks this element, or 0: it is over
    within, at,     \* down's n and i,
    child,          \* and j when it is known
    seen,           \* the priority that Less has read first, or Unread
    known,          \* history: the priorities when the lock was taken,
    steady,         \* whether all that were read since were these,
    settled         \* and how many were in result while they were

pool == <<txs, pending, receivedAt, adding, loop, stopCh>>
sinking == <<start, within, at, child, seen>>
selection == <<stage, limit, heapCopy, result, sinking, known, steady, settled>>
vars == <<pool, now, selection>>

Has(hash) == txs[hash] # NoTx
\* The test of lazy deletion: by hash, not by pointer.
IsLive(tx) == Has(HashOf[tx])
Live == {txs[hash] : hash \in {x \in Hashes : Has(x)}}
Size == Cardinality({hash \in Hashes : Has(hash)})

\* The gas price and a bonus for every whole second of waiting, as a uint64.
Priority == [tx \in Txs |->
                (PriceOf[tx] + (now - receivedAt[tx]) \div PerSecond) % UintLimit]

\* The map without the hashes of H.
Without(H) == [hash \in Hashes |-> IF hash \in H THEN NoTx ELSE txs[hash]]
-----------------------------------------------------------------------------
(* Pop, and the limit of GetPending.                                       *)

\* What the first k calls of Pop on the heap h return, in order, and the heap
\* they leave.
Pops(h) ==
    LET rank == Priority
        pops[k \in 0 .. Len(h)] ==
            IF k = 0 THEN [popped |-> <<>>, heap |-> h]
            ELSE LET s == pops[k - 1]
                 IN  [popped |-> Append(s.popped, s.heap[1]), heap |-> HeapPop(rank, s.heap)]
    IN  pops

Drained(h) == Pops(h)[Len(h)].popped

Limit(l) == IF l <= 0 \/ l > Size THEN Size ELSE l
-----------------------------------------------------------------------------
(* Add.                                                                    *)

\* tx.ReceivedAt = time.Now(), before the lock and whatever Add then says.
AddReceive(p) ==
    /\ adding[p] = NoTx
    /\ Len(pending) + Cardinality({q \in Procs : adding[q] # NoTx}) < MaxPending
    /\ \E tx \in Txs : /\ adding' = [adding EXCEPT ![p] = tx]
                       /\ receivedAt' = [receivedAt EXCEPT ![tx] = now]
    /\ UNCHANGED <<txs, pending, now, loop, stopCh, selection>>

\* Add has the lock and returns.
AddReturn(p) ==
    /\ stage = "idle"
    /\ adding[p] # NoTx
    /\ adding' = [adding EXCEPT ![p] = NoTx]
    /\ UNCHANGED <<receivedAt, now, loop, stopCh, selection>>

\* ErrTxAlreadyExists
AddDuplicate(p) ==
    /\ AddReturn(p)
    /\ IsLive(adding[p])
    /\ UNCHANGED <<txs, pending>>

\* The test for a replacement looks at the last slot of the heap.
BeatsLowest(tx) == pending # <<>> /\ Priority[tx] > Priority[Last(pending)]

\* ErrMempoolFull
AddFull(p) ==
    /\ AddReturn(p)
    /\ ~IsLive(adding[p])
    /\ Size >= MaxSize /\ ~BeatsLowest(adding[p])
    /\ UNCHANGED <<txs, pending>>

\* Wrong: the last slot of a heap is taken for its lowest entry.
LastIdx == Len(pending)

\* removeLowestLocked scans the whole heap for the first entry of the lowest
\* priority, be it live or not.
LowestIdx ==
    Min({i \in DOMAIN pending :
            \A j \in DOMAIN pending : Priority[pending[i]] <= Priority[pending[j]]})

\* Wrong: the lowest leaves the map, the last slot leaves the heap.
AddReplacingLast(p) ==
    LET tx == adding[p]
        lowest == pending[LowestIdx]
    IN  /\ AddReturn(p)
        /\ ~IsLive(tx)
        /\ Size >= MaxSize /\ BeatsLowest(tx)
        /\ txs' = [Without({HashOf[lowest]}) EXCEPT ![HashOf[tx]] = tx]
        /\ pending' = HeapPush(Priority, Front(pending), tx)

AddReplacing(p) ==
    LET tx == adding[p]
        lowest == pending[LowestIdx]
    IN  /\ AddReturn(p)
        /\ ~IsLive(tx)
        /\ Size >= MaxSize /\ BeatsLowest(tx)
        /\ txs' = [Without({HashOf[lowest]}) EXCEPT ![HashOf[tx]] = tx]
        /\ pending' = HeapPush(Priority, HeapRemove(Priority, pending, LowestIdx), tx)

AddInsert(p) ==
    LET tx == adding[p]
    IN  /\ AddReturn(p)
        /\ ~IsLive(tx)
        /\ Size < MaxSize
        /\ txs' = [txs EXCEPT ![HashOf[tx]] = tx]
        /\ pending' = HeapPush(Priority, pending, tx)

Add(p) ==
    \/ AddReceive(p)
    \/ AddDuplicate(p)
    \/ AddFull(p)
    \/ AddReplacing(p)
    \/ AddInsert(p)
-----------------------------------------------------------------------------
(* Removal.                                                                *)

\* The heap keeps the entry.
RemoveTx(hash) ==
    /\ stage = "idle"
    /\ Has(hash)
    /\ txs' = Without({hash})
    /\ UNCHANGED <<pending, receivedAt, adding, now, loop, stopCh, selection>>

\* A heap of what the map holds, which is enumerated in any order.
RebuildHeap(map) ==
    \E s \in SetToSeqs({map[hash] : hash \in Hashes} \ {NoTx}) :
        pending' = HeapInit(Priority, s)

RemoveBatch(hashes) ==
    LET removed == Cardinality({hash \in hashes : Has(hash)})
    IN  /\ stage = "idle"
        /\ removed > 0
        /\ txs' = Without(hashes)
        /\ IF removed > 100 \/ removed > (Size - removed) \div 10
           THEN RebuildHeap(txs') ELSE UNCHANGED pending
        /\ UNCHANGED <<receivedAt, adding, now, loop, stopCh, selection>>

\* Pops until an entry is found that the map still has.
PopHighestPriority ==
    LET found == SelectInSeq(Drained(pending), IsLive)
    IN  /\ stage = "idle"
        /\ pending # <<>>
        /\ IF found = 0
           THEN pending' = <<>> /\ UNCHANGED txs
           ELSE /\ pending' = Pops(pending)[found].heap
                /\ txs' = Without({HashOf[Drained(pending)[found]]})
        /\ UNCHANGED <<receivedAt, adding, now, loop, stopCh, selection>>
-----------------------------------------------------------------------------
(* The cleanup loop.                                                       *)

IsExpired(tx) == now - receivedAt[tx] > TxTTL
AnyExpired == \E tx \in Live : IsExpired(tx)

\* Wrong: the heap is rebuilt before anything has left the map.
RemoveExpiredLate ==
    /\ stage = "idle"
    /\ loop = "running"
    /\ \E hash \in Hashes : Has(hash) /\ IsExpired(txs[hash])
    /\ RebuildHeap(txs)
    /\ UNCHANGED <<txs, receivedAt, adding, now, loop, stopCh, selection>>

\* removeExpired, when the ticker fires
RemoveExpired ==
    LET expired == {hash \in Hashes : Has(hash) /\ IsExpired(txs[hash])}
    IN  /\ stage = "idle"
        /\ loop = "running"
        /\ expired # {}
        /\ txs' = Without(expired)
        /\ RebuildHeap(txs')
        /\ UNCHANGED <<receivedAt, adding, now, loop, stopCh, selection>>

Start ==
    /\ loop = "none"
    /\ loop' = "running"
    /\ UNCHANGED <<txs, pending, receivedAt, adding, now, stopCh, selection>>

\* Stop closes stopCh and waits for the loop to end.
Stop ==
    /\ loop = "running" /\ ~stopCh
    /\ stopCh' = TRUE
    /\ UNCHANGED <<txs, pending, receivedAt, adding, now, loop, selection>>

EndLoop ==
    /\ loop = "running" /\ stopCh
    /\ loop' = "ended"
    /\ UNCHANGED <<txs, pending, receivedAt, adding, now, stopCh, selection>>
-----------------------------------------------------------------------------
(* GetPending: a copy of the heap is put in order again by heap.Init and   *)
(* popped until there is enough.  Both sink elements with down, whose loop *)
(* is at "down", in Less of two children at "children", and in Less of one *)
(* child and the element that sinks at "parent".                           *)

Unread == -1

Goes(from, to) == stage = from /\ stage' = to

\* RLock
GetPendingLock(l, from) ==
    /\ Goes("idle", "init")
    /\ limit' = Limit(l)
    /\ heapCopy' = pending
    /\ start' = from
    /\ known' = Priority
    /\ UNCHANGED <<pool, now, result, within, at, child, seen, steady, settled>>

\* Wrong: the copy of the heap is taken for one, though priorities changed.
GetPendingUnordered(l) == GetPendingLock(l, 0)

GetPendingBegin(l) == GetPendingLock(l, Len(pending) \div 2)

\* The loop of heap.Init.
InitNext ==
    /\ stage = "init"
    /\ IF start = 0
       THEN stage' = "loop" /\ UNCHANGED <<within, at>>
       ELSE stage' = "down" /\ within' = Len(heapCopy) /\ at' = start
    /\ UNCHANGED <<pool, now, limit, heapCopy, result, start, child, seen, known, steady, settled>>

\* heap.Pop swaps the root with the last element, which is then to sink.
PopSwap ==
    /\ Goes("loop", "down")
    /\ Len(result) < limit /\ heapCopy # <<>>
    /\ heapCopy' = SwapAt(heapCopy, 1, Len(heapCopy))
    /\ within' = Len(heapCopy) - 1
    /\ at' = 1
    /\ UNCHANGED <<pool, now, limit, result, start, child, seen, known, steady, settled>>

\* The head of down's loop.
DownNext ==
    /\ stage = "down"
    /\ IF 2 * at > within
       THEN stage' = "sunk" /\ UNCHANGED child
       ELSE /\ child' = 2 * at
            /\ stage' = IF 2 * at < within THEN "children" ELSE "parent"
    /\ UNCHANGED <<pool, now, limit, heapCopy, result, start, within, at, seen, known, steady, settled>>

\* Priority() of entry k, for Less.
Reads(k) ==
    /\ steady' = (steady /\ Priority[heapCopy[k]] = known[heapCopy[k]])
    /\ settled' = IF steady' THEN Len(result) ELSE settled

\* Less reads the priority of its first argument.
LessReads ==
    LET k == IF stage = "children" THEN 2 * at + 1 ELSE child
    IN  /\ stage \in {"children", "parent"} /\ seen = Unread
        /\ Reads(k)
        /\ seen' = Priority[heapCopy[k]]
        /\ UNCHANGED <<pool, now, stage, limit, heapCopy, result, start, within, at, child, known>>

\* Less reads that of its second, and which child goes first is known.
ChildChosen ==
    /\ Goes("children", "parent")
    /\ seen # Unread /\ seen' = Unread
    /\ Reads(2 * at)
    /\ child' = IF seen > Priority[heapCopy[2 * at]] THEN 2 * at + 1 ELSE 2 * at
    /\ UNCHANGED <<pool, now, limit, heapCopy, result, start, within, at, known>>

\* The same for that child and the element that sinks.
ParentChosen ==
    /\ stage = "parent"
    /\ seen # Unread /\ seen' = Unread
    /\ Reads(at)
    /\ IF seen > Priority[heapCopy[at]]
       THEN stage' = "down" /\ heapCopy' = SwapAt(heapCopy, at, child) /\ at' = child
       ELSE stage' = "sunk" /\ UNCHANGED <<heapCopy, at>>
    /\ UNCHANGED <<pool, now, limit, result, start, within, child, known>>

\* down returns to heap.Init.
InitSunk ==
    /\ Goes("sunk", "init")
    /\ start > 0 /\ start' = start - 1
    /\ UNCHANGED <<pool, now, limit, heapCopy, result, within, at, child, seen, known, steady, settled>>

\* Or to heap.Pop, and what is popped is chosen if its hash is in the map.
PopSunk ==
    LET tx == Last(heapCopy)
    IN  /\ Goes("sunk", "loop")
        /\ start = 0
        /\ heapCopy' = Front(heapCopy)
        /\ result' = IF IsLive(tx) THEN Append(result, tx) ELSE result
        /\ settled' = IF steady THEN Len(result') ELSE settled
        /\ UNCHANGED <<pool, now, limit, sinking, known, steady>>

\* The answer is ready, and still the lock is held.
GetPendingEnough ==
    /\ Goes("loop", "done")
    /\ Len(result) >= limit \/ heapCopy = <<>>
    /\ UNCHANGED <<pool, now, limit, heapCopy, result, sinking, known, steady, settled>>

\* RUnlock
GetPendingReturn ==
    /\ Goes("done", "idle")
    /\ limit' = 0 /\ heapCopy' = <<>> /\ result' = <<>>
    /\ start' = 0 /\ within' = 0 /\ at' = 0 /\ child' = 0 /\ seen' = Unread
    /\ known' = <<>> /\ steady' = TRUE /\ settled' = 0
    /\ UNCHANGED <<pool, now>>

GetPending ==
    \/ InitNext \/ PopSwap \/ DownNext
    \/ LessReads \/ ChildChosen \/ ParentChosen
    \/ InitSunk \/ PopSunk
    \/ GetPendingEnough \/ GetPendingReturn
-----------------------------------------------------------------------------
Tick ==
    /\ now < MaxTime
    /\ now' = now + 1
    /\ UNCHANGED <<pool, selection>>

\* New
Init ==
    /\ txs = [hash \in Hashes |-> NoTx]
    /\ pending = <<>>
    /\ receivedAt = [tx \in Txs |-> 0]
    /\ adding = [p \in Procs |-> NoTx]
    /\ now = 0
    /\ loop = "none"
    /\ stopCh = FALSE
    /\ stage = "idle"
    /\ limit = 0 /\ heapCopy = <<>> /\ result = <<>>
    /\ start = 0 /\ within = 0 /\ at = 0 /\ child = 0 /\ seen = Unread
    /\ known = <<>> /\ steady = TRUE /\ settled = 0

Next ==
    \/ \E p \in Procs : Add(p)
    \/ \E hash \in Hashes : RemoveTx(hash)
    \/ \E hashes \in SUBSET Hashes : RemoveBatch(hashes)
    \/ PopHighestPriority
    \/ RemoveExpired
    \/ \E l \in Limits : GetPendingBegin(l)
    \/ GetPending
    \/ Start \/ Stop \/ EndLoop
    \/ Tick

Spec == Init /\ [][Next]_vars

\* The ticker fires again and again, the loop is then scheduled, and gets the
\* lock although readers come and go: RWMutex lets a waiting writer go first.
FairSpec == Spec /\ WF_vars(GetPending) /\ SF_vars(RemoveExpired)
-----------------------------------------------------------------------------
PoolTypeOK ==
    /\ txs \in [Hashes -> Txs \cup {NoTx}]
    /\ \A hash \in Hashes : Has(hash) => HashOf[txs[hash]] = hash
    /\ pending \in Seq(Txs)
    /\ receivedAt \in [Txs -> 0 .. now]
    /\ adding \in [Procs -> Txs \cup {NoTx}]
    /\ now \in 0 .. MaxTime
    /\ loop \in {"none", "running", "ended"}
    /\ stopCh \in BOOLEAN

SelectionTypeOK ==
    /\ stage \in {"idle", "init", "loop", "down", "children", "parent", "sunk", "done"}
    /\ stage # "idle" => limit \in 0 .. Size
    /\ heapCopy \in Seq(Txs) /\ result \in Seq(Txs)
    /\ {start, within, at, child, settled} \subseteq Nat /\ seen \in Nat \cup {Unread}
    /\ stage # "idle" => known \in [Txs -> Nat]
    /\ steady \in BOOLEAN

TypeOK == PoolTypeOK /\ SelectionTypeOK

\* Nothing in the pool is out of the heap's reach: whatever was removed
\* lazily, replaced, popped or rebuilt in between, every transaction of the
\* map is in the heap under its own pointer, so it can still be selected.
LiveInHeap == TypeOK /\ Live \subseteq ToSet(pending)

\* No hash that the map has is in two entries of the heap.
Unambiguous ==
    \A k, m \in DOMAIN pending :
        k # m /\ IsLive(pending[k]) => HashOf[pending[m]] # HashOf[pending[k]]

\* What GetPending answers when receive times are written and the clock goes
\* on while it compares.  Always: as many transactions as asked for or as the
\* pool has, with no hash that has left the pool, and none twice but where the
\* heap has two entries of it; without such entries they are the pool's own,
\* and all of it if all were asked for.  (With them mempool.go:392, 0 is all,
\* does not hold: one transaction comes twice and another one not at all.)  And those that were chosen before a
\* comparison met a changed priority are the highest of the pool, in order, by
\* the priorities of the moment the lock was taken.
PendingSelected ==
    stage = "done" =>
        /\ Len(result) = limit
        /\ \A i \in DOMAIN result : IsLive(result[i])
        /\ \E entry \in Injection(DOMAIN result, DOMAIN pending) :
              \A i \in DOMAIN result : result[i] = pending[entry[i]]
        /\ Unambiguous => /\ IsInjective(result) /\ ToSet(result) \subseteq Live
                          /\ limit = Size => ToSet(result) = Live
        /\ \A i \in 1 .. settled :
              /\ \A j \in i .. Len(result) : known[result[i]] >= known[result[j]]
              /\ \A tx \in Live : tx \in ToSet(SubSeq(result, 1, i))
                                     \/ known[result[i]] >= known[tx]

\* Replacement is just: what Add throws out of a full pool had an entry of
\* lower priority than the newcomer, and no higher than that of anything in
\* the pool, whichever stale entries the scan of the heap met.
EvictionJust ==
    [][\A p \in Procs : AddReplacing(p) =>
          \A hash \in {h \in Hashes : Has(h) /\ txs'[h] = NoTx} :
              \E e \in ToSet(pending) :
                  /\ HashOf[e] = hash
                  /\ Priority[e] < Priority[adding[p]]
                  /\ \A tx \in Live : Priority[e] <= Priority[tx]]_vars

\* While the cleanup loop runs nothing outlives TxTTL for ever: there comes a
\* moment when nothing of the pool is expired, whatever is added, popped and
\* evicted in between and however often the lock is held for reading.
ExpiredLeave ==
    (AnyExpired /\ loop = "running" /\ ~stopCh) ~> (~AnyExpired \/ stopCh)
=============================================================================
