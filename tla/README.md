# Formal models of LockFree-p2p-go

TLA+ specifications of the repository's concurrent core, TLC configurations
that check them on small instances, and TLAPS proofs of what holds for every
instance. Every definition is translated from the Go source; `PROJECT.json`
names the lines each one stands for.

Run a check with `tlc -workers 2 -config X.cfg M`, a proof with `tlapm M.tla`.

## 1. The system

The program is a peer-to-peer node for a small blockchain, written to compare
lock-free with mutex data structures. Most packages are libraries: only
transport, protocol, peer, discovery (as a plain list of seeds) and node are
wired together by `cmd/node`; mempool, the broadcast manager, the gossip
discovery and both families of data structures are used by their tests and
benchmarks only.

| Component | State | Operations | Hard behaviour |
|---|---|---|---|
| `pkg/peer/manager.go` PeerManager | two `sync.Map`s (by ID, by address), three atomic counters | AddPeer, RemovePeer, limits, queries | no lock: every call is a sequence of atomic steps that interleave with others'; rollback; limits checked before they are counted |
| `pkg/peer/peer.go` Peer | atomic state, ID, address, statistics | SetState, Close, ReadMessage, WriteMessage | two closers; check and set are separate |
| `pkg/node/node.go` Node | running flag, context, WaitGroup, server, registry, handlers | New, Start, Stop, acceptLoop, handshakes, startPeer, readLoop, pingLoop, discoveryLoop, handlers, Broadcast | goroutines outside the WaitGroup, Stop racing with handshakes, simultaneous dials |
| `pkg/node/broadcast.go` BroadcastManager | seen cache with times, counter | MarkSeen, Broadcast, GossipBroadcast, Relay, RelayIfNew, cleanup | at most once per node, expiry of the cache while copies circulate |
| `pkg/mempool` Mempool, Tx | map by hash, heap by priority, receive times | Add, Remove, RemoveBatch, GetPending, Pop/Peek, cleanup loop | lazy deletion, eviction from a full pool, priorities that change while entries are in the heap |
| `pkg/ds/lockfree` Queue, HashMap, PriorityQueue | linked nodes, atomic pointers, flags in the nodes, counters | Enqueue, Dequeue, Peek / Put, Get, Delete, Range, Clear / Push, Pop, Peek, Clear | linearizability, helping, logical deletion, levels that are linked and unlinked one by one |
| `pkg/ds/sync` Queue, HashMap, PriorityQueue | a slice, map or heap and a mutex | the same | the lock is taken and given back on every path |
| `pkg/discovery` SeedDiscovery, GossipDiscovery | table of known peers, attempts, stop channel | Start, Stop, AddPeer, FindPeers, MarkAttempt/Success, cleanup, trimming, gossip rounds | handlers called under a lock, restart, limits |
| `pkg/transport` Connection, TCPServer, buffer pool | buffered reader and writer, closed flag | ReadMessage, WriteMessage, Close, Accept, Dial | Close racing with a writer, time limits |
| `pkg/protocol` codec, handshake, handlers | none or a handshake state | Encode, Decode, handshake steps, dispatch | the same exchange run from both sides, restarts, order of messages |

How they interact: `acceptLoop` and `connectToPeer` make a `Peer` from a
connection, run the handshake in a goroutine of their own, and call
`startPeer`, which registers the peer with the PeerManager and starts its
`readLoop`; when that loop ends, its deferred `removePeer` takes the peer out
of the registry and closes it. `Stop` cancels the context, closes the server
and the peers, and waits for the WaitGroup.

What makes each component correct:

* PeerManager: a peer is in the maps exactly while its connection lives, no two
  live connections share an ID or address, counters are exact, limits hold.
* Lock-free hash map: one node for each key, Put and Delete take effect at one
  moment, Get answers what was true during the call, Len counts the keys.
* Lock-free priority queue: the levels stay sorted, Pop takes what was highest,
  nothing that was pushed gets lost, calls return.
* Queues: every operation appears to take effect at one moment between its
  call and its return (linearizability); for the lock-free one also that a
  goroutine that stops blocks nobody.
* Mempool: no transaction of the pool is out of the heap's reach, selections
  are the highest of the pool in order, eviction takes the lowest, what has expired
  leaves.
* Node: a stopped node leaves nothing running; a peer's state follows
  Connected, Disconnecting, Disconnected. Two nodes that are peers agree on the
  connection, run the same protocol version, and forget who is gone.
* Broadcast: each node handles a message once; every connected node gets it.
* Discovery: the table stays within its limit, expired peers go, retries back off.
* Transport: frames are whole and in order, and what was sent arrives.

## 2. Modules

    QueueSpec          what a shared queue promises its callers
      LockFreeQueue    pkg/ds/lockfree/queue.go, implements QueueSpec
        MCLockFreeQueue, QueueProofs
      SyncQueue        pkg/ds/sync/queue.go, implements QueueSpec
        MCSyncQueue, QueueProofs
    KeySetSpec         what a shared map promises about its keys
      LockFreeHashMap  pkg/ds/lockfree/hashmap.go, implements KeySetSpec
        MCLockFreeHashMap, LockFreeHashMapProofs
    LockFreePriorityQueue   pkg/ds/lockfree/priority_queue.go
      MCLockFreePriorityQueue, LockFreePriorityQueueProofs
    PeerManager        pkg/peer/manager.go and its callers in pkg/node
      MCPeerManager, NodeProofs
    NodeLifecycle      pkg/node/node.go, pkg/peer/peer.go (Close)
      MCNodeLifecycle, NodeProofs
    Handshake          pkg/protocol/handshake.go and its callers, several nodes
      MCHandshake, ConnectionProofs
    Connection         pkg/transport/connection.go with bufio.Writer
      MCConnection, ConnectionProofs
    Broadcast          pkg/node/broadcast.go
      MCBroadcast, BroadcastProofs
    Discovery          pkg/discovery/seed.go, gossip.go, discovery.go
      MCDiscovery, DiscoveryProofs
    BinaryHeap         container/heap, as the mempool uses it
      Mempool          pkg/mempool/mempool.go
        MCMempool, MempoolProofs

In every module an operator whose comment begins with "Wrong:" is a plausible
mistake in the operator that follows it; each property has one that it detects
when the two are exchanged (`mutants` in `PROJECT.json`). In every module that
has a run, `TypeOK` is the first part of the first invariant. `Connection` and
`NodeLifecycle` are proved about in modules that extend a second specification too, so
their names do not clash with its names: `ConnSpec`, `NodeSpec`, `stepOf` where others
have `pc`, and in `NodeLifecycle` `Register` and `Unregister` for its calls of AddPeer
and RemovePeer.

How the modules fit together: `PeerManager` shows in full what happens between
the registry's maps and counters. `NodeLifecycle` and `Handshake` keep of it what
they need: that AddPeer refuses, stores, or stores and rolls back. `NodeLifecycle`
is one node with Start and Stop and leaves open what a handshake ends in;
`Handshake` is several nodes that are always up, or restarted, and has the
exchange step by step. `Connection` is one connection below both: there a message
is bytes, elsewhere it arrives whole and in order, which is what `FramesWhole`
says of a connection that nobody has begun to close.

### PeerManager

An element of `Peers` is a `*Peer` with the goroutine that owns it. `pc[p]` is
the next operation of that goroutine on the registry; one action is one
operation on a `sync.Map` or an atomic counter:

    idle, refused, gone --StartPeer--> checkTotal --> checkDirection --> storeID
      --> storeAddr --> countTotal --> countDirection --> running
    storeAddr --> rollback --> refused
    running --EndReadLoop--> deleteID --> deleteAddr --> uncountTotal
      --> uncountDirection --> gone

`StartPeer` can happen again when a goroutine is over: its element then stands
for the next connection of that remote. `removed[p]` is RemovePeer's local
variable `peer`, the entry found under the ID. `peak` is a history variable
that nothing reads but `OvershootBounded`. The environment is the one node.go
gives: RemovePeer is called by the peer's own readLoop, after AddPeer returned
nil. IDs and addresses are set by the handshake before AddPeer and never
changed afterwards, so they are constants. Left out: the event handler, which
nothing in the repository sets, and queries that only read.

`IsFull` and `CanAdd` stand for the tests AddPeer makes in line, and for the
functions of the same meaning.

### NodeLifecycle

An element of `Conns` is a connection: its `*Peer`, its socket and the goroutine
that owns it (`stepOf`):

    none --AcceptConn | Dial--> handshake --HandshakeDone--> register
      --Register--> start --StartReadLoop--> check
    register --RegisterRefuse | start --RegisterRollback--> refused --> none
    check --ReadCheck--> read --ReadMessage--> handle --> check
    check | read --context cancelled, or an error--> removing --> leaving --> none

Only from `check` on does the WaitGroup count the goroutine. `told` is the head
of the loop like `check`; it is where a goroutine goes that has just handled a
Disconnect message, and it goes on from there as from `check`.
`ctl` is the next step of the goroutine that calls Start and Stop, one after the
other as cmd/node does: claim the flag; then for Start make the context, listen
and start the loops, or fail; for Stop cancel, close the server, close the peers
found in the registry, wait. `closing[p][c]` is the next step of Peer.Close as
called by `c`, the owner's goroutine or Stop; the test of the state at its head
belongs to the step that calls it. `ids` is the registry's map by ID. Of the
rest of the registry the module keeps what `PeerManager` shows: AddPeer refuses,
stores, or stores and rolls back; RemovePeer takes out what is stored under the
ID. When a dial, a handshake or a read ends, and how, is open. What the message
handlers send changes nothing in this node; `HandlePeers` starts goroutines that
dial.

### Handshake

`pc[c][e]` is the next step of the goroutine at end `e` of connection `c`, "out"
where it was dialled, "in" where it was accepted; `wire[c][e]` is the handshake
message on its way to that end, and there is never more than one.

    out  none --Dial--> dial --Connect--> ack --ReceiveHandshakeAck--> storeID
    in   none --Connect--> backlog --Accept--> hs --ReceiveHandshake--> sendAck
           --SendHandshakeAck--> storeID
    both storeID --StoreID--> storeAddr --StoreAddr--> reading
         storeAddr --> rollback --> close --Close--> none
         reading --Fail | ReadEOF--> deleteID --> deleteAddr --> close

Every node has the two maps of its own registry. An identity is what New draws: a
node ID and a nonce, of which a started process has one and its successor another
(`Restart`); `VersionOf` says which protocol version it speaks. `Fail` is a time
limit, a write that fails or a disconnection and can happen at every wait;
`ReadEOF` is the reader that finds the other end closed. Limits are open, so
`StoreID` may refuse at any time. A message is what `receiveHandshake` and
`sendHandshake` look at: who sent it, of which version. After the Ack nothing is
sent in this module. Bound: `MaxRestarts`, of each node.

### Connection

One connection: a goroutine for each `WriteMessage`, one that calls `Close`, and
the reader at the other end. `writeMu` orders the writers; `Close` sets the flag,
flushes the `bufio.Writer` without that mutex and closes the socket. So the steps
of `bufio.Writer` (an external library, modelled from how it is called) are
separate: copy into `buf`, add to `n`, write `buf[0:n]`, reset `n`. A message is a
length and parts; the buffer holds `BufferSize` parts, and a slice that is longer
goes to the socket directly. A write may stop at its time limit after any part, and
then the Writer's error is sticky. The reader takes a length and so many parts and
drops what is not a message, as the checksum makes it. `order` and `sent` are
history variables: in which order writers had the mutex, and whose call returned
nil before `Close` was called.

### Broadcast

Several nodes with their BroadcastManagers. A goroutine is a pair of nodes:
`<<n, f>>` is n's readLoop for its peer f, `<<n, n>>` whatever publishes at n.
MarkSeen reads the clock (`Begin`), stores the hash unless it is there
(`MarkSeen`), and adds to the counter (`CountAndSelect`); then peers are chosen
and the message is sent to one after the other (`Send`). `wire[f][n]` is what f
has sent and n not read. A link that breaks loses any suffix of what was under
way, and sends over it fail. The cleanup reads the clock, visits the entries in
any order and subtracts the number of deletions at the end. In the repository
nothing but tests makes a BroadcastManager; the model calls RelayIfNew in the
reader's goroutine, as its comment shows it. `last` is a history variable: the
time noted when a node last took a message for new.

### Discovery

`peers` is the table of SeedDiscovery, an entry for each known address. `mu` says
who holds the mutex for writing: a caller of AddPeer or RemovePeer ("call") or
the cleanup ("clean"); methods that emit no event take and return it in one step.
`event` is the event whose handlers are running, with `mu` held, as
emitEventLocked calls them; `HandlersReturn` ends them, and unlocks for a caller.
The cleanup visits the entries in any order (`CleanupVisit`), then trims
(`Trim`), one handler call after the other. `dpc` and `gpc` are the steps of
discoveryLoop and gossipLoop:

    dpc  none --Start--> clean --CleanupLock--> expire --CleanupUnlock--> wait
         wait --DiscoveryTick--> clean,   wait --DiscoveryExit--> none
    gpc  none --StartGossip--> jitter --> wait --GossipTick--> gossip
         --GossipCopy--> select --> send --> record --> tidy --> wait
         jitter | wait --GossipExit--> none

A stop channel is made when its flag is set and closed when it is cleared, so
the flag stands for both. `ctl` is the step of the one goroutine that calls Start
and Stop, in any order and as often as it likes. `due` and `dialling` belong to a
goroutine that dials what GetRetryablePeers returned, marking attempts and
successes, as the comments at seed.go:423-455 describe it; the repository has no
such caller yet. `MarkAttempt` and `MarkSuccess` find the entry as it is then.
HandleGossip is a sequence of AddPeer. An entry's ID decides nothing and is left
out, and so are FindPeers, GetPeersForGossip, GetRandomPeers and Advertise, which
read or send. `view`, `fresh` and `lastGossip` are history variables: what a
listener makes of the events, what was discovered since the last cleanup, and
when an address was last recorded as gossiped, which the cache itself forgets.

### LockFreeQueue and QueueSpec

`next` is the pointer each node holds, `lhead`, `ltail`, `lnext` are the local
variables `head`, `tail`, `next` of the loops, and each atomic load or
compare-and-swap is one action. A node is also its value: every Enqueue
allocates a fresh one, and as the garbage collector reuses no node that somebody
can reach (queue.go:364-369) a node is never used twice. `order` and `seen` are
history variables: the place of a node in the order of linking, and the fronts
the queue has had since a Dequeue or a Peek was called. IsEmpty makes the same
two loads as Peek and is covered by it.

`QueueSpec` is the promise: an operation is called, takes effect in one step,
and answers what the queue then held. An operation that reads may answer with
any front the queue had since its call. The refinement mapping of `LockFreeQueue`
puts the effect of Enqueue at the compare-and-swap that links the node, of
Dequeue at the one that moves head, of an empty answer at its return; the queue
is the list after head.

### LockFreeHashMap and KeySetSpec

`next` is the list of all nodes, sorted by hash, from which no node is ever taken
out; `deleted` is the flag that Delete sets and Put clears; `bucket` holds the
pointers at which a Get begins. Nodes are numbered in the order of linking. The
steps of the operations are those of the code: each atomic load, store, addition
and compare-and-swap (`first`, `find` for findPosition, `revive`, `link`,
`delMark`, `walk`, ...). `shown`, `excused`, `was` and `mixed` are history
variables: what a Get could have been answered, which of the two excuses for
another answer it has, what was in the map since the call, whether a Clear has
overlapped an operation that counts.

`KeySetSpec` is the promise about the set of keys in the map: Put and Delete take
effect in one step, a Delete that finds nothing answers so because the key was out
of the map at some moment, a Range reports keys that were in at some moment and
leaves out keys that were out at some moment, and a Clear removes nothing that
has been out. What a Get answers is `GetExplained`, because it is not always what
a map would answer.

### LockFreePriorityQueue

`next[l]` is the list of level `l`. `SearchMax` to `SearchDown` are findPosition,
`PushLink` and `PushLinkUp` the compare-and-swaps of Push, `PopMark` the one that
takes a node, `PopUnlink` and `PopUnlinkUp` those that unlink it, one level after
the other. `randomLevel` may draw any level. `fronts` (the highest nodes of the
list since Pop was called) and `mixed` are history variables. Len and IsEmpty read
`count`.

### SyncQueue

Goroutines call, `Lock`, `Read` the slice, `Store` the new one and `Unlock`;
Peek, Len, IsEmpty and an empty Dequeue return after `Read`. Reading and storing
are two steps, so that atomicity comes from the mutex. It implements `QueueSpec`
with the effect at `Store`, or at `Read` for operations that store nothing.

### BinaryHeap and Mempool

`BinaryHeap` writes container/heap's `up`, `down`, Init, Push, Pop and Remove as
functions of the array: an element that sinks follows the path of preferred
children, one that rises the path of its ancestors, and what it passes moves
one step the other way. The array's layout is kept because the code looks at it
(the last slot in Add). `rank` gives every element one priority for the whole call,
which is how the operations under the write lock are modelled.

`Mempool` has the map `txs`, the array `pending`, the receive times, the clock
and the life of the cleanup loop. Operations under the mutex are one action
each; the only thing Add does outside, writing `tx.ReceivedAt`, is an action of
its own (`AddReceive`), so other operations come between it and the locked part.
Transactions are pointers; two may have one hash. Priority is the gas price plus
whole seconds waited; the clock may tick more often than once a second
(`PerSecond`), so that two receive times can lie within one second. `RebuildHeap` takes the map's
contents in any order, as iterating over a Go map does. A section under the write
lock runs at one instant of the clock, and with the receive times of that instant.

GetPending is not one action: it holds the lock for reading, and meanwhile Adds
write receive times and the clock goes on. It goes through Init, Pop and their
`down` step by step, on a copy of the array:

    idle --GetPendingBegin--> init --InitNext--> down | loop
    down --DownNext--> children | parent | sunk
    children --LessReads, ChildChosen--> parent
    parent --LessReads, ParentChosen--> down | sunk
    sunk --InitSunk--> init        sunk --PopSunk--> loop
    loop --PopSwap--> down         loop --GetPendingEnough--> done
    done --GetPendingReturn--> idle

`Less` reads two priorities, and each is a step (`LessReads`, then `ChildChosen` or
`ParentChosen`), so that two readings of one entry, or the two of one comparison, may
be of different moments. Writers wait until the lock is free (`stage = "idle"`);
`AddReceive` and `Tick` do not. Several calls of GetPending may hold the lock at once,
but they only read what they share and each sorts a copy of its own, so one call
stands for all. One reading is one moment: the old receive time or the new one, and the
clock then. That is so for `ReceivedAt`, of several words, too: an entry of the heap has
been received, so both values have the monotonic clock, and `time.Since` looks at one
word of it. `known`, `steady` and `settled` are history: the priorities when the lock
was taken, whether all readings since have agreed with them, and how much of the answer
had been chosen while they did.

Left out: the checks Add makes before it changes anything, PeekHighestPriority,
GetByAddress, GetNonce, GetStats (they read and change nothing), encoding and hashing.

## 3. Runs

| Run | Instance | Shows |
|---|---|---|
| `peer_manager` | 4 connections, 3 IDs, 1 address and one peer without; limits 2/1/1 | `MapsOwned`, `NoDuplicateConnection`, `CountersExact`, `MapsAgreeAtRest`, `OvershootBounded` |
| `lock_free_queue` | 3 goroutines, two of which may stop anywhere, 2 nodes besides the dummy | `ListIntact`, `NoNilDereference`, `ImplementsQueue`, `OpsFinish` |
| `sync_queue` | 3 goroutines, 2 values, Enqueue called on queues of up to 2 | `ImplementsQueue`, no deadlock |
| `lock_free_hash_map` | 2 goroutines, 2 keys of one bucket with different hashes, 3 values, 2 nodes, 1 Clear | `KeysUnique`, `CountExact`, `GetExplained`, `ImplementsKeySet` |
| `lock_free_priority_queue` | 2 goroutines, 3 nodes, 2 levels, 2 priorities, 1 Clear, after which 2 nodes are followed up, or 1 if the Clear is mixed with other calls (`MCBound`) | `ListSorted`, `ItemsAccounted`, `PopsHighest` |
| `lock_free_priority_queue_progress` | 2 goroutines, 2 nodes, 1 level, no Clear | refutes `LockFree` |
| `mempool` | 4 transactions of 3 hashes, one goroutine that adds, MaxSize 2, 1 second, a TTL of 0, heap of 4; GetPending(0), which is for all | `LiveInHeap`, `PendingSelected`, `EvictionJust`, `ExpiredLeave` |
| `node_lifecycle` | 2 connections of one remote, one accepted, one dialled by Start or after a Peers message; 2 starts | `ReadersRegistered`, `SocketsClosed`, `QuietWhenStopped`, `StopReturns`, `NothingRemains` |
| `handshake` | nodes a and b; connections from a to b, from b to a, from a to itself; each node restarts once at most, and b then has a later version | `PeersCompatible`, `AgreeAtRest`, `StaleForgotten` |
| `connection` | 3 messages of 3, 1 and 1 parts, a buffer of 2 | `FramesWhole`, `SentArrives` |
| `broadcast` | a triangle of nodes one of whose links may break, 1 message, fanout 1, a tick that is longer than the TTL, a cleanup at the publisher | `CountExact`, `HandledOncePerTTL`, `Delivery` |
| `discovery` | a seed, one other address that is added, removed and dialled, and the node's own; room for one, times 0 to 2, TTLs of 0, two attempts | `SizeBounded`, `ListenerInStep`, `QuietWhenStopped`, `GossipSpaced`, `AttemptsSpaced`, `StopReturns` |

What the composed properties say:

* `GetExplained`: a Get answers what its key was bound to at some moment of the
  call, or what an overlapping Put stores. There are two exceptions, which both
  occur: its bucket's node is not before the key's place, so the key is missed; or
  a Put is bringing the key back and has not stored its value, so the old value is
  answered.
* `ItemsAccounted`: an item that was pushed is in the list, taken, or unreachable
  behind a node that has been popped (that occurs), and Len is exact but for calls
  under way. A Clear that overlaps another operation makes both uncertain, which
  `mixed` notes.
* `PeersCompatible`, `AgreeAtRest`, `StaleForgotten`: who is registered is another
  node, of the same version, at its own address; when nothing is under way both
  ends have registered each other over the same connection; an entry under the ID
  of a process that has ended goes in the end, because the end of its connection
  shows in readLoop or in the handshake.
* `PendingSelected`: GetPending answers with as many entries of the heap as asked for, or
  as the pool has transactions, none of a hash that has left, and each entry once. If
  no hash of the pool is in two entries of the heap, they are different transactions of
  the pool, and all of it if all were asked for. (If one is, it is answered twice and
  another is left out: section 4.) As long as every priority that was read
  was the one of the moment the lock was taken, what has been chosen is the highest
  of the pool, in order, by those; from the first changed priority on nothing is
  promised of the order, and it does get wrong.
* `FramesWhole`, `SentArrives`: until Close is called the reader gets whole
  messages in the order of the mutex, each once. The Flush of Close may repeat one
  message that was under way and may spoil what comes then, but changes no order
  and repeats nothing that was sent; what was sent before arrives.

Why the bounds are enough:

* PeerManager: two connections of one remote meet in both maps; a third shares
  only the address, which makes the rollback happen while the holder leaves; a
  fourth only counts. With the limit of a direction at 1 and MaxPeers at 2 every
  refusal and every overshoot occurs. The proofs remove the bounds.
* LockFreeQueue: three goroutines let one stop between link and swing, one help
  and one dequeue past both. With two nodes head can try to pass a lagging tail
  and the queue becomes empty again. The proofs remove the bounds for everything
  but liveness.
* Mempool: with a pool of two and a heap of four there are stale and duplicate
  entries next to live ones, and the last slot of the heap need not be its
  lowest. a and a2 are one transaction decoded twice; the prices of a, b and c
  differ by one, which is what a wait of a second makes up for, so that the one tick of
  the clock puts old entries level with newer ones or before them, and makes what was
  received before it expire. In a heap of four an element sinks by two levels and meets
  an only child; receive times are written and the clock ticks between any two readings
  of GetPending. TLC has also checked `PendingSelected` with two goroutines that
  add, a pool of three and the limits 0 and 2, and the other safety properties with two
  ticks to the second. `MaxPending` bounds the heap, `MaxTime` the clock; nothing else is
  bounded. The proofs remove the bounds for everything but expiry.

* LockFreeHashMap: the two keys share a bucket whose pointer may lie behind the
  smaller one; with a node for each every place of the list (the head, the middle,
  the end) is linked at, and a key is deleted, brought back and cleared while the
  other goroutine looks for it. There is one Clear because a second one in the
  model adds nothing but what `mixed` excludes. The bucket of a key is its hash
  modulo the number of buckets; that number is 2 where 2 are asked for, which
  `BucketsAssumption` says of `nextPowerOf2`.
* LockFreePriorityQueue: three nodes and two priorities let a Push go before, behind
  and next to a node that is being popped; with two levels a node can be popped
  before its upper level is linked. A second goroutine suffices for each of these.
  The proofs remove the bounds of both for everything these runs check.
* Handshake: a simultaneous dial needs both directions, a dial of the own address
  the third connection. All three may be dialled again any number of times. A
  restart happens at every moment of every handshake. `MaxRestarts` is the only
  bound, and the proofs remove it and the number of nodes and connections for
  everything but liveness.
* Connection: one message is longer than the buffer, two fit in it together, so that
  a slice is copied, flushed in between or written directly. Three are enough for
  one to be sent before another is under way when Close comes. The proof removes the
  number of messages, their lengths and the size of the buffer.
* NodeLifecycle: two connections of one remote race for one ID while Stop goes
  through the registry; one of them may be dialled at any moment after a Peers
  message, also when Stop is over. The second start lets handshakes of the first
  run meet the second. An element of `Conns` is used again when its goroutine is
  over, so the number of connections over time is not bounded. `MaxStarts` is the
  only bound, and the proofs remove it and the number of connections.
* Broadcast: in a triangle every message comes back to where it was, by two ways.
  With a fanout of one the publisher has more candidates than a gossip takes; one
  tick is enough for it to forget and to handle the message again, and for a slow
  MarkSeen to store a time that is old already. `MaxTime` is the only bound.
  Links that last connect all nodes. `Delivery` excepts messages that a gossip
  has left a peer out for (`sampled`): broadcast.go:388 says that nodes may then
  be missed.

* Discovery: with room for one address every addition makes the table too large,
  and the cleanup must trim it or find it expired. Two units of time are the wait
  after a first failed attempt, and more than either TTL. One address is enough
  for an entry that leaves and comes again between GetRetryablePeers and
  MarkAttempt. With it alone there is never a choice of what to trim. Start, Stop,
  additions, removals and dials are not bounded; `MaxTime` is the only bound.

Deadlock is checked in every run but those of NodeLifecycle and Connection: some
operation can always be called. A node that has been stopped for the last time really
stops, so deadlock is not checked there, and `StopReturns` and `NothingRemains` say in
its place that nothing hangs; and a connection that is closed and read to its end
stops too.

Fairness. `OpsFinish`: weak fairness for the steps of the goroutines in `Live`;
Go's scheduler runs every runnable goroutine again and again, and no step of the
queue blocks. Nothing is assumed of the others. A goroutine could in principle
retry for ever while others succeed for ever (queue.go:29 says that the queue is
not wait-free); with finitely many enqueues there are finitely many successes,
which is the meaning of lock-freedom that is checked. `ExpiredLeave`: strong
fairness of `RemoveExpired`, because the ticker of cleanupLoop fires again and
again while the loop runs, and a sync.RWMutex lets a waiting writer go before the
readers that come later; weak fairness of GetPending's steps, which never wait. The
property promises nothing once stopCh is closed.
`StopReturns` and `NothingRemains`: weak fairness of each goroutine's own steps.
A dial and a handshake end because DialTimeout and HandshakeTimeout bound them;
ReadMessage is fair only when the socket is closed, because nothing makes a
remote talk or go; Accept only when the listener is closed; Start and Stop need
not be called. `Delivery`: goroutines that mark and send run, and a reader reads
what has arrived; nobody has to publish, no link has to break, no ticker to fire. `StopReturns` of
Discovery: handlers and gossipFunc return; strong fairness where a step waits for
`mu`, which callers may take again and again, because Go's mutexes hand over to a
waiter that starves; strong fairness of a loop's exit, because a select that finds
both a ticker and a closed channel ready chooses at random. `StaleForgotten`: weak
fairness of each end's goroutine, whose reads return when the other end has closed
its socket (`ReadEOF`); that a read fails otherwise, that anybody dials or that a
process ends is not assumed. `SentArrives`: the reader reads what there is. `LockFree`
is refuted under weak fairness of each goroutine's work: they run for ever and none
returns.

## 4. Disagreements between code and comments

* priority_queue.go says of Pop and Push, in the comments above them, that they are
  lock-free: some call always makes progress. When a Push has put its node before a
  node that a Pop has marked, the Pop's unlinking does nothing and is not repeated.
  Once the marked node is the first again, every Pop finds it marked and tries
  again, for ever (`lock_free_priority_queue_progress`).

Noticed while modelling, visible in the actions named, and not given a run of
their own:

* manager.go:140 promises an exact check by compare-and-swap; there is none, and
  two overlapping calls exceed MaxPeers. `OvershootBounded` says by how much at most.
* hashmap.go:52, a bucket points to the first node of its range: `PutSetBucket` sets
  it to the node that was inserted first. Put(k2) with hash 3, then Put(k1) with hash
  1 in the same bucket, and Get(k1) misses a key that is there, without any
  concurrency (`StartsBeyond`).
* hashmap.go:215, Put clears the flag of a deleted node before it stores the value
  (`PutRevive`, `PutRevalue`): a Get in between answers with the value from before
  the Delete.
* hashmap.go, nextPowerOf2 works on 32 bits and is 0 for more than 2^31.
* priority_queue.go, items can get lost: a Push whose predecessor is popped between
  its search and its compare-and-swap hangs its node on one that nobody reaches
  (`LostBehindPopped`). Len goes on counting it.
* connection.go:361, Close flushes without writeMu: after Close has begun the reader
  may get one message twice and may read something else where a length should be
  (`FlushBegin` of the closer between the steps of a writer).
* mempool.go:35, MaxSize is the maximum number of transactions: evicting a stale
  heap entry frees no place in the map, which then grows past it.
* mempool.go:392, GetPending(0) returns everything: the loop counts heap entries, so a
  transaction that was removed and added again is returned twice and another one left
  out. `PendingSelected` promises all only where no hash has two entries (`Unambiguous`).
* mempool.go:252, a full pool replaces when the newcomer is higher than the lowest:
  `AddFull` compares with the last slot of the heap, which may be any leaf, and refuses a
  newcomer that is higher than another one of the pool.
* mempool.go:427, Pop takes the highest: a refused Add changes the priority of an
  entry in place.
* node.go:764, after a Disconnect message readLoop removes the peer: the handler's
  error is only logged, and the loop goes on (`told`).
* mempool.go:454, Peek returns the highest: with a stale root it returns the next
  live slot of the array (PeekHighestPriority only reads and is not modelled).
* node.go:247, IsRunning says whether the node runs: `StartFail` leaves the flag
  set, and Start is refused until Stop has been called.
* node.go:213, Stop waits for all goroutines: handshakes are not in the WaitGroup,
  so `StopWait` may go on while one is in step `handshake` or `register`. They do
  no harm to what `QuietWhenStopped` and `NothingRemains` say, because each looks
  at the context before it reads.
* seed.go:387, handlers are called outside the lock to avoid deadlock: `event` is
  only ever set while `mu` is held. A handler that dials and calls MarkAttempt
  before it, as the comments at seed.go:365 and seed.go:424 suggest together,
  waits for ever.
* discovery.go:96, after one failure the wait is one minute, after two it is two:
  `Backoff` gives two and four, because Attempts is counted up before the dial.
* discovery.go:254, MaxPeers is the number of peers that are stored at most: it is
  exceeded until the next cleanup ends, and `SizeBounded` says by what.
* peer.go:482, Connected, Disconnecting, Disconnected: when two callers are both
  past the test of Peer.Close, `CloseSet` of the slower one takes the state back
  from Disconnected. `SocketsClosed` holds all the same.

## 5. Proofs

`NodeProofs`, `ConnectionProofs` and `QueueProofs` have two parts, one for each of the
specifications they are about; a part uses nothing of the other's assumption.

`NodeProofs`, its first part, of PeerManager, for any finite set of connections, any IDs and addresses and
any limits, from `ConfigAssumption` alone:

* `TypeCorrect`.
* `MapsStayOwned`: `TypeOK`, `IDsOwned` and `AddrsOwned` together are inductive: a goroutine deletes or rolls back only what it holds itself, because
  LoadOrStore refuses while somebody holds the key.
* `NoDuplicates` follows: two running peers with one key would both be the entry
  of that key.
* `CountersAreExact`: each step moves one peer into or out of the set that its
  counter counts; the lemmas `CountAfterStep` and `CountMonotone` turn that into
  arithmetic on cardinalities.
* `Overshoot`: the sum of the counter and of the peers past its check grows only
  when a check passes, and then the peers past the check are callers that overlap.
* `MapsAgree`: what else it needs is `Filed`, that an entry is under the ID or the
  address of the peer it holds. When no call is under way `MapsOwned` then makes
  `IDOf` a bijection from the running peers to the IDs with an entry, and the
  counters count the same peers (`RestingAgree`).

`QueueProofs`, its first part, for any set of goroutines and any finite set of nodes, from
`NodesAssumption`: `TypeCorrect`, `ListStaysIntact`, `NoNilDereferenced`,
`LockFreeQueueIsAQueue`. The invariants are not inductive by themselves: whether a
compare-and-swap on tail may succeed depends on what its caller has read earlier.
`IInv` adds, for each goroutine, what its local variables still say of the list
(`LocalsOK`: a node read as next of another is its successor for ever; what was
read from head and tail is no further on than they are now; Dequeue's tail is not
before its head), that a node being enqueued belongs to one goroutine and is not
in the list (`NewNodesOK`), and that the places in the list are taken once each
(`OrderOK`). One lemma handles all steps that link no node (`FrameStep`), one all
steps that change only local variables (`QuietStep`); `EnqLinkStep` is the step
that extends the list. TLC has checked `IInv` as an invariant of `lock_free_queue`'s
instance.

For the refinement of QueueSpec `RInv` adds that every place of the list is taken
(`PlacesOK`), what callers of Dequeue and Peek have been shown (`SeenOK`: the present
front, the answer Peek is about to give, and nil once Dequeue has read it), and that
an Enqueue whose node is linked has its answer (`AnswerOK`). `ItemsAre` describes the
sequence the list stands for. Linking a node appends to it (`EnqLinkIsEnqueue`), moving
head takes its first item off (`DeqSwingIsDequeue`), an empty Dequeue and Peek answer
with a front they were shown (`ReadIsOperation`), and all else stutters
(`QuietIsStutter`), the move of tail included.

`NodeProofs`, its second part, of NodeLifecycle, for any finite set of connections, any IDs and any number of starts, from
`ConnsAssumption`: `NodeTypeCorrect`, `ReadersStayRegistered`, `SocketsStayClosed`,
`StopSilences`. The inductive
invariant adds to them that
* `IDsHeld`: a goroutine between its AddPeer and its RemovePeer has its peer in
  the registry under its ID;
* `ClosersOK`: a caller of Peer.Close that is past the closing of the socket has
  left it closed; while a socket is open and its peer's state says closed, one of
  the two callers is about to close it, which is what an early return of the
  other relies on;
* `ControlOK`: which of context, listener and loops can be on at which step of
  Start and Stop;
* `WaitGroupOK`: the counter is the number of loops and readLoops. That gives
  `QuietWhenStopped` (Stop returns only at zero) and that the counter is never
  negative. Its proof is one step per action and two lemmas on the cardinality of
  the set of readers that gains or loses one.

`ConnectionProofs`, its first part, of Connection, for any messages of any lengths and
any buffer of two parts or more, from `ConnectionAssumption`: `FramesStayWhole`. The
assumption that `Nothing` is not the length of a message is there because the buffer begins
filled with `Nothing`. What a message looks like on its way depends on five things at
once (its writer's step, the slice it is in Write with, the buffer's fill, its contents,
and the socket), and the invariant `IInv` has a part for each, and then what follows from
them:
* `MutexInv`: who is past Lock holds the mutex and is the last in `order`, in which no
  message comes twice;
* `SliceInv`: a writer has its length, or some end of its payload, still to write;
* `CountInv`: while there was no error the buffer is empty whenever nobody holds the
  mutex, so that no writer begins behind another's bytes; it says how far the buffer is
  filled at each step of Write. Close, whose Flush may reset `n` under a writer, makes the
  count wrong at most downwards;
* `BufferInv`: only the first place of the buffer can be a length, and then that of the
  message whose writer holds the mutex;
* `Sorted`: the lengths that were read, are being read, are in the socket and are in the
  buffer come in the order of the mutex. A second Flush repeats the buffer and leaves
  parts out, but puts no older message behind a newer one;
* `RepeatInv`: each message's length is somewhere once, but for one message, which had
  not been sent when Close was called; and while the Flush of Close is not past its write
  there is no exception;
* `OpenInv`: until Close is called the parts in the socket are those of the messages in
  order, none left out (`Runs`), they end where the writer who holds the mutex has got to
  (`SentTo`), and the reader is at their beginning.

There is one lemma for each action and part. The lemmas under "How the stream grows and
shrinks" say which places of a concatenation or a tail are which of the old ones; with
`RunsGrow` a write to the socket continues the last message. TLC has checked `IInv`
with buffers of two, three and four parts.

`ConnectionProofs`, its second part, of Handshake, for any nodes, any connections
between them, any versions and any number of restarts, from `HandshakeAssumption`: `TypeCorrect`,
`PeersStayCompatible`, `EndsAgreeAtRest`. The inductive invariant is
* `EndsOK`: what an end has heard comes from a process of the node it is connected
  with, and from the present one as long as that has not closed its socket; and
  whoever it takes for a peer is compatible. The dialling end compares no versions:
  that an Ack on its way to it is compatible is in
* `AcksOK`: a connection is made when both goroutines are new; the Ack comes after
  the greeting, and before the accepting end goes on. Hence two ends that wait for
  each other are both in readLoop;
* `RegistriesOK`: a goroutine past its own store has the entry, and an entry belongs
  to such a goroutine, in both maps.

The lemmas under "What each action does" replace the updates of functions by what
they say of each argument; one lemma (`QuietEnds`) handles all steps that neither
send nor read nor open nor close, and five (`MoveKeeps`, `IDTaken`, `IDGiven`,
`AddrTaken`, `AddrGiven`) the registries. TLC has checked the invariant on the
instance of the run `handshake`.

`DiscoveryProofs`, for any finite set of addresses and any limits and times, from
`DiscoveryAssumption`: `TypeCorrect`, `SizeStaysBounded`, `ListenersStayInStep`,
`StopSilences`, `GossipStaysSpaced`, `AttemptsStaySpaced`. The inductive invariant
adds to the properties
* `LockOK` and `HeededOK`: handlers run only under `mu`, and what a listener will
  know when they return is the table; hence the two agree when `mu` is free;
* `ControlOK`: the flags at each step of Start and Stop, and that a loop exists
  only while its flag is set or Stop waits for it;
* `DueOK`: an address on the dialling list may still be dialled if it is in the
  table. Time makes that no less true, and an entry that was replaced is untried;
* `SeedsOK`: what trimming spares was given to the constructor;
* `CacheOK`: what the cache has forgotten is older than GossipTTL, and so is what
  is about to be sent.

The lemmas under "What the changes of the table do" say which entries each step
leaves alone; the steps of the loops follow from them. `AttemptsStaySpaced` has
the hypothesis `NoOverflow`, that RetryBaseInterval * 2^MaxRetryAttempts is still
a Duration: with a minute it fails from 28 attempts on, and the code with it.
TLC has checked `IInv` on the instance of the run `discovery`.

`BroadcastProofs`, for any network of links between two nodes each, any messages,
fanout and times, from `NetworkAssumption`: `CountStaysExact`, `NewOncePerTTL`. The
inductive invariant adds to `TypeOK` and the counter's formula
* `WorkOK`: a goroutine at work has a message;
* `CleanOK`: a cleanup has deleted no more entries than it has visited, and none
  while it is not running, so that what it subtracts it did delete;
* `SeenOK`: an entry that is there holds the time at which its message was last
  taken for new, and what was forgotten was taken for new more than MessageTTL ago.
  The cleanup compares with the time at which it began, which is no later than now.

Only a step of MarkSeen takes a goroutine from the store to the count, and only
when the entry is missing; `SeenOK` then gives `HandledOncePerTTL`. `CountStored`,
`CountAdded`, `CountDeleted` and `CountSubtracted` are the four steps that disturb
the counter's formula, each on both of its sides.

`QueueProofs`, its second part, for any goroutines and any items, under the
assumption `SyncQueueAssumption` of `SyncQueue`, which is a hypothesis of the
theorem because the module is instantiated there (`Sync`): `MutexQueueIsAQueue`, the
refinement of QueueSpec; `SyncQ!Spec` is the formula that `ImplementsQueue` is in
`SyncQueue`. The inductive invariant `SyncInv` is the types with
* `MutexOK`: whoever is between Lock and Unlock holds `mu`;
* `ReadOK`: what was read under the lock is still the queue when it is stored;
* `FrontsOK` and `ArgumentOK`: callers of Dequeue and Peek, and nobody else, have been
  shown fronts, the present one among them; callers of Enqueue hold an item.

The store, and the read of a call that returns early, are the abstract operations;
Lock, Unlock and the read before a store stutter.

`LockFreeHashMapProofs`, for any goroutines, nodes, keys, hashes and buckets, from
`HashMapAssumption`: `KeysStayUnique`, `LockFreeHashMapIsAKeySet`, `GetIsExplained`,
`CountStaysExact`. `GetIsExplained` has the two exceptions of `GetExplained`: a Get that
begins beyond its key may miss it, and one that meets a key being brought back may
answer with its old value. The proof of the first theorem orders the linked nodes by hash and,
among equal hashes, by when they were linked, and the inductive invariant says
* `Ordered`: the successor of a node is the next one in that order, so that what a
  pointer passes over is nothing that is linked;
* `SearchOK`: a linked node with the searched key is after `prev` and not before `curr`,
  so that a search that ends has missed none;
* `LinkOK`: if the compare-and-swap of Put succeeds, the successor of the new node is
  the one it replaces, although the head's `next` is read a second time.

`KeyIsNew` (a Put whose compare-and-swap succeeds adds a key that is not there),
`NotBeyond`, `LinkKeepsOrder` and `LinkKeepsSearches` carry the proof.

The other three add to this invariant, `IInv`:
* `Places`: a goroutine is where its operation can be, and the node it works on is
  linked and has its key; nodes are linked live, and buckets hold linked nodes.
* For the refinement of KeySetSpec, `Seen`: what a Delete, Range or Clear in
  progress has been shown contains the present state of its keys; a node that Range or
  Clear has passed is answered or its key was shown to be out; a Delete whose search
  found nothing has been shown that its key was out. One lemma for each operation says
  which of its steps is the abstract one (`PutIsAbstract`, `DeleteIsAbstract`,
  `GetIsAbstract`, `RangeIsAbstract`, `ClearIsAbstract`), and `StepIsStep` puts them together.
* For the answers of Get, `Got`: a Get in progress has been shown the present value of
  its key; it has passed no node of its key unless it began beyond it, and the value it
  is about to read was shown unless a Put is bringing the key back.
* For Len, `Alone`: a Clear that no Put, Delete or Clear overlaps has set all the flags
  it is past, and the counter is zero when it resets the buckets. Each step changes the
  counter as it changes the number of live nodes and of the operations that have not
  counted yet (`Balanced`).

`LockFreePriorityQueueProofs`, for any goroutines, priorities, levels and nodes, from
`PriorityQueueAssumption`: `ListStaysSorted`, `PopsTakeTheHighest`,
`ItemsStayAccounted`. The order of the levels is inductive only together with what a
goroutine's local variables still say of the list when it comes to its
compare-and-swap. That is `Core`, which has besides types and order
* `PushLocal`: a search stands on a node of higher priority, and what it has noted for
  each level is such a node and one that is not higher; that is what keeps the order
  when the compare-and-swap succeeds;
* `PopLocal`: a Pop past its compare-and-swap holds a marked node, and what it puts in
  that node's place may follow it;
* `WalkLocal`: Peek and Clear stand on nodes of the list;
* `Fresh`: a node not linked at level 0 has neither a mark nor pointers;
* `Room`: there is a node for every Push that has begun, so that no Push of the model
  wants for one.

What the other goroutines do keeps all this because of `Grows`: a linked node stays
one, with its priority and, if it has one, its mark. There is one lemma for each action.

* `PopsTakeTheHighest` adds `FrontsOK`: a Pop has been shown the highest nodes of now,
  and the node it is about to mark was one of them unless another has marked it. The
  first node of the list is among the highest or marked (`FirstIsHighest`).
* `ItemsStayAccounted` adds `CInv`, each part of which holds while no Clear has
  overlapped another operation: a Clear is alone but for Peeks (`Alone`), every item
  hangs on something (`Hung`), a Clear has before it every item that is left
  (`ClearOK`), and the counter's formula, which `Balanced` follows through each step.

What can be reached from a node, `From`, is the least set closed under the pointers of
level 0, so that these proofs need no induction over the list. TLC has checked `IInv`,
`FrontsOK` and `CInv` on the instance of the run `lock_free_priority_queue`.

`MempoolProofs`, for any finite set of transactions, any hashes and prices, any limits
and times, from `MempoolAssumption`: `LiveStaysInHeap`, `EvictionsAreJust`,
`PendingIsSound`. The first two rest on what container/heap does to an array of any length.
`Induction` says that a set with 0 and the successor of each of its numbers has all of
them, and follows from the theorems on finite sets: were one missing, those up to it
that are missing could be mapped one to one onto fewer of them. With it there is a
function for each of the recursive definitions of `BinaryHeap` and of `Pops`
(`SinksUnfold`, `RisesUnfold`, `OrderedUnfold`, `PopsUnfold`), without which nothing
would be known of their values. Then
* the places by which an element sinks or rises are a path (`PathsEnd`), and moving them
  along it only shuffles the array (`DownShuffles`, `UpShuffles`): Push adds an entry,
  Remove takes out the one it is told, Init and Pop lose none. That is what
  `LiveInHeap` needs, which is inductive: an Add enters the map and the heap together,
  RebuildHeap takes the map's contents, what Remove leaves behind in the heap is no
  longer in the map, and Pop drops no live entry since it stops at the first;
* of the entries that removeLowestLocked goes through, which are all of them, it takes
  the lowest (`LowestFacts`), and an Add replaces it only by what is higher.

For these two `PoolInv` is inductive. `PendingIsSound` needs an invariant of a call of
GetPending, `SelectionInv`, besides the types
* `ControlOK`: which of start, within, at and child are known at each step, and where
  in the array they are;
* `EntriesOK`: the entries of the heap are in the copy or in the answer, each once,
  and only those of hashes that have left are in neither. Swaps keep it (`SwapKeeps`),
  whatever priorities the comparisons read;
* `OrderOK`: while no changed priority was met, the copy is a heap from `start` on but for
  the element that sinks (`HeapBut`). An element that has changed places with its
  preferred child still is the only one that may be out of place (`SwapHeaps`), as is a new
  root (`RootLeaves`), which replaces the highest (`RootIsMax`);
* `ResultsOK`: what was chosen then is in order, and nothing still in the copy is higher.

There is one lemma for each step. At the end (`AnswersAreSound`) the copy is empty or
the answer long enough, and by `PoolInv` there are no fewer entries than transactions.
TLC has checked the four parts on heaps of up to three entries, and all but `EntriesOK`
on heaps of four.

Only model-checked:
* everything about liveness, which is out of the proof system's reach: `OpsFinish`,
  `ExpiredLeave`, `StopReturns`, `NothingRemains`, `StaleForgotten`, `SentArrives`,
  `Delivery`; TLC refutes `LockFree`.

## 6. Plan

1. Done: PeerManager, QueueSpec, LockFreeQueue, SyncQueue, KeySetSpec,
   LockFreeHashMap, LockFreePriorityQueue, Mempool, NodeLifecycle, Handshake,
   Connection, Broadcast, Discovery, and proofs about each of them: there is a theorem
   for every safety property of the passing runs.
2. Still open: Start and Stop of Node and of Discovery called by two goroutines.

Not modelled, and why:

* `pkg/ds/sync` HashMap and PriorityQueue: every method holds the lock from its first
  to its last access, which is what `sync_queue` checks of the queue; what is left is
  a Go map, and container/heap, which `BinaryHeap` models.
* The dispatcher of `pkg/protocol/handlers.go`: nothing uses it; Node has a map of
  handlers of its own, set before Start.
* Statistics, getters and other methods that only read; encoding of payloads, headers
  and checksums (formatting); random identifiers; socket options; the buffer pool
  (a `sync.Pool`); `cmd/node` (flags and signals).
