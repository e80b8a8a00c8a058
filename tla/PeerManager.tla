---------------------------- MODULE PeerManager ----------------------------
(***************************************************************************)
(* The registry of connected peers, pkg/peer/manager.go.                   *)
(*                                                                         *)
(* AddPeer and RemovePeer are not atomic: each is a sequence of single     *)
(* operations on two sync.Maps and three atomic counters, and one goroutine *)
(* per connection runs them.  An element of Peers is a *Peer together with *)
(* that goroutine, and pc[p] is the next operation it performs.  As in     *)
(* node.go, which has the only callers, a goroutine calls RemovePeer with  *)
(* the ID of its own peer and only after its AddPeer returned nil.         *)
(***************************************************************************)
EXTENDS Integers, FiniteSets

CONSTANTS
    Peers,                        \* *Peer objects: one per connection
    IDs,                          \* peer IDs
    Addrs,                        \* non-empty listening addresses
    IDOf, AddrOf, DirectionOf,    \* Peer.ID(), Peer.Addr(), Peer.Direction()
    MaxPeers, MaxInboundPeers, MaxOutboundPeers,
    NoPeer,                       \* no entry in a sync.Map
    NoAddr                        \* the address ""

Directions == {"Inbound", "Outbound"}

ASSUME ConfigAssumption ==
    /\ IsFiniteSet(Peers)
    /\ IDOf \in [Peers -> IDs]
    /\ AddrOf \in [Peers -> Addrs \cup {NoAddr}]
    /\ DirectionOf \in [Peers -> Directions]
    /\ NoPeer \notin Peers
    /\ NoAddr \notin Addrs
    /\ MaxPeers \in Nat
    /\ MaxInboundPeers \in Nat
    /\ MaxOutboundPeers \in Nat

VARIABLES
    peers,          \* sync.Map from ID to peer
    peersByAddr,    \* sync.Map from address to peer
    totalCount,     \* atomic counter
    dirCount,       \* the atomic counters inboundCount and outboundCount
    pc,             \* next operation of each peer's goroutine
    removed,        \* RemovePeer's local variable peer
    peak            \* history: most AddPeer calls in progress at once so far,
                    \* counted as 1 before the first call

vars == <<peers, peersByAddr, totalCount, dirCount, pc, removed, peak>>
-----------------------------------------------------------------------------
(* What the operations read and write.                                     *)

MaxOf(d) == IF d = "Inbound" THEN MaxInboundPeers ELSE MaxOutboundPeers

HasPeer(id) == peers[id] # NoPeer
HasPeerByAddr(a) == a \in Addrs /\ peersByAddr[a] # NoPeer
\* Wrong: one peer too many passes.
IsFullLate == totalCount > MaxPeers
IsFull == totalCount >= MaxPeers
CanAdd(d) == dirCount[d] < MaxOf(d)

AddPeerSteps == {"checkTotal", "checkDirection", "storeID", "storeAddr",
                 "rollback", "countTotal", "countDirection"}
RemovePeerSteps == {"deleteID", "deleteAddr", "uncountTotal",
                    "uncountDirection"}
\* No call in progress: before AddPeer, refused by it, between the two calls
\* (the peer's readLoop runs), and after RemovePeer.
Resting == {"idle", "refused", "running", "gone"}

At(step) == {p \in Peers : pc[p] = step}
AtAny(steps) == {p \in Peers : pc[p] \in steps}

\* p's goroutine performs operation step and goes on to next.
Step(p, step, next) == pc[p] = step /\ pc' = [pc EXCEPT ![p] = next]
-----------------------------------------------------------------------------
(* AddPeer.                                                                *)

\* startPeer hands a fresh connection to AddPeer.  Once a goroutine is over
\* its element of Peers stands for the next connection of the same remote.
StartPeer(p) ==
    /\ pc[p] \in {"idle", "refused", "gone"}
    /\ pc' = [pc EXCEPT ![p] = "checkTotal"]
    /\ LET calls == Cardinality(AtAny(AddPeerSteps)) + 1
       IN  peak' = IF calls > peak THEN calls ELSE peak
    /\ UNCHANGED <<peers, peersByAddr, totalCount, dirCount, removed>>

AddPeerCheckTotal(p) ==
    /\ Step(p, "checkTotal", IF IsFull THEN "refused" ELSE "checkDirection")
    /\ UNCHANGED <<peers, peersByAddr, totalCount, dirCount, removed, peak>>

AddPeerCheckDirection(p) ==
    /\ Step(p, "checkDirection",
            IF CanAdd(DirectionOf[p]) THEN "storeID" ELSE "refused")
    /\ UNCHANGED <<peers, peersByAddr, totalCount, dirCount, removed, peak>>

\* peers.LoadOrStore
AddPeerStoreID(p) ==
    /\ \/ /\ HasPeer(IDOf[p])
          /\ Step(p, "storeID", "refused")
          /\ UNCHANGED peers
       \/ /\ ~HasPeer(IDOf[p])
          /\ Step(p, "storeID", "storeAddr")
          /\ peers' = [peers EXCEPT ![IDOf[p]] = p]
    /\ UNCHANGED <<peersByAddr, totalCount, dirCount, removed, peak>>

\* Wrong: an address that is taken is kept as it is and the peer let in.
AddPeerShareAddr(p) ==
    /\ Step(p, "storeAddr", "countTotal")
    /\ peersByAddr' = [a \in Addrs |-> IF a = AddrOf[p] /\ ~HasPeerByAddr(a)
                                       THEN p ELSE peersByAddr[a]]
    /\ UNCHANGED <<peers, totalCount, dirCount, removed, peak>>

\* peersByAddr.LoadOrStore, skipped for a peer without an address
AddPeerStoreAddr(p) ==
    /\ \/ /\ HasPeerByAddr(AddrOf[p])
          /\ Step(p, "storeAddr", "rollback")
          /\ UNCHANGED peersByAddr
       \/ /\ ~HasPeerByAddr(AddrOf[p])
          /\ Step(p, "storeAddr", "countTotal")
          /\ peersByAddr' = [a \in Addrs |->
                               IF a = AddrOf[p] THEN p ELSE peersByAddr[a]]
    /\ UNCHANGED <<peers, totalCount, dirCount, removed, peak>>

\* peers.Delete, without looking at what is stored
AddPeerRollback(p) ==
    /\ Step(p, "rollback", "refused")
    /\ peers' = [peers EXCEPT ![IDOf[p]] = NoPeer]
    /\ UNCHANGED <<peersByAddr, totalCount, dirCount, removed, peak>>

AddPeerCountTotal(p) ==
    /\ Step(p, "countTotal", "countDirection")
    /\ totalCount' = totalCount + 1
    /\ UNCHANGED <<peers, peersByAddr, dirCount, removed, peak>>

\* Wrong: every peer counts as inbound.
AddPeerCountInbound(p) ==
    /\ Step(p, "countDirection", "running")
    /\ dirCount' = [dirCount EXCEPT !["Inbound"] = @ + 1]
    /\ UNCHANGED <<peers, peersByAddr, totalCount, removed, peak>>

AddPeerCountDirection(p) ==
    /\ Step(p, "countDirection", "running")
    /\ dirCount' = [dirCount EXCEPT ![DirectionOf[p]] = @ + 1]
    /\ UNCHANGED <<peers, peersByAddr, totalCount, removed, peak>>

AddPeer(p) ==
    \/ AddPeerCheckTotal(p)
    \/ AddPeerCheckDirection(p)
    \/ AddPeerStoreID(p)
    \/ AddPeerStoreAddr(p)
    \/ AddPeerRollback(p)
    \/ AddPeerCountTotal(p)
    \/ AddPeerCountDirection(p)
-----------------------------------------------------------------------------
(* RemovePeer.                                                             *)

\* readLoop returns and its deferred removePeer calls RemovePeer(p.ID()).
EndReadLoop(p) ==
    /\ Step(p, "running", "deleteID")
    /\ UNCHANGED <<peers, peersByAddr, totalCount, dirCount, removed, peak>>

\* peers.LoadAndDelete: what follows is about the peer found under the ID.
RemovePeerDeleteID(p) ==
    /\ Step(p, "deleteID", IF HasPeer(IDOf[p]) THEN "deleteAddr" ELSE "gone")
    /\ removed' = [removed EXCEPT ![p] = peers[IDOf[p]]]
    /\ peers' = [peers EXCEPT ![IDOf[p]] = NoPeer]
    /\ UNCHANGED <<peersByAddr, totalCount, dirCount, peak>>

\* Wrong: the address map keeps the peer.
RemovePeerKeepAddr(p) ==
    /\ Step(p, "deleteAddr", "uncountTotal")
    /\ UNCHANGED <<peers, peersByAddr, totalCount, dirCount, removed, peak>>

RemovePeerDeleteAddr(p) ==
    /\ Step(p, "deleteAddr", "uncountTotal")
    /\ peersByAddr' = [a \in Addrs |-> IF a = AddrOf[removed[p]]
                                       THEN NoPeer ELSE peersByAddr[a]]
    /\ UNCHANGED <<peers, totalCount, dirCount, removed, peak>>

\* Wrong: only the counter of the direction goes down.
RemovePeerKeepTotal(p) ==
    /\ Step(p, "uncountTotal", "uncountDirection")
    /\ UNCHANGED <<peers, peersByAddr, totalCount, dirCount, removed, peak>>

RemovePeerUncountTotal(p) ==
    /\ Step(p, "uncountTotal", "uncountDirection")
    /\ totalCount' = totalCount - 1
    /\ UNCHANGED <<peers, peersByAddr, dirCount, removed, peak>>

RemovePeerUncountDirection(p) ==
    /\ Step(p, "uncountDirection", "gone")
    /\ dirCount' = [dirCount EXCEPT ![DirectionOf[removed[p]]] = @ - 1]
    /\ removed' = [removed EXCEPT ![p] = NoPeer]
    /\ UNCHANGED <<peers, peersByAddr, totalCount, peak>>

RemovePeer(p) ==
    \/ RemovePeerDeleteID(p)
    \/ RemovePeerDeleteAddr(p)
    \/ RemovePeerUncountTotal(p)
    \/ RemovePeerUncountDirection(p)
-----------------------------------------------------------------------------
\* NewPeerManager
Init ==
    /\ peers = [id \in IDs |-> NoPeer]
    /\ peersByAddr = [a \in Addrs |-> NoPeer]
    /\ totalCount = 0
    /\ dirCount = [d \in Directions |-> 0]
    /\ pc = [p \in Peers |-> "idle"]
    /\ removed = [p \in Peers |-> NoPeer]
    /\ peak = 1

Next == \E p \in Peers : \/ StartPeer(p)
                         \/ AddPeer(p)
                         \/ EndReadLoop(p)
                         \/ RemovePeer(p)

Spec == Init /\ [][Next]_vars
-----------------------------------------------------------------------------
\* Every variable keeps its type: maps hold peers, counters are integers, and
\* RemovePeer's local variable is a peer or nothing.
TypeOK ==
    /\ peers \in [IDs -> Peers \cup {NoPeer}]
    /\ peersByAddr \in [Addrs -> Peers \cup {NoPeer}]
    /\ totalCount \in Int
    /\ dirCount \in [Directions -> Int]
    /\ pc \in [Peers -> AddPeerSteps \cup RemovePeerSteps \cup Resting]
    /\ removed \in [Peers -> Peers \cup {NoPeer}]
    /\ peak \in Nat

\* Between which operations a peer holds its ID, its address, its share of
\* totalCount and its share of its direction's counter.
HoldsID == {"storeAddr", "rollback", "countTotal", "countDirection",
            "running", "deleteID"}
HoldsAddr == {"countTotal", "countDirection", "running", "deleteID",
              "deleteAddr"}
InTotal == {"countDirection", "running", "deleteID", "deleteAddr",
            "uncountTotal"}
InDirection == {"running", "deleteID", "deleteAddr", "uncountTotal",
                "uncountDirection"}

\* The ID map holds exactly the peers between their LoadOrStore and their own
\* rollback or LoadAndDelete, so a peer whose readLoop runs is never dropped
\* from the map by another goroutine's rollback or RemovePeer.
IDsOwned ==
    \A p \in Peers : pc[p] \in HoldsID <=> peers[IDOf[p]] = p

\* The same for the address map, which a peer leaves after the ID map, and
\* RemovePeer never takes another connection's peer out.
AddrsOwned ==
    /\ \A p \in Peers : AddrOf[p] # NoAddr =>
          (pc[p] \in HoldsAddr <=> peersByAddr[AddrOf[p]] = p)
    /\ \A p \in AtAny({"deleteAddr", "uncountTotal", "uncountDirection"}) :
          removed[p] = p

\* No goroutine's rollback or removal touches the entries of another: both maps
\* hold exactly the peers that their own goroutines have stored and not removed.
MapsOwned == TypeOK /\ IDsOwned /\ AddrsOwned

\* No two live connections share an ID or an address, whatever the
\* interleaving of their AddPeer calls with the removal of earlier ones.
NoDuplicateConnection ==
    \A p, q \in At("running") : p # q =>
        /\ IDOf[p] # IDOf[q]
        /\ AddrOf[p] # AddrOf[q] \/ AddrOf[p] = NoAddr

\* The counters count exactly the peers between their two updates; they are
\* never negative, so GetAllPeers and its like may use them as a capacity.
CountersExact ==
    /\ totalCount = Cardinality(AtAny(InTotal))
    /\ \A d \in Directions : dirCount[d] =
          Cardinality({p \in Peers : pc[p] \in InDirection /\ DirectionOf[p] = d})

\* When no call is in progress the two maps and the counters tell one story:
\* as many entries by ID as totalCount and as the two directions together,
\* and every address entry belongs to a peer that is also found by its ID.
MapsAgreeAtRest ==
    (\A p \in Peers : pc[p] \in Resting) =>
        /\ Cardinality({id \in IDs : HasPeer(id)}) = totalCount
        /\ totalCount = dirCount["Inbound"] + dirCount["Outbound"]
        /\ \A a \in Addrs : HasPeerByAddr(a) =>
              peers[IDOf[peersByAddr[a]]] = peersByAddr[a]

\* Peers past the check of a limit that have not yet been counted.
PastTotalCheck == {"checkDirection", "storeID", "storeAddr", "rollback",
                   "countTotal"}
PastDirectionCheck == {"storeID", "storeAddr", "rollback", "countTotal",
                       "countDirection"}

\* The limits are checked before they are counted, so they can be exceeded,
\* but by at most the AddPeer calls that ran at once less one: calls that do
\* not overlap respect MaxPeers and the limit of their direction.
OvershootBounded ==
    /\ totalCount + Cardinality(AtAny(PastTotalCheck)) <= MaxPeers + peak - 1
    /\ \A d \in Directions :
          dirCount[d] + Cardinality({p \in Peers : /\ pc[p] \in PastDirectionCheck
                                                   /\ DirectionOf[p] = d})
             <= MaxOf(d) + peak - 1
=============================================================================
