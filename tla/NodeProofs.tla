----------------------------- MODULE NodeProofs -----------------------------
(***************************************************************************)
(* Proofs about the peers of a node, for any of them.  PeerManager, for    *)
(* any limits and goroutines: the counters are exact, no peer is in the    *)
(* maps twice, and the limits are passed by no more than the calls of      *)
(* AddPeer in progress.  NodeLifecycle, for any connections, in the second *)
(* part: Stop leaves no goroutine, reader or socket behind.                *)
(***************************************************************************)
EXTENDS PeerManager, NodeLifecycle, FiniteSetTheorems, FunctionTheorems, TLAPS

\* The number of peers of P that are at one of the steps S.
Count(f, P, S) == Cardinality({q \in P : f[q] \in S})

OfDirection(d) == {p \in Peers : DirectionOf[p] = d}

AllSteps == AddPeerSteps \cup RemovePeerSteps \cup Resting
-----------------------------------------------------------------------------
(* Counting.                                                               *)

In(x, S) == IF x \in S THEN 1 ELSE 0

\* When one goroutine moves to another step, the number of goroutines of P in
\* S changes by the one that enters or leaves S.
LEMMA CountAfterStep ==
    ASSUME NEW P \in SUBSET Peers, NEW S, NEW f, NEW g, NEW p \in Peers,
           \A q \in Peers : q # p => g[q] = f[q]
    PROVE  /\ Count(f, P, S) \in Nat
           /\ Count(g, P, S) \in Nat
           /\ p \in P => Count(g, P, S) = Count(f, P, S) + In(g[p], S) - In(f[p], S)
           /\ p \notin P => Count(g, P, S) = Count(f, P, S)
<1> DEFINE A == {q \in P : f[q] \in S}
           B == {q \in P : g[q] \in S}
<1>1. IsFiniteSet(A) /\ IsFiniteSet(B)
  <2>1. A \in SUBSET Peers /\ B \in SUBSET Peers
    OBVIOUS
  <2> QED
    BY <2>1, FS_Subset, ConfigAssumption
<1>2. Cardinality(A) \in Nat /\ Cardinality(B) \in Nat
  BY <1>1, FS_CardinalityType
<1>3. ASSUME p \in P, g[p] \in S, f[p] \notin S
      PROVE  Cardinality(B) = Cardinality(A) + 1
  <2>1. B = A \cup {p} /\ p \notin A
    BY <1>3
  <2> HIDE DEF A, B
  <2> QED
    BY <2>1, <1>1, FS_AddElement
<1>4. ASSUME p \in P, g[p] \notin S, f[p] \in S
      PROVE  Cardinality(B) = Cardinality(A) - 1
  <2>1. B = A \ {p} /\ p \in A
    BY <1>4
  <2> HIDE DEF A, B
  <2> QED
    BY <2>1, <1>1, FS_RemoveElement
<1>5. ASSUME p \notin P \/ (g[p] \in S <=> f[p] \in S)
      PROVE  A = B
  BY <1>5
<1> HIDE DEF A, B
<1>6. /\ p \in P => Cardinality(B) = Cardinality(A) + In(g[p], S) - In(f[p], S)
      /\ p \notin P => Cardinality(B) = Cardinality(A)
  BY <1>2, <1>3, <1>4, <1>5 DEF In
<1> QED
  BY <1>2, <1>6 DEF Count, A, B

\* More steps, more goroutines.
LEMMA CountMonotone ==
    ASSUME NEW P \in SUBSET Peers, NEW Q \in SUBSET P,
           NEW f, NEW S, NEW T, S \subseteq T
    PROVE  /\ Count(f, Q, S) \in Nat
           /\ Count(f, P, T) \in Nat
           /\ Count(f, Q, S) <= Count(f, P, T)
<1> DEFINE A == {q \in Q : f[q] \in S}
           B == {q \in P : f[q] \in T}
<1>1. B \in SUBSET Peers /\ A \in SUBSET B
  OBVIOUS
<1>2. IsFiniteSet(B)
  BY <1>1, FS_Subset, ConfigAssumption
<1>3. IsFiniteSet(A) /\ Cardinality(A) <= Cardinality(B)
  BY <1>1, <1>2, FS_Subset
<1> QED
  BY <1>2, <1>3, FS_CardinalityType DEF Count
-----------------------------------------------------------------------------
(* Type correctness.                                                       *)

\* Every reachable state of manager.go's registry is well typed.
THEOREM TypeCorrect == Spec => []TypeOK
<1>1. Init => TypeOK
  BY DEF Init, TypeOK, Resting
<1>2. TypeOK /\ [Next]_vars => TypeOK'
  <2> SUFFICES ASSUME TypeOK, [Next]_vars
               PROVE  TypeOK'
    OBVIOUS
  <2> USE ConfigAssumption DEF TypeOK, Step
  <2>1. ASSUME NEW p \in Peers, StartPeer(p)
        PROVE  TypeOK'
    <3>1. Cardinality(AtAny(AddPeerSteps)) \in Nat
      <4>1. Count(pc, Peers, AddPeerSteps) \in Nat
        BY CountMonotone
      <4> QED
        BY <4>1 DEF AtAny, Count
    <3> QED
      BY <2>1, <3>1 DEF StartPeer, AddPeerSteps
  <2>2. ASSUME NEW p \in Peers, AddPeer(p)
        PROVE  TypeOK'
    <3>1. CASE AddPeerCheckTotal(p)
      BY <3>1 DEF AddPeerCheckTotal, AddPeerSteps, Resting
    <3>2. CASE AddPeerCheckDirection(p)
      BY <3>2 DEF AddPeerCheckDirection, AddPeerSteps, Resting
    <3>3. CASE AddPeerStoreID(p)
      BY <3>3 DEF AddPeerStoreID, AddPeerSteps, Resting
    <3>4. CASE AddPeerStoreAddr(p)
      BY <3>4 DEF AddPeerStoreAddr, AddPeerSteps
    <3>5. CASE AddPeerRollback(p)
      BY <3>5 DEF AddPeerRollback, Resting
    <3>6. CASE AddPeerCountTotal(p)
      BY <3>6 DEF AddPeerCountTotal, AddPeerSteps
    <3>7. CASE AddPeerCountDirection(p)
      BY <3>7 DEF AddPeerCountDirection, Resting
    <3> QED
      BY <2>2, <3>1, <3>2, <3>3, <3>4, <3>5, <3>6, <3>7 DEF AddPeer
  <2>3. ASSUME NEW p \in Peers, EndReadLoop(p)
        PROVE  TypeOK'
    BY <2>3 DEF EndReadLoop, RemovePeerSteps
  <2>4. ASSUME NEW p \in Peers, RemovePeer(p)
        PROVE  TypeOK'
    <3>1. CASE RemovePeerDeleteID(p)
      BY <3>1 DEF RemovePeerDeleteID, RemovePeerSteps, Resting
    <3>2. CASE RemovePeerDeleteAddr(p)
      BY <3>2 DEF RemovePeerDeleteAddr, RemovePeerSteps
    <3>3. CASE RemovePeerUncountTotal(p)
      BY <3>3 DEF RemovePeerUncountTotal, RemovePeerSteps
    <3>4. CASE RemovePeerUncountDirection(p)
      <4>1. dirCount' \in [Directions -> Int]
        BY <3>4, \A d \in Directions : dirCount[d] - 1 \in Int
           DEF RemovePeerUncountDirection
      <4> QED
        BY <3>4, <4>1 DEF RemovePeerUncountDirection, Resting
    <3> QED
      BY <2>4, <3>1, <3>2, <3>3, <3>4 DEF RemovePeer
  <2>5. CASE UNCHANGED vars
    BY <2>5 DEF vars
  <2> QED
    BY <2>1, <2>2, <2>3, <2>4, <2>5 DEF Next
<1> QED
  BY <1>1, <1>2, PTL DEF Spec
-----------------------------------------------------------------------------
(* Ownership of map entries.                                               *)

Owned == IDsOwned /\ AddrsOwned

\* No operation disturbs the entries of the maps that other goroutines own.
LEMMA OwnedStep ==
    ASSUME TypeOK, Owned, [Next]_vars
    PROVE  Owned'
<1> USE ConfigAssumption DEF TypeOK, Step
<1>1. ASSUME NEW p \in Peers, StartPeer(p)
      PROVE  Owned'
  BY <1>1 DEF Owned, IDsOwned, AddrsOwned, AtAny, StartPeer, HoldsID, HoldsAddr
<1>2. ASSUME NEW p \in Peers, AddPeer(p)
      PROVE  Owned'
  <2>1. CASE AddPeerCheckTotal(p)
    BY <2>1 DEF Owned, IDsOwned, AddrsOwned, AtAny, AddPeerCheckTotal, HoldsID, HoldsAddr
  <2>2. CASE AddPeerCheckDirection(p)
    BY <2>2 DEF Owned, IDsOwned, AddrsOwned, AtAny, AddPeerCheckDirection, HoldsID, HoldsAddr
  <2>3. CASE AddPeerStoreID(p)
    <3>1. IDsOwned'
      BY <2>3 DEF Owned, IDsOwned, AddPeerStoreID, HasPeer, HoldsID
    <3>2. AddrsOwned'
      BY <2>3 DEF Owned, AddrsOwned, AtAny, AddPeerStoreID, HoldsAddr
    <3> QED
      BY <3>1, <3>2 DEF Owned
  <2>4. CASE AddPeerStoreAddr(p)
    <3>1. IDsOwned'
      BY <2>4 DEF Owned, IDsOwned, AddPeerStoreAddr, HoldsID
    <3>2. AddrsOwned'
      BY <2>4 DEF Owned, AddrsOwned, AtAny, AddPeerStoreAddr, HasPeerByAddr, HoldsAddr
    <3> QED
      BY <3>1, <3>2 DEF Owned
  <2>5. CASE AddPeerRollback(p)
    <3>1. IDsOwned'
      BY <2>5 DEF Owned, IDsOwned, AddPeerRollback, HoldsID
    <3>2. AddrsOwned'
      BY <2>5 DEF Owned, AddrsOwned, AtAny, AddPeerRollback, HoldsAddr
    <3> QED
      BY <3>1, <3>2 DEF Owned
  <2>6. CASE AddPeerCountTotal(p)
    BY <2>6 DEF Owned, IDsOwned, AddrsOwned, AtAny, AddPeerCountTotal, HoldsID, HoldsAddr
  <2>7. CASE AddPeerCountDirection(p)
    BY <2>7 DEF Owned, IDsOwned, AddrsOwned, AtAny, AddPeerCountDirection, HoldsID, HoldsAddr
  <2> QED
    BY <1>2, <2>1, <2>2, <2>3, <2>4, <2>5, <2>6, <2>7 DEF AddPeer
<1>3. ASSUME NEW p \in Peers, EndReadLoop(p)
      PROVE  Owned'
  BY <1>3 DEF Owned, IDsOwned, AddrsOwned, AtAny, EndReadLoop, HoldsID, HoldsAddr
<1>4. ASSUME NEW p \in Peers, RemovePeer(p)
      PROVE  Owned'
  <2>1. CASE RemovePeerDeleteID(p)
    <3>1. peers[IDOf[p]] = p /\ pc[p] = "deleteID"
      BY <2>1 DEF Owned, IDsOwned, RemovePeerDeleteID, HoldsID
    <3>2. IDsOwned'
      BY <2>1, <3>1 DEF Owned, IDsOwned, RemovePeerDeleteID, HasPeer, HoldsID
    <3>3. AddrsOwned'
      BY <2>1, <3>1 DEF Owned, AddrsOwned, AtAny, RemovePeerDeleteID, HasPeer, HoldsAddr
    <3> QED
      BY <3>2, <3>3 DEF Owned
  <2>2. CASE RemovePeerDeleteAddr(p)
    <3>1. removed[p] = p /\ pc[p] = "deleteAddr"
      BY <2>2 DEF Owned, AddrsOwned, AtAny, RemovePeerDeleteAddr
    <3>2. IDsOwned'
      BY <2>2 DEF Owned, IDsOwned, RemovePeerDeleteAddr, HoldsID
    <3>3. AddrsOwned'
      BY <2>2, <3>1 DEF Owned, AddrsOwned, AtAny, RemovePeerDeleteAddr, HoldsAddr
    <3> QED
      BY <3>2, <3>3 DEF Owned
  <2>3. CASE RemovePeerUncountTotal(p)
    BY <2>3 DEF Owned, IDsOwned, AddrsOwned, AtAny, RemovePeerUncountTotal, HoldsID, HoldsAddr
  <2>4. CASE RemovePeerUncountDirection(p)
    BY <2>4 DEF Owned, IDsOwned, AddrsOwned, AtAny, RemovePeerUncountDirection, HoldsID, HoldsAddr
  <2> QED
    BY <1>4, <2>1, <2>2, <2>3, <2>4 DEF RemovePeer
<1>5. CASE UNCHANGED vars
  BY <1>5 DEF Owned, IDsOwned, AddrsOwned, AtAny, vars
<1> QED
  BY <1>1, <1>2, <1>3, <1>4, <1>5 DEF Next

\* The maps hold exactly the peers that have stored themselves and have not
\* yet taken themselves out: no rollback or RemovePeer hits another peer.
THEOREM MapsStayOwned == Spec => []MapsOwned
<1>1. Init => Owned
  BY ConfigAssumption DEF Init, Owned, IDsOwned, AddrsOwned, AtAny, HoldsID, HoldsAddr
<1>2. TypeOK /\ Owned /\ [Next]_vars => Owned'
  BY OwnedStep
<1>3. TypeOK /\ Owned => MapsOwned
  BY DEF Owned, MapsOwned
<1> QED
  BY <1>1, <1>2, <1>3, TypeCorrect, PTL DEF Spec

\* No two connections with a readLoop share an ID or an address.
THEOREM NoDuplicates == Spec => []NoDuplicateConnection
<1>1. MapsOwned => NoDuplicateConnection
  BY ConfigAssumption DEF MapsOwned, TypeOK, IDsOwned, AddrsOwned, NoDuplicateConnection, At, HoldsID, HoldsAddr
<1> QED
  BY <1>1, MapsStayOwned, PTL
-----------------------------------------------------------------------------
(* The counters.                                                           *)

\* p's goroutine, and no other, goes on to step b.
Moves(p, b) == pc'[p] = b /\ \A q \in Peers : q # p => pc'[q] = pc[q]

CountersInv ==
    /\ totalCount = Count(pc, Peers, InTotal)
    /\ \A d \in Directions : dirCount[d] = Count(pc, OfDirection(d), InDirection)

\* The counters keep pace with a goroutine that moves to step b when they
\* change by what that goroutine enters and leaves.
LEMMA CountersKeepPace ==
    ASSUME TypeOK, CountersInv,
           NEW p \in Peers, NEW b \in AllSteps, Moves(p, b),
           totalCount' = totalCount + In(b, InTotal) - In(pc[p], InTotal),
           \A d \in Directions :
              dirCount'[d] = dirCount[d] +
                               (IF d = DirectionOf[p]
                                THEN In(b, InDirection) - In(pc[p], InDirection) ELSE 0)
    PROVE  CountersInv'
<1>1. totalCount' = Count(pc', Peers, InTotal)
  <2>1. Count(pc', Peers, InTotal) = Count(pc, Peers, InTotal)
              + In(b, InTotal) - In(pc[p], InTotal)
    <3>1. Peers \in SUBSET Peers
      OBVIOUS
    <3> QED
      BY <3>1, CountAfterStep DEF Moves
  <2> QED
    BY <2>1 DEF CountersInv
<1>2. ASSUME NEW d \in Directions
      PROVE  dirCount'[d] = Count(pc', OfDirection(d), InDirection)
  <2>1. /\ Count(pc, OfDirection(d), InDirection) \in Nat
        /\ p \in OfDirection(d) => Count(pc', OfDirection(d), InDirection)
              = Count(pc, OfDirection(d), InDirection)
                  + In(b, InDirection) - In(pc[p], InDirection)
        /\ p \notin OfDirection(d) => Count(pc', OfDirection(d), InDirection)
              = Count(pc, OfDirection(d), InDirection)
    <3>1. OfDirection(d) \in SUBSET Peers
      BY DEF OfDirection
    <3> QED
      BY <3>1, CountAfterStep DEF Moves
  <2>2. p \in OfDirection(d) <=> d = DirectionOf[p]
    BY DEF OfDirection
  <2> QED
    BY <2>1, <2>2 DEF CountersInv, In
<1> QED
  BY <1>1, <1>2 DEF CountersInv

\* Each operation changes the counters as CountersKeepPace asks.
LEMMA CountersStep ==
    ASSUME TypeOK, Owned, CountersInv, [Next]_vars
    PROVE  CountersInv'
<1> USE ConfigAssumption DEF Step, InTotal, InDirection
<1>0. pc \in [Peers -> AllSteps] /\ totalCount \in Int /\ dirCount \in [Directions -> Int]
  BY DEF TypeOK, AllSteps
<1>1. ASSUME NEW p \in Peers, NEW b \in AllSteps, pc' = [pc EXCEPT ![p] = b],
             UNCHANGED <<totalCount, dirCount>>,
             b \in InTotal <=> pc[p] \in InTotal,
             b \in InDirection <=> pc[p] \in InDirection
      PROVE  CountersInv'
  <2>1. totalCount' = totalCount + In(b, InTotal) - In(pc[p], InTotal)
    BY <1>0, <1>1 DEF In
  <2>2. ASSUME NEW d \in Directions
        PROVE  dirCount'[d] = dirCount[d] +
                                (IF d = DirectionOf[p]
                                 THEN In(b, InDirection) - In(pc[p], InDirection) ELSE 0)
    BY <1>0, <1>1 DEF In
  <2>3. Moves(p, b)
    BY <1>0, <1>1 DEF Moves
  <2> QED
    BY <2>1, <2>2, <2>3, CountersKeepPace
<1>2. ASSUME NEW p \in Peers, StartPeer(p)
      PROVE  CountersInv'
  BY <1>0, <1>1, <1>2 DEF StartPeer, AllSteps, AddPeerSteps
<1>3. ASSUME NEW p \in Peers, AddPeer(p)
      PROVE  CountersInv'
  <2>1. CASE AddPeerCheckTotal(p)
    BY <2>1, <1>0, <1>1 DEF AddPeerCheckTotal, AllSteps, AddPeerSteps, Resting
  <2>2. CASE AddPeerCheckDirection(p)
    BY <2>2, <1>0, <1>1 DEF AddPeerCheckDirection, AllSteps, AddPeerSteps, Resting
  <2>3. CASE AddPeerStoreID(p)
    BY <2>3, <1>0, <1>1 DEF AddPeerStoreID, AllSteps, AddPeerSteps, Resting
  <2>4. CASE AddPeerStoreAddr(p)
    BY <2>4, <1>0, <1>1 DEF AddPeerStoreAddr, AllSteps, AddPeerSteps
  <2>5. CASE AddPeerRollback(p)
    BY <2>5, <1>0, <1>1 DEF AddPeerRollback, AllSteps, Resting
  <2>6. CASE AddPeerCountTotal(p)
    <3> DEFINE b == "countDirection"
    <3>1. Moves(p, b) /\ b \in AllSteps
      BY <2>6, <1>0 DEF AddPeerCountTotal, Moves, AllSteps, AddPeerSteps
    <3>2. totalCount' = totalCount + In(b, InTotal) - In(pc[p], InTotal)
      BY <2>6, <1>0 DEF AddPeerCountTotal, In
    <3>3. ASSUME NEW d \in Directions
          PROVE  dirCount'[d] = dirCount[d] +
                                  (IF d = DirectionOf[p]
                                   THEN In(b, InDirection) - In(pc[p], InDirection) ELSE 0)
      BY <2>6, <1>0 DEF AddPeerCountTotal, In
    <3> HIDE DEF b
    <3> QED
      BY <3>1, <3>2, <3>3, CountersKeepPace
  <2>7. CASE AddPeerCountDirection(p)
    <3> DEFINE b == "running"
    <3>1. Moves(p, b) /\ b \in AllSteps
      BY <2>7, <1>0 DEF AddPeerCountDirection, Moves, AllSteps, Resting
    <3>2. totalCount' = totalCount + In(b, InTotal) - In(pc[p], InTotal)
      BY <2>7, <1>0 DEF AddPeerCountDirection, In
    <3>3. ASSUME NEW d \in Directions
          PROVE  dirCount'[d] = dirCount[d] +
                                  (IF d = DirectionOf[p]
                                   THEN In(b, InDirection) - In(pc[p], InDirection) ELSE 0)
      BY <2>7, <1>0 DEF AddPeerCountDirection, In
    <3> HIDE DEF b
    <3> QED
      BY <3>1, <3>2, <3>3, CountersKeepPace
  <2> QED
    BY <1>3, <2>1, <2>2, <2>3, <2>4, <2>5, <2>6, <2>7 DEF AddPeer
<1>4. ASSUME NEW p \in Peers, EndReadLoop(p)
      PROVE  CountersInv'
  BY <1>4, <1>0, <1>1 DEF EndReadLoop, AllSteps, RemovePeerSteps
<1>5. ASSUME NEW p \in Peers, RemovePeer(p)
      PROVE  CountersInv'
  <2>1. CASE RemovePeerDeleteID(p)
    <3>1. HasPeer(IDOf[p])
      BY <2>1, <1>0 DEF RemovePeerDeleteID, Owned, IDsOwned, HoldsID, HasPeer
    <3> QED
      BY <2>1, <3>1, <1>0, <1>1 DEF RemovePeerDeleteID, AllSteps, RemovePeerSteps
  <2>2. CASE RemovePeerDeleteAddr(p)
    BY <2>2, <1>0, <1>1 DEF RemovePeerDeleteAddr, AllSteps, RemovePeerSteps
  <2>3. CASE RemovePeerUncountTotal(p)
    <3> DEFINE b == "uncountDirection"
    <3>1. Moves(p, b) /\ b \in AllSteps
      BY <2>3, <1>0 DEF RemovePeerUncountTotal, Moves, AllSteps, RemovePeerSteps
    <3>2. totalCount' = totalCount + In(b, InTotal) - In(pc[p], InTotal)
      BY <2>3, <1>0 DEF RemovePeerUncountTotal, In
    <3>3. ASSUME NEW d \in Directions
          PROVE  dirCount'[d] = dirCount[d] +
                                  (IF d = DirectionOf[p]
                                   THEN In(b, InDirection) - In(pc[p], InDirection) ELSE 0)
      BY <2>3, <1>0 DEF RemovePeerUncountTotal, In
    <3> HIDE DEF b
    <3> QED
      BY <3>1, <3>2, <3>3, CountersKeepPace
  <2>4. CASE RemovePeerUncountDirection(p)
    <3>0. removed[p] = p
      BY <2>4, <1>0 DEF RemovePeerUncountDirection, Owned, AddrsOwned, AtAny
    <3> DEFINE b == "gone"
    <3>1. Moves(p, b) /\ b \in AllSteps
      BY <2>4, <1>0 DEF RemovePeerUncountDirection, Moves, AllSteps, Resting
    <3>2. totalCount' = totalCount + In(b, InTotal) - In(pc[p], InTotal)
      BY <2>4, <1>0 DEF RemovePeerUncountDirection, In
    <3>3. ASSUME NEW d \in Directions
          PROVE  dirCount'[d] = dirCount[d] +
                                  (IF d = DirectionOf[p]
                                   THEN In(b, InDirection) - In(pc[p], InDirection) ELSE 0)
      BY <2>4, <3>0, <1>0 DEF RemovePeerUncountDirection, In
    <3> HIDE DEF b
    <3> QED
      BY <3>1, <3>2, <3>3, CountersKeepPace
  <2> QED
    BY <1>5, <2>1, <2>2, <2>3, <2>4 DEF RemovePeer
<1>6. CASE UNCHANGED vars
  BY <1>6 DEF CountersInv, Count, vars
<1> QED
  BY <1>2, <1>3, <1>4, <1>5, <1>6 DEF Next

\* totalCount, inboundCount and outboundCount are at every moment the number
\* of peers between the two updates of them, and so never negative.
THEOREM CountersAreExact == Spec => []CountersExact
<1>1. Init => CountersInv
  <2> SUFFICES ASSUME Init PROVE CountersInv
    OBVIOUS
  <2>1. {q \in Peers : pc[q] \in InTotal} = {}
    BY DEF Init, InTotal
  <2>2. ASSUME NEW d \in Directions
        PROVE  {q \in OfDirection(d) : pc[q] \in InDirection} = {}
    BY DEF Init, InDirection, OfDirection
  <2> QED
    BY <2>1, <2>2, FS_EmptySet DEF Init, CountersInv, Count
<1>2. TypeOK /\ Owned /\ CountersInv /\ [Next]_vars => CountersInv'
  BY CountersStep
<1>3. CountersInv => CountersExact
  <2>1. ASSUME NEW d \in Directions
        PROVE  {q \in OfDirection(d) : pc[q] \in InDirection}
                  = {p \in Peers : pc[p] \in InDirection /\ DirectionOf[p] = d}
    BY DEF OfDirection
  <2> QED
    BY <2>1 DEF CountersInv, CountersExact, Count, AtAny
<1>4. Spec => []Owned
  BY MapsStayOwned, PTL DEF Owned, MapsOwned
<1> QED
  BY <1>1, <1>2, <1>3, <1>4, TypeCorrect, PTL DEF Spec
-----------------------------------------------------------------------------
(* By how much the limits are exceeded.                                    *)

CallsBound == Count(pc, Peers, AddPeerSteps) <= peak

TotalBound == totalCount + Count(pc, Peers, PastTotalCheck) <= MaxPeers + peak - 1

DirectionBound ==
    \A d \in Directions :
        dirCount[d] + Count(pc, OfDirection(d), PastDirectionCheck)
            <= MaxOf(d) + peak - 1

\* A step that starts no call keeps the number of calls within peak.
LEMMA CallsKeepPace ==
    ASSUME TypeOK, CallsBound, peak' = peak,
           NEW p \in Peers, NEW b, Moves(p, b),
           b \in AddPeerSteps => pc[p] \in AddPeerSteps
    PROVE  CallsBound'
<1>1. Peers \in SUBSET Peers
  OBVIOUS
<1>2. /\ Count(pc, Peers, AddPeerSteps) \in Nat
      /\ Count(pc', Peers, AddPeerSteps)
            = Count(pc, Peers, AddPeerSteps) + In(b, AddPeerSteps) - In(pc[p], AddPeerSteps)
  BY <1>1, CountAfterStep DEF Moves
<1> QED
  BY <1>2 DEF CallsBound, In, TypeOK

\* A goroutine that does not newly pass the check of MaxPeers adds nothing to
\* the sum of totalCount and the calls that are past that check.
LEMMA TotalKeepsPace ==
    ASSUME TypeOK, TotalBound, peak' \in Nat, peak <= peak', totalCount' \in Int,
           NEW p \in Peers, NEW b, Moves(p, b),
           totalCount' + In(b, PastTotalCheck) <= totalCount + In(pc[p], PastTotalCheck)
    PROVE  TotalBound'
<1>1. Peers \in SUBSET Peers
  OBVIOUS
<1>2. /\ Count(pc, Peers, PastTotalCheck) \in Nat
      /\ Count(pc', Peers, PastTotalCheck)
            = Count(pc, Peers, PastTotalCheck) + In(b, PastTotalCheck)
                                               - In(pc[p], PastTotalCheck)
  BY <1>1, CountAfterStep DEF Moves
<1>3. In(b, PastTotalCheck) \in Int /\ In(pc[p], PastTotalCheck) \in Int
  BY DEF In
<1> QED
  BY <1>2, <1>3, ConfigAssumption DEF TotalBound, TypeOK

\* The same for the check of a direction's limit.
LEMMA DirectionKeepsPace ==
    ASSUME TypeOK, DirectionBound, peak' \in Nat, peak <= peak',
           dirCount' \in [Directions -> Int],
           NEW p \in Peers, NEW b, Moves(p, b),
           \A d \in Directions : d # DirectionOf[p] => dirCount'[d] <= dirCount[d],
           dirCount'[DirectionOf[p]] + In(b, PastDirectionCheck)
              <= dirCount[DirectionOf[p]] + In(pc[p], PastDirectionCheck)
    PROVE  DirectionBound'
<1> SUFFICES ASSUME NEW d \in Directions
             PROVE  dirCount'[d] + Count(pc', OfDirection(d), PastDirectionCheck)
                       <= MaxOf(d) + peak' - 1
  BY DEF DirectionBound, MaxOf
<1>1. OfDirection(d) \in SUBSET Peers
  BY DEF OfDirection
<1>2. /\ Count(pc, OfDirection(d), PastDirectionCheck) \in Nat
      /\ p \in OfDirection(d) => Count(pc', OfDirection(d), PastDirectionCheck)
            = Count(pc, OfDirection(d), PastDirectionCheck)
                + In(b, PastDirectionCheck) - In(pc[p], PastDirectionCheck)
      /\ p \notin OfDirection(d) => Count(pc', OfDirection(d), PastDirectionCheck)
            = Count(pc, OfDirection(d), PastDirectionCheck)
  BY <1>1, CountAfterStep DEF Moves
<1>3. p \in OfDirection(d) <=> d = DirectionOf[p]
  BY DEF OfDirection
<1>4. In(b, PastDirectionCheck) \in Int /\ In(pc[p], PastDirectionCheck) \in Int
  BY DEF In
<1>5. dirCount[d] \in Int /\ dirCount'[d] \in Int /\ MaxOf(d) \in Int /\ peak \in Int
  BY ConfigAssumption DEF TypeOK, MaxOf
<1>6. dirCount[d] + Count(pc, OfDirection(d), PastDirectionCheck) <= MaxOf(d) + peak - 1
  BY DEF DirectionBound
<1>7. CASE d = DirectionOf[p]
  BY <1>2, <1>3, <1>4, <1>5, <1>6, <1>7
<1>8. CASE d # DirectionOf[p]
  BY <1>2, <1>3, <1>5, <1>6, <1>8
<1> QED
  BY <1>7, <1>8

Bounds == CallsBound /\ TotalBound /\ DirectionBound

\* A check that passes lets in a call that is already counted in peak; every
\* other operation only hands calls on to the counters.
LEMMA BoundsStep ==
    ASSUME TypeOK, TypeOK', Owned, Bounds, [Next]_vars
    PROVE  Bounds'
<1> USE ConfigAssumption DEF Step, PastTotalCheck, PastDirectionCheck, AddPeerSteps
<1>0. /\ pc \in [Peers -> AllSteps] /\ totalCount \in Int
      /\ dirCount \in [Directions -> Int] /\ peak \in Nat
      /\ totalCount' \in Int /\ dirCount' \in [Directions -> Int] /\ peak' \in Nat
  BY DEF TypeOK, AllSteps
<1>1. ASSUME NEW p \in Peers, NEW b, pc' = [pc EXCEPT ![p] = b],
             UNCHANGED <<totalCount, dirCount, peak>>,
             b \in AddPeerSteps => pc[p] \in AddPeerSteps,
             b \in PastTotalCheck => pc[p] \in PastTotalCheck,
             b \in PastDirectionCheck => pc[p] \in PastDirectionCheck
      PROVE  Bounds'
  <2>1. Moves(p, b)
    BY <1>0, <1>1 DEF Moves
  <2>2. totalCount' + In(b, PastTotalCheck) <= totalCount + In(pc[p], PastTotalCheck)
    BY <1>0, <1>1 DEF In
  <2>3. /\ \A d \in Directions : dirCount'[d] <= dirCount[d]
        /\ dirCount'[DirectionOf[p]] + In(b, PastDirectionCheck)
              <= dirCount[DirectionOf[p]] + In(pc[p], PastDirectionCheck)
    BY <1>0, <1>1 DEF In
  <2>4. CallsBound'
    BY <2>1, <1>1, CallsKeepPace DEF Bounds
  <2>5. TotalBound'
    BY <2>1, <2>2, <1>0, <1>1, TotalKeepsPace DEF Bounds
  <2>6. DirectionBound'
    BY <2>1, <2>3, <1>0, <1>1, DirectionKeepsPace DEF Bounds
  <2> QED
    BY <2>4, <2>5, <2>6 DEF Bounds
<1>2. ASSUME NEW p \in Peers, StartPeer(p)
      PROVE  Bounds'
  <2> DEFINE b == "checkTotal"
  <2>1. Moves(p, b)
    BY <1>0, <1>2 DEF StartPeer, Moves
  <2>2. totalCount' + In(b, PastTotalCheck) <= totalCount + In(pc[p], PastTotalCheck)
    BY <1>0, <1>2 DEF StartPeer, In
  <2>3. /\ \A d \in Directions : dirCount'[d] <= dirCount[d]
        /\ dirCount'[DirectionOf[p]] + In(b, PastDirectionCheck)
              <= dirCount[DirectionOf[p]] + In(pc[p], PastDirectionCheck)
    BY <1>0, <1>2 DEF StartPeer, In
  <2>4. In(b, AddPeerSteps) = 1 /\ In(pc[p], AddPeerSteps) = 0
    BY <1>2 DEF StartPeer, In
  <2> HIDE DEF b
  <2>5. Peers \in SUBSET Peers
    OBVIOUS
  <2>6. Count(pc', Peers, AddPeerSteps) = Count(pc, Peers, AddPeerSteps) + 1
    BY <2>1, <2>4, <2>5, CountAfterStep DEF Moves
  <2>7. Count(pc, Peers, AddPeerSteps) = Cardinality(AtAny(AddPeerSteps))
    BY DEF Count, AtAny
  <2>8. Count(pc, Peers, AddPeerSteps) \in Nat
    BY <2>5, CountAfterStep
  <2>9. peak <= peak' /\ Count(pc', Peers, AddPeerSteps) <= peak'
    <3> HIDE DEF AddPeerSteps
    <3> DEFINE calls == Cardinality(AtAny(AddPeerSteps)) + 1
    <3>1. peak' = IF calls > peak THEN calls ELSE peak
      BY <1>2 DEF StartPeer
    <3>2. calls \in Nat /\ calls = Count(pc', Peers, AddPeerSteps)
      BY <2>6, <2>7, <2>8
    <3> HIDE DEF calls
    <3> QED
      BY <3>1, <3>2, <1>0
  <2>10. TotalBound'
    BY <2>1, <2>2, <2>9, <1>0, TotalKeepsPace DEF Bounds
  <2>11. DirectionBound'
    BY <2>1, <2>3, <2>9, <1>0, DirectionKeepsPace DEF Bounds
  <2> QED
    BY <2>9, <2>10, <2>11 DEF Bounds, CallsBound
<1>3. ASSUME NEW p \in Peers, AddPeer(p)
      PROVE  Bounds'
  <2>1. CASE AddPeerCheckTotal(p) /\ IsFull
    BY <2>1, <1>0, <1>1 DEF AddPeerCheckTotal
  <2>2. CASE AddPeerCheckTotal(p) /\ ~IsFull
    <3> DEFINE b == "checkDirection"
    <3>1. Moves(p, b) /\ peak' = peak /\ totalCount' = totalCount
      BY <2>2, <1>0 DEF AddPeerCheckTotal, Moves
    <3>2. /\ \A d \in Directions : dirCount'[d] <= dirCount[d]
          /\ dirCount'[DirectionOf[p]] + In(b, PastDirectionCheck)
                <= dirCount[DirectionOf[p]] + In(pc[p], PastDirectionCheck)
      BY <2>2, <1>0 DEF AddPeerCheckTotal, In
    <3>3. b \in AddPeerSteps /\ pc[p] \in AddPeerSteps
      BY <2>2 DEF AddPeerCheckTotal
    <3> HIDE DEF b
    <3>4. CallsBound'
      BY <3>1, <3>3, CallsKeepPace DEF Bounds
    <3>5. DirectionBound'
      BY <3>1, <3>2, <1>0, DirectionKeepsPace DEF Bounds
    <3>6. TotalBound'
      <4>1. totalCount <= MaxPeers - 1
        BY <2>2, <1>0 DEF IsFull
      <4>2. Peers \in SUBSET Peers /\ PastTotalCheck \subseteq AddPeerSteps
        OBVIOUS
      <4> HIDE DEF PastTotalCheck, AddPeerSteps
      <4>3. /\ Count(pc', Peers, PastTotalCheck) \in Nat
            /\ Count(pc', Peers, AddPeerSteps) \in Nat
            /\ Count(pc', Peers, PastTotalCheck) <= Count(pc', Peers, AddPeerSteps)
        BY <4>2, CountMonotone
      <4> QED
        BY <4>1, <4>3, <3>1, <3>4, <1>0 DEF CallsBound, TotalBound
    <3> QED
      BY <3>4, <3>5, <3>6 DEF Bounds
  <2>3. CASE AddPeerCheckDirection(p) /\ ~CanAdd(DirectionOf[p])
    BY <2>3, <1>0, <1>1 DEF AddPeerCheckDirection
  <2>4. CASE AddPeerCheckDirection(p) /\ CanAdd(DirectionOf[p])
    <3> DEFINE b == "storeID"
               e == DirectionOf[p]
    <3>1. Moves(p, b) /\ peak' = peak /\ dirCount' = dirCount
      BY <2>4, <1>0 DEF AddPeerCheckDirection, Moves
    <3>2. totalCount' + In(b, PastTotalCheck) <= totalCount + In(pc[p], PastTotalCheck)
      BY <2>4, <1>0 DEF AddPeerCheckDirection, In
    <3>3. b \in AddPeerSteps /\ pc[p] \in AddPeerSteps
      BY <2>4 DEF AddPeerCheckDirection
    <3> HIDE DEF b
    <3>4. CallsBound'
      BY <3>1, <3>3, CallsKeepPace DEF Bounds
    <3>5. TotalBound'
      BY <3>1, <3>2, <1>0, TotalKeepsPace DEF Bounds
    <3>6. DirectionBound'
      <4>1. dirCount[e] \in Int /\ MaxOf(e) \in Nat /\ dirCount[e] <= MaxOf(e) - 1
        BY <2>4, <1>0 DEF CanAdd, MaxOf
      <4>2. /\ OfDirection(e) \in SUBSET Peers /\ Peers \in SUBSET Peers
            /\ PastDirectionCheck \subseteq AddPeerSteps
        BY DEF OfDirection
      <4> HIDE DEF PastDirectionCheck, AddPeerSteps
      <4>3. /\ Count(pc', OfDirection(e), PastDirectionCheck) \in Nat
            /\ Count(pc', Peers, AddPeerSteps) \in Nat
            /\ Count(pc', OfDirection(e), PastDirectionCheck)
                  <= Count(pc', Peers, AddPeerSteps)
        BY <4>2, CountMonotone
      <4>4. dirCount'[e] + Count(pc', OfDirection(e), PastDirectionCheck)
              <= MaxOf(e) + peak' - 1
        BY <4>1, <4>3, <3>1, <3>4, <1>0 DEF CallsBound
      <4>5. ASSUME NEW d \in Directions, d # e
            PROVE  dirCount'[d] + Count(pc', OfDirection(d), PastDirectionCheck)
                     <= MaxOf(d) + peak' - 1
        <5>1. OfDirection(d) \in SUBSET Peers /\ p \notin OfDirection(d)
          BY <4>5 DEF OfDirection
        <5>2. Count(pc', OfDirection(d), PastDirectionCheck)
                = Count(pc, OfDirection(d), PastDirectionCheck)
          BY <5>1, <3>1, CountAfterStep DEF Moves
        <5> QED
          BY <5>2, <3>1 DEF Bounds, DirectionBound
      <4> QED
        BY <4>4, <4>5 DEF DirectionBound, MaxOf
    <3> QED
      BY <3>4, <3>5, <3>6 DEF Bounds
  <2>5. CASE AddPeerStoreID(p)
    BY <2>5, <1>0, <1>1 DEF AddPeerStoreID
  <2>6. CASE AddPeerStoreAddr(p)
    BY <2>6, <1>0, <1>1 DEF AddPeerStoreAddr
  <2>7. CASE AddPeerRollback(p)
    BY <2>7, <1>0, <1>1 DEF AddPeerRollback
  <2>8. CASE AddPeerCountTotal(p)
    <3> DEFINE b == "countDirection"
    <3>1. Moves(p, b)
      BY <2>8, <1>0 DEF AddPeerCountTotal, Moves
    <3>2. totalCount' + In(b, PastTotalCheck) <= totalCount + In(pc[p], PastTotalCheck)
      BY <2>8, <1>0 DEF AddPeerCountTotal, In
    <3>3. /\ \A d \in Directions : d # DirectionOf[p] => dirCount'[d] <= dirCount[d]
          /\ dirCount'[DirectionOf[p]] + In(b, PastDirectionCheck)
                <= dirCount[DirectionOf[p]] + In(pc[p], PastDirectionCheck)
      BY <2>8, <1>0 DEF AddPeerCountTotal, In
    <3>4. peak' = peak /\ (b \in AddPeerSteps => pc[p] \in AddPeerSteps)
      BY <2>8 DEF AddPeerCountTotal
    <3> HIDE DEF b
    <3>5. CallsBound'
      BY <3>1, <3>4, CallsKeepPace DEF Bounds
    <3>6. TotalBound'
      BY <3>1, <3>2, <3>4, <1>0, TotalKeepsPace DEF Bounds
    <3>7. DirectionBound'
      BY <3>1, <3>3, <3>4, <1>0, DirectionKeepsPace DEF Bounds
    <3> QED
      BY <3>5, <3>6, <3>7 DEF Bounds
  <2>9. CASE AddPeerCountDirection(p)
    <3> DEFINE b == "running"
    <3>1. Moves(p, b)
      BY <2>9, <1>0 DEF AddPeerCountDirection, Moves
    <3>2. totalCount' + In(b, PastTotalCheck) <= totalCount + In(pc[p], PastTotalCheck)
      BY <2>9, <1>0 DEF AddPeerCountDirection, In
    <3>3. /\ \A d \in Directions : d # DirectionOf[p] => dirCount'[d] <= dirCount[d]
          /\ dirCount'[DirectionOf[p]] + In(b, PastDirectionCheck)
                <= dirCount[DirectionOf[p]] + In(pc[p], PastDirectionCheck)
      BY <2>9, <1>0 DEF AddPeerCountDirection, In
    <3>4. peak' = peak /\ (b \in AddPeerSteps => pc[p] \in AddPeerSteps)
      BY <2>9 DEF AddPeerCountDirection
    <3> HIDE DEF b
    <3>5. CallsBound'
      BY <3>1, <3>4, CallsKeepPace DEF Bounds
    <3>6. TotalBound'
      BY <3>1, <3>2, <3>4, <1>0, TotalKeepsPace DEF Bounds
    <3>7. DirectionBound'
      BY <3>1, <3>3, <3>4, <1>0, DirectionKeepsPace DEF Bounds
    <3> QED
      BY <3>5, <3>6, <3>7 DEF Bounds
  <2> QED
    BY <1>3, <2>1, <2>2, <2>3, <2>4, <2>5, <2>6, <2>7, <2>8, <2>9 DEF AddPeer
<1>4. ASSUME NEW p \in Peers, EndReadLoop(p)
      PROVE  Bounds'
  BY <1>4, <1>0, <1>1 DEF EndReadLoop
<1>5. ASSUME NEW p \in Peers, RemovePeer(p)
      PROVE  Bounds'
  <2>1. CASE RemovePeerDeleteID(p)
    BY <2>1, <1>0, <1>1 DEF RemovePeerDeleteID
  <2>2. CASE RemovePeerDeleteAddr(p)
    BY <2>2, <1>0, <1>1 DEF RemovePeerDeleteAddr
  <2>3. CASE RemovePeerUncountTotal(p)
    <3> DEFINE b == "uncountDirection"
    <3>1. Moves(p, b)
      BY <2>3, <1>0 DEF RemovePeerUncountTotal, Moves
    <3>2. totalCount' + In(b, PastTotalCheck) <= totalCount + In(pc[p], PastTotalCheck)
      BY <2>3, <1>0 DEF RemovePeerUncountTotal, In
    <3>3. /\ \A d \in Directions : d # DirectionOf[p] => dirCount'[d] <= dirCount[d]
          /\ dirCount'[DirectionOf[p]] + In(b, PastDirectionCheck)
                <= dirCount[DirectionOf[p]] + In(pc[p], PastDirectionCheck)
      BY <2>3, <1>0 DEF RemovePeerUncountTotal, In
    <3>4. peak' = peak /\ (b \in AddPeerSteps => pc[p] \in AddPeerSteps)
      BY <2>3 DEF RemovePeerUncountTotal
    <3> HIDE DEF b
    <3>5. CallsBound'
      BY <3>1, <3>4, CallsKeepPace DEF Bounds
    <3>6. TotalBound'
      BY <3>1, <3>2, <3>4, <1>0, TotalKeepsPace DEF Bounds
    <3>7. DirectionBound'
      BY <3>1, <3>3, <3>4, <1>0, DirectionKeepsPace DEF Bounds
    <3> QED
      BY <3>5, <3>6, <3>7 DEF Bounds
  <2>4. CASE RemovePeerUncountDirection(p)
    <3> DEFINE b == "gone"
    <3>0. removed[p] = p
      BY <2>4, <1>0 DEF RemovePeerUncountDirection, Owned, AddrsOwned, AtAny
    <3>1. Moves(p, b)
      BY <2>4, <1>0 DEF RemovePeerUncountDirection, Moves
    <3>2. totalCount' + In(b, PastTotalCheck) <= totalCount + In(pc[p], PastTotalCheck)
      BY <2>4, <1>0 DEF RemovePeerUncountDirection, In
    <3>3. /\ \A d \in Directions : d # DirectionOf[p] => dirCount'[d] <= dirCount[d]
          /\ dirCount'[DirectionOf[p]] + In(b, PastDirectionCheck)
                <= dirCount[DirectionOf[p]] + In(pc[p], PastDirectionCheck)
      BY <2>4, <3>0, <1>0 DEF RemovePeerUncountDirection, In
    <3>4. peak' = peak /\ (b \in AddPeerSteps => pc[p] \in AddPeerSteps)
      BY <2>4 DEF RemovePeerUncountDirection
    <3> HIDE DEF b
    <3>5. CallsBound'
      BY <3>1, <3>4, CallsKeepPace DEF Bounds
    <3>6. TotalBound'
      BY <3>1, <3>2, <3>4, <1>0, TotalKeepsPace DEF Bounds
    <3>7. DirectionBound'
      BY <3>1, <3>3, <3>4, <1>0, DirectionKeepsPace DEF Bounds
    <3> QED
      BY <3>5, <3>6, <3>7 DEF Bounds
  <2> QED
    BY <1>5, <2>1, <2>2, <2>3, <2>4 DEF RemovePeer
<1>6. CASE UNCHANGED vars
  BY <1>6 DEF Bounds, CallsBound, TotalBound, DirectionBound, Count, MaxOf, vars
<1> QED
  BY <1>2, <1>3, <1>4, <1>5, <1>6 DEF Next

\* The limits are exceeded by at most the number of AddPeer calls that ran at
\* once less one; without overlapping calls they hold exactly.
THEOREM Overshoot == Spec => []OvershootBounded
<1>1. Init => Bounds
  <2> SUFFICES ASSUME Init PROVE Bounds
    OBVIOUS
  <2>1. /\ {q \in Peers : pc[q] \in AddPeerSteps} = {}
        /\ {q \in Peers : pc[q] \in PastTotalCheck} = {}
    BY DEF Init, AddPeerSteps, PastTotalCheck
  <2>2. ASSUME NEW d \in Directions
        PROVE  {q \in OfDirection(d) : pc[q] \in PastDirectionCheck} = {}
    BY DEF Init, PastDirectionCheck, OfDirection
  <2>3. /\ Count(pc, Peers, AddPeerSteps) = 0
        /\ Count(pc, Peers, PastTotalCheck) = 0
        /\ \A d \in Directions : Count(pc, OfDirection(d), PastDirectionCheck) = 0
    BY <2>1, <2>2, FS_EmptySet DEF Count
  <2>4. MaxPeers \in Nat /\ \A d \in Directions : MaxOf(d) \in Nat
    BY ConfigAssumption DEF MaxOf
  <2>5. peak = 1 /\ totalCount = 0 /\ \A d \in Directions : dirCount[d] = 0
    BY DEF Init
  <2> QED
    BY <2>3, <2>4, <2>5 DEF Bounds, CallsBound, TotalBound, DirectionBound
<1>2. TypeOK /\ TypeOK' /\ Owned /\ Bounds /\ [Next]_vars => Bounds'
  BY BoundsStep
<1>3. Bounds => OvershootBounded
  <2>1. ASSUME NEW d \in Directions
        PROVE  {q \in OfDirection(d) : pc[q] \in PastDirectionCheck}
                  = {p \in Peers : pc[p] \in PastDirectionCheck /\ DirectionOf[p] = d}
    BY DEF OfDirection
  <2> QED
    BY <2>1 DEF Bounds, TotalBound, DirectionBound, OvershootBounded, Count, AtAny
<1>4. Spec => []Owned
  BY MapsStayOwned, PTL DEF Owned, MapsOwned
<1> QED
  BY <1>1, <1>2, <1>3, <1>4, TypeCorrect, PTL DEF Spec
-----------------------------------------------------------------------------
(* The maps at rest.                                                       *)

\* An entry is filed under its own peer's ID or address.
Filed ==
    /\ \A id \in IDs : HasPeer(id) => IDOf[peers[id]] = id
    /\ \A a \in Addrs : HasPeerByAddr(a) => AddrOf[peersByAddr[a]] = a

LEMMA FiledStep == TypeOK /\ Filed /\ [Next]_vars => Filed'
<1> SUFFICES ASSUME TypeOK, Filed, [Next]_vars PROVE Filed'
  OBVIOUS
<1> USE ConfigAssumption DEF Filed, HasPeer, HasPeerByAddr, TypeOK
<1>1. ASSUME NEW p \in Peers,
             \/ UNCHANGED peers
             \/ peers' = [peers EXCEPT ![IDOf[p]] = p]
             \/ peers' = [peers EXCEPT ![IDOf[p]] = NoPeer]
      PROVE  \A id \in IDs : HasPeer(id)' => IDOf[peers'[id]] = id
  BY <1>1
<1>2. ASSUME NEW p \in Peers, NEW b,
             \/ UNCHANGED peersByAddr
             \/ peersByAddr' = [a \in Addrs |-> IF a = AddrOf[p] THEN p ELSE peersByAddr[a]]
             \/ peersByAddr' = [a \in Addrs |-> IF a = b THEN NoPeer ELSE peersByAddr[a]]
      PROVE  \A a \in Addrs : HasPeerByAddr(a)' => AddrOf[peersByAddr'[a]] = a
  BY <1>2
<1>3. ASSUME NEW p \in Peers, StartPeer(p) \/ AddPeer(p) \/ EndReadLoop(p)
      PROVE  Filed'
  BY <1>1, <1>2, <1>3 DEF StartPeer, AddPeer, AddPeerCheckTotal, AddPeerCheckDirection,
     AddPeerStoreID, AddPeerStoreAddr, AddPeerRollback, AddPeerCountTotal, AddPeerCountDirection,
     EndReadLoop
<1>4. ASSUME NEW p \in Peers, RemovePeer(p)
      PROVE  Filed'
  BY <1>1, <1>2, <1>4 DEF RemovePeer, RemovePeerDeleteID, RemovePeerDeleteAddr,
     RemovePeerUncountTotal, RemovePeerUncountDirection
<1>5. CASE UNCHANGED vars
  BY <1>5 DEF vars
<1> QED
  BY <1>3, <1>4, <1>5 DEF Next

\* At rest the peers in the maps are those whose readLoop runs, each under its own ID.
LEMMA RestingAgree ==
    ASSUME MapsOwned, CountersExact, Filed, \A p \in Peers : pc[p] \in Resting
    PROVE  /\ Cardinality({id \in IDs : HasPeer(id)}) = totalCount
           /\ totalCount = dirCount["Inbound"] + dirCount["Outbound"]
           /\ \A a \in Addrs : HasPeerByAddr(a) =>
                 peers[IDOf[peersByAddr[a]]] = peersByAddr[a]
<1> USE ConfigAssumption
<1> DEFINE R == At("running")
           Named == {id \in IDs : HasPeer(id)}
           Dir(d) == {p \in Peers : pc[p] = "running" /\ DirectionOf[p] = d}
<1>1. IsFiniteSet(R) /\ IsFiniteSet(Dir("Inbound")) /\ IsFiniteSet(Dir("Outbound"))
  <2>1. R \in SUBSET Peers /\ Dir("Inbound") \in SUBSET Peers /\ Dir("Outbound") \in SUBSET Peers
    BY DEF At
  <2> QED
    BY <2>1, FS_Subset
<1>2. totalCount = Cardinality(R)
  <2>1. AtAny(InTotal) = R
    BY DEF AtAny, InTotal, At, Resting
  <2> QED
    BY <2>1 DEF CountersExact
<1>3. ASSUME NEW d \in Directions PROVE dirCount[d] = Cardinality(Dir(d))
  <2>1. {p \in Peers : pc[p] \in InDirection /\ DirectionOf[p] = d} = Dir(d)
    BY DEF InDirection, Resting
  <2> QED
    BY <2>1 DEF CountersExact
<1>4. ASSUME NEW p \in Peers PROVE p \in R <=> peers[IDOf[p]] = p
  BY DEF MapsOwned, IDsOwned, HoldsID, At, Resting
<1>5. Cardinality(Named) = Cardinality(R)
  <2> DEFINE F == [p \in R |-> IDOf[p]]
  <2>1. F \in [R -> Named]
    BY <1>4 DEF At, HasPeer
  <2>2. \A p, q \in R : F[p] = F[q] => p = q
    BY <1>4 DEF At
  <2>3. \A id \in Named : \E p \in R : F[p] = id
    <3> SUFFICES ASSUME NEW id \in Named PROVE \E p \in R : F[p] = id
      OBVIOUS
    <3>1. peers[id] \in Peers /\ IDOf[peers[id]] = id
      BY DEF HasPeer, Filed, MapsOwned, TypeOK
    <3>2. peers[id] \in R
      BY <1>4, <3>1
    <3> QED
      BY <3>1, <3>2
  <2> HIDE DEF F, R, Named
  <2>4. F \in Bijection(R, Named)
    BY <2>1, <2>2, <2>3, Fun_IsBij
  <2>5. ExistsBijection(R, Named)
    BY <2>4 DEF ExistsBijection
  <2> QED
    BY <1>1, <2>5, FS_Bijection
<1>6. Cardinality(R) = dirCount["Inbound"] + dirCount["Outbound"]
  <2>1. R = Dir("Inbound") \cup Dir("Outbound") /\ Dir("Inbound") \cap Dir("Outbound") = {}
    BY DEF At, Directions
  <2>2. /\ dirCount["Inbound"] = Cardinality(Dir("Inbound"))
        /\ dirCount["Outbound"] = Cardinality(Dir("Outbound"))
    BY <1>3 DEF Directions
  <2> HIDE DEF R, Dir
  <2>3. Cardinality(R) =
           Cardinality(Dir("Inbound")) + Cardinality(Dir("Outbound")) - Cardinality({})
    BY <1>1, <2>1, FS_Union
  <2>4. Cardinality(Dir("Inbound")) \in Nat /\ Cardinality(Dir("Outbound")) \in Nat
    BY <1>1, FS_CardinalityType
  <2> QED
    BY <2>2, <2>3, <2>4, FS_EmptySet
<1>7. ASSUME NEW a \in Addrs, HasPeerByAddr(a)
      PROVE  peers[IDOf[peersByAddr[a]]] = peersByAddr[a]
  <2>1. peersByAddr[a] \in Peers /\ AddrOf[peersByAddr[a]] = a
    BY <1>7 DEF HasPeerByAddr, Filed, MapsOwned, TypeOK
  <2>2. pc[peersByAddr[a]] \in HoldsAddr
    BY <2>1 DEF MapsOwned, AddrsOwned
  <2> QED
    BY <1>4, <2>1, <2>2 DEF HoldsAddr, Resting, At
<1> QED
  BY <1>2, <1>5, <1>6, <1>7

\* When no AddPeer or RemovePeer is in progress there are as many entries by ID as
\* the counters say, and whoever has an address entry is found by its ID.
THEOREM MapsAgree == Spec => []MapsAgreeAtRest
<1>1. Init => Filed
  BY DEF Init, Filed, HasPeer, HasPeerByAddr
<1>2. MapsOwned /\ CountersExact /\ Filed => MapsAgreeAtRest
  BY RestingAgree DEF MapsAgreeAtRest
<1> QED
  BY <1>1, <1>2, FiledStep, TypeCorrect, MapsStayOwned, CountersAreExact, PTL DEF Spec
-----------------------------------------------------------------------------
(* NodeLifecycle: Start, Stop and the goroutines between.                  *)

LEMMA NodeConstants ==
    /\ IsFiniteSet(Conns)
    /\ Inbound \subseteq Conns /\ Seeds \subseteq Conns \ Inbound
    /\ RemoteID \in [Conns -> RemoteIDs]
    /\ NoConn \notin Conns
    /\ MaxStarts \in Nat
BY ConnsAssumption

\* Steps at which the peer of a connection is in the registry.
Holding == {"start"} \cup (ReaderSteps \ {"leaving"})

IDsHeld == \A p \in Conns : stepOf[p] \in Holding => Registered(p)

\* What the two callers of Peer.Close know while they overlap.
ClosersOfOK(p) ==
    /\ closing[p]["owner"] # "done" => stepOf[p] \in {"refused", "leaving"}
    /\ \A c \in Callers : closing[p][c] = "end" => conn[p] = "closed"
    /\ conn[p] = "open" /\ state[p] \in ClosedStates
          => \E c \in Callers : closing[p][c] = "conn"
    /\ state[p] = "Disconnected" => conn[p] = "closed"
    /\ conn[p] = "open" /\ stepOf[p] \in {"none", "dial"} => closing[p]["stop"] = "conn"
    /\ conn[p] = "open" /\ stepOf[p] \in {"refused", "leaving"} /\ closing[p]["owner"] = "done"
          => closing[p]["stop"] = "conn"

ClosersOK == \A p \in Conns : ClosersOfOK(p)

\* What the step of Start or Stop says about the context and the loops.
ControlOK ==
    /\ ctl \in {"closeServer", "closePeers", "range"} => ctx = "cancelled"
    /\ ctl = "start" => running
    /\ ctl \in {"cancel", "closeServer", "closePeers", "range"} => ~running
    /\ ctl = "start" \/ (ctl = "idle" /\ ~running) => accept = "none" /\ tickers = {}
    /\ ctl = "idle" /\ ~running => ctx \in {"none", "cancelled"}
    /\ ctx = "none" => accept = "none" /\ \A p \in Conns : stepOf[p] = "none"

Readers == {p \in Conns : stepOf[p] \in ReaderSteps}

\* The WaitGroup counts what runs.
WaitGroupOK ==
    wg = Cardinality(Readers) + Cardinality(tickers) + (IF accept = "none" THEN 0 ELSE 1)

IInv == NodeTypeOK /\ IDsHeld /\ ClosersOK /\ ControlOK /\ WaitGroupOK /\ QuietWhenStopped
-----------------------------------------------------------------------------
(* The steps, sorted by what they change.                                  *)

\* Steps of Start, Stop and the loops that touch no connection.
NodeStep ==
    \/ StartClaim \/ StartFail
    \/ StopClaim \/ StopCancel \/ StopServer \/ StopRange \/ StopWait
    \/ AcceptCheck \/ AcceptRefuse \/ AcceptError
    \/ \E l \in {"discovery", "ping"} : EndTicker(l)
    \/ UNCHANGED nodeVars

LEMMA NodeStepKeepsPeers == NodeStep => UNCHANGED peerVars
BY DEF NodeStep, StartClaim, StartFail, StopClaim, StopCancel, StopServer, StopRange,
       StopWait, AcceptCheck, AcceptRefuse, AcceptError, EndTicker, nodeVars

\* Every step is one of these.
LEMMA StepCases ==
    ASSUME [NodeNext]_nodeVars
    PROVE  \/ NodeStep
           \/ StartListen
           \/ \E id \in RemoteIDs : StopVisit(id)
           \/ \E p \in Conns, c \in Callers : Close(p, c)
           \/ \E p \in Conns : AcceptConn(p)
           \/ \E p \in Conns : \/ DialFail(p) \/ Dial(p)
                               \/ HandshakeFail(p) \/ HandshakeDone(p)
                               \/ Register(p) \/ RegisterRefuse(p)
                               \/ RegisterRollback(p) \/ Refused(p) \/ StartReadLoop(p)
           \/ \E p \in Conns : \/ ReadCheck(p) \/ ReadMessage(p) \/ ReadError(p)
                               \/ HandleOther(p) \/ HandlePeers(p)
                               \/ HandleDisconnect(p)
                               \/ Unregister(p) \/ ReadLoopDone(p)
BY NodeConstants DEF NodeNext, Start, StopGoesOn, Loops, Runs, NodeStep, Callers
-----------------------------------------------------------------------------
\* Only the owner of an ID gives it back.
LEMMA HeldStep ==
    ASSUME NodeTypeOK, IDsHeld, [NodeNext]_nodeVars
    PROVE  IDsHeld'
<1> USE NodeConstants DEF NodeTypeOK, IDsHeld, Holding, ReaderSteps, Registered
<1>1. CASE NodeStep
  BY <1>1, NodeStepKeepsPeers DEF peerVars
<1>2. CASE StartListen
  BY <1>2 DEF StartListen
<1>3. ASSUME NEW id \in RemoteIDs, StopVisit(id)
      PROVE  IDsHeld'
  BY <1>3 DEF StopVisit
<1>4. ASSUME NEW p \in Conns, NEW c \in Callers, Close(p, c)
      PROVE  IDsHeld'
  BY <1>4 DEF Close, CloseSet, CloseConn, CloseEnd
<1>5. ASSUME NEW p \in Conns, AcceptConn(p)
      PROVE  IDsHeld'
  BY <1>5 DEF AcceptConn, Connect
<1>6. ASSUME NEW p \in Conns,
             \/ DialFail(p) \/ Dial(p) \/ HandshakeFail(p) \/ HandshakeDone(p)
             \/ Register(p) \/ RegisterRefuse(p) \/ RegisterRollback(p)
             \/ Refused(p) \/ StartReadLoop(p)
      PROVE  IDsHeld'
  <2>1. CASE DialFail(p)
    BY <2>1 DEF DialFail, Goto
  <2>2. CASE Dial(p)
    BY <2>2 DEF Dial, Connect
  <2>3. CASE HandshakeFail(p)
    BY <2>3 DEF HandshakeFail, Goto
  <2>4. CASE HandshakeDone(p)
    BY <2>4 DEF HandshakeDone, Goto
  <2>5. CASE Register(p)
    BY <2>5 DEF Register, Goto
  <2>6. CASE RegisterRefuse(p)
    BY <2>6 DEF RegisterRefuse, CloseBegun, Goto
  <2>7. CASE RegisterRollback(p)
    BY <2>7 DEF RegisterRollback, CloseBegun, Goto
  <2>8. CASE Refused(p)
    BY <2>8 DEF Refused, Goto
  <2>9. CASE StartReadLoop(p)
    BY <2>9 DEF StartReadLoop, Goto
  <2> QED
    BY <1>6, <2>1, <2>2, <2>3, <2>4, <2>5, <2>6, <2>7, <2>8, <2>9
<1>7. ASSUME NEW p \in Conns,
             \/ ReadCheck(p) \/ ReadMessage(p) \/ ReadError(p)
             \/ HandleOther(p) \/ HandlePeers(p) \/ HandleDisconnect(p)
             \/ Unregister(p) \/ ReadLoopDone(p)
      PROVE  IDsHeld'
  <2>1. CASE ReadCheck(p)
    BY <2>1 DEF ReadCheck, Goto
  <2>2. CASE ReadMessage(p)
    BY <2>2 DEF ReadMessage, Goto
  <2>3. CASE ReadError(p)
    BY <2>3 DEF ReadError, Goto
  <2>4. CASE HandleOther(p)
    BY <2>4 DEF HandleOther, Goto
  <2>5. CASE HandlePeers(p)
    BY <2>5 DEF HandlePeers
  <2>6. CASE HandleDisconnect(p)
    BY <2>6 DEF HandleDisconnect, Goto
  <2>7. CASE Unregister(p)
    BY <2>7 DEF Unregister, CloseBegun, Goto
  <2>8. CASE ReadLoopDone(p)
    BY <2>8 DEF ReadLoopDone, Goto
  <2> QED
    BY <1>7, <2>1, <2>2, <2>3, <2>4, <2>5, <2>6, <2>7, <2>8
<1> QED
  BY StepCases, <1>1, <1>2, <1>3, <1>4, <1>5, <1>6, <1>7
-----------------------------------------------------------------------------
\* Whoever comes second to Peer.Close leaves the socket to the first.
LEMMA ClosersStep ==
    ASSUME NodeTypeOK, ClosersOK, [NodeNext]_nodeVars
    PROVE  ClosersOK'
<1> USE NodeConstants DEF NodeTypeOK, ClosersOK, ClosersOfOK, ReaderSteps, Callers, ClosedStates
<1>1. CASE NodeStep
  BY <1>1, NodeStepKeepsPeers DEF peerVars
<1>2. CASE StartListen
  BY <1>2 DEF StartListen
<1>3. ASSUME NEW id \in RemoteIDs, StopVisit(id)
      PROVE  ClosersOK'
  <2>1. CASE ids[id] = NoConn
    BY <1>3, <2>1 DEF StopVisit
  <2>2. CASE ids[id] # NoConn
    <3>1. PICK q \in Conns : q = ids[id]
      BY <2>2
    <3>2. \A r \in Conns, c \in Callers :
              r # q \/ c # "stop" => closing'[r][c] = closing[r][c]
      BY <1>3, <2>2, <3>1 DEF StopVisit, CloseBegun
    <3>3. closing[q]["stop"] = "done"
      BY <1>3 DEF StopVisit, StopIsClosing
    <3>4. closing'[q]["stop"] \in {"set", "done"}
      BY <1>3, <2>2, <3>1 DEF StopVisit, CloseBegun
    <3>5. closing'[q]["stop"] = "done" => state[q] \in ClosedStates
      BY <1>3, <2>2, <3>1 DEF StopVisit, CloseBegun
    <3>6. UNCHANGED <<stepOf, conn, state>>
      BY <1>3 DEF StopVisit
    <3> QED
      BY <3>2, <3>3, <3>4, <3>5, <3>6
  <2> QED
    BY <2>1, <2>2
<1>4. ASSUME NEW p \in Conns, NEW c \in Callers, Close(p, c)
      PROVE  ClosersOK'
  BY <1>4, SMTT(30) DEF Close, CloseSet, CloseConn, CloseEnd
<1>5. ASSUME NEW p \in Conns, AcceptConn(p)
      PROVE  ClosersOK'
  BY <1>5 DEF AcceptConn, Connect
<1>6. ASSUME NEW p \in Conns,
             \/ DialFail(p) \/ Dial(p) \/ HandshakeFail(p) \/ HandshakeDone(p)
             \/ Register(p) \/ RegisterRefuse(p) \/ RegisterRollback(p)
             \/ Refused(p) \/ StartReadLoop(p)
      PROVE  ClosersOK'
  <2>1. CASE DialFail(p)
    BY <2>1 DEF DialFail, Goto
  <2>2. CASE Dial(p)
    BY <2>2 DEF Dial, Connect
  <2>3. CASE HandshakeFail(p)
    BY <2>3 DEF HandshakeFail, Goto
  <2>4. CASE HandshakeDone(p)
    BY <2>4 DEF HandshakeDone, Goto
  <2>5. CASE Register(p)
    BY <2>5 DEF Register, Goto
  <2>6. CASE RegisterRefuse(p)
    BY <2>6 DEF RegisterRefuse, CloseBegun, Goto
  <2>7. CASE RegisterRollback(p)
    BY <2>7 DEF RegisterRollback, CloseBegun, Goto
  <2>8. CASE Refused(p)
    BY <2>8 DEF Refused, Goto
  <2>9. CASE StartReadLoop(p)
    BY <2>9 DEF StartReadLoop, Goto
  <2> QED
    BY <1>6, <2>1, <2>2, <2>3, <2>4, <2>5, <2>6, <2>7, <2>8, <2>9
<1>7. ASSUME NEW p \in Conns,
             \/ ReadCheck(p) \/ ReadMessage(p) \/ ReadError(p)
             \/ HandleOther(p) \/ HandlePeers(p) \/ HandleDisconnect(p)
             \/ Unregister(p) \/ ReadLoopDone(p)
      PROVE  ClosersOK'
  <2>1. CASE ReadCheck(p)
    BY <2>1 DEF ReadCheck, Goto
  <2>2. CASE ReadMessage(p)
    BY <2>2 DEF ReadMessage, Goto
  <2>3. CASE ReadError(p)
    BY <2>3 DEF ReadError, Goto
  <2>4. CASE HandleOther(p)
    BY <2>4 DEF HandleOther, Goto
  <2>5. CASE HandlePeers(p)
    BY <2>5 DEF HandlePeers
  <2>6. CASE HandleDisconnect(p)
    BY <2>6 DEF HandleDisconnect, Goto
  <2>7. CASE Unregister(p)
    BY <2>7 DEF Unregister, CloseBegun, Goto
  <2>8. CASE ReadLoopDone(p)
    BY <2>8 DEF ReadLoopDone, Goto
  <2> QED
    BY <1>7, <2>1, <2>2, <2>3, <2>4, <2>5, <2>6, <2>7, <2>8
<1> QED
  BY StepCases, <1>1, <1>2, <1>3, <1>4, <1>5, <1>6, <1>7
-----------------------------------------------------------------------------
(* The WaitGroup.                                                          *)

LEMMA TwoTickers ==
    /\ IsFiniteSet({"discovery", "ping"})
    /\ Cardinality({"discovery", "ping"}) = 2
<1>1. IsFiniteSet({}) /\ Cardinality({}) = 0
  BY FS_EmptySet
<1>2. {"discovery"} = {} \cup {"discovery"} /\ "discovery" \notin {}
  OBVIOUS
<1>3. IsFiniteSet({"discovery"}) /\ Cardinality({"discovery"}) = 1
  BY <1>1, <1>2, FS_AddElement
<1>4. {"discovery", "ping"} = {"discovery"} \cup {"ping"} /\ "ping" \notin {"discovery"}
  OBVIOUS
<1> QED
  BY <1>3, <1>4, FS_AddElement

LEMMA TickersCounted ==
    ASSUME NodeTypeOK
    PROVE  /\ IsFiniteSet(tickers) /\ Cardinality(tickers) \in Nat
           /\ Cardinality(tickers) = 0 => tickers = {}
<1>1. IsFiniteSet({"discovery", "ping"})
  BY TwoTickers
<1>2. tickers \subseteq {"discovery", "ping"}
  BY DEF NodeTypeOK
<1>3. IsFiniteSet(tickers)
  BY <1>1, <1>2, FS_Subset
<1> QED
  BY <1>3, FS_CardinalityType, FS_EmptySet

LEMMA ReadersCounted ==
    /\ IsFiniteSet(Readers) /\ Cardinality(Readers) \in Nat
    /\ Cardinality(Readers) = 0 => Readers = {}
<1>1. Readers \in SUBSET Conns
  BY DEF Readers
<1>2. IsFiniteSet(Readers)
  BY <1>1, FS_Subset, NodeConstants
<1> QED
  BY <1>2, FS_CardinalityType, FS_EmptySet

\* Nothing counts down a WaitGroup that is at 0.
LEMMA CountIsPositive ==
    ASSUME NodeTypeOK, WaitGroupOK
    PROVE  /\ \A p \in Conns : stepOf[p] \in ReaderSteps => wg - 1 \in Nat
           /\ accept # "none" => wg - 1 \in Nat
           /\ tickers # {} => wg - 1 \in Nat
           /\ wg = 0 => Readers = {} /\ tickers = {} /\ accept = "none"
<1>1. ASSUME NEW p \in Conns, stepOf[p] \in ReaderSteps
      PROVE  Cardinality(Readers) # 0
  <2>1. p \in Readers
    BY <1>1 DEF Readers
  <2> QED
    BY <2>1, ReadersCounted
<1> QED
  BY <1>1, ReadersCounted, TickersCounted DEF WaitGroupOK

\* A step in which at most p enters or leaves readLoop.
LEMMA ReadersAfterStep ==
    ASSUME NEW p \in Conns,
           \A q \in Conns : q # p => (stepOf'[q] \in ReaderSteps <=> stepOf[q] \in ReaderSteps)
    PROVE  /\ stepOf[p] \in ReaderSteps /\ stepOf'[p] \in ReaderSteps
                 => Cardinality(Readers') = Cardinality(Readers)
           /\ stepOf[p] \notin ReaderSteps /\ stepOf'[p] \notin ReaderSteps
                 => Cardinality(Readers') = Cardinality(Readers)
           /\ stepOf[p] \notin ReaderSteps /\ stepOf'[p] \in ReaderSteps
                 => Cardinality(Readers') = Cardinality(Readers) + 1
           /\ stepOf[p] \in ReaderSteps /\ stepOf'[p] \notin ReaderSteps
                 => Cardinality(Readers') = Cardinality(Readers) - 1
<1>1. (stepOf[p] \in ReaderSteps <=> stepOf'[p] \in ReaderSteps) => Readers' = Readers
  BY DEF Readers
<1>2. stepOf[p] \notin ReaderSteps /\ stepOf'[p] \in ReaderSteps
         => Readers' = Readers \cup {p} /\ p \notin Readers
  BY DEF Readers
<1>3. stepOf[p] \in ReaderSteps /\ stepOf'[p] \notin ReaderSteps
         => Readers' = Readers \ {p} /\ p \in Readers
  BY DEF Readers
<1>4. stepOf[p] \notin ReaderSteps /\ stepOf'[p] \in ReaderSteps
         => Cardinality(Readers') = Cardinality(Readers) + 1
  BY <1>2, ReadersCounted, FS_AddElement
<1>5. stepOf[p] \in ReaderSteps /\ stepOf'[p] \notin ReaderSteps
         => Cardinality(Readers') = Cardinality(Readers) - 1
  BY <1>3, ReadersCounted, FS_RemoveElement
<1> QED
  BY <1>1, <1>4, <1>5

\* A step that moves nobody into or out of readLoop.
LEMMA SameReaders ==
    ASSUME \A q \in Conns : stepOf'[q] \in ReaderSteps <=> stepOf[q] \in ReaderSteps
    PROVE  Readers' = Readers
BY DEF Readers
-----------------------------------------------------------------------------
\* The WaitGroup keeps counting the loops and the readLoops.
LEMMA WaitGroupStep ==
    ASSUME NodeTypeOK, ControlOK, WaitGroupOK, [NodeNext]_nodeVars
    PROVE  WaitGroupOK'
<1> USE NodeConstants DEF NodeTypeOK, WaitGroupOK, ReaderSteps, loops
<1>1. CASE NodeStep
  <2>1. UNCHANGED stepOf /\ Readers' = Readers
    BY <1>1, NodeStepKeepsPeers DEF peerVars, Readers
  <2>2. CASE UNCHANGED <<accept, tickers, wg>>
    BY <2>1, <2>2
  <2>3. CASE AcceptCheck \/ AcceptRefuse \/ AcceptError
    <3>1. tickers' = tickers
      BY <2>3 DEF AcceptCheck, AcceptRefuse, AcceptError
    <3>2. \/ wg' = wg /\ accept # "none" /\ accept' # "none"
          \/ wg' = wg - 1 /\ accept # "none" /\ accept' = "none"
      BY <2>3 DEF AcceptCheck, AcceptRefuse, AcceptError, EndAccept
    <3> QED
      BY <2>1, <3>1, <3>2, ReadersCounted, TickersCounted
  <2>4. ASSUME NEW l \in {"discovery", "ping"}, EndTicker(l)
        PROVE  WaitGroupOK'
    <3>1. Cardinality(tickers') = Cardinality(tickers) - 1
      BY <2>4, TickersCounted, FS_RemoveElement DEF EndTicker
    <3>2. UNCHANGED accept /\ wg' = wg - 1
      BY <2>4 DEF EndTicker
    <3> QED
      BY <2>1, <3>1, <3>2, ReadersCounted, TickersCounted
  <2> QED
    BY <1>1, <2>2, <2>3, <2>4
       DEF NodeStep, StartClaim, StartFail, StopClaim, StopCancel, StopServer,
           StopRange, StopWait, nodeVars, loops
<1>2. CASE StartListen
  <2>1. Readers' = Readers
    BY <1>2, SameReaders DEF StartListen
  <2>2. Cardinality(tickers) = 0 /\ Cardinality(tickers') = 2
    BY <1>2, FS_EmptySet, TwoTickers DEF StartListen, ControlOK
  <2> QED
    BY <1>2, <2>1, <2>2, ReadersCounted DEF StartListen, ControlOK
<1>3. ASSUME NEW id \in RemoteIDs, StopVisit(id)
      PROVE  WaitGroupOK'
  <2>1. Readers' = Readers
    BY <1>3, SameReaders DEF StopVisit
  <2> QED
    BY <1>3, <2>1 DEF StopVisit
<1>4. ASSUME NEW p \in Conns, NEW c \in Callers, Close(p, c)
      PROVE  WaitGroupOK'
  <2>1. Readers' = Readers
    BY <1>4, SameReaders DEF Close, CloseSet, CloseConn, CloseEnd
  <2> QED
    BY <1>4, <2>1 DEF Close, CloseSet, CloseConn, CloseEnd
<1>5. ASSUME NEW p \in Conns, AcceptConn(p)
      PROVE  WaitGroupOK'
  <2>1. Readers' = Readers
    BY <1>5, SameReaders DEF AcceptConn, Connect
  <2> QED
    BY <1>5, <2>1 DEF AcceptConn, Connect
<1>6. ASSUME NEW p \in Conns,
             \/ DialFail(p) \/ Dial(p) \/ HandshakeFail(p) \/ HandshakeDone(p)
             \/ Register(p) \/ RegisterRefuse(p) \/ RegisterRollback(p)
             \/ Refused(p) \/ StartReadLoop(p)
      PROVE  WaitGroupOK'
  <2>1. CASE DialFail(p)
    <3>1. Readers' = Readers
      BY <2>1, SameReaders DEF DialFail, Goto
    <3> QED
      BY <2>1, <3>1 DEF DialFail
  <2>2. CASE Dial(p)
    <3>1. Readers' = Readers
      BY <2>2, SameReaders DEF Dial, Connect
    <3> QED
      BY <2>2, <3>1 DEF Dial
  <2>3. CASE HandshakeFail(p)
    <3>1. Readers' = Readers
      BY <2>3, SameReaders DEF HandshakeFail, Goto
    <3> QED
      BY <2>3, <3>1 DEF HandshakeFail
  <2>4. CASE HandshakeDone(p)
    <3>1. Readers' = Readers
      BY <2>4, SameReaders DEF HandshakeDone, Goto
    <3> QED
      BY <2>4, <3>1 DEF HandshakeDone
  <2>5. CASE Register(p)
    <3>1. Readers' = Readers
      BY <2>5, SameReaders DEF Register, Goto
    <3> QED
      BY <2>5, <3>1 DEF Register
  <2>6. CASE RegisterRefuse(p)
    <3>1. Readers' = Readers
      BY <2>6, SameReaders DEF RegisterRefuse, Goto
    <3> QED
      BY <2>6, <3>1 DEF RegisterRefuse
  <2>7. CASE RegisterRollback(p)
    <3>1. Readers' = Readers
      BY <2>7, SameReaders DEF RegisterRollback, Goto
    <3> QED
      BY <2>7, <3>1 DEF RegisterRollback
  <2>8. CASE Refused(p)
    <3>1. Readers' = Readers
      BY <2>8, SameReaders DEF Refused, Goto
    <3> QED
      BY <2>8, <3>1 DEF Refused
  <2>9. CASE StartReadLoop(p)
    <3>1. \A q \in Conns : q # p => stepOf'[q] = stepOf[q]
      BY <2>9 DEF StartReadLoop, Goto
    <3>2. stepOf[p] \notin ReaderSteps /\ stepOf'[p] \in ReaderSteps
      BY <2>9 DEF StartReadLoop, Goto
    <3>3. Cardinality(Readers') = Cardinality(Readers) + 1
      BY <3>1, <3>2, ReadersAfterStep
    <3>4. wg' = wg + 1 /\ accept' = accept /\ tickers' = tickers
      BY <2>9 DEF StartReadLoop
    <3> QED
      <4>1. Cardinality(Readers) \in Nat /\ Cardinality(tickers) \in Nat
        BY ReadersCounted, TickersCounted
      <4>2. Cardinality(tickers') = Cardinality(tickers)
        BY <3>4
      <4> QED
        BY <3>3, <3>4, <4>1, <4>2
  <2> QED
    BY <1>6, <2>1, <2>2, <2>3, <2>4, <2>5, <2>6, <2>7, <2>8, <2>9
<1>7. ASSUME NEW p \in Conns,
             \/ ReadCheck(p) \/ ReadMessage(p) \/ ReadError(p)
             \/ HandleOther(p) \/ HandlePeers(p) \/ HandleDisconnect(p)
             \/ Unregister(p) \/ ReadLoopDone(p)
      PROVE  WaitGroupOK'
  <2>1. CASE ReadCheck(p)
    <3>1. Readers' = Readers
      BY <2>1, SameReaders DEF ReadCheck, Goto
    <3> QED
      BY <2>1, <3>1 DEF ReadCheck
  <2>2. CASE ReadMessage(p)
    <3>1. Readers' = Readers
      BY <2>2, SameReaders DEF ReadMessage, Goto
    <3> QED
      BY <2>2, <3>1 DEF ReadMessage
  <2>3. CASE ReadError(p)
    <3>1. Readers' = Readers
      BY <2>3, SameReaders DEF ReadError, Goto
    <3> QED
      BY <2>3, <3>1 DEF ReadError
  <2>4. CASE HandleOther(p)
    <3>1. Readers' = Readers
      BY <2>4, SameReaders DEF HandleOther, Goto
    <3> QED
      BY <2>4, <3>1 DEF HandleOther
  <2>5. CASE HandlePeers(p)
    <3>1. Readers' = Readers
      BY <2>5, SameReaders DEF HandlePeers
    <3> QED
      BY <2>5, <3>1 DEF HandlePeers
  <2>6. CASE HandleDisconnect(p)
    <3>1. Readers' = Readers
      BY <2>6, SameReaders DEF HandleDisconnect, Goto
    <3> QED
      BY <2>6, <3>1 DEF HandleDisconnect
  <2>7. CASE Unregister(p)
    <3>1. Readers' = Readers
      BY <2>7, SameReaders DEF Unregister, Goto
    <3> QED
      BY <2>7, <3>1 DEF Unregister
  <2>8. CASE ReadLoopDone(p)
    <3>1. \A q \in Conns : q # p => stepOf'[q] = stepOf[q]
      BY <2>8 DEF ReadLoopDone, Goto
    <3>2. stepOf[p] \in ReaderSteps /\ stepOf'[p] \notin ReaderSteps
      BY <2>8 DEF ReadLoopDone, Goto
    <3>3. Cardinality(Readers') = Cardinality(Readers) - 1
      BY <3>1, <3>2, ReadersAfterStep
    <3> QED
      BY <2>8, <3>3, ReadersCounted, TickersCounted, SMTT(30) DEF ReadLoopDone
  <2> QED
    BY <1>7, <2>1, <2>2, <2>3, <2>4, <2>5, <2>6, <2>7, <2>8
<1> QED
  BY StepCases, <1>1, <1>2, <1>3, <1>4, <1>5, <1>6, <1>7
-----------------------------------------------------------------------------
\* What Start and Stop know at each of their steps.
LEMMA ControlStep ==
    ASSUME NodeTypeOK, ControlOK, WaitGroupOK, [NodeNext]_nodeVars
    PROVE  ControlOK'
<1> USE NodeConstants DEF NodeTypeOK, ControlOK, ReaderSteps, loops, node, peerVars
<1>1. CASE NodeStep
  <2>1. UNCHANGED stepOf
    BY <1>1, NodeStepKeepsPeers
  <2>2. CASE StartClaim \/ StartFail \/ StopClaim
    BY <2>1, <2>2 DEF StartClaim, StartFail, StopClaim
  <2>3. CASE StopCancel \/ StopServer \/ StopRange
    BY <2>1, <2>3 DEF StopCancel, StopServer, StopRange
  <2>4. CASE StopWait
    BY <2>1, <2>4, CountIsPositive DEF StopWait
  <2>5. CASE AcceptCheck \/ AcceptRefuse \/ AcceptError
    BY <2>1, <2>5 DEF AcceptCheck, AcceptRefuse, AcceptError, EndAccept
  <2>6. CASE \E l \in {"discovery", "ping"} : EndTicker(l)
    BY <2>1, <2>6 DEF EndTicker
  <2>7. CASE UNCHANGED nodeVars
    BY <2>7 DEF nodeVars
  <2> QED
    BY <1>1, <2>2, <2>3, <2>4, <2>5, <2>6, <2>7 DEF NodeStep
<1>2. CASE StartListen
  BY <1>2 DEF StartListen
<1>3. ASSUME NEW id \in RemoteIDs, StopVisit(id)
      PROVE  ControlOK'
  BY <1>3 DEF StopVisit
<1>4. ASSUME NEW p \in Conns, NEW c \in Callers, Close(p, c)
      PROVE  ControlOK'
  <2>1. UNCHANGED <<running, ctx, ctl, accept, tickers, stepOf>>
    BY <1>4 DEF Close, CloseSet, CloseConn, CloseEnd
  <2> QED
    BY <2>1
<1>5. ASSUME NEW p \in Conns, AcceptConn(p)
      PROVE  ControlOK'
  BY <1>5 DEF AcceptConn, Connect
<1>6. ASSUME NEW p \in Conns,
             \/ DialFail(p) \/ Dial(p) \/ HandshakeFail(p) \/ HandshakeDone(p)
             \/ Register(p) \/ RegisterRefuse(p) \/ RegisterRollback(p)
             \/ Refused(p) \/ StartReadLoop(p)
      PROVE  ControlOK'
  <2>1. CASE DialFail(p)
    BY <2>1 DEF DialFail, Goto
  <2>2. CASE Dial(p)
    BY <2>2 DEF Dial, Connect
  <2>3. CASE HandshakeFail(p)
    BY <2>3 DEF HandshakeFail, Goto
  <2>4. CASE HandshakeDone(p)
    BY <2>4 DEF HandshakeDone, Goto
  <2>5. CASE Register(p)
    BY <2>5 DEF Register, Goto
  <2>6. CASE RegisterRefuse(p)
    BY <2>6 DEF RegisterRefuse, CloseBegun, Goto
  <2>7. CASE RegisterRollback(p)
    BY <2>7 DEF RegisterRollback, CloseBegun, Goto
  <2>8. CASE Refused(p)
    BY <2>8 DEF Refused, Goto
  <2>9. CASE StartReadLoop(p)
    BY <2>9 DEF StartReadLoop, Goto
  <2> QED
    BY <1>6, <2>1, <2>2, <2>3, <2>4, <2>5, <2>6, <2>7, <2>8, <2>9
<1>7. ASSUME NEW p \in Conns,
             \/ ReadCheck(p) \/ ReadMessage(p) \/ ReadError(p)
             \/ HandleOther(p) \/ HandlePeers(p) \/ HandleDisconnect(p)
             \/ Unregister(p) \/ ReadLoopDone(p)
      PROVE  ControlOK'
  <2>1. CASE ReadCheck(p)
    BY <2>1 DEF ReadCheck, Goto
  <2>2. CASE ReadMessage(p)
    BY <2>2 DEF ReadMessage, Goto
  <2>3. CASE ReadError(p)
    BY <2>3 DEF ReadError, Goto
  <2>4. CASE HandleOther(p)
    BY <2>4 DEF HandleOther, Goto
  <2>5. CASE HandlePeers(p)
    BY <2>5 DEF HandlePeers
  <2>6. CASE HandleDisconnect(p)
    BY <2>6 DEF HandleDisconnect, Goto
  <2>7. CASE Unregister(p)
    BY <2>7 DEF Unregister, CloseBegun, Goto
  <2>8. CASE ReadLoopDone(p)
    BY <2>8 DEF ReadLoopDone, Goto
  <2> QED
    BY <1>7, <2>1, <2>2, <2>3, <2>4, <2>5, <2>6, <2>7, <2>8
<1> QED
  BY StepCases, <1>1, <1>2, <1>3, <1>4, <1>5, <1>6, <1>7
-----------------------------------------------------------------------------
\* After Stop no readLoop gets past its look at the context.
LEMMA QuietStep ==
    ASSUME NodeTypeOK, ControlOK, WaitGroupOK, QuietWhenStopped, [NodeNext]_nodeVars
    PROVE  QuietWhenStopped'
<1> USE NodeConstants DEF NodeTypeOK, ControlOK, QuietWhenStopped, ReaderSteps, loops, node, peerVars
<1>1. CASE NodeStep
  <2>1. CASE StopWait
    <3>1. Readers = {}
      BY <2>1, CountIsPositive DEF StopWait
    <3> QED
      BY <2>1, <3>1 DEF StopWait, Readers
  <2> QED
    BY <1>1, <2>1
       DEF NodeStep, StartClaim, StartFail, StopClaim, StopCancel, StopServer, StopRange,
           AcceptCheck, AcceptRefuse, AcceptError, EndTicker, nodeVars
<1>2. CASE StartListen
  BY <1>2 DEF StartListen
<1>3. ASSUME NEW id \in RemoteIDs, StopVisit(id)
      PROVE  QuietWhenStopped'
  BY <1>3 DEF StopVisit
<1>4. ASSUME NEW p \in Conns, NEW c \in Callers, Close(p, c)
      PROVE  QuietWhenStopped'
  BY <1>4 DEF Close, CloseSet, CloseConn, CloseEnd
<1>5. ASSUME NEW p \in Conns, AcceptConn(p)
      PROVE  QuietWhenStopped'
  BY <1>5 DEF AcceptConn, Connect
<1>6. ASSUME NEW p \in Conns,
             \/ DialFail(p) \/ Dial(p) \/ HandshakeFail(p) \/ HandshakeDone(p)
             \/ Register(p) \/ RegisterRefuse(p) \/ RegisterRollback(p)
             \/ Refused(p) \/ StartReadLoop(p)
      PROVE  QuietWhenStopped'
  <2>1. CASE DialFail(p)
    BY <2>1 DEF DialFail, Goto
  <2>2. CASE Dial(p)
    BY <2>2 DEF Dial, Connect
  <2>3. CASE HandshakeFail(p)
    BY <2>3 DEF HandshakeFail, Goto
  <2>4. CASE HandshakeDone(p)
    BY <2>4 DEF HandshakeDone, Goto
  <2>5. CASE Register(p)
    BY <2>5 DEF Register, Goto
  <2>6. CASE RegisterRefuse(p)
    BY <2>6 DEF RegisterRefuse, CloseBegun, Goto
  <2>7. CASE RegisterRollback(p)
    BY <2>7 DEF RegisterRollback, CloseBegun, Goto
  <2>8. CASE Refused(p)
    BY <2>8 DEF Refused, Goto
  <2>9. CASE StartReadLoop(p)
    BY <2>9 DEF StartReadLoop, Goto
  <2> QED
    BY <1>6, <2>1, <2>2, <2>3, <2>4, <2>5, <2>6, <2>7, <2>8, <2>9
<1>7. ASSUME NEW p \in Conns,
             \/ ReadCheck(p) \/ ReadMessage(p) \/ ReadError(p)
             \/ HandleOther(p) \/ HandlePeers(p) \/ HandleDisconnect(p)
             \/ Unregister(p) \/ ReadLoopDone(p)
      PROVE  QuietWhenStopped'
  <2>1. CASE ReadCheck(p)
    BY <2>1 DEF ReadCheck, Goto
  <2>2. CASE ReadMessage(p)
    BY <2>2 DEF ReadMessage, Goto
  <2>3. CASE ReadError(p)
    BY <2>3 DEF ReadError, Goto
  <2>4. CASE HandleOther(p)
    BY <2>4 DEF HandleOther, Goto
  <2>5. CASE HandlePeers(p)
    BY <2>5 DEF HandlePeers
  <2>6. CASE HandleDisconnect(p)
    BY <2>6 DEF HandleDisconnect, Goto
  <2>7. CASE Unregister(p)
    BY <2>7 DEF Unregister, CloseBegun, Goto
  <2>8. CASE ReadLoopDone(p)
    BY <2>8 DEF ReadLoopDone, Goto
  <2> QED
    BY <1>7, <2>1, <2>2, <2>3, <2>4, <2>5, <2>6, <2>7, <2>8
<1> QED
  BY StepCases, <1>1, <1>2, <1>3, <1>4, <1>5, <1>6, <1>7
-----------------------------------------------------------------------------
\* The counter of the WaitGroup is never negative, and all else has its type.
LEMMA TypeStep ==
    ASSUME NodeTypeOK, WaitGroupOK, [NodeNext]_nodeVars
    PROVE  NodeTypeOK'
<1> USE NodeConstants DEF NodeTypeOK, ReaderSteps, Callers, ClosedStates, loops, node, peerVars
<1>1. CASE NodeStep
  <2>1. UNCHANGED <<stepOf, conn, state, closing, ids>>
    BY <1>1, NodeStepKeepsPeers
  <2>2. CASE StartClaim \/ StartFail \/ StopClaim
    <3>1. starts' \in 0 .. MaxStarts
      BY <2>2 DEF StartClaim, StartFail, StopClaim
    <3> QED
      BY <2>1, <2>2, <3>1 DEF StartClaim, StartFail, StopClaim
  <2>3. CASE StopCancel \/ StopServer \/ StopRange \/ StopWait
    BY <2>1, <2>3 DEF StopCancel, StopServer, StopRange, StopWait
  <2>4. CASE AcceptCheck \/ AcceptRefuse \/ AcceptError
    BY <2>1, <2>4, CountIsPositive DEF AcceptCheck, AcceptRefuse, AcceptError, EndAccept
  <2>5. CASE \E l \in {"discovery", "ping"} : EndTicker(l)
    <3>1. wg - 1 \in Nat
      BY <2>5, CountIsPositive DEF EndTicker
    <3> QED
      BY <2>1, <2>5, <3>1 DEF EndTicker
  <2>6. CASE UNCHANGED nodeVars
    BY <2>6 DEF nodeVars
  <2> QED
    BY <1>1, <2>2, <2>3, <2>4, <2>5, <2>6 DEF NodeStep
<1>2. CASE StartListen
  BY <1>2 DEF StartListen
<1>3. ASSUME NEW id \in RemoteIDs, StopVisit(id)
      PROVE  NodeTypeOK'
  BY <1>3 DEF StopVisit, CloseBegun
<1>4. ASSUME NEW p \in Conns, NEW c \in Callers, Close(p, c)
      PROVE  NodeTypeOK'
  <2>1. CASE CloseSet(p, c)
    BY <2>1 DEF CloseSet
  <2>2. CASE CloseConn(p, c)
    BY <2>2 DEF CloseConn
  <2>3. CASE CloseEnd(p, c)
    BY <2>3 DEF CloseEnd
  <2> QED
    BY <1>4, <2>1, <2>2, <2>3 DEF Close
<1>5. ASSUME NEW p \in Conns, AcceptConn(p)
      PROVE  NodeTypeOK'
  BY <1>5 DEF AcceptConn, Connect
<1>6. ASSUME NEW p \in Conns,
             \/ DialFail(p) \/ Dial(p) \/ HandshakeFail(p) \/ HandshakeDone(p)
             \/ Register(p) \/ RegisterRefuse(p) \/ RegisterRollback(p)
             \/ Refused(p) \/ StartReadLoop(p)
      PROVE  NodeTypeOK'
  <2>1. CASE DialFail(p)
    BY <2>1 DEF DialFail, Goto
  <2>2. CASE Dial(p)
    BY <2>2 DEF Dial, Connect
  <2>3. CASE HandshakeFail(p)
    BY <2>3 DEF HandshakeFail, Goto
  <2>4. CASE HandshakeDone(p)
    BY <2>4 DEF HandshakeDone, Goto
  <2>5. CASE Register(p)
    BY <2>5 DEF Register, Goto
  <2>6. CASE RegisterRefuse(p)
    BY <2>6 DEF RegisterRefuse, CloseBegun, Goto
  <2>7. CASE RegisterRollback(p)
    BY <2>7 DEF RegisterRollback, CloseBegun, Goto
  <2>8. CASE Refused(p)
    BY <2>8 DEF Refused, Goto
  <2>9. CASE StartReadLoop(p)
    BY <2>9 DEF StartReadLoop, Goto
  <2> QED
    BY <1>6, <2>1, <2>2, <2>3, <2>4, <2>5, <2>6, <2>7, <2>8, <2>9
<1>7. ASSUME NEW p \in Conns,
             \/ ReadCheck(p) \/ ReadMessage(p) \/ ReadError(p)
             \/ HandleOther(p) \/ HandlePeers(p) \/ HandleDisconnect(p)
             \/ Unregister(p) \/ ReadLoopDone(p)
      PROVE  NodeTypeOK'
  <2>1. CASE ReadCheck(p)
    BY <2>1 DEF ReadCheck, Goto
  <2>2. CASE ReadMessage(p)
    BY <2>2 DEF ReadMessage, Goto
  <2>3. CASE ReadError(p)
    BY <2>3 DEF ReadError, Goto
  <2>4. CASE HandleOther(p)
    BY <2>4 DEF HandleOther, Goto
  <2>5. CASE HandlePeers(p)
    BY <2>5 DEF HandlePeers
  <2>6. CASE HandleDisconnect(p)
    BY <2>6 DEF HandleDisconnect, Goto
  <2>7. CASE Unregister(p)
    BY <2>7 DEF Unregister, CloseBegun, Goto
  <2>8. CASE ReadLoopDone(p)
    <3>1. wg - 1 \in Nat
      BY <2>8, CountIsPositive DEF ReadLoopDone, Goto
    <3> QED
      BY <2>8, <3>1 DEF ReadLoopDone, Goto
  <2> QED
    BY <1>7, <2>1, <2>2, <2>3, <2>4, <2>5, <2>6, <2>7, <2>8
<1> QED
  BY StepCases, <1>1, <1>2, <1>3, <1>4, <1>5, <1>6, <1>7
-----------------------------------------------------------------------------
(* The inductive invariant, and what follows from it.                      *)

LEMMA InitInvariant ==
    NodeInit => IInv
<1> SUFFICES ASSUME NodeInit
             PROVE  IInv
  OBVIOUS
<1> USE NodeConstants DEF NodeInit, ReaderSteps, Callers, ClosedStates
<1>1. NodeTypeOK
  <2>1. closing \in [Conns -> [Callers -> {"set", "conn", "end", "done"}]]
    OBVIOUS
  <2>2. starts \in 0 .. MaxStarts /\ wg \in Nat
    OBVIOUS
  <2> HIDE DEF Callers
  <2> QED
    BY <2>1, <2>2 DEF NodeTypeOK
<1>2. IDsHeld
  BY DEF IDsHeld, Holding
<1>3. ClosersOK
  BY DEF ClosersOK, ClosersOfOK
<1>4. ControlOK /\ QuietWhenStopped
  BY DEF ControlOK, QuietWhenStopped
<1>5. WaitGroupOK
  <2>1. Readers = {}
    BY DEF Readers
  <2> QED
    BY <2>1, FS_EmptySet DEF WaitGroupOK
<1> QED
  BY <1>1, <1>2, <1>3, <1>4, <1>5 DEF IInv

LEMMA Invariance == NodeSpec => []IInv
<1>1. IInv /\ [NodeNext]_nodeVars => IInv'
  BY TypeStep, HeldStep, ClosersStep, ControlStep, WaitGroupStep, QuietStep DEF IInv
<1> QED
  BY InitInvariant, <1>1, PTL DEF NodeSpec

\* Every reachable state of node.go's model is well typed; in particular the
\* WaitGroup is never counted below 0, which would panic.
THEOREM NodeTypeCorrect == NodeSpec => []NodeTypeOK
<1>1. IInv => NodeTypeOK
  BY DEF IInv
<1> QED
  BY Invariance, <1>1, PTL

\* Stop, which finds peers only in the registry, can find the peer of every
\* readLoop there.
THEOREM ReadersStayRegistered == NodeSpec => []ReadersRegistered
<1>1. IInv => ReadersRegistered
  BY DEF IInv, IDsHeld, Holding, ReadersRegistered, ReaderSteps
<1> QED
  BY Invariance, <1>1, PTL

\* No goroutine ends and leaves its socket open, however Stop and the goroutine
\* overlap in Peer.Close.
LEMMA NoSocketLeaks == NodeSpec => []NoLeakedConnection
<1>1. IInv => NoLeakedConnection
  BY DEF IInv, ClosersOK, ClosersOfOK, NoLeakedConnection
<1> QED
  BY Invariance, <1>1, PTL

\* The state Disconnected is never shown with the socket still open.
LEMMA DisconnectedMeansClosed == NodeSpec => []DisconnectedIsClosed
<1>1. IInv /\ NodeTypeOK => DisconnectedIsClosed
  BY DEF IInv, ClosersOK, ClosersOfOK, DisconnectedIsClosed
<1>2. IInv => NodeTypeOK
  BY DEF IInv
<1> QED
  BY Invariance, <1>1, <1>2, PTL

\* However Stop and the goroutine overlap in Peer.Close, no socket stays open.
THEOREM SocketsStayClosed == NodeSpec => []SocketsClosed
<1>1. NoLeakedConnection /\ DisconnectedIsClosed => SocketsClosed
  BY DEF SocketsClosed
<1> QED
  BY <1>1, NoSocketLeaks, DisconnectedMeansClosed, PTL

\* Between the return of Stop and the next Start no message is read or handled,
\* whatever handshakes end in the meantime.
THEOREM StopSilences == NodeSpec => []QuietWhenStopped
<1>1. IInv => QuietWhenStopped
  BY DEF IInv
<1> QED
  BY Invariance, <1>1, PTL
=============================================================================
