---------------------------- MODULE QueueProofs ----------------------------
(***************************************************************************)
(* Proofs about the two queues, each for any goroutines.  LockFreeQueue,   *)
(* for any set of nodes: the list stays intact, head stays behind tail, no *)
(* goroutine follows a nil pointer, and the queue implements QueueSpec.    *)
(* SyncQueue, for any values and lengths, in the second part: it           *)
(* implements QueueSpec too.                                               *)
(***************************************************************************)
EXTENDS LockFreeQueue, FiniteSetTheorems, TLAPS

\* In which steps a goroutine's local pointer has been read and may be used.
HasTail == {"enqNext", "enqCheck", "enqLink", "enqHelp", "enqSwing",
            "deqNext", "deqCheck", "deqHelp", "deqSwing"}
HasHead == {"deqTail", "deqNext", "deqCheck", "deqHelp", "deqSwing", "peekNext"}
HasBoth == {"deqNext", "deqCheck", "deqHelp", "deqSwing"}

\* y was the node after x when it was read, and so it is for ever.
Follows(y, x) == y \in Linked /\ order[y] = order[x] + 1

\* The places 1 .. Length are taken once each.
OrderOK ==
    /\ order \in [Nodes -> Nat]
    /\ Dummy \in Linked
    /\ \A x \in Nodes : order[x] <= Length
    /\ \A x, y \in Linked : order[x] = order[y] => x = y
    /\ \A x \in Linked : next[x] # Null => Follows(next[x], x)
    /\ \A x \in Nodes : next[x] = Null <=> order[x] \in {0, Length}

\* A node being enqueued is not in the list yet and nobody else's.
NewNodesOK ==
    /\ \A p \in Procs : pc[p] \in EnqSteps => newNode[p] \in Nodes \ Linked
    /\ \A p, q \in Procs :
          (pc[p] \in EnqSteps /\ pc[q] \in EnqSteps /\ newNode[p] = newNode[q]) => p = q

\* What a goroutine has read may be old but was true: its pointers are nodes
\* of the list, no further on than head and tail are now.
LocalsOK(p) ==
    /\ pc[p] \in HasTail => ltail[p] \in Linked /\ order[ltail[p]] <= order[tail]
    /\ pc[p] \in HasHead => lhead[p] \in Linked /\ order[lhead[p]] <= order[head]
    /\ pc[p] \in HasBoth => order[lhead[p]] <= order[ltail[p]]
    /\ pc[p] = "enqCheck" /\ lnext[p] # Null => Follows(lnext[p], ltail[p])
    /\ pc[p] = "enqHelp" => Follows(lnext[p], ltail[p])
    /\ pc[p] = "enqSwing" => Follows(newNode[p], ltail[p])
    /\ pc[p] \in {"deqCheck", "deqSwing", "deqHelp"} /\ lnext[p] # Null =>
          Follows(lnext[p], lhead[p])
    /\ pc[p] = "deqCheck" /\ lnext[p] = Null => lhead[p] = ltail[p]
    /\ pc[p] = "deqHelp" => lhead[p] = ltail[p] /\ lnext[p] # Null
    /\ pc[p] = "deqSwing" => lhead[p] # ltail[p] /\ lnext[p] # Null

IInv ==
    /\ TypeOK
    /\ OrderOK
    /\ HeadBehindTail
    /\ NewNodesOK
    /\ \A p \in Procs : LocalsOK(p)
-----------------------------------------------------------------------------
(* Lemmas.                                                                 *)

\* The list has finitely many nodes.
LEMMA LengthType == Length \in Nat /\ IsFiniteSet(Linked)
<1>1. Linked \in SUBSET Nodes
  BY DEF Linked
<1> QED
  BY <1>1, FS_Subset, FS_CardinalityType, NodesAssumption DEF Length

\* The front of the queue is the node after the one head points to.
LEMMA FrontIsNext ==
    ASSUME OrderOK, head \in Linked
    PROVE  Front = next[head]
<1>1. head \in Nodes /\ order[head] \in Nat /\ order[head] > 0
  BY DEF Linked, OrderOK
<1>2. CASE order[head] = Length
  BY <1>1, <1>2 DEF Front, OrderOK
<1>3. CASE order[head] # Length
  <2>1. next[head] # Null /\ next[head] \in Nodes /\ order[next[head]] = order[head] + 1
    BY <1>1, <1>3 DEF OrderOK, Follows, Linked
  <2>2. \A x \in Nodes : order[x] = order[head] + 1 => x = next[head]
    BY <1>1, <2>1 DEF OrderOK, Linked
  <2>3. NodeAt(order[head] + 1) = next[head]
    BY <2>1, <2>2 DEF NodeAt
  <2> QED
    BY <1>3, <2>3 DEF Front
<1> QED
  BY <1>2, <1>3

\* Only p's pc and local variables change.
OthersKeep(p) ==
    \A q \in Procs : q # p => /\ pc'[q] = pc[q]
                              /\ lhead'[q] = lhead[q]
                              /\ ltail'[q] = ltail[q]
                              /\ lnext'[q] = lnext[q]
                              /\ newNode'[q] = newNode[q]

\* A step that links no node only has to keep head and tail in order and to
\* establish what is claimed of the goroutine that takes it.
LEMMA FrameStep ==
    ASSUME IInv, TypeOK', NEW p \in Procs, OthersKeep(p),
           UNCHANGED <<next, order>>,
           HeadBehindTail', order[head] <= order[head'], order[tail] <= order[tail'],
           NewNodesOK', LocalsOK(p)'
    PROVE  IInv'
<1>1. Linked' = Linked /\ Length' = Length
  BY DEF Linked, Length
<1>2. OrderOK'
  BY <1>1 DEF IInv, OrderOK, Follows
<1>3. ASSUME NEW q \in Procs, q # p
      PROVE  LocalsOK(q)'
  <2>1. LocalsOK(q) /\ TypeOK /\ order \in [Nodes -> Nat]
    BY DEF IInv, OrderOK
  <2>2. /\ pc'[q] = pc[q] /\ lhead'[q] = lhead[q] /\ ltail'[q] = ltail[q]
        /\ lnext'[q] = lnext[q] /\ newNode'[q] = newNode[q]
    BY <1>3 DEF OthersKeep
  <2>3. Linked \subseteq Nodes /\ head \in Nodes /\ tail \in Nodes /\ head' \in Nodes /\ tail' \in Nodes
    BY <2>1 DEF Linked, TypeOK
  <2>4. /\ pc[q] \in HasTail => order[ltail[q]] <= order[tail']
        /\ pc[q] \in HasHead => order[lhead[q]] <= order[head']
    BY <2>1, <2>3 DEF LocalsOK
  <2> QED
    BY <1>1, <2>1, <2>2, <2>4 DEF LocalsOK, Follows
<1> QED
  BY <1>2, <1>3 DEF IInv

\* A step that does not change the list or its pointers.
LEMMA QuietStep ==
    ASSUME IInv, TypeOK', NEW p \in Procs, OthersKeep(p),
           UNCHANGED <<queueVars, order>>,
           pc'[p] \in EnqSteps => pc[p] \in EnqSteps /\ newNode'[p] = newNode[p],
           LocalsOK(p)'
    PROVE  IInv'
<1>1. Linked' = Linked /\ Length' = Length /\ UNCHANGED <<head, tail, next, order>>
  BY DEF Linked, Length, queueVars
<1>2. HeadBehindTail'
  BY <1>1 DEF IInv, HeadBehindTail
<1>3. NewNodesOK'
  <2>1. \A q \in Procs : pc'[q] \in EnqSteps => pc[q] \in EnqSteps
    BY DEF OthersKeep
  <2>2. \A q \in Procs : pc'[q] \in EnqSteps => newNode'[q] = newNode[q]
    BY DEF OthersKeep
  <2>3. \A q \in Procs : pc'[q] \in EnqSteps => newNode'[q] \in Nodes \ Linked'
    BY <1>1, <2>1, <2>2 DEF IInv, NewNodesOK
  <2> QED
    BY <2>1, <2>2, <2>3 DEF IInv, NewNodesOK
<1>4. order[head] <= order[head'] /\ order[tail] <= order[tail']
  BY <1>1 DEF IInv, TypeOK
<1> QED
  BY <1>1, <1>2, <1>3, <1>4, FrameStep
-----------------------------------------------------------------------------
(* The steps of the goroutines.                                            *)

\* Loads and checks: what is read is true when it is read.
LEMMA QuietActions ==
    ASSUME IInv, NEW p \in Procs,
           \/ EnqLoadTail(p)
           \/ EnqLoadNext(p)
           \/ EnqCheck(p)
           \/ DeqLoadHead(p)
           \/ DeqLoadTail(p)
           \/ DeqLoadNext(p)
           \/ DeqCheck(p)
           \/ DeqEmpty(p)
           \/ PeekLoadHead(p)
           \/ PeekLoadNext(p)
    PROVE  IInv'
<1> USE DEF TypeOK, Goto, queueVars, localVars, Pointers, EnqSteps, DeqSteps, PeekSteps
<1> DEFINE Rest == /\ TypeOK'
                   /\ OthersKeep(p)
                   /\ UNCHANGED <<queueVars, order>>
                   /\ pc'[p] \in EnqSteps =>
                         pc[p] \in EnqSteps /\ newNode'[p] = newNode[p]
<1>0. /\ TypeOK /\ LocalsOK(p) /\ OrderOK /\ HeadBehindTail
      /\ Linked \subseteq Nodes /\ Length \in Nat
  BY LengthType DEF IInv, Linked
<1>q. ASSUME Rest, LocalsOK(p)' PROVE IInv'
  BY <1>q, QuietStep
<1>1. CASE EnqLoadTail(p)
  <2>1. Rest
    BY <1>1, <1>0 DEF EnqLoadTail, OthersKeep
  <2>2. LocalsOK(p)'
    BY <1>1, <1>0 DEF EnqLoadTail, LocalsOK, HasTail, HasHead, HasBoth, Linked,
       Length, Follows, OrderOK, HeadBehindTail
  <2> QED
    BY <2>1, <2>2, <1>q
<1>2. CASE EnqLoadNext(p)
  <2>1. Rest
    BY <1>2, <1>0 DEF EnqLoadNext, OthersKeep, LocalsOK, HasTail, HasHead
  <2>2. LocalsOK(p)'
    BY <1>2, <1>0 DEF EnqLoadNext, LocalsOK, HasTail, HasHead, HasBoth, Linked,
       Length, Follows, OrderOK, HeadBehindTail
  <2> QED
    BY <2>1, <2>2, <1>q
<1>3. CASE EnqCheck(p)
  <2>1. Rest
    BY <1>3, <1>0 DEF EnqCheck, OthersKeep
  <2>2. LocalsOK(p)'
    BY <1>3, <1>0 DEF EnqCheck, LocalsOK, HasTail, HasHead, HasBoth, Linked,
       Length, Follows, OrderOK, HeadBehindTail
  <2> QED
    BY <2>1, <2>2, <1>q
<1>4. CASE DeqLoadHead(p)
  <2>1. Rest
    BY <1>4, <1>0 DEF DeqLoadHead, OthersKeep
  <2>2. LocalsOK(p)'
    BY <1>4, <1>0 DEF DeqLoadHead, LocalsOK, HasTail, HasHead, HasBoth, Linked,
       Length, Follows, OrderOK, HeadBehindTail
  <2> QED
    BY <2>1, <2>2, <1>q
<1>5. CASE DeqLoadTail(p)
  <2>1. Rest
    BY <1>5, <1>0 DEF DeqLoadTail, OthersKeep
  <2>2. LocalsOK(p)'
    BY <1>5, <1>0 DEF DeqLoadTail, LocalsOK, HasTail, HasHead, HasBoth, Linked,
       Length, Follows, OrderOK, HeadBehindTail
  <2> QED
    BY <2>1, <2>2, <1>q
<1>6. CASE DeqLoadNext(p)
  <2>1. Rest
    BY <1>6, <1>0 DEF DeqLoadNext, OthersKeep, LocalsOK, HasTail, HasHead
  <2>2. LocalsOK(p)'
    BY <1>6, <1>0 DEF DeqLoadNext, LocalsOK, HasTail, HasHead, HasBoth, Linked,
       Length, Follows, OrderOK, HeadBehindTail
  <2> QED
    BY <2>1, <2>2, <1>q
<1>7. CASE DeqCheck(p)
  <2>1. Rest
    BY <1>7, <1>0 DEF DeqCheck, OthersKeep
  <2>2. LocalsOK(p)'
    BY <1>7, <1>0 DEF DeqCheck, LocalsOK, HasTail, HasHead, HasBoth, Linked,
       Length, Follows, OrderOK, HeadBehindTail
  <2> QED
    BY <2>1, <2>2, <1>q
<1>8. CASE DeqEmpty(p)
  <2>1. Rest
    BY <1>8, <1>0 DEF DeqEmpty, Return, OthersKeep
  <2>2. LocalsOK(p)'
    BY <1>8, <1>0 DEF DeqEmpty, Return, LocalsOK, HasTail, HasHead, HasBoth, Linked,
       Length, Follows, OrderOK, HeadBehindTail
  <2> QED
    BY <2>1, <2>2, <1>q
<1>9. CASE PeekLoadHead(p)
  <2>1. Rest
    BY <1>9, <1>0 DEF PeekLoadHead, OthersKeep
  <2>2. LocalsOK(p)'
    BY <1>9, <1>0 DEF PeekLoadHead, LocalsOK, HasTail, HasHead, HasBoth, Linked,
       Length, Follows, OrderOK, HeadBehindTail
  <2> QED
    BY <2>1, <2>2, <1>q
<1>10. CASE PeekLoadNext(p)
  <2>1. Rest
    BY <1>10, <1>0 DEF PeekLoadNext, Return, OthersKeep, LocalsOK, HasHead
  <2>2. LocalsOK(p)'
    BY <1>10, <1>0 DEF PeekLoadNext, Return, LocalsOK, HasTail, HasHead, HasBoth, Linked,
       Length, Follows, OrderOK, HeadBehindTail
  <2> QED
    BY <2>1, <2>2, <1>q
<1> QED
  BY <1>1, <1>2, <1>3, <1>4, <1>5, <1>6, <1>7, <1>8, <1>9, <1>10

\* newNode := &node{...}: nobody else has it.
LEMMA EnqCallStep ==
    ASSUME IInv, NEW p \in Procs, EnqCall(p)
    PROVE  IInv'
<1> USE DEF TypeOK, Goto, queueVars, Pointers, EnqSteps, DeqSteps, PeekSteps
<1>0. TypeOK /\ LocalsOK(p) /\ OrderOK /\ HeadBehindTail
  BY DEF IInv
<1>1. Linked' = Linked /\ Length' = Length /\ UNCHANGED <<head, tail, next, order>>
  BY DEF EnqCall, Linked, Length
<1>2. PICK x \in Nodes \ Linked : /\ \A q \in Procs : newNode[q] # x
                                  /\ newNode' = [newNode EXCEPT ![p] = x]
  BY DEF EnqCall
<1>3. TypeOK' /\ OthersKeep(p)
  BY <1>0, <1>2 DEF EnqCall, OthersKeep
<1>4. NewNodesOK'
  <2>1. newNode'[p] = x /\ \A q \in Procs : q # p => newNode'[q] = newNode[q] /\ pc'[q] = pc[q]
    BY <1>0, <1>2, <1>3 DEF OthersKeep
  <2> QED
    BY <1>1, <1>2, <2>1 DEF IInv, NewNodesOK
<1>5. LocalsOK(p)'
  BY <1>0 DEF EnqCall, LocalsOK, HasTail, HasHead, HasBoth
<1>6. HeadBehindTail' /\ order[head] <= order[head'] /\ order[tail] <= order[tail']
  BY <1>0, <1>1 DEF HeadBehindTail
<1> QED
  BY <1>1, <1>3, <1>4, <1>5, <1>6, FrameStep

\* Dequeue and Peek begin.
LEMMA ReadCallStep ==
    ASSUME IInv, NEW p \in Procs, NEW first \in {"deqHead", "peekHead"},
           ReadCall(p, first)
    PROVE  IInv'
<1> USE DEF TypeOK, Goto, queueVars, localVars, Pointers, EnqSteps, DeqSteps, PeekSteps
<1>0. TypeOK /\ LocalsOK(p) /\ OrderOK /\ HeadBehindTail
  BY DEF IInv
<1>1. Front \in Pointers
  BY <1>0, FrontIsNext DEF HeadBehindTail
<1>2. TypeOK' /\ OthersKeep(p)
  BY <1>0, <1>1 DEF ReadCall, OthersKeep
<1>3. LocalsOK(p)'
  BY <1>0 DEF ReadCall, LocalsOK, HasTail, HasHead, HasBoth
<1> QED
  BY <1>2, <1>3, <1>0, QuietStep DEF ReadCall

\* Moving tail on by one node, or not at all, keeps it where it has to be.
LEMMA CASTailKeeps ==
    ASSUME TypeOK, OrderOK, HeadBehindTail, UNCHANGED <<head, next, order>>,
           NEW x \in Linked, NEW y, Follows(y, x), order[x] <= order[tail],
           CASTail(x, y)
    PROVE  /\ HeadBehindTail' /\ tail' \in Nodes
           /\ order[tail] <= order[tail'] /\ order[y] <= order[tail']
<1>1. Linked' = Linked /\ Length' = Length /\ Length \in Nat /\ Linked \subseteq Nodes
  BY LengthType DEF Linked, Length
<1>2. y \in Linked /\ order[y] = order[x] + 1 /\ order[y] <= Length
  BY <1>1 DEF Follows, OrderOK
<1>3. CASE tail = x
  BY <1>1, <1>2, <1>3 DEF CASTail, HeadBehindTail, OrderOK
<1>4. CASE tail # x
  <2>1. tail' = tail
    BY <1>4 DEF CASTail
  <2>2. order[x] # order[tail]
    BY <1>4 DEF OrderOK, HeadBehindTail
  <2>3. order[x] \in Nat /\ order[tail] \in Nat
    BY <1>1 DEF OrderOK, HeadBehindTail
  <2> QED
    BY <1>1, <1>2, <2>1, <2>2, <2>3 DEF HeadBehindTail
<1> QED
  BY <1>3, <1>4

\* Enqueue swings tail to its own node and returns.
LEMMA EnqSwingStep ==
    ASSUME IInv, NEW p \in Procs, EnqSwing(p)
    PROVE  IInv'
<1> USE DEF Goto, Return, Pointers, EnqSteps, DeqSteps, PeekSteps
<1>0. TypeOK /\ LocalsOK(p) /\ OrderOK /\ HeadBehindTail
  BY DEF IInv
<1>1. Linked' = Linked /\ Length' = Length /\ UNCHANGED <<head, next, order>>
  BY DEF EnqSwing, Linked, Length
<1>2. /\ ltail[p] \in Linked /\ order[ltail[p]] <= order[tail]
      /\ Follows(newNode[p], ltail[p])
  BY <1>0 DEF EnqSwing, LocalsOK, HasTail
<1>3. HeadBehindTail' /\ tail' \in Nodes /\ order[tail] <= order[tail']
  BY <1>0, <1>1, <1>2, CASTailKeeps DEF EnqSwing
<1>4. TypeOK' /\ OthersKeep(p)
  BY <1>0, <1>3 DEF EnqSwing, TypeOK, OthersKeep
<1>5. LocalsOK(p)'
  BY <1>0 DEF EnqSwing, TypeOK, LocalsOK, HasTail, HasHead, HasBoth
<1>6. NewNodesOK'
  <2>1. pc'[p] = "idle"
    BY <1>0 DEF EnqSwing, TypeOK
  <2> QED
    BY <1>1, <1>4, <2>1 DEF OthersKeep, IInv, NewNodesOK
<1>7. order[head] <= order[head']
  BY <1>0, <1>1 DEF TypeOK
<1> QED
  BY <1>1, <1>3, <1>4, <1>5, <1>6, <1>7, FrameStep

\* Enqueue or Dequeue moves a lagging tail on and starts over.
LEMMA HelpStep ==
    ASSUME IInv, NEW p \in Procs, EnqHelp(p) \/ DeqHelp(p)
    PROVE  IInv'
<1> USE DEF Goto, localVars, Pointers, EnqSteps, DeqSteps, PeekSteps
<1>0. TypeOK /\ LocalsOK(p) /\ OrderOK /\ HeadBehindTail
  BY DEF IInv
<1>1. Linked' = Linked /\ Length' = Length /\ UNCHANGED <<head, next, order>>
  BY DEF EnqHelp, DeqHelp, Linked, Length
<1>2. /\ ltail[p] \in Linked /\ order[ltail[p]] <= order[tail]
      /\ Follows(lnext[p], ltail[p]) /\ CASTail(ltail[p], lnext[p])
  BY <1>0 DEF EnqHelp, DeqHelp, LocalsOK, HasTail
<1>3. HeadBehindTail' /\ tail' \in Nodes /\ order[tail] <= order[tail']
  BY <1>0, <1>1, <1>2, CASTailKeeps
<1>4. TypeOK' /\ OthersKeep(p)
  BY <1>0, <1>3 DEF EnqHelp, DeqHelp, TypeOK, OthersKeep
<1>5. LocalsOK(p)'
  BY <1>0 DEF EnqHelp, DeqHelp, TypeOK, LocalsOK, HasTail, HasHead, HasBoth
<1>6. NewNodesOK'
  <2>1. pc'[p] \in EnqSteps => pc[p] \in EnqSteps
    BY <1>0 DEF EnqHelp, DeqHelp, TypeOK
  <2>2. newNode' = newNode
    BY DEF EnqHelp, DeqHelp
  <2>3. \A q \in Procs : pc'[q] \in EnqSteps => pc[q] \in EnqSteps
    BY <1>4, <2>1 DEF OthersKeep
  <2> QED
    BY <1>1, <2>2, <2>3 DEF IInv, NewNodesOK
<1>7. order[head] <= order[head']
  BY <1>0, <1>1 DEF TypeOK
<1> QED
  BY <1>1, <1>3, <1>4, <1>5, <1>6, <1>7, FrameStep

\* Dequeue moves head on by one node, to one that tail has already reached.
LEMMA DeqSwingStep ==
    ASSUME IInv, NEW p \in Procs, DeqSwing(p)
    PROVE  IInv'
<1> USE DEF Goto, Return, queueVars, localVars, Pointers, EnqSteps, DeqSteps, PeekSteps
<1>0. TypeOK /\ LocalsOK(p) /\ OrderOK /\ HeadBehindTail /\ Linked \subseteq Nodes
  BY DEF IInv, Linked
<1>1. Linked' = Linked /\ Length' = Length /\ UNCHANGED <<tail, next, order>>
  BY DEF DeqSwing, Linked, Length
<1>2. CASE head = lhead[p]
  <2>1. pc[p] = "deqSwing" /\ head' = lnext[p] /\ seen' = [Shown EXCEPT ![p] = {}]
    BY <1>2 DEF DeqSwing
  <2>2. /\ Follows(lnext[p], head) /\ head # ltail[p]
        /\ ltail[p] \in Linked /\ order[ltail[p]] <= order[tail]
        /\ order[head] <= order[ltail[p]]
    BY <1>0, <1>2, <2>1 DEF LocalsOK, HasTail, HasHead, HasBoth
  <2>3. order[head] < order[ltail[p]]
    BY <1>0, <2>2 DEF OrderOK, HeadBehindTail
  <2>4. /\ head' \in Linked /\ order[head'] = order[head] + 1
        /\ order[head'] <= order[tail]
    BY <1>0, <2>1, <2>2, <2>3 DEF Follows, TypeOK
  <2>5. HeadBehindTail' /\ order[head] <= order[head'] /\ order[tail] <= order[tail']
    BY <1>0, <1>1, <2>4 DEF HeadBehindTail, TypeOK
  <2>6. Front' \in Pointers
    <3>1. OrderOK'
      BY <1>0, <1>1 DEF OrderOK, Follows
    <3>2. \A x \in Nodes : next[x] \in Pointers
      BY <1>0 DEF TypeOK
    <3>3. (OrderOK /\ head \in Linked => Front = next[head])'
      BY FrontIsNext, PTL
    <3> QED
      BY <1>0, <1>1, <2>4, <3>1, <3>2, <3>3
  <2>7. TypeOK' /\ OthersKeep(p)
    <3>1. Shown \in [Procs -> SUBSET Pointers]
      BY <1>0, <2>6 DEF Shown, TypeOK
    <3> QED
      BY <1>0, <1>2, <2>1, <2>4, <3>1 DEF DeqSwing, TypeOK, OthersKeep
  <2>8. LocalsOK(p)'
    BY <1>0, <1>2 DEF DeqSwing, TypeOK, LocalsOK, HasTail, HasHead, HasBoth
  <2>9. NewNodesOK'
    <3>1. pc'[p] = "idle"
      BY <1>0, <1>2 DEF DeqSwing, TypeOK
    <3> QED
      BY <1>1, <2>7, <3>1 DEF OthersKeep, IInv, NewNodesOK
  <2> QED
    BY <1>1, <2>5, <2>7, <2>8, <2>9, FrameStep
<1>3. CASE head # lhead[p]
  <2>1. TypeOK' /\ OthersKeep(p) /\ UNCHANGED <<queueVars, order>>
    BY <1>0, <1>3 DEF DeqSwing, TypeOK, OthersKeep
  <2>2. pc'[p] = "deqHead"
    BY <1>0, <1>3 DEF DeqSwing, TypeOK
  <2>3. LocalsOK(p)'
    BY <2>2 DEF LocalsOK, HasTail, HasHead, HasBoth
  <2> QED
    BY <2>1, <2>2, <2>3, QuietStep
<1> QED
  BY <1>2, <1>3

\* Enqueue puts its node after the last one, or finds that there is a new
\* last one and starts over.
LEMMA EnqLinkStep ==
    ASSUME IInv, NEW p \in Procs, EnqLink(p)
    PROVE  IInv'
<1> USE DEF Goto, queueVars, localVars, Pointers, EnqSteps, DeqSteps, PeekSteps
<1>0. /\ TypeOK /\ LocalsOK(p) /\ OrderOK /\ HeadBehindTail /\ NewNodesOK
      /\ Linked \subseteq Nodes /\ Length \in Nat /\ IsFiniteSet(Linked)
  BY LengthType DEF IInv, Linked
<1>1. CASE next[ltail[p]] # Null
  <2>1. TypeOK' /\ OthersKeep(p) /\ UNCHANGED <<queueVars, order>>
    BY <1>0, <1>1 DEF EnqLink, TypeOK, OthersKeep
  <2>2. pc'[p] = "enqTail" /\ pc[p] = "enqLink" /\ newNode' = newNode
    BY <1>0, <1>1 DEF EnqLink, TypeOK
  <2>3. LocalsOK(p)'
    BY <2>2 DEF LocalsOK, HasTail, HasHead, HasBoth
  <2> QED
    BY <2>1, <2>2, <2>3, QuietStep
<1>2. CASE next[ltail[p]] = Null
  <2> DEFINE n == newNode[p]
             l == ltail[p]
  <2>1. /\ pc[p] = "enqLink" /\ UNCHANGED <<head, tail, localVars, answer>>
        /\ pc' = [pc EXCEPT ![p] = "enqSwing"]
        /\ next' = [next EXCEPT ![l] = n]
        /\ order' = [order EXCEPT ![n] = Length + 1]
        /\ seen' = Shown
    BY <1>2 DEF EnqLink
  <2>2. n \in Nodes /\ n \notin Linked /\ order[n] = 0
    BY <1>0, <2>1 DEF NewNodesOK, OrderOK, Linked
  <2>3. l \in Linked /\ order[l] <= order[tail]
    BY <1>0, <2>1 DEF LocalsOK, HasTail
  <2>4. order[l] = Length /\ order[tail] = Length /\ Length > 0
    BY <1>0, <1>2, <2>3 DEF OrderOK, Linked, HeadBehindTail
  <2>5. /\ \A x \in Nodes \ {n} : order'[x] = order[x]
        /\ order'[n] = Length + 1 /\ order' \in [Nodes -> Nat]
        /\ \A x \in Nodes \ {l} : next'[x] = next[x]
        /\ next'[l] = n /\ next[n] = Null /\ l # n
    BY <1>0, <2>1, <2>2, <2>3 DEF OrderOK, TypeOK
  <2>6. Linked' = Linked \cup {n}
    BY <1>0, <2>2, <2>5 DEF Linked
  <2>7. Length' = Length + 1
    BY <1>0, <2>2, <2>6, FS_AddElement DEF Length
  <2> HIDE DEF n, l
  <2>8. \A x, y \in Linked : Follows(y, x) => Follows(y, x)'
    BY <1>0, <2>2, <2>5, <2>6 DEF Follows
  <2>9. OrderOK'
    <3>1. \A x \in Nodes : order'[x] <= Length'
      BY <1>0, <2>5, <2>7 DEF OrderOK
    <3>2. \A x, y \in Linked' : order'[x] = order'[y] => x = y
      BY <1>0, <2>2, <2>5, <2>6, <3>1 DEF OrderOK
    <3>3. ASSUME NEW x \in Linked', next'[x] # Null
          PROVE  Follows(next[x], x)'
      <4>1. CASE x = l
        BY <1>0, <2>2, <2>3, <2>4, <2>5, <2>6, <4>1 DEF Follows
      <4>2. CASE x # l
        <5>1. x \in Linked /\ next'[x] = next[x] /\ next[x] # Null
          BY <1>0, <2>2, <2>5, <2>6, <3>3, <4>2
        <5>2. Follows(next[x], x) /\ next[x] \in Linked
          BY <1>0, <5>1 DEF OrderOK, Follows
        <5> QED
          BY <1>0, <2>2, <2>5, <2>6, <5>1, <5>2 DEF Follows
      <4> QED
        BY <4>1, <4>2
    <3>4. ASSUME NEW x \in Nodes
          PROVE  next'[x] = Null <=> order'[x] \in {0, Length'}
      <4>1. CASE x = l
        BY <1>0, <2>2, <2>4, <2>5, <2>7, <4>1, NodesAssumption
      <4>2. CASE x = n
        BY <2>5, <2>7, <4>2
      <4>3. CASE x # l /\ x # n
        <5>1. order[x] # Length
          BY <1>0, <2>3, <2>4, <4>3 DEF OrderOK, Linked
        <5>2. order[x] \in Nat /\ order[x] <= Length /\ (next[x] = Null <=> order[x] \in {0, Length})
          BY <1>0 DEF OrderOK
        <5>3. next'[x] = next[x] /\ order'[x] = order[x]
          BY <2>5, <4>3
        <5> QED
          BY <1>0, <2>7, <5>1, <5>2, <5>3
      <4> QED
        BY <4>1, <4>2, <4>3
    <3>5. Dummy \in Linked'
      BY <1>0, <2>6 DEF OrderOK
    <3> QED
      BY <2>5, <3>1, <3>2, <3>3, <3>4, <3>5 DEF OrderOK
  <2>10. HeadBehindTail' /\ UNCHANGED <<head, tail>>
    BY <1>0, <2>1, <2>2, <2>4, <2>5, <2>6, <2>7 DEF HeadBehindTail
  <2>11. Front' \in Pointers
    <3>1. next' \in [Nodes -> Pointers]
      BY <1>0, <2>1, <2>2 DEF TypeOK
    <3>2. (OrderOK /\ head \in Linked => Front = next[head])'
      BY FrontIsNext, PTL
    <3>3. head' \in Linked' /\ head' \in Nodes
      BY <1>0, <2>10 DEF HeadBehindTail, TypeOK
    <3> QED
      BY <2>9, <3>1, <3>2, <3>3
  <2>12. TypeOK' /\ OthersKeep(p)
    <3>1. Shown \in [Procs -> SUBSET Pointers]
      BY <1>0, <2>11 DEF Shown, TypeOK
    <3>2. OthersKeep(p)
      BY <1>0, <2>1 DEF TypeOK, OthersKeep
    <3>3. next' \in [Nodes -> Pointers]
      BY <1>0, <2>1, <2>2 DEF TypeOK
    <3> QED
      BY <1>0, <2>1, <2>5, <3>1, <3>2, <3>3 DEF TypeOK
  <2>13. NewNodesOK'
    <3>1. pc'[p] = "enqSwing" /\ newNode' = newNode
      BY <1>0, <2>1 DEF TypeOK
    <3>2. \A q \in Procs : pc'[q] \in EnqSteps => q # p /\ pc[q] \in EnqSteps
      BY <2>12, <3>1 DEF OthersKeep
    <3>3. \A q \in Procs : pc'[q] \in EnqSteps => newNode[q] # n
      BY <1>0, <2>1, <3>2 DEF NewNodesOK, n
    <3> QED
      BY <1>0, <2>6, <3>1, <3>2, <3>3 DEF NewNodesOK
  <2>14. \A x \in Linked : x \in Linked' /\ order'[x] = order[x]
    BY <1>0, <2>2, <2>5, <2>6
  <2>15. ASSUME NEW q \in Procs PROVE LocalsOK(q)'
    <3>1. LocalsOK(q)
      BY DEF IInv
    <3>2. /\ head \in Linked /\ tail \in Linked
          /\ lhead'[q] = lhead[q] /\ ltail'[q] = ltail[q]
          /\ lnext'[q] = lnext[q] /\ newNode'[q] = newNode[q]
      BY <1>0, <2>1 DEF HeadBehindTail
    <3>3. CASE q = p
      <4>1. pc'[p] = "enqSwing"
        BY <1>0, <2>1 DEF TypeOK
      <4>2. newNode'[p] = n /\ ltail'[p] = l
        BY <3>2, <3>3 DEF n, l
      <4>3. n \in Linked' /\ order'[n] = order'[l] + 1
        BY <2>2, <2>3, <2>4, <2>5, <2>6, <2>14
      <4>4. l \in Linked' /\ order'[l] <= order'[tail']
        BY <2>3, <2>10, <2>14, <3>2
      <4>5. Follows(newNode[p], ltail[p])'
        BY <4>2, <4>3 DEF Follows
      <4> QED
        BY <3>3, <4>1, <4>2, <4>4, <4>5 DEF LocalsOK, HasTail, HasHead, HasBoth
    <3>4. CASE q # p
      <4>1. pc'[q] = pc[q]
        BY <2>12, <3>4 DEF OthersKeep
      <4>2. \A x, y : x \in Linked /\ Follows(y, x) => Follows(y, x)'
        BY <2>8 DEF Follows
      <4>3. HasBoth \subseteq HasHead \cap HasTail
        BY DEF HasBoth, HasHead, HasTail
      <4>4. /\ pc[q] \in HasTail => ltail[q] \in Linked /\ order[ltail[q]] <= order[tail]
            /\ pc[q] \in HasHead => lhead[q] \in Linked /\ order[lhead[q]] <= order[head]
        BY <3>1 DEF LocalsOK
      <4>5. /\ (pc[q] = "enqCheck" /\ lnext[q] # Null => Follows(lnext[q], ltail[q]))'
            /\ (pc[q] = "enqHelp" => Follows(lnext[q], ltail[q]))'
            /\ (pc[q] = "enqSwing" => Follows(newNode[q], ltail[q]))'
        <5>1. pc[q] \in {"enqCheck", "enqHelp", "enqSwing"} => ltail[q] \in Linked
          BY <4>4 DEF HasTail
        <5>2. /\ pc[q] = "enqCheck" /\ lnext[q] # Null => Follows(lnext[q], ltail[q])
              /\ pc[q] = "enqHelp" => Follows(lnext[q], ltail[q])
              /\ pc[q] = "enqSwing" => Follows(newNode[q], ltail[q])
          BY <3>1 DEF LocalsOK
        <5> QED
          BY <3>2, <4>1, <4>2, <5>1, <5>2 DEF Follows
      <4>6. (pc[q] \in {"deqCheck", "deqSwing", "deqHelp"} /\ lnext[q] # Null =>
               Follows(lnext[q], lhead[q]))'
        BY <3>1, <3>2, <4>1, <4>2, <4>4 DEF LocalsOK, HasHead, Follows
      <4>7. /\ (pc[q] \in HasTail => ltail[q] \in Linked /\ order[ltail[q]] <= order[tail])'
            /\ (pc[q] \in HasHead => lhead[q] \in Linked /\ order[lhead[q]] <= order[head])'
            /\ (pc[q] \in HasBoth => order[lhead[q]] <= order[ltail[q]])'
        <5>1. pc[q] \in HasBoth => order[lhead[q]] <= order[ltail[q]]
          BY <3>1 DEF LocalsOK
        <5> QED
          BY <2>10, <2>14, <3>2, <4>1, <4>3, <4>4, <5>1
      <4> QED
        BY <3>1, <3>2, <4>1, <4>5, <4>6, <4>7 DEF LocalsOK
    <3> QED
      BY <3>3, <3>4
  <2> QED
    BY <2>9, <2>10, <2>12, <2>13, <2>15 DEF IInv
<1> QED
  BY <1>1, <1>2
-----------------------------------------------------------------------------
(* The inductive invariant.                                                *)

LEMMA IInvInit == Init => IInv
<1> SUFFICES ASSUME Init PROVE IInv
  OBVIOUS
<1>1. Linked = {Dummy}
  BY NodesAssumption DEF Init, Linked
<1>2. Length = 1
  BY <1>1, FS_Singleton DEF Length
<1>3. TypeOK
  BY NodesAssumption DEF Init, TypeOK, Pointers
<1>4. OrderOK
  BY <1>1, <1>2, NodesAssumption DEF Init, OrderOK
<1>5. HeadBehindTail
  BY <1>1, <1>2, NodesAssumption DEF Init, HeadBehindTail
<1>6. NewNodesOK /\ \A p \in Procs : LocalsOK(p)
  BY DEF Init, NewNodesOK, LocalsOK, EnqSteps, HasTail, HasHead, HasBoth
<1> QED
  BY <1>3, <1>4, <1>5, <1>6 DEF IInv

LEMMA IInvStep == IInv /\ [Next]_vars => IInv'
<1> SUFFICES ASSUME IInv, [Next]_vars PROVE IInv'
  OBVIOUS
<1>1. CASE UNCHANGED vars
  BY <1>1 DEF vars, IInv, TypeOK, OrderOK, HeadBehindTail, NewNodesOK, LocalsOK,
     Follows, Linked, Length
<1>2. CASE Next
  <2>1. PICK p \in Procs : CallOp(p) \/ Work(p)
    BY <1>2 DEF Next
  <2>2. CASE CallOp(p)
    BY <2>2, EnqCallStep, ReadCallStep DEF CallOp
  <2>3. CASE Enqueue(p)
    BY <2>3, QuietActions, EnqLinkStep, EnqSwingStep, HelpStep DEF Enqueue
  <2>4. CASE Dequeue(p)
    BY <2>4, QuietActions, HelpStep, DeqSwingStep DEF Dequeue
  <2>5. CASE Peek(p)
    BY <2>5, QuietActions DEF Peek
  <2> QED
    BY <2>1, <2>2, <2>3, <2>4, <2>5 DEF Work
<1> QED
  BY <1>1, <1>2

LEMMA IInvAlways == Spec => []IInv
  BY IInvInit, IInvStep, PTL DEF Spec
-----------------------------------------------------------------------------
(* The theorems.                                                           *)

\* Every variable of the queue and of its goroutines keeps its type.
THEOREM TypeCorrect == Spec => []TypeOK
<1>1. IInv => TypeOK
  BY DEF IInv
<1> QED
  BY <1>1, IInvAlways, PTL

\* No interleaving of Enqueue, Dequeue and Peek breaks, forks or shortens the
\* list of nodes: what a CompareAndSwap on next has linked stays linked.
LEMMA ListStaysOne == Spec => []OneList
<1>1. IInv => OneList
  <2> SUFFICES ASSUME IInv PROVE OneList
    OBVIOUS
  <2>1. OrderOK /\ Length \in Nat /\ Linked \subseteq Nodes
    BY LengthType DEF IInv, Linked
  <2>2. ASSUME NEW x \in Linked, NEW y \in Linked
        PROVE  next[x] = y <=> order[y] = order[x] + 1
    <3>1. x \in Nodes /\ y \in Nodes /\ order[x] \in Nat /\ order[y] \in Nat /\ order[x] > 0
          /\ order[y] <= Length
      BY <2>1 DEF OrderOK, Linked
    <3>2. next[x] = y => order[y] = order[x] + 1
      BY <2>1, <3>1, NodesAssumption DEF OrderOK, Follows
    <3>3. order[y] = order[x] + 1 => next[x] # Null
      BY <2>1, <3>1 DEF OrderOK
    <3> QED
      BY <2>1, <3>1, <3>2, <3>3 DEF OrderOK, Follows
  <2>3. \A x \in Nodes : next[x] # Null => next[x] \in Linked
    BY <2>1 DEF OrderOK, Follows, Linked
  <2> QED
    BY <2>1, <2>2, <2>3 DEF OneList, OrderOK
<1> QED
  BY <1>1, IInvAlways, PTL

\* Helping keeps head and tail in order: Dequeue never moves head past tail
\* and tail is never more than one node behind the end of the list.
LEMMA HeadStaysBehindTail == Spec => []HeadBehindTail
<1>1. IInv => HeadBehindTail
  BY DEF IInv
<1> QED
  BY <1>1, IInvAlways, PTL

\* Type correctness, one list, and head and tail in their places.
THEOREM ListStaysIntact == Spec => []ListIntact
<1>1. TypeOK /\ OneList /\ HeadBehindTail => ListIntact
  BY DEF ListIntact
<1> QED
  BY <1>1, TypeCorrect, ListStaysOne, HeadStaysBehindTail, PTL

\* Dequeue reads next.value without a nil check of its own: the comparison of
\* head with tail is enough, and no other load goes through nil either.
THEOREM NoNilDereferenced == Spec => []NoNilDereference
<1>1. IInv => NoNilDereference
  BY NodesAssumption DEF IInv, NoNilDereference, LocalsOK, HasTail, HasHead, HasBoth, Linked
<1> QED
  BY <1>1, IInvAlways, PTL
-----------------------------------------------------------------------------
(* The queue is linearizable: what RInv adds to IInv.                       *)

Reading == DeqSteps \cup PeekSteps

\* Every place up to the last is taken.
PlacesOK == \A k \in 1 .. Length : \E x \in Nodes : order[x] = k

\* Callers of Dequeue and Peek, and nobody else, have been shown the present
\* front, the one Peek is about to answer with, and nil if Dequeue has read it.
SeenOK(p) ==
    /\ pc[p] \in Reading => next[head] \in seen[p]
    /\ pc[p] \notin Reading => seen[p] = {}
    /\ pc[p] = "peekNext" => next[lhead[p]] \in seen[p]
    /\ pc[p] = "deqCheck" /\ lnext[p] = Null => Null \in seen[p]

\* Enqueue takes effect before its last step, with the answer it will return.
AnswerOK(p) == pc[p] \in EnqSteps \cup {"enqSwing"} => answer[p] = Done

RInv == IInv /\ PlacesOK /\ \A p \in Procs : SeenOK(p) /\ AnswerOK(p)

ListOK == OrderOK /\ PlacesOK /\ head \in Linked

LEMMA ListIsOK == RInv => ListOK
BY DEF RInv, IInv, ListOK, HeadBehindTail

LEMMA ItemsAre ==
    ListOK => /\ Items \in Seq(Nodes)
              /\ Len(Items) = Length - order[head]
              /\ \A i \in 1 .. Length - order[head] :
                    Items[i] \in Linked /\ order[Items[i]] = order[head] + i
<1> SUFFICES ASSUME ListOK
             PROVE  /\ Items \in Seq(Nodes)
                    /\ Len(Items) = Length - order[head]
                    /\ \A i \in 1 .. Length - order[head] :
                          Items[i] \in Linked /\ order[Items[i]] = order[head] + i
  OBVIOUS
<1>1. Length \in Nat /\ head \in Nodes /\ order[head] \in Nat /\ order[head] <= Length
  BY LengthType DEF ListOK, OrderOK, Linked
<1>2. ASSUME NEW k \in 1 .. Length
      PROVE  NodeAt(k) \in Linked /\ NodeAt(k) \in Nodes /\ order[NodeAt(k)] = k
  <2>1. \E x \in Nodes : order[x] = k
    BY DEF ListOK, PlacesOK
  <2>2. NodeAt(k) \in Nodes /\ order[NodeAt(k)] = k
    BY <2>1 DEF NodeAt
  <2> QED
    BY <1>1, <2>2 DEF Linked
<1> DEFINE n == Length - order[head]
<1>3. n \in Nat /\ \A i \in 1 .. n : order[head] + i \in 1 .. Length
  BY <1>1
<1>4. Items = [i \in 1 .. n |-> NodeAt(order[head] + i)]
  BY DEF Items
<1>5. \A i \in 1 .. n : /\ Items[i] \in Linked /\ Items[i] \in Nodes
                        /\ order[Items[i]] = order[head] + i
  BY <1>2, <1>3, <1>4
<1> HIDE DEF n
<1>6. Items \in [1 .. n -> Nodes]
  BY <1>4, <1>5
<1>7. Items \in Seq(Nodes) /\ Len(Items) = n
  BY <1>3, <1>6
<1> QED
  BY <1>5, <1>7 DEF n

\* The front of the list is the head of the sequence.
LEMMA FrontIsHead ==
    ListOK => Front = (IF Items = <<>> THEN Null ELSE Head(Items))
<1> SUFFICES ASSUME ListOK PROVE Front = (IF Items = <<>> THEN Null ELSE Head(Items))
  OBVIOUS
<1>1. Length \in Nat /\ order[head] \in Nat /\ order[head] <= Length
  BY LengthType DEF ListOK, OrderOK, Linked
<1>2. Items \in Seq(Nodes) /\ Len(Items) = Length - order[head]
  BY ItemsAre
<1>3. CASE order[head] = Length
  BY <1>1, <1>2, <1>3 DEF Front
<1>4. CASE order[head] # Length
  <2>1. 1 \in 1 .. Length - order[head]
    BY <1>1, <1>4
  <2>2. Items[1] = NodeAt(order[head] + 1)
    BY <2>1 DEF Items
  <2>3. Items # <<>> /\ Head(Items) = Items[1]
    BY <1>1, <1>2, <1>4
  <2> QED
    BY <1>4, <2>2, <2>3 DEF Front
<1> QED
  BY <1>3, <1>4

\* A node of the list is known by its place.
LEMMA OnePlace ==
    ListOK => \A x, y \in Linked : order[x] = order[y] => x = y
BY DEF ListOK, OrderOK
-----------------------------------------------------------------------------
(* What the steps do to what callers see.                                  *)

Abs == [p \in Procs |-> opOf(p)]
Arg == [p \in Procs |-> IF opOf(p) = "enqueue" THEN newNode[p] ELSE Null]

\* A step of p leaves the others where they are.
LEMMA Others ==
    ASSUME IInv, NEW p \in Procs, CallOp(p) \/ Work(p)
    PROVE  OthersKeep(p) /\ \A q \in Procs : q # p => answer'[q] = answer[q]
<1> USE DEF Goto, Return, localVars, OthersKeep
<1>0. TypeOK
  BY DEF IInv
<1>1. CASE CallOp(p)
  BY <1>0, <1>1 DEF CallOp, EnqCall, ReadCall, TypeOK
<1>2. CASE Enqueue(p)
  BY <1>0, <1>2 DEF Enqueue, EnqLoadTail, EnqLoadNext, EnqCheck, EnqLink, EnqSwing, EnqHelp, TypeOK
<1>3. CASE Dequeue(p)
  BY <1>0, <1>3 DEF Dequeue, DeqLoadHead, DeqLoadTail, DeqLoadNext, DeqCheck, DeqEmpty, DeqHelp,
     DeqSwing, TypeOK
<1>4. CASE Peek(p)
  BY <1>0, <1>4 DEF Peek, PeekLoadHead, PeekLoadNext, TypeOK
<1> QED
  BY <1>1, <1>2, <1>3, <1>4 DEF Work

\* A step that leaves the list alone only has to keep what is claimed of p.
LEMMA ListKept ==
    ASSUME RInv, IInv', NEW p \in Procs, OthersKeep(p), UNCHANGED <<head, next, order>>,
           \A q \in Procs : q # p => answer'[q] = answer[q] /\ seen'[q] = seen[q],
           SeenOK(p)', AnswerOK(p)'
    PROVE  RInv' /\ Items' = Items /\ Front' = Front
<1>1. Linked' = Linked /\ Length' = Length
  BY DEF Linked, Length
<1>2. PlacesOK'
  BY <1>1 DEF RInv, PlacesOK
<1>3. \A q \in Procs : q # p => SeenOK(q)' /\ AnswerOK(q)'
  BY DEF RInv, SeenOK, AnswerOK, OthersKeep
<1>4. Items' = Items /\ Front' = Front
  BY <1>1 DEF Items, Front, NodeAt
<1> QED
  BY <1>2, <1>3, <1>4 DEF RInv

\* A step between the call and the moment of effect, or after it.
LEMMA Stutters ==
    ASSUME Items' = Items, NEW p \in Procs, OthersKeep(p), UNCHANGED <<answer, seen>>,
           opOf(p)' = opOf(p), opOf(p) = "enqueue" => newNode'[p] = newNode[p]
    PROVE  UNCHANGED Q!specVars
<1>1. \A q \in Procs : opOf(q)' = opOf(q)
  BY DEF opOf, OthersKeep
<1>2. \A q \in Procs : opOf(q) = "enqueue" => newNode'[q] = newNode[q]
  BY DEF OthersKeep
<1>3. Abs' = Abs /\ Arg' = Arg
  BY <1>1, <1>2 DEF Abs, Arg
<1> QED
  BY <1>3 DEF Q!specVars, Abs, Arg

\* The moment of effect.
LEMMA TakesEffect ==
    ASSUME IInv, NEW p \in Procs, OthersKeep(p), opOf(p)' = "none"
    PROVE  /\ Abs[p] = opOf(p)
           /\ Abs' = [Abs EXCEPT ![p] = "none"] /\ Arg' = [Arg EXCEPT ![p] = Null]
<1>1. \A q \in Procs : q # p => opOf(q)' = opOf(q) /\ newNode'[q] = newNode[q]
  BY DEF opOf, OthersKeep
<1> QED
  BY <1>1 DEF Abs, Arg

\* Showing the present front again shows nothing new.
LEMMA ShownAgain ==
    ASSUME RInv
    PROVE  Q!Shown(Items) = seen
<1>1. Front = next[head] /\ Front = (IF Items = <<>> THEN Null ELSE Head(Items))
  BY ListIsOK, FrontIsNext, FrontIsHead DEF ListOK
<1>2. \A q \in Procs : Abs[q] \in {"dequeue", "peek"} <=> pc[q] \in Reading
  BY DEF Abs, opOf, Reading, EnqSteps, DeqSteps, PeekSteps
<1>3. \A q \in Procs : seen[q] = IF Abs[q] \in {"dequeue", "peek"} THEN seen[q] \cup {Front} ELSE {}
  BY <1>1, <1>2 DEF RInv, SeenOK
<1>4. seen = [q \in Procs |-> seen[q]]
  BY DEF RInv, IInv, TypeOK
<1> QED
  BY <1>1, <1>3, <1>4 DEF Q!Shown, Q!Front, Abs

\* Steps that take no effect.
LEMMA QuietIsStutter ==
    ASSUME RInv, NEW p \in Procs,
           \/ EnqLoadTail(p) \/ EnqLoadNext(p) \/ EnqCheck(p) \/ EnqSwing(p) \/ EnqHelp(p)
           \/ EnqLink(p) /\ next[ltail[p]] # Null
           \/ DeqLoadHead(p) \/ DeqLoadTail(p) \/ DeqLoadNext(p) \/ DeqCheck(p) \/ DeqHelp(p)
           \/ DeqSwing(p) /\ head # lhead[p]
           \/ PeekLoadHead(p)
    PROVE  RInv' /\ UNCHANGED Q!specVars
<1> USE DEF Goto, Return, queueVars, localVars
<1>0. IInv /\ TypeOK /\ OrderOK /\ HeadBehindTail /\ LocalsOK(p) /\ SeenOK(p) /\ AnswerOK(p)
  BY DEF RInv, IInv
<1>1. IInv' /\ OthersKeep(p)
  <2>1. Work(p)
    BY DEF Work, Enqueue, Dequeue, Peek
  <2> QED
    BY <1>0, <2>1, Others, IInvStep DEF Next
<1>2. UNCHANGED <<head, next, order, seen>>
  BY DEF EnqLoadTail, EnqLoadNext, EnqCheck, EnqSwing, EnqHelp, EnqLink, DeqLoadHead,
     DeqLoadTail, DeqLoadNext, DeqCheck, DeqHelp, DeqSwing, PeekLoadHead
<1>3. CASE \/ EnqLoadTail(p) \/ EnqLoadNext(p) \/ EnqCheck(p) \/ EnqSwing(p) \/ EnqHelp(p)
           \/ EnqLink(p) /\ next[ltail[p]] # Null
  <2>1. /\ pc[p] \in EnqSteps \cup {"enqSwing"} /\ pc'[p] \in EnqSteps \cup {"idle"}
        /\ answer' = answer
        /\ IF pc[p] = "enqSwing" THEN pc'[p] = "idle" ELSE pc'[p] \in EnqSteps /\ newNode' = newNode
    BY <1>0, <1>3 DEF EnqLoadTail, EnqLoadNext, EnqCheck, EnqSwing, EnqHelp, EnqLink, TypeOK,
       AnswerOK, EnqSteps
  <2>2. SeenOK(p)' /\ AnswerOK(p)'
    BY <1>0, <1>2, <2>1 DEF SeenOK, AnswerOK, Reading, EnqSteps, DeqSteps, PeekSteps
  <2>3. opOf(p)' = opOf(p) /\ (opOf(p) = "enqueue" => newNode'[p] = newNode[p])
    BY <2>1 DEF opOf, EnqSteps, DeqSteps, PeekSteps
  <2>4. RInv' /\ Items' = Items
    BY <1>1, <1>2, <2>1, <2>2, ListKept
  <2> QED
    BY <1>1, <1>2, <2>1, <2>3, <2>4, Stutters
<1>4. CASE \/ DeqLoadHead(p) \/ DeqLoadTail(p) \/ DeqLoadNext(p) \/ DeqCheck(p) \/ DeqHelp(p)
           \/ DeqSwing(p) /\ head # lhead[p]
           \/ PeekLoadHead(p)
  <2>1. /\ \/ pc[p] \in DeqSteps /\ pc'[p] \in DeqSteps
           \/ pc[p] = "peekHead" /\ pc'[p] = "peekNext"
        /\ answer' = answer
    BY <1>0, <1>4 DEF DeqLoadHead, DeqLoadTail, DeqLoadNext, DeqCheck, DeqHelp, DeqSwing,
       PeekLoadHead, TypeOK, DeqSteps
  <2>2. pc'[p] = "peekNext" => lhead'[p] = head
    BY <1>0, <1>4 DEF DeqLoadHead, DeqLoadTail, DeqLoadNext, DeqCheck, DeqHelp, DeqSwing,
       PeekLoadHead, TypeOK
  <2>3. pc'[p] = "deqCheck" /\ lnext'[p] = Null => next[head] = Null
    <3>1. SUFFICES ASSUME pc'[p] = "deqCheck", lnext'[p] = Null PROVE next[head] = Null
      OBVIOUS
    <3>2. next[lhead[p]] = Null /\ pc[p] = "deqNext"
      BY <1>0, <1>4, <3>1 DEF DeqLoadHead, DeqLoadTail, DeqLoadNext, DeqCheck, DeqHelp, DeqSwing,
         PeekLoadHead, TypeOK
    <3>3. lhead[p] \in Linked /\ order[lhead[p]] <= order[head]
      BY <1>0, <3>2 DEF LocalsOK, HasHead
    <3>4. /\ lhead[p] \in Nodes /\ order[lhead[p]] \in Nat /\ order[lhead[p]] > 0
          /\ head \in Nodes /\ order[head] \in Nat /\ order[head] <= Length /\ Length \in Nat
      BY <1>0, <3>3, LengthType DEF Linked, OrderOK, TypeOK
    <3>5. order[lhead[p]] = Length
      BY <1>0, <3>2, <3>4 DEF OrderOK
    <3>6. order[head] = Length
      BY <3>3, <3>4, <3>5
    <3> QED
      BY <1>0, <3>4, <3>6 DEF OrderOK
  <2>4. SeenOK(p)' /\ AnswerOK(p)'
    BY <1>0, <1>2, <2>1, <2>2, <2>3 DEF SeenOK, AnswerOK, Reading, EnqSteps, DeqSteps, PeekSteps
  <2>5. opOf(p)' = opOf(p) /\ opOf(p) # "enqueue"
    BY <2>1 DEF opOf, EnqSteps, DeqSteps, PeekSteps
  <2>6. RInv' /\ Items' = Items
    BY <1>1, <1>2, <2>1, <2>4, ListKept
  <2> QED
    BY <1>1, <1>2, <2>1, <2>5, <2>6, Stutters
<1> QED
  BY <1>3, <1>4

\* A call.
LEMMA CallIsCall ==
    ASSUME RInv, NEW p \in Procs, CallOp(p)
    PROVE  RInv' /\ Q!Next
<1> USE DEF Goto, queueVars, localVars
<1>0. IInv /\ TypeOK /\ OrderOK /\ HeadBehindTail /\ SeenOK(p)
  BY DEF RInv, IInv
<1>1. /\ IInv' /\ OthersKeep(p) /\ UNCHANGED <<head, next, order>>
      /\ answer' = [answer EXCEPT ![p] = Done] /\ pc[p] = "idle"
  BY <1>0, Others, IInvStep DEF Next, CallOp, EnqCall, ReadCall
<1>2. answer'[p] = Done /\ \A q \in Procs : q # p => answer'[q] = answer[q]
  BY <1>0, <1>1 DEF TypeOK
<1>3. opOf(p) = "none" /\ Abs[p] = "none"
  BY <1>1 DEF Abs, opOf, EnqSteps, DeqSteps, PeekSteps
<1>4. \A q \in Procs : q # p => opOf(q)' = opOf(q) /\ newNode'[q] = newNode[q]
  BY <1>1 DEF opOf, OthersKeep
<1>5. Front = next[head] /\ Front = (IF Items = <<>> THEN Null ELSE Head(Items))
  BY ListIsOK, FrontIsNext, FrontIsHead DEF ListOK
<1>6. CASE EnqCall(p)
  <2>1. PICK x \in Nodes \ {Dummy} : newNode' = [newNode EXCEPT ![p] = x]
    BY <1>0, <1>6 DEF EnqCall, OrderOK
  <2>2. pc'[p] = "enqTail" /\ seen' = seen /\ newNode'[p] = x
    BY <1>0, <1>6, <2>1 DEF EnqCall, TypeOK
  <2>3. SeenOK(p)' /\ AnswerOK(p)'
    BY <1>0, <1>1, <1>2, <2>2 DEF SeenOK, AnswerOK, Reading, EnqSteps, DeqSteps, PeekSteps
  <2>4. RInv' /\ Items' = Items
    BY <1>1, <1>2, <2>2, <2>3, ListKept
  <2>5. opOf(p)' = "enqueue"
    BY <2>2 DEF opOf, EnqSteps
  <2>6. Abs' = [Abs EXCEPT ![p] = "enqueue"] /\ Arg' = [Arg EXCEPT ![p] = x]
    BY <1>3, <1>4, <2>2, <2>5 DEF Abs, Arg
  <2>7. seen' = [seen EXCEPT ![p] = {}]
    BY <1>0, <1>1, <2>2 DEF SeenOK, TypeOK, Reading, DeqSteps, PeekSteps
  <2>8. Q!Call(p, "enqueue", x)
    BY <1>1, <1>3, <2>4, <2>6, <2>7 DEF Q!Call, Abs, Arg
  <2> QED
    BY <2>4, <2>8 DEF Q!Next
<1>7. ASSUME NEW first, first = "deqHead" \/ first = "peekHead", ReadCall(p, first)
      PROVE  RInv' /\ Q!Next
  <2> DEFINE o == IF first = "deqHead" THEN "dequeue" ELSE "peek"
  <2>1. /\ pc'[p] = first /\ seen' = [seen EXCEPT ![p] = {Front}] /\ newNode' = newNode
    BY <1>0, <1>7 DEF ReadCall, TypeOK
  <2>2. seen'[p] = {Front} /\ \A q \in Procs : q # p => seen'[q] = seen[q]
    BY <1>0, <2>1 DEF TypeOK
  <2>3. SeenOK(p)' /\ AnswerOK(p)'
    BY <1>1, <1>5, <1>7, <2>1, <2>2 DEF SeenOK, AnswerOK, Reading, EnqSteps, DeqSteps, PeekSteps
  <2>4. RInv' /\ Items' = Items
    BY <1>1, <1>2, <2>2, <2>3, ListKept
  <2>5. opOf(p)' = o
    BY <1>7, <2>1 DEF opOf, EnqSteps, DeqSteps, PeekSteps
  <2>6. Abs' = [Abs EXCEPT ![p] = o] /\ Arg' = [Arg EXCEPT ![p] = Null]
    BY <1>3, <1>4, <2>5 DEF Abs, Arg
  <2>7. o \in {"dequeue", "peek"}
    OBVIOUS
  <2> HIDE DEF o
  <2>8. Q!Call(p, o, Null)
    BY <1>1, <1>3, <1>5, <2>1, <2>4, <2>6, <2>7 DEF Q!Call, Q!Front, Abs, Arg
  <2> QED
    BY <2>4, <2>7, <2>8 DEF Q!Next
<1> QED
  BY <1>6, <1>7 DEF CallOp

\* Peek's last load, and the Dequeue that finds nothing.
LEMMA ReadIsOperation ==
    ASSUME RInv, NEW p \in Procs, DeqEmpty(p) \/ PeekLoadNext(p)
    PROVE  RInv' /\ Q!Next
<1> USE DEF Goto, Return, queueVars
<1>0. IInv /\ TypeOK /\ SeenOK(p)
  BY DEF RInv, IInv
<1>1. /\ IInv' /\ OthersKeep(p) /\ UNCHANGED <<head, next, order>>
      /\ pc'[p] = "idle" /\ seen' = [seen EXCEPT ![p] = {}]
  <2>1. Work(p)
    BY DEF Work, Dequeue, Peek
  <2>2. IInv' /\ OthersKeep(p)
    BY <1>0, <2>1, Others, IInvStep DEF Next
  <2> QED
    BY <1>0, <2>2 DEF DeqEmpty, PeekLoadNext, TypeOK
<1>2. seen'[p] = {} /\ \A q \in Procs : q # p => seen'[q] = seen[q] /\ answer'[q] = answer[q]
  BY <1>0, <1>1 DEF TypeOK, DeqEmpty, PeekLoadNext
<1>3. SeenOK(p)' /\ AnswerOK(p)'
  BY <1>1, <1>2 DEF SeenOK, AnswerOK, Reading, EnqSteps, DeqSteps, PeekSteps
<1>4. RInv' /\ Items' = Items
  BY <1>1, <1>2, <1>3, ListKept
<1>5. /\ Abs[p] = opOf(p)
      /\ Abs' = [Abs EXCEPT ![p] = "none"] /\ Arg' = [Arg EXCEPT ![p] = Null]
  <2>1. opOf(p)' = "none"
    BY <1>1 DEF opOf, EnqSteps, DeqSteps, PeekSteps
  <2> QED
    BY <1>0, <1>1, <2>1, TakesEffect
<1>6. seen' = [Q!Shown(Items) EXCEPT ![p] = {}]
  BY <1>1, ShownAgain
<1>7. CASE DeqEmpty(p)
  <2>1. Null \in seen[p] /\ opOf(p) = "dequeue" /\ answer' = [answer EXCEPT ![p] = Null]
    BY <1>0, <1>7 DEF DeqEmpty, SeenOK, opOf, EnqSteps, DeqSteps, PeekSteps
  <2>2. Q!DequeueNothing(p)
    BY <1>4, <1>5, <1>6, <2>1 DEF Q!DequeueNothing, Q!Takes, Abs, Arg
  <2> QED
    BY <1>4, <2>2 DEF Q!Next
<1>8. CASE PeekLoadNext(p)
  <2> DEFINE a == next[lhead[p]]
  <2>1. a \in seen[p] /\ opOf(p) = "peek" /\ answer' = [answer EXCEPT ![p] = a]
    BY <1>0, <1>8 DEF PeekLoadNext, SeenOK, opOf, EnqSteps, DeqSteps, PeekSteps
  <2> HIDE DEF a
  <2>2. Q!Peek(p)
    BY <1>4, <1>5, <1>6, <2>1 DEF Q!Peek, Q!Takes, Abs, Arg
  <2> QED
    BY <1>4, <2>2 DEF Q!Next
<1> QED
  BY <1>7, <1>8

\* Dequeue moves head: the item it returns was the first.
LEMMA DeqSwingIsDequeue ==
    ASSUME RInv, NEW p \in Procs, DeqSwing(p), head = lhead[p]
    PROVE  RInv' /\ Q!Next
<1> USE DEF Goto, Return
<1>0. IInv /\ TypeOK /\ LocalsOK(p) /\ ListOK /\ OrderOK
  BY ListIsOK DEF RInv, IInv
<1>1. /\ pc[p] = "deqSwing" /\ pc'[p] = "idle" /\ head' = lnext[p] /\ UNCHANGED <<next, order>>
      /\ answer' = [answer EXCEPT ![p] = lnext[p]] /\ seen' = [Shown EXCEPT ![p] = {}]
  BY <1>0 DEF DeqSwing, TypeOK
<1>2. IInv' /\ OthersKeep(p) /\ \A q \in Procs : q # p => answer'[q] = answer[q]
  <2>1. Work(p)
    BY DEF Work, Dequeue
  <2> QED
    BY <1>0, <2>1, Others, IInvStep DEF Next
<1>3. Follows(head', head)
  BY <1>0, <1>1 DEF LocalsOK
<1>4. Linked' = Linked /\ Length' = Length /\ PlacesOK' /\ ListOK'
  <2>1. Linked' = Linked /\ Length' = Length
    BY <1>1 DEF Linked, Length
  <2> QED
    BY <1>1, <1>2, <2>1 DEF RInv, PlacesOK, ListOK, IInv, HeadBehindTail
<1> DEFINE n == Length - order[head]
<1>5. /\ Length \in Nat /\ order[head] \in Nat /\ order'[head'] = order[head] + 1
      /\ order[head] + 1 <= Length /\ n \in Nat /\ n >= 1
  BY <1>0, <1>1, <1>3, LengthType DEF ListOK, OrderOK, Follows, Linked
<1>6. /\ Items \in Seq(Nodes) /\ Len(Items) = n
      /\ \A i \in 1 .. n : Items[i] \in Linked /\ order[Items[i]] = order[head] + i
  BY <1>0, ItemsAre
<1>7. /\ Items' \in Seq(Nodes) /\ Len(Items') = n - 1
      /\ \A i \in 1 .. n - 1 : Items'[i] \in Linked /\ order[Items'[i]] = order[head] + 1 + i
  <2>1. (ListOK => /\ Items \in Seq(Nodes)
                   /\ Len(Items) = Length - order[head]
                   /\ \A i \in 1 .. Length - order[head] :
                         Items[i] \in Linked /\ order[Items[i]] = order[head] + i)'
    BY ItemsAre, PTL
  <2> QED
    BY <1>1, <1>4, <1>5, <2>1
<1> HIDE DEF n
<1>8. Items # <<>> /\ Head(Items) = lnext[p]
  <2>1. 1 \in 1 .. n /\ Items[1] \in Linked /\ order[Items[1]] = order[lnext[p]]
    BY <1>1, <1>3, <1>5, <1>6 DEF Follows
  <2>2. Items[1] = lnext[p]
    BY <1>0, <1>1, <1>3, <2>1, OnePlace DEF Follows
  <2> QED
    BY <1>5, <1>6, <2>2
<1>9. Items' = Tail(Items)
  <2>1. Tail(Items) \in Seq(Nodes) /\ Len(Tail(Items)) = n - 1
    BY <1>5, <1>6, <1>8
  <2>2. ASSUME NEW i \in 1 .. n - 1
        PROVE  Items'[i] = Tail(Items)[i]
    <3>1. Tail(Items)[i] = Items[i + 1] /\ i + 1 \in 1 .. n
      BY <1>5, <1>6, <1>8
    <3>2. /\ Items[i + 1] \in Linked /\ order[Items[i + 1]] = order[head] + (i + 1)
          /\ Items'[i] \in Linked /\ order[Items'[i]] = order[head] + 1 + i
      BY <1>6, <1>7, <3>1
    <3>3. order[Items[i + 1]] = order[Items'[i]]
      BY <1>5, <3>2
    <3> QED
      BY <1>0, <3>1, <3>2, <3>3, OnePlace
  <2> QED
    BY <1>5, <1>7, <2>1, <2>2
<1>10. /\ seen'[p] = {}
       /\ \A q \in Procs : q # p => seen'[q] = IF pc[q] \in Reading THEN seen[q] \cup {Front'} ELSE {}
  BY <1>1 DEF Shown, Reading
<1>11. Front' = next[head'] /\ Front' = (IF Items' = <<>> THEN Null ELSE Head(Items'))
  <2>1. (OrderOK /\ head \in Linked => Front = next[head])'
    BY FrontIsNext, PTL
  <2>2. (ListOK => Front = (IF Items = <<>> THEN Null ELSE Head(Items)))'
    BY FrontIsHead, PTL
  <2> QED
    BY <1>1, <1>4, <2>1, <2>2 DEF ListOK
<1>12. RInv'
  <2>1. SeenOK(p)' /\ AnswerOK(p)'
    BY <1>1, <1>10 DEF SeenOK, AnswerOK, Reading, EnqSteps, DeqSteps, PeekSteps
  <2>2. ASSUME NEW q \in Procs, q # p PROVE SeenOK(q)' /\ AnswerOK(q)'
    <3>1. SeenOK(q) /\ AnswerOK(q)
      BY DEF RInv
    <3>2. pc'[q] = pc[q] /\ lhead'[q] = lhead[q] /\ lnext'[q] = lnext[q] /\ answer'[q] = answer[q]
      BY <1>2, <2>2 DEF OthersKeep
    <3>3. AnswerOK(q)'
      BY <3>1, <3>2 DEF AnswerOK
    <3>4. CASE pc[q] \notin Reading
      BY <1>10, <2>2, <3>1, <3>2, <3>3, <3>4 DEF SeenOK, Reading, DeqSteps, PeekSteps
    <3>5. CASE pc[q] \in Reading
      <4>1. seen'[q] = seen[q] \cup {next'[head']}
        BY <1>1, <1>10, <1>11, <2>2, <3>5
      <4>2. next'[lhead'[q]] = next[lhead[q]] /\ next' = next
        BY <1>1, <3>2
      <4> QED
        BY <3>1, <3>2, <3>3, <3>5, <4>1, <4>2 DEF SeenOK
    <3> QED
      BY <3>4, <3>5
  <2> QED
    BY <1>2, <1>4, <2>1, <2>2 DEF RInv
<1>13. /\ Abs[p] = "dequeue"
       /\ Abs' = [Abs EXCEPT ![p] = "none"] /\ Arg' = [Arg EXCEPT ![p] = Null]
  <2>1. opOf(p)' = "none" /\ opOf(p) = "dequeue"
    BY <1>1 DEF opOf, EnqSteps, DeqSteps, PeekSteps
  <2> QED
    BY <1>0, <1>2, <2>1, TakesEffect
<1>14. seen' = [Q!Shown(Items') EXCEPT ![p] = {}]
  <2>1. \A q \in Procs : Abs[q] \in {"dequeue", "peek"} <=> pc[q] \in Reading
    BY DEF Abs, opOf, Reading, EnqSteps, DeqSteps, PeekSteps
  <2>2. Q!Shown(Items') = Shown
    BY <1>11, <2>1 DEF Q!Shown, Q!Front, Shown, Abs, Reading
  <2> QED
    BY <1>1, <2>2
<1>15. Q!Takes(p, "dequeue", Tail(Items), Head(Items))
  BY <1>1, <1>8, <1>9, <1>13, <1>14 DEF Q!Takes, Abs, Arg
<1> QED
  BY <1>8, <1>12, <1>15 DEF Q!Next, Q!Dequeue

\* Enqueue links its node: it becomes the last item.
LEMMA EnqLinkIsEnqueue ==
    ASSUME RInv, NEW p \in Procs, EnqLink(p), next[ltail[p]] = Null
    PROVE  RInv' /\ Q!Next
<1> USE DEF Goto, localVars
<1>0. IInv /\ TypeOK /\ LocalsOK(p) /\ ListOK /\ OrderOK /\ HeadBehindTail
  BY ListIsOK DEF RInv, IInv
<1> DEFINE x == newNode[p]
           l == ltail[p]
<1>1. /\ pc[p] = "enqLink" /\ pc'[p] = "enqSwing" /\ UNCHANGED <<head, answer, lhead, lnext, newNode>>
      /\ order' = [order EXCEPT ![x] = Length + 1]
      /\ next' = [next EXCEPT ![l] = x] /\ seen' = Shown
  BY <1>0 DEF EnqLink, TypeOK
<1>2. IInv' /\ OthersKeep(p)
  <2>1. Work(p)
    BY DEF Work, Enqueue
  <2> QED
    BY <1>0, <2>1, Others, IInvStep DEF Next
<1>3. x \in Nodes /\ x \notin Linked /\ order[x] = 0
  BY <1>0, <1>1 DEF IInv, NewNodesOK, OrderOK, Linked, EnqSteps
<1>4. l \in Linked /\ order[l] = Length /\ Length \in Nat /\ IsFiniteSet(Linked)
  <2>1. l \in Linked
    BY <1>0, <1>1 DEF LocalsOK, HasTail
  <2>2. next[l] = Null /\ l \in Nodes /\ order[l] > 0
    BY <2>1 DEF Linked
  <2>3. order[l] = Length
    BY <1>0, <2>2 DEF OrderOK
  <2> QED
    BY <2>1, <2>3, LengthType
<1>5. /\ \A y \in Nodes : y # x => order'[y] = order[y]
      /\ \A y \in Nodes : y # l => next'[y] = next[y]
      /\ order'[x] = Length + 1 /\ next'[l] = x
  BY <1>0, <1>1, <1>3, <1>4 DEF TypeOK, Linked
<1>6. Linked' = Linked \cup {x} /\ Length' = Length + 1
  <2>1. Linked' = Linked \cup {x}
    BY <1>0, <1>3, <1>4, <1>5 DEF Linked
  <2> QED
    BY <1>3, <1>4, <2>1, FS_AddElement DEF Length
<1> HIDE DEF x, l
<1>7. PlacesOK'
  <2>1. ASSUME NEW k \in 1 .. Length'
        PROVE  \E y \in Nodes : order'[y] = k
    <3>1. CASE k = Length + 1
      BY <1>3, <1>5, <3>1
    <3>2. CASE k # Length + 1
      <4>1. PICK y \in Nodes : order[y] = k
        BY <1>4, <1>6, <3>2 DEF RInv, PlacesOK
      <4>2. y # x
        BY <1>3, <4>1
      <4> QED
        BY <1>5, <4>1, <4>2
    <3> QED
      BY <3>1, <3>2
  <2> QED
    BY <2>1 DEF PlacesOK
<1>8. ListOK'
  BY <1>2, <1>7 DEF ListOK, IInv, HeadBehindTail
<1> DEFINE n == Length - order[head]
<1>9. /\ head \in Linked /\ head # x /\ head' = head /\ order'[head] = order[head]
      /\ order[head] \in Nat /\ order[head] <= Length /\ n \in Nat
  BY <1>0, <1>1, <1>3, <1>4, <1>5 DEF HeadBehindTail, OrderOK, Linked
<1>10. /\ Items \in Seq(Nodes) /\ Len(Items) = n
       /\ \A i \in 1 .. n : Items[i] \in Linked /\ order[Items[i]] = order[head] + i
  BY <1>0, ItemsAre
<1>11. /\ Items' \in Seq(Nodes) /\ Len(Items') = n + 1
       /\ \A i \in 1 .. n + 1 : Items'[i] \in Linked' /\ order'[Items'[i]] = order[head] + i
  <2>1. (ListOK => /\ Items \in Seq(Nodes)
                   /\ Len(Items) = Length - order[head]
                   /\ \A i \in 1 .. Length - order[head] :
                         Items[i] \in Linked /\ order[Items[i]] = order[head] + i)'
    BY ItemsAre, PTL
  <2>2. Length' - order'[head'] = n + 1
    BY <1>4, <1>6, <1>9
  <2> QED
    BY <1>8, <1>9, <2>1, <2>2
<1>12. \A y, z \in Linked' : order'[y] = order'[z] => y = z
  BY <1>8 DEF ListOK, OrderOK
<1>13. order[head] + (n + 1) = Length + 1
  BY <1>4, <1>9
<1> HIDE DEF n
<1>14. Items' = Append(Items, x)
  <2>1. /\ Append(Items, x) \in Seq(Nodes) /\ Len(Append(Items, x)) = n + 1
        /\ Append(Items, x)[n + 1] = x /\ \A i \in 1 .. n : Append(Items, x)[i] = Items[i]
    BY <1>3, <1>9, <1>10
  <2>2. ASSUME NEW i \in 1 .. n + 1
        PROVE  Items'[i] = Append(Items, x)[i]
    <3>1. CASE i = n + 1
      <4>1. order'[Items'[i]] = order'[x] /\ x \in Linked' /\ Items'[i] \in Linked'
        BY <1>5, <1>6, <1>11, <1>13, <3>1
      <4> QED
        BY <1>12, <2>1, <3>1, <4>1
    <3>2. CASE i # n + 1
      <4>1. i \in 1 .. n
        BY <1>9, <3>2
      <4>2. Items[i] \in Linked /\ order[Items[i]] = order[head] + i
        BY <1>10, <4>1
      <4>3. Items[i] \in Linked' /\ order'[Items[i]] = order[head] + i
        BY <1>3, <1>5, <1>6, <4>2 DEF Linked
      <4>4. Items'[i] = Items[i]
        BY <1>11, <1>12, <4>3
      <4> QED
        BY <2>1, <4>1, <4>4
    <3> QED
      BY <3>1, <3>2
  <2> QED
    BY <1>9, <1>11, <2>1, <2>2
<1>15. \A q \in Procs : seen'[q] = IF pc[q] \in Reading THEN seen[q] \cup {Front'} ELSE {}
  BY <1>1 DEF Shown, Reading
<1>16. Front' = next'[head] /\ Front' = (IF Items' = <<>> THEN Null ELSE Head(Items'))
  <2>1. (OrderOK /\ head \in Linked => Front = next[head])'
    BY FrontIsNext, PTL
  <2>2. (ListOK => Front = (IF Items = <<>> THEN Null ELSE Head(Items)))'
    BY FrontIsHead, PTL
  <2> QED
    BY <1>8, <1>9, <2>1, <2>2 DEF ListOK
<1>17. RInv'
  <2>1. pc[p] \notin Reading /\ seen'[p] = {} /\ answer'[p] = Done
    BY <1>1, <1>15 DEF RInv, AnswerOK, Reading, EnqSteps, DeqSteps, PeekSteps
  <2>2. SeenOK(p)' /\ AnswerOK(p)'
    BY <1>1, <2>1 DEF SeenOK, AnswerOK, Reading, EnqSteps, DeqSteps, PeekSteps
  <2>3. ASSUME NEW q \in Procs, q # p PROVE SeenOK(q)' /\ AnswerOK(q)'
    <3>1. SeenOK(q) /\ AnswerOK(q) /\ LocalsOK(q)
      BY DEF RInv, IInv
    <3>2. pc'[q] = pc[q] /\ lhead'[q] = lhead[q] /\ lnext'[q] = lnext[q] /\ answer'[q] = answer[q]
      BY <1>1, <1>2, <2>3 DEF OthersKeep
    <3>3. ASSUME pc[q] = "peekNext" PROVE next'[lhead[q]] \in seen'[q]
      <4>1. lhead[q] \in Linked /\ lhead[q] \in Nodes /\ order[lhead[q]] <= order[head]
        BY <3>1, <3>3 DEF LocalsOK, HasHead, Linked
      <4>2. seen'[q] = seen[q] \cup {Front'} /\ next[lhead[q]] \in seen[q]
        BY <1>15, <3>1, <3>3 DEF SeenOK, Reading, PeekSteps
      <4>3. CASE lhead[q] = l
        <5>1. order[head] = order[l]
          BY <1>4, <1>9, <4>1, <4>3
        <5>2. head = l
          BY <1>0, <1>4, <1>9, <5>1, OnePlace
        <5> QED
          BY <1>16, <4>2, <4>3, <5>2
      <4>4. CASE lhead[q] # l
        BY <1>5, <4>1, <4>2, <4>4
      <4> QED
        BY <4>3, <4>4
    <3> QED
      BY <1>9, <1>15, <1>16, <3>1, <3>2, <3>3 DEF SeenOK, AnswerOK, Reading, DeqSteps, PeekSteps
  <2> QED
    BY <1>2, <1>7, <2>2, <2>3 DEF RInv
<1>18. /\ Abs[p] = "enqueue" /\ Arg[p] = x
       /\ Abs' = [Abs EXCEPT ![p] = "none"] /\ Arg' = [Arg EXCEPT ![p] = Null]
  <2>1. opOf(p)' = "none" /\ opOf(p) = "enqueue"
    BY <1>1 DEF opOf, EnqSteps, DeqSteps, PeekSteps
  <2> QED
    BY <1>0, <1>2, <2>1, TakesEffect DEF Arg, x
<1>19. seen' = [Q!Shown(Items') EXCEPT ![p] = {}]
  <2>1. \A q \in Procs : Abs[q] \in {"dequeue", "peek"} <=> pc[q] \in Reading
    BY DEF Abs, opOf, Reading, EnqSteps, DeqSteps, PeekSteps
  <2>2. Q!Shown(Items') = Shown
    BY <1>16, <2>1 DEF Q!Shown, Q!Front, Shown, Abs, Reading
  <2>3. pc[p] \notin Reading
    BY <1>1 DEF Reading, DeqSteps, PeekSteps
  <2> QED
    BY <1>1, <2>2, <2>3 DEF Shown, Reading
<1>20. answer' = [answer EXCEPT ![p] = Done]
  BY <1>0, <1>1 DEF RInv, AnswerOK, EnqSteps, TypeOK
<1>21. Q!Enqueue(p)
  BY <1>14, <1>18, <1>19, <1>20 DEF Q!Enqueue, Q!Takes, Abs, Arg
<1> QED
  BY <1>17, <1>21 DEF Q!Next

\* Every step of a goroutine is a step of the queue as its callers see it.
LEMMA StepIsStep == RInv /\ [Next]_vars => RInv' /\ [Q!Next]_(Q!specVars)
<1> SUFFICES ASSUME RInv, [Next]_vars PROVE RInv' /\ (Q!Next \/ UNCHANGED Q!specVars)
  OBVIOUS
<1>1. CASE UNCHANGED vars
  <2>1. IInv'
    BY <1>1, IInvStep DEF RInv
  <2>2. Linked' = Linked /\ Length' = Length
    BY <1>1 DEF vars, Linked, Length
  <2>3. RInv'
    BY <1>1, <2>1, <2>2 DEF vars, RInv, PlacesOK, SeenOK, AnswerOK
  <2>4. Items' = Items /\ Abs' = Abs /\ Arg' = Arg
    BY <1>1, <2>2 DEF vars, Items, NodeAt, Abs, Arg, opOf
  <2> QED
    BY <1>1, <2>3, <2>4 DEF vars, Q!specVars, Abs, Arg
<1>2. CASE Next
  <2>1. PICK p \in Procs : CallOp(p) \/ Work(p)
    BY <1>2 DEF Next
  <2>2. CASE CallOp(p)
    BY <2>2, CallIsCall
  <2>3. CASE Enqueue(p)
    BY <2>3, QuietIsStutter, EnqLinkIsEnqueue DEF Enqueue
  <2>4. CASE Dequeue(p)
    BY <2>4, QuietIsStutter, ReadIsOperation, DeqSwingIsDequeue DEF Dequeue
  <2>5. CASE Peek(p)
    BY <2>5, QuietIsStutter, ReadIsOperation DEF Peek
  <2> QED
    BY <2>1, <2>2, <2>3, <2>4, <2>5 DEF Work
<1> QED
  BY <1>1, <1>2

\* The Michael-Scott queue (pkg/ds/lockfree/queue.go) implements a queue whose
\* operations take effect at one moment between call and return, whatever
\* goroutines do and wherever they stop.
THEOREM LockFreeQueueIsAQueue == Spec => ImplementsQueue
<1>1. Init => RInv /\ Q!Init
  <2> SUFFICES ASSUME Init PROVE RInv /\ Q!Init
    OBVIOUS
  <2>1. Linked = {Dummy}
    BY NodesAssumption DEF Init, Linked
  <2>2. Length = 1
    BY <2>1, FS_Singleton DEF Length
  <2>3. PlacesOK
    BY <2>2, NodesAssumption DEF Init, PlacesOK
  <2>4. \A p \in Procs : SeenOK(p) /\ AnswerOK(p)
    BY DEF Init, SeenOK, AnswerOK, Reading, EnqSteps, DeqSteps, PeekSteps
  <2>5. RInv
    BY <2>3, <2>4, IInvInit DEF RInv
  <2>6. Items = <<>>
    <3>1. Items \in Seq(Nodes) /\ Len(Items) = Length - order[head]
      BY <2>5, ListIsOK, ItemsAre
    <3>2. order[head] = 1
      BY NodesAssumption DEF Init
    <3> QED
      BY <2>2, <3>1, <3>2
  <2>7. Q!Init
    BY <2>6 DEF Q!Init, Init, opOf, EnqSteps, DeqSteps, PeekSteps
  <2> QED
    BY <2>5, <2>7
<1> QED
  BY <1>1, StepIsStep, PTL DEF Spec, ImplementsQueue, Q!Spec
-----------------------------------------------------------------------------
(* The mutex queue: every operation takes effect at one moment between its *)
(* call and its return, because nobody else gets the mutex between its     *)
(* reading of the slice and its storing of the new one.                    *)
(*                                                                         *)
(* Sync is the whole of SyncQueue.  Its goroutines and their pc, answer    *)
(* and seen go by the same names as those of the first part, of which      *)
(* nothing is used here.                                                   *)

CONSTANTS Values, MaxLength

VARIABLES items, mu, op, value, local

Sync == INSTANCE SyncQueue

\* The queue it implements: ImplementsQueue of SyncQueue is SyncQ!Spec.
SyncQ == INSTANCE QueueSpec WITH
    Items <- Values,
    Empty <- Null,
    op <- [p \in Procs |-> IF pc[p] \in Sync!Pending THEN op[p] ELSE "none"],
    item <- value

SyncSteps == {"idle", "unlock"} \cup Sync!Pending
SyncAnswers == Values \cup {Null, Done} \cup Nat

SyncTypes ==
    /\ items \in Seq(Values)
    /\ pc \in [Procs -> SyncSteps]
    /\ op \in [Procs -> Sync!Ops]
    /\ value \in [Procs -> Values \cup {Null}]
    /\ local \in [Procs -> Seq(Values)]
    /\ answer \in [Procs -> SyncAnswers]
    /\ seen \in [Procs -> SUBSET (Values \cup {Null})]

\* The mutex: inside an operation's body is who holds it.
MutexOK == \A p \in Procs : pc[p] \in {"read", "store", "unlock"} => mu = p

\* What an operation has read is still the queue when it stores.
ReadOK ==
    \A p \in Procs : pc[p] = "store" => local[p] = items /\ ~Sync!ReturnsEarly(op[p], items)

\* Shows(p): p has called an operation that answers with a front.
Shows(p) == pc[p] \in Sync!Pending /\ op[p] \in {"dequeue", "peek"}

\* Only those have been shown fronts, and the present one is among them.
FrontsOK ==
    \A p \in Procs : IF Shows(p) THEN Sync!Front(items) \in seen[p] ELSE seen[p] = {}

\* Only an Enqueue has an argument.
ArgumentOK ==
    \A p \in Procs :
        IF pc[p] \in Sync!Pending /\ op[p] = "enqueue" THEN value[p] \in Values
        ELSE value[p] = Null

\* No value and no goroutine is nil.
Apart == Null \notin Procs /\ Null \notin Values

SyncInv == Apart /\ SyncTypes /\ MutexOK /\ ReadOK /\ FrontsOK /\ ArgumentOK
-----------------------------------------------------------------------------
\* The front of a queue is one of its values or Null.
LEMMA FrontType ==
    ASSUME NEW s \in Seq(Values)
    PROVE  /\ Sync!Front(s) \in Values \cup {Null}
           /\ s # <<>> => Head(s) \in Values /\ Tail(s) \in Seq(Values)
BY DEF Sync!Front

LEMMA SyncCallKeeps ==
    ASSUME SyncInv, NEW p \in Procs, NEW o \in Sync!Ops, NEW x \in Values \cup {Null},
           o = "enqueue" <=> x \in Values, Sync!Call(p, o, x)
    PROVE  SyncInv'
<1>1. /\ pc[p] = "idle" /\ pc' = [pc EXCEPT ![p] = "lock"] /\ UNCHANGED <<items, mu, local>>
      /\ op' = [op EXCEPT ![p] = o] /\ value' = [value EXCEPT ![p] = x]
      /\ answer' = [answer EXCEPT ![p] = Done]
      /\ seen' = [seen EXCEPT ![p] = IF o \in {"dequeue", "peek"}
                                     THEN {Sync!Front(items)} ELSE {}]
  BY DEF Sync!Call, Sync!Goto
<1>2. Sync!Front(items) \in Values \cup {Null} /\ "lock" \in SyncSteps /\ Done \in SyncAnswers
  BY FrontType DEF SyncInv, SyncTypes, SyncSteps, Sync!Pending, SyncAnswers
<1>3. SyncTypes'
  BY <1>1, <1>2 DEF SyncInv, SyncTypes
<1>4. MutexOK' /\ ReadOK'
  BY <1>1 DEF SyncInv, SyncTypes, MutexOK, ReadOK
<1>5. FrontsOK'
  BY <1>1 DEF SyncInv, SyncTypes, FrontsOK, Shows, Sync!Pending
<1>6. ArgumentOK'
  BY <1>1 DEF SyncInv, Apart, SyncTypes, ArgumentOK, Sync!Pending
<1> QED
  BY <1>3, <1>4, <1>5, <1>6 DEF SyncInv, Apart

LEMMA LockKeeps ==
    ASSUME SyncInv, NEW p \in Procs, Sync!Lock(p)
    PROVE  SyncInv'
<1>1. /\ pc[p] = "lock" /\ pc' = [pc EXCEPT ![p] = "read"] /\ mu = Null /\ mu' = p
      /\ UNCHANGED <<items, op, value, local, answer, seen>>
  BY DEF Sync!Lock, Sync!Goto
<1>2. SyncTypes'
  BY <1>1 DEF SyncInv, SyncTypes, SyncSteps, Sync!Pending
<1>3. MutexOK'
  BY <1>1 DEF SyncInv, Apart, SyncTypes, MutexOK
<1>4. ReadOK' /\ FrontsOK' /\ ArgumentOK'
  BY <1>1 DEF SyncInv, SyncTypes, ReadOK, FrontsOK, ArgumentOK, Shows, Sync!Pending
<1> QED
  BY <1>2, <1>3, <1>4 DEF SyncInv, Apart

LEMMA SyncReadKeeps ==
    ASSUME SyncInv, NEW p \in Procs, Sync!Read(p)
    PROVE  SyncInv'
<1>1. pc[p] = "read" /\ UNCHANGED <<items, mu, op>>
  BY DEF Sync!Read, Sync!Goto
<1>2. CASE /\ Sync!ReturnsEarly(op[p], items) /\ pc' = [pc EXCEPT ![p] = "unlock"]
           /\ answer' = [answer EXCEPT ![p] = IF op[p] = "len" THEN Len(items)
                                              ELSE Sync!Front(items)]
           /\ seen' = [seen EXCEPT ![p] = {}]
           /\ UNCHANGED <<value, local>>
  <2>1. Len(items) \in SyncAnswers /\ Sync!Front(items) \in SyncAnswers
    BY FrontType DEF SyncInv, SyncTypes, SyncAnswers
  <2>2. SyncTypes'
    BY <1>1, <1>2, <2>1 DEF SyncInv, SyncTypes, SyncSteps
  <2>3. MutexOK' /\ ReadOK'
    BY <1>1, <1>2 DEF SyncInv, SyncTypes, MutexOK, ReadOK
  <2>4. FrontsOK'
    BY <1>1, <1>2 DEF SyncInv, SyncTypes, FrontsOK, Shows, Sync!Pending
  <2>5. value[p] = Null
    BY <1>1, <1>2 DEF SyncInv, ArgumentOK, Sync!ReturnsEarly
  <2>6. ArgumentOK'
    BY <1>1, <1>2, <2>5 DEF SyncInv, SyncTypes, ArgumentOK, Sync!Pending
  <2> QED
    BY <2>2, <2>3, <2>4, <2>6 DEF SyncInv, Apart
<1>3. CASE /\ ~Sync!ReturnsEarly(op[p], items) /\ pc' = [pc EXCEPT ![p] = "store"]
           /\ local' = [local EXCEPT ![p] = items]
           /\ UNCHANGED <<answer, value, seen>>
  <2>1. SyncTypes'
    BY <1>1, <1>3 DEF SyncInv, SyncTypes, SyncSteps, Sync!Pending
  <2>2. MutexOK' /\ ReadOK'
    BY <1>1, <1>3 DEF SyncInv, SyncTypes, MutexOK, ReadOK
  <2>3. FrontsOK' /\ ArgumentOK'
    BY <1>1, <1>3 DEF SyncInv, SyncTypes, FrontsOK, ArgumentOK, Shows, Sync!Pending
  <2> QED
    BY <2>1, <2>2, <2>3 DEF SyncInv, Apart
<1> QED
  BY <1>2, <1>3 DEF Sync!Read, Sync!Goto

\* What the operations that store find, and what they leave.
LEMMA StoreDoes ==
    ASSUME SyncInv, NEW p \in Procs, Sync!Store(p)
    PROVE  /\ pc[p] = "store" /\ pc' = [pc EXCEPT ![p] = "unlock"] /\ mu = p
           /\ local[p] = items
           /\ \/ op[p] = "enqueue" /\ value[p] \in Values /\ items' = Append(items, value[p])
              \/ op[p] = "dequeue" /\ items # <<>> /\ items' = Tail(items)
              \/ op[p] = "clear" /\ items' = <<>>
           /\ items' \in Seq(Values)
           /\ answer' = [answer EXCEPT ![p] = IF op[p] = "dequeue" THEN Head(items) ELSE Done]
           /\ seen' = [q \in Procs |-> IF q # p /\ Shows(q) THEN seen[q] \cup {Sync!Front(items')}
                                       ELSE {}]
           /\ local' = [local EXCEPT ![p] = <<>>] /\ value' = [value EXCEPT ![p] = Null]
           /\ UNCHANGED <<mu, op>>
<1>1. /\ pc[p] = "store" /\ pc' = [pc EXCEPT ![p] = "unlock"] /\ mu = p
      /\ local[p] = items /\ ~Sync!ReturnsEarly(op[p], items)
      /\ items' = Sync!Stored(op[p], items, value[p])
      /\ UNCHANGED <<mu, op>>
  BY DEF Sync!Store, Sync!Goto, SyncInv, MutexOK, ReadOK
<1>2. op[p] \in {"enqueue", "clear"} \/ (op[p] = "dequeue" /\ items # <<>>)
  BY <1>1 DEF SyncInv, SyncTypes, Sync!Ops, Sync!ReturnsEarly
<1>3. op[p] = "enqueue" => value[p] \in Values
  BY <1>1 DEF SyncInv, ArgumentOK, Sync!Pending
<1>4. \/ op[p] = "enqueue" /\ value[p] \in Values /\ items' = Append(items, value[p])
      \/ op[p] = "dequeue" /\ items # <<>> /\ items' = Tail(items)
      \/ op[p] = "clear" /\ items' = <<>>
  BY <1>1, <1>2, <1>3 DEF Sync!Stored
<1>5. items' \in Seq(Values)
  <2>1. items \in Seq(Values)
    BY DEF SyncInv, SyncTypes
  <2>2. op[p] = "enqueue" => items' \in Seq(Values)
    BY <1>4, <2>1
  <2>3. op[p] = "dequeue" => items' \in Seq(Values)
    BY <1>4, <2>1, FrontType
  <2>4. op[p] = "clear" => items' \in Seq(Values)
    BY <1>4
  <2> QED
    BY <1>4, <2>2, <2>3, <2>4
<1>6. /\ answer' = [answer EXCEPT ![p] = IF op[p] = "dequeue" THEN Head(items) ELSE Done]
      /\ local' = [local EXCEPT ![p] = <<>>] /\ value' = [value EXCEPT ![p] = Null]
  BY <1>1 DEF Sync!Store
<1>7. seen' = [q \in Procs |-> IF q # p /\ Shows(q) THEN seen[q] \cup {Sync!Front(items')} ELSE {}]
  BY DEF Sync!Store, Shows
<1> QED
  BY <1>1, <1>4, <1>5, <1>6, <1>7

LEMMA StoreKeeps ==
    ASSUME SyncInv, NEW p \in Procs, Sync!Store(p)
    PROVE  SyncInv'
<1>1. Sync!Front(items') \in Values \cup {Null}
  BY StoreDoes, FrontType
<1>2. (IF op[p] = "dequeue" THEN Head(items) ELSE Done) \in SyncAnswers
  <2>1. op[p] = "dequeue" => items # <<>>
    BY StoreDoes
  <2> QED
    BY <2>1, FrontType DEF SyncInv, SyncTypes, SyncAnswers
<1>3. SyncTypes'
  <2>1. seen' \in [Procs -> SUBSET (Values \cup {Null})]
    <3>1. \A q \in Procs : seen[q] \cup {Sync!Front(items')} \in SUBSET (Values \cup {Null})
      BY <1>1 DEF SyncInv, SyncTypes
    <3> QED
      BY <3>1, StoreDoes
  <2>2. pc' \in [Procs -> SyncSteps] /\ op' \in [Procs -> Sync!Ops]
    BY StoreDoes DEF SyncInv, SyncTypes, SyncSteps
  <2>3. value' \in [Procs -> Values \cup {Null}] /\ local' \in [Procs -> Seq(Values)]
    <3>1. <<>> \in Seq(Values)
      OBVIOUS
    <3> QED
      BY ZenonT(40), <3>1, StoreDoes DEF SyncInv, SyncTypes
  <2>4. answer' \in [Procs -> SyncAnswers]
    BY <1>2, StoreDoes DEF SyncInv, SyncTypes
  <2> QED
    BY <2>1, <2>2, <2>3, <2>4, StoreDoes DEF SyncTypes
<1>4. MutexOK'
  BY StoreDoes DEF SyncInv, SyncTypes, MutexOK
<1>5. ReadOK'
  <2>1. \A q \in Procs : pc'[q] = "store" => q # p /\ pc[q] = "store"
    BY StoreDoes DEF SyncInv, SyncTypes
  <2>2. \A q \in Procs : pc'[q] # "store"
    BY <2>1, StoreDoes DEF SyncInv, MutexOK
  <2> QED
    BY <2>2 DEF ReadOK
<1>6. FrontsOK'
  <2>1. \A q \in Procs : Shows(q)' <=> q # p /\ Shows(q)
    BY StoreDoes DEF SyncInv, SyncTypes, Shows, Sync!Pending
  <2> QED
    BY <2>1, StoreDoes DEF FrontsOK
<1>7. ArgumentOK'
  BY StoreDoes DEF SyncInv, SyncTypes, ArgumentOK, Sync!Pending
<1> QED
  BY <1>3, <1>4, <1>5, <1>6, <1>7 DEF SyncInv, Apart

LEMMA UnlockKeeps ==
    ASSUME SyncInv, NEW p \in Procs, Sync!Unlock(p)
    PROVE  SyncInv'
<1>1. /\ pc[p] = "unlock" /\ pc' = [pc EXCEPT ![p] = "idle"] /\ mu = p
      /\ UNCHANGED <<items, op, value, local, answer, seen>>
  BY DEF Sync!Unlock, Sync!Goto, SyncInv, MutexOK
<1>2. SyncTypes'
  BY <1>1 DEF SyncInv, SyncTypes, SyncSteps
<1>3. MutexOK'
  BY <1>1 DEF SyncInv, SyncTypes, MutexOK
<1>4. ReadOK' /\ FrontsOK' /\ ArgumentOK'
  BY <1>1 DEF SyncInv, SyncTypes, ReadOK, FrontsOK, ArgumentOK, Shows, Sync!Pending
<1> QED
  BY <1>2, <1>3, <1>4 DEF SyncInv, Apart

LEMMA CallsKeep ==
    ASSUME SyncInv, NEW p \in Procs, Sync!CallOp(p)
    PROVE  SyncInv'
<1>1. "enqueue" \in Sync!Ops
  BY DEF Sync!Ops
<1> QED
  BY <1>1, SyncCallKeeps DEF Sync!CallOp, SyncInv, Apart

LEMMA SyncInvariance ==
    ASSUME Sync!SyncQueueAssumption
    PROVE  Sync!Spec => []SyncInv
<1>1. Sync!Init => SyncInv
  BY DEF Sync!SyncQueueAssumption, Apart, Sync!Init, SyncInv, SyncTypes, MutexOK, ReadOK,
         FrontsOK, ArgumentOK, SyncSteps, Sync!Pending, Sync!Ops,
         SyncAnswers, Shows
<1>2. SyncInv /\ [Sync!Next]_(Sync!vars) => SyncInv'
  <2> SUFFICES ASSUME SyncInv, [Sync!Next]_(Sync!vars) PROVE SyncInv'
    OBVIOUS
  <2>1. CASE Sync!Next
    BY <2>1, CallsKeep, LockKeeps, SyncReadKeeps, StoreKeeps, UnlockKeeps DEF Sync!Next
  <2>2. CASE UNCHANGED Sync!vars
    BY <2>2 DEF Sync!vars, SyncInv, SyncTypes, MutexOK, ReadOK, FrontsOK, ArgumentOK, Shows
  <2> QED
    BY <2>1, <2>2
<1> QED
  BY <1>1, <1>2, PTL DEF Sync!Spec
-----------------------------------------------------------------------------
(* The refinement.                                                         *)

\* The operation of p as the callers see it: called and not yet in effect.
Called == [p \in Procs |-> IF pc[p] \in Sync!Pending THEN op[p] ELSE "none"]

LEMMA SyncCallIsCall ==
    ASSUME SyncInv, NEW p \in Procs, Sync!CallOp(p)
    PROVE  SyncQ!Next
<1>1. PICK o \in Sync!Ops, x \in Values \cup {Null} :
          /\ Sync!Call(p, o, x)
          /\ IF o = "enqueue" THEN x \in Values ELSE x = Null
  BY DEF Sync!CallOp, Sync!Ops
<1>2. pc[p] = "idle" /\ pc' = [pc EXCEPT ![p] = "lock"] /\ op' = [op EXCEPT ![p] = o]
  BY <1>1 DEF Sync!Call, Sync!Goto
<1>3. Called[p] = "none" /\ Called' = [Called EXCEPT ![p] = o]
  BY <1>2 DEF Called, SyncInv, SyncTypes, Sync!Pending
<1>4. SyncQ!Call(p, o, x)
  BY <1>1, <1>3 DEF SyncQ!Call, Sync!Call, Called, SyncQ!Front, Sync!Front
<1> QED
  BY <1>1, <1>4 DEF SyncQ!Next, Sync!Ops

LEMMA SyncQuietStep ==
    ASSUME SyncInv, NEW p \in Procs,
           \/ Sync!Lock(p) \/ Sync!Unlock(p)
           \/ Sync!Read(p) /\ ~Sync!ReturnsEarly(op[p], items)
    PROVE  UNCHANGED SyncQ!specVars
<1>1. UNCHANGED <<items, op, value, answer, seen>>
  BY DEF Sync!Lock, Sync!Unlock, Sync!Read
<1>2. \A q \in Procs : pc'[q] \in Sync!Pending <=> pc[q] \in Sync!Pending
  BY DEF Sync!Lock, Sync!Unlock, Sync!Read, Sync!Goto, SyncInv, SyncTypes, Sync!Pending
<1>3. Called' = Called
  BY <1>1, <1>2 DEF Called
<1> QED
  BY <1>1, <1>3 DEF SyncQ!specVars, Called

\* An operation that has called and takes effect: nobody else's changes.
LEMMA SyncTakesEffect ==
    ASSUME SyncInv, NEW p \in Procs, pc[p] \in Sync!Pending, pc' = [pc EXCEPT ![p] = "unlock"],
           op' = op
    PROVE  Called[p] = op[p] /\ Called' = [Called EXCEPT ![p] = "none"]
BY DEF Called, SyncInv, SyncTypes, Sync!Pending

LEMMA SyncReadIsOperation ==
    ASSUME SyncInv, NEW p \in Procs, Sync!Read(p), Sync!ReturnsEarly(op[p], items)
    PROVE  SyncQ!Next
<1>1. /\ pc[p] = "read" /\ pc' = [pc EXCEPT ![p] = "unlock"] /\ UNCHANGED <<items, op, value>>
      /\ answer' = [answer EXCEPT ![p] = IF op[p] = "len" THEN Len(items) ELSE Sync!Front(items)]
      /\ seen' = [seen EXCEPT ![p] = {}]
  BY DEF Sync!Read, Sync!Goto
<1>2. Called[p] = op[p] /\ Called' = [Called EXCEPT ![p] = "none"]
  BY <1>1, SyncTakesEffect DEF Sync!Pending
<1>3. value' = [value EXCEPT ![p] = Null]
  BY <1>1 DEF SyncInv, SyncTypes, ArgumentOK, Sync!ReturnsEarly
<1>4. seen' = [SyncQ!Shown(items) EXCEPT ![p] = {}]
  <2>1. \A q \in Procs : Called[q] \in {"dequeue", "peek"} <=> Shows(q)
    BY DEF Called, Shows
  <2>2. \A q \in Procs : seen[q] = SyncQ!Shown(items)[q]
    BY <2>1 DEF SyncQ!Shown, SyncQ!Front, Sync!Front, SyncInv, FrontsOK, Called
  <2>3. SyncQ!Shown(items) = seen
    BY <2>2 DEF SyncInv, SyncTypes, SyncQ!Shown
  <2> QED
    BY <1>1, <2>3
<1>5. CASE op[p] = "len"
  <2>1. SyncQ!Takes(p, "len", items, Len(items))
    BY <1>1, <1>2, <1>3, <1>4, <1>5 DEF SyncQ!Takes, Called
  <2> QED
    BY <2>1 DEF SyncQ!Next, SyncQ!Length
<1>6. CASE op[p] = "peek"
  <2>1. Sync!Front(items) \in seen[p]
    BY <1>1, <1>6 DEF SyncInv, FrontsOK, Shows, Sync!Pending
  <2>2. answer' = [answer EXCEPT ![p] = Sync!Front(items)]
    BY <1>1, <1>6
  <2>3. SyncQ!Peek(p)
    BY <1>1, <1>2, <1>3, <1>4, <1>6, <2>1, <2>2 DEF SyncQ!Peek, SyncQ!Takes, Called
  <2> QED
    BY <2>3 DEF SyncQ!Next
<1>7. CASE op[p] = "dequeue" /\ items = <<>>
  <2>1. Sync!Front(items) \in seen[p] /\ Sync!Front(items) = Null
    BY <1>1, <1>7 DEF SyncInv, FrontsOK, Shows, Sync!Pending, Sync!Front
  <2>2. SyncQ!Takes(p, "dequeue", items, Null)
    BY <1>1, <1>2, <1>3, <1>4, <1>7, <2>1 DEF SyncQ!Takes, Called
  <2> QED
    BY <2>1, <2>2 DEF SyncQ!Next, SyncQ!DequeueNothing
<1> QED
  BY <1>5, <1>6, <1>7 DEF Sync!ReturnsEarly

LEMMA StoreIsOperation ==
    ASSUME SyncInv, NEW p \in Procs, Sync!Store(p)
    PROVE  SyncQ!Next
<1>1. Called[p] = op[p] /\ Called' = [Called EXCEPT ![p] = "none"]
  BY StoreDoes, SyncTakesEffect DEF Sync!Pending
<1>2. seen' = [SyncQ!Shown(items') EXCEPT ![p] = {}]
  <2>1. \A q \in Procs : Called[q] \in {"dequeue", "peek"} <=> Shows(q)
    BY DEF Called, Shows
  <2> QED
    BY <2>1, StoreDoes DEF SyncQ!Shown, SyncQ!Front, Sync!Front, Called
<1>3. CASE op[p] = "enqueue"
  <2>1. SyncQ!Takes(p, "enqueue", Append(items, value[p]), Done)
    BY <1>1, <1>2, <1>3, StoreDoes DEF SyncQ!Takes, Called
  <2> QED
    BY <2>1 DEF SyncQ!Next, SyncQ!Enqueue
<1>4. CASE op[p] = "dequeue"
  <2>1. items # <<>> /\ SyncQ!Takes(p, "dequeue", Tail(items), Head(items))
    BY <1>1, <1>2, <1>4, StoreDoes DEF SyncQ!Takes, Called
  <2> QED
    BY <2>1 DEF SyncQ!Next, SyncQ!Dequeue
<1>5. CASE op[p] = "clear"
  <2>1. SyncQ!Takes(p, "clear", <<>>, Done)
    BY <1>1, <1>2, <1>5, StoreDoes DEF SyncQ!Takes, Called
  <2> QED
    BY <2>1 DEF SyncQ!Next, SyncQ!Clear
<1> QED
  BY <1>3, <1>4, <1>5, StoreDoes

\* The mutex queue (pkg/ds/sync/queue.go) implements a queue whose operations
\* take effect at one moment, for every number of goroutines.
THEOREM MutexQueueIsAQueue ==
    ASSUME Sync!SyncQueueAssumption
    PROVE  Sync!Spec => SyncQ!Spec
<1>1. Sync!Init => SyncQ!Init
  BY DEF Sync!Init, SyncQ!Init, Sync!Pending
<1>2. SyncInv /\ [Sync!Next]_(Sync!vars) => [SyncQ!Next]_(SyncQ!specVars)
  <2> SUFFICES ASSUME SyncInv, [Sync!Next]_(Sync!vars) PROVE SyncQ!Next \/ UNCHANGED SyncQ!specVars
    OBVIOUS
  <2>1. ASSUME NEW p \in Procs,
               \/ Sync!CallOp(p) \/ Sync!Lock(p) \/ Sync!Read(p) \/ Sync!Store(p)
               \/ Sync!Unlock(p)
        PROVE  SyncQ!Next \/ UNCHANGED SyncQ!specVars
    BY <2>1, SyncCallIsCall, SyncQuietStep, SyncReadIsOperation, StoreIsOperation
  <2>2. CASE UNCHANGED Sync!vars
    BY <2>2 DEF Sync!vars, SyncQ!specVars
  <2> QED
    BY <2>1, <2>2 DEF Sync!Next
<1> QED
  BY <1>1, <1>2, SyncInvariance, PTL DEF Sync!Spec, SyncQ!Spec
=============================================================================
