----------------------- MODULE LockFreePriorityQueue -----------------------
(***************************************************************************)
(* The skip list of pkg/ds/lockfree/priority_queue.go: a list of all nodes *)
(* by falling priority (level 0), and shorter lists of some of them above. *)
(* Each atomic load, store, addition and compare-and-swap is a step.       *)
(*                                                                         *)
(* Nodes are numbered in the order in which level 0 has taken them; until  *)
(* then a node is known to its Push alone.  The store to newNode.next[i]   *)
(* belongs to the compare-and-swap after it, before which nobody reads it. *)
(***************************************************************************)
EXTENDS Integers, FiniteSets

CONSTANTS
    Procs,          \* goroutines that use the queue
    Priorities,
    MaxLevel,
    MaxNodes,       \* bound: nodes linked or being pushed, the head not counted
    MaxClears,      \* bound: calls of Clear
    Nil

ASSUME PriorityQueueAssumption ==
    /\ IsFiniteSet(Procs)
    /\ Priorities \subseteq Int
    /\ MaxLevel \in Nat \ {0} /\ MaxNodes \in Nat /\ MaxClears \in Nat
    /\ Nil \notin Nat

VARIABLES
    next,           \* for each level the pointer each node holds; node 0 is
                    \* the head
    prio, height, marked,
    size,           \* nodes linked
    maxLevel, count,
    pc,
    want, tall,     \* Push's priority, and the level it has drawn
    lev,            \* the level a search, an unlinking or a Clear is at
    up,             \* the level above 0 that Push links, 0 before
    pred, curr,     \* of a search
    preds, succs,   \* what it found at the levels above 0
    node,           \* the node that is being pushed or popped
    succ,           \* next of Pop
    clears,         \* calls of Clear so far
    mixed,          \* history: a Clear has overlapped another Clear, a Push or
                    \* a Pop, or found items that had been lost
    fronts          \* history: the highest nodes since Pop was called

nodeVars == <<next, prio, height, marked, size>>
sharedVars == <<next, prio, height, marked, size, maxLevel, count>>
searchVars == <<lev, up, pred, curr, preds, succs>>
localVars == <<want, tall, lev, up, pred, curr, preds, succs, node, succ>>
vars == <<sharedVars, pc, localVars, clears, mixed, fronts>>

Head == 0
Nodes == 1 .. MaxNodes
Linked == 1 .. size
Pointers == Nodes \cup {Nil}
Levels == 0 .. MaxLevel - 1
Above == 1 .. MaxLevel - 1

PushSteps == {"max", "enter", "scan", "step", "linkUp", "count", "raise"}
PopSteps == {"first", "mark", "next", "unlink", "walkHead", "walk", "unlinkUp", "uncount"}
PeekSteps == {"peekFirst", "peek", "peekNext"}
ClearSteps == {"clearFirst", "clearMark", "clearNext", "clearHead", "clearCount"}

\* The nodes that level 0 leads to from x: those in every set that holds x and,
\* with a node, its successor.
Closed(S) == \A y \in S : next[0][y] \in S \cup {Nil}
From(x) == {y \in Linked : \A S \in SUBSET Linked : Closed(S) /\ x \in S \cup {Nil} => y \in S}
InList == From(next[0][Head])
Live == {x \in Linked : ~marked[x]}
-----------------------------------------------------------------------------
\* The nodes a Pop may take: no live node in the list has a higher priority.
Highest ==
    LET L == InList \cap Live
    IN IF L = {} THEN {Nil} ELSE {x \in L : \A y \in L : prio[y] <= prio[x]}

Popping(p) == pc[p] \in {"first", "mark"}

Record == fronts' = [p \in Procs |-> IF Popping(p)' THEN fronts[p] \cup Highest' ELSE {}]

Goto(p, step, target) == pc[p] = step /\ pc' = [pc EXCEPT ![p] = target]
Set(f, p, x) == [f EXCEPT ![p] = x]

\* What makes a Clear that begins, or a call that begins during one, mixed.
Mixes(first) ==
    \/ /\ first = "clearFirst"
       /\ \/ ~(Live \subseteq InList)
          \/ \E q \in Procs : pc[q] \in PushSteps \cup PopSteps \cup ClearSteps
    \/ /\ first \in {"max", "first"}
       /\ \E q \in Procs : pc[q] \in ClearSteps

Call(p, first) ==
    /\ Goto(p, "idle", first)
    /\ mixed' = (mixed \/ Mixes(first))

Return(p, step) ==
    /\ Goto(p, step, "idle")
    /\ want' = Set(want, p, 0) /\ tall' = Set(tall, p, 0)
    /\ lev' = Set(lev, p, 0) /\ up' = Set(up, p, 0)
    /\ pred' = Set(pred, p, Nil) /\ curr' = Set(curr, p, Nil)
    /\ preds' = Set(preds, p, [l \in Above |-> Nil])
    /\ succs' = Set(succs, p, [l \in Above |-> Nil])
    /\ node' = Set(node, p, Nil) /\ succ' = Set(succ, p, Nil)
    /\ UNCHANGED <<clears, mixed>>

Within == UNCHANGED <<want, tall, clears, mixed>>
Quiet == Within /\ UNCHANGED <<sharedVars, searchVars, node, succ>>

\* atomic.CompareAndSwapPointer(&x.next[l], old, new)
CASNext(l, x, old, new) ==
    next' = [next EXCEPT ![l][x] = IF @ = old THEN new ELSE @]
-----------------------------------------------------------------------------
(* findPosition for Push: from the highest level down, at each level past   *)
(* the nodes of higher priority.  A marked node does not become pred.       *)

SearchMax(p) ==
    /\ Goto(p, "max", "enter")
    /\ lev' = Set(lev, p, maxLevel - 1)
    /\ pred' = Set(pred, p, Head)
    /\ preds' = Set(preds, p, [l \in Above |-> Nil])
    /\ succs' = Set(succs, p, [l \in Above |-> Nil])
    /\ Within /\ UNCHANGED <<sharedVars, up, curr, node, succ>>

SearchEnter(p) ==
    /\ Goto(p, "enter", "scan")
    /\ curr' = Set(curr, p, next[lev[p]][pred[p]])
    /\ Within /\ UNCHANGED <<sharedVars, lev, up, pred, preds, succs, node, succ>>

\* Wrong: nodes of higher priority are not passed.
PassedNot(p) == pc[p] = "scan" /\ curr[p] # Nil /\ prio[curr[p]] < want[p]

Passed(p) == pc[p] = "scan" /\ curr[p] # Nil /\ prio[curr[p]] > want[p]

\* The loop of the level is over: the place is between pred and curr.
Placed(p) == pc[p] = "scan" /\ (curr[p] # Nil => prio[curr[p]] <= want[p])

SearchMark(p) ==
    /\ Passed(p)
    /\ Goto(p, "scan", "step")
    /\ pred' = Set(pred, p, IF marked[curr[p]] THEN pred[p] ELSE curr[p])
    /\ Within /\ UNCHANGED <<sharedVars, lev, up, curr, preds, succs, node, succ>>

SearchStep(p) ==
    /\ Goto(p, "step", "scan")
    /\ curr' = Set(curr, p, next[lev[p]][curr[p]])
    /\ Within /\ UNCHANGED <<sharedVars, lev, up, pred, preds, succs, node, succ>>

\* One level down, which begins at pred.
SearchDown(p) ==
    /\ Placed(p) /\ lev[p] > 0
    /\ preds' = [preds EXCEPT ![p][lev[p]] = pred[p]]
    /\ succs' = [succs EXCEPT ![p][lev[p]] = curr[p]]
    /\ lev' = Set(lev, p, lev[p] - 1)
    /\ Goto(p, "scan", "enter")
    /\ Within /\ UNCHANGED <<sharedVars, up, pred, curr, node, succ>>

Search(p) ==
    \/ SearchMax(p)
    \/ SearchEnter(p)
    \/ SearchMark(p)
    \/ SearchStep(p)
    \/ SearchDown(p)
-----------------------------------------------------------------------------
(* Push.                                                                    *)

Pushing == {q \in Procs : pc[q] \in PushSteps /\ up[q] = 0}

\* randomLevel may draw any level.
PushCall(p) ==
    /\ size + Cardinality(Pushing) < MaxNodes
    /\ Call(p, "max")
    /\ \E x \in Priorities, l \in 1 .. MaxLevel :
          want' = Set(want, p, x) /\ tall' = Set(tall, p, l)
    /\ UNCHANGED <<sharedVars, searchVars, node, succ, clears>>

\* Where Push goes from linking level l.
AfterLevel(p, l) == IF l + 1 < tall[p] THEN "linkUp" ELSE "count"

LinkNode(p, x) ==
    /\ next' = [next EXCEPT ![0] = [@ EXCEPT ![pred[p]] = x, ![x] = curr[p]]]
    /\ prio' = Set(prio, x, want[p])
    /\ height' = Set(height, x, tall[p])
    /\ size' = x
    /\ node' = Set(node, p, x)
    /\ up' = Set(up, p, 1)
    /\ Within /\ UNCHANGED <<marked, maxLevel, count, lev, pred, curr, preds, succs, succ>>

\* CompareAndSwapPointer(&pred.next[0], succs[0], newNode)
PushLink(p) ==
    /\ Placed(p) /\ lev[p] = 0 /\ up[p] = 0
    /\ \/ /\ next[0][pred[p]] = curr[p]
          /\ Goto(p, "scan", AfterLevel(p, 0))
          /\ LinkNode(p, size + 1)
       \/ /\ next[0][pred[p]] # curr[p]
          /\ Goto(p, "scan", "max")
          /\ Quiet

\* A level above 0: skipped if the search did not see it, else linked, and if
\* that fails searched for again.
PushLinkUp(p) ==
    LET l == up[p]  x == preds[p][l]  s == succs[p][l]
    IN /\ up[p] > 0
       /\ pc[p] = "linkUp" \/ (Placed(p) /\ lev[p] = 0)
       /\ IF x # Nil /\ next[l][x] # s
          THEN Goto(p, pc[p], "max") /\ Quiet
          ELSE /\ Goto(p, pc[p], AfterLevel(p, l))
               /\ next' = IF x = Nil THEN next
                          ELSE [next EXCEPT ![l] = [@ EXCEPT ![x] = node[p], ![node[p]] = s]]
               /\ up' = Set(up, p, l + 1)
               /\ Within
               /\ UNCHANGED <<prio, height, marked, size, maxLevel, count,
                              lev, pred, curr, preds, succs, node, succ>>

PushCount(p) ==
    /\ Goto(p, "count", "raise")
    /\ count' = count + 1
    /\ Within /\ UNCHANGED <<nodeVars, maxLevel, searchVars, node, succ>>

\* The loop that raises maxLevel: what it loads decides whether it still has
\* to, and its compare-and-swap fails only if somebody else has raised it.
PushRaise(p) ==
    /\ Return(p, "raise")
    /\ maxLevel' = IF tall[p] > maxLevel THEN tall[p] ELSE maxLevel
    /\ UNCHANGED <<nodeVars, count>>

Push(p) == Search(p) \/ PushLink(p) \/ PushLinkUp(p) \/ PushCount(p) \/ PushRaise(p)
-----------------------------------------------------------------------------
(* Pop.                                                                     *)

PopCall(p) ==
    /\ Call(p, "first")
    /\ UNCHANGED <<sharedVars, localVars, clears>>

PopFirst(p) ==
    \/ /\ Goto(p, "first", "mark")
       /\ next[0][Head] # Nil
       /\ node' = Set(node, p, next[0][Head])
       /\ Within /\ UNCHANGED <<sharedVars, searchVars, succ>>
    \/ /\ next[0][Head] = Nil
       /\ Return(p, "first")
       /\ UNCHANGED sharedVars

\* Wrong: a Pop that comes second answers that the queue is empty.
PopMarkOnce(p) ==
    \/ /\ Goto(p, "mark", "next")
       /\ ~marked[node[p]]
       /\ marked' = Set(marked, node[p], TRUE)
       /\ Within /\ UNCHANGED <<next, prio, height, size, maxLevel, count, searchVars, node, succ>>
    \/ /\ Return(p, "mark")
       /\ marked[node[p]]
       /\ UNCHANGED sharedVars

\* CompareAndSwapInt32(&first.marked, 0, 1)
PopMark(p) ==
    \/ /\ Goto(p, "mark", "next")
       /\ ~marked[node[p]]
       /\ marked' = Set(marked, node[p], TRUE)
       /\ Within /\ UNCHANGED <<next, prio, height, size, maxLevel, count, searchVars, node, succ>>
    \/ /\ Goto(p, "mark", "first")
       /\ marked[node[p]]
       /\ Quiet

PopNext(p) ==
    /\ Goto(p, "next", "unlink")
    /\ succ' = Set(succ, p, next[0][node[p]])
    /\ Within /\ UNCHANGED <<sharedVars, searchVars, node>>

AfterUnlink(p, l) == IF l + 1 < height[node[p]] THEN "walkHead" ELSE "uncount"

\* Wrong: head.next[0] is stored, whatever it has become.
PopUnlinkStore(p) ==
    /\ Goto(p, "unlink", AfterUnlink(p, 0))
    /\ next' = [next EXCEPT ![0][Head] = succ[p]]
    /\ lev' = Set(lev, p, 1)
    /\ Within /\ UNCHANGED <<prio, height, marked, size, maxLevel, count,
                             up, pred, curr, preds, succs, node, succ>>

\* The compare-and-swap of head.next[0], successful or not.
PopUnlink(p) ==
    /\ Goto(p, "unlink", AfterUnlink(p, 0))
    /\ CASNext(0, Head, node[p], succ[p])
    /\ lev' = Set(lev, p, 1)
    /\ Within /\ UNCHANGED <<prio, height, marked, size, maxLevel, count,
                             up, pred, curr, preds, succs, node, succ>>

PopWalkHead(p) ==
    /\ Goto(p, "walkHead", "walk")
    /\ pred' = Set(pred, p, Head)
    /\ curr' = Set(curr, p, next[lev[p]][Head])
    /\ Within /\ UNCHANGED <<sharedVars, lev, up, preds, succs, node, succ>>

PopWalk(p) ==
    /\ pc[p] = "walk"
    /\ curr[p] \notin {Nil, node[p]}
    /\ pred' = Set(pred, p, curr[p])
    /\ curr' = Set(curr, p, next[lev[p]][curr[p]])
    /\ Within /\ UNCHANGED <<sharedVars, pc, lev, up, preds, succs, node, succ>>

\* The node is not in this level.
PopWalkEnd(p) ==
    /\ Goto(p, "walk", AfterUnlink(p, lev[p]))
    /\ curr[p] = Nil
    /\ lev' = Set(lev, p, lev[p] + 1)
    /\ Within /\ UNCHANGED <<sharedVars, up, pred, curr, preds, succs, node, succ>>

PopWalkFound(p) ==
    /\ Goto(p, "walk", "unlinkUp")
    /\ curr[p] = node[p]
    /\ succ' = Set(succ, p, next[lev[p]][node[p]])
    /\ Within /\ UNCHANGED <<sharedVars, searchVars, node>>

PopUnlinkUp(p) ==
    /\ pc[p] = "unlinkUp"
    /\ CASNext(lev[p], pred[p], node[p], succ[p])
    /\ \/ /\ next[lev[p]][pred[p]] = node[p]
          /\ Goto(p, "unlinkUp", AfterUnlink(p, lev[p]))
          /\ lev' = Set(lev, p, lev[p] + 1)
       \/ /\ next[lev[p]][pred[p]] # node[p]
          /\ Goto(p, "unlinkUp", "walkHead")
          /\ UNCHANGED lev
    /\ Within /\ UNCHANGED <<prio, height, marked, size, maxLevel, count,
                             up, pred, curr, preds, succs, node, succ>>

PopUncount(p) ==
    /\ Return(p, "uncount")
    /\ count' = count - 1
    /\ UNCHANGED <<nodeVars, maxLevel>>

Pop(p) ==
    \/ PopFirst(p)
    \/ PopMark(p)
    \/ PopNext(p)
    \/ PopUnlink(p)
    \/ PopWalkHead(p)
    \/ PopWalk(p)
    \/ PopWalkEnd(p)
    \/ PopWalkFound(p)
    \/ PopUnlinkUp(p)
    \/ PopUncount(p)
-----------------------------------------------------------------------------
(* Peek: the first node that is not marked.                                 *)

PeekCall(p) ==
    /\ Call(p, "peekFirst")
    /\ UNCHANGED <<sharedVars, localVars, clears>>

PeekFirst(p) ==
    /\ Goto(p, "peekFirst", "peek")
    /\ curr' = Set(curr, p, next[0][Head])
    /\ Within /\ UNCHANGED <<sharedVars, lev, up, pred, preds, succs, node, succ>>

PeekMarked(p) ==
    /\ Goto(p, "peek", "peekNext")
    /\ curr[p] # Nil /\ marked[curr[p]]
    /\ Quiet

PeekNext(p) ==
    /\ Goto(p, "peekNext", "peek")
    /\ curr' = Set(curr, p, next[0][curr[p]])
    /\ Within /\ UNCHANGED <<sharedVars, lev, up, pred, preds, succs, node, succ>>

PeekEnd(p) ==
    /\ pc[p] = "peek"
    /\ curr[p] # Nil => ~marked[curr[p]]
    /\ Return(p, "peek")
    /\ UNCHANGED sharedVars

Peek(p) == PeekFirst(p) \/ PeekMarked(p) \/ PeekNext(p) \/ PeekEnd(p)
-----------------------------------------------------------------------------
(* Clear: marks all nodes of level 0, then empties the levels one by one,   *)
(* then resets the counter.                                                 *)

ClearCall(p) ==
    /\ clears < MaxClears
    /\ Call(p, "clearFirst")
    /\ clears' = clears + 1
    /\ UNCHANGED <<sharedVars, localVars>>

ClearFirst(p) ==
    /\ Goto(p, "clearFirst", "clearMark")
    /\ curr' = Set(curr, p, next[0][Head])
    /\ Within /\ UNCHANGED <<sharedVars, lev, up, pred, preds, succs, node, succ>>

ClearMark(p) ==
    /\ Goto(p, "clearMark", "clearNext")
    /\ curr[p] # Nil
    /\ marked' = Set(marked, curr[p], TRUE)
    /\ Within /\ UNCHANGED <<next, prio, height, size, maxLevel, count, searchVars, node, succ>>

ClearNext(p) ==
    /\ Goto(p, "clearNext", "clearMark")
    /\ curr' = Set(curr, p, next[0][curr[p]])
    /\ Within /\ UNCHANGED <<sharedVars, lev, up, pred, preds, succs, node, succ>>

\* head.next[i] = nil
ClearHead(p) ==
    /\ pc[p] = "clearHead" \/ (pc[p] = "clearMark" /\ curr[p] = Nil)
    /\ next' = [next EXCEPT ![lev[p]][Head] = Nil]
    /\ lev' = Set(lev, p, lev[p] + 1)
    /\ Goto(p, pc[p], IF lev[p] + 1 < MaxLevel THEN "clearHead" ELSE "clearCount")
    /\ Within /\ UNCHANGED <<prio, height, marked, size, maxLevel, count,
                             up, pred, curr, preds, succs, node, succ>>

ClearCount(p) ==
    /\ Return(p, "clearCount")
    /\ count' = 0
    /\ UNCHANGED <<nodeVars, maxLevel>>

Clear(p) == ClearFirst(p) \/ ClearMark(p) \/ ClearNext(p) \/ ClearHead(p) \/ ClearCount(p)
-----------------------------------------------------------------------------
\* NewPriorityQueue
Init ==
    /\ next = [l \in Levels |-> [x \in {Head} \cup Nodes |-> Nil]]
    /\ prio = [x \in Nodes |-> 0]
    /\ height = [x \in Nodes |-> 0]
    /\ marked = [x \in Nodes |-> FALSE]
    /\ size = 0
    /\ maxLevel = 1
    /\ count = 0
    /\ pc = [p \in Procs |-> "idle"]
    /\ want = [p \in Procs |-> 0]
    /\ tall = [p \in Procs |-> 0]
    /\ lev = [p \in Procs |-> 0]
    /\ up = [p \in Procs |-> 0]
    /\ pred = [p \in Procs |-> Nil]
    /\ curr = [p \in Procs |-> Nil]
    /\ preds = [p \in Procs |-> [l \in Above |-> Nil]]
    /\ succs = [p \in Procs |-> [l \in Above |-> Nil]]
    /\ node = [p \in Procs |-> Nil]
    /\ succ = [p \in Procs |-> Nil]
    /\ clears = 0
    /\ mixed = FALSE
    /\ fronts = [p \in Procs |-> {}]

CallOp(p) == PushCall(p) \/ PopCall(p) \/ PeekCall(p) \/ ClearCall(p)

Work(p) == Push(p) \/ Pop(p) \/ Peek(p) \/ Clear(p)

Next == \E p \in Procs : (CallOp(p) \/ Work(p)) /\ Record

Spec == Init /\ [][Next]_vars

\* A call that has begun is not abandoned by the scheduler.
FairSpec == Spec /\ \A p \in Procs : WF_vars(Work(p) /\ Record)
-----------------------------------------------------------------------------
SharedTypeOK ==
    /\ next \in [Levels -> [{Head} \cup Nodes -> Pointers]]
    /\ prio \in [Nodes -> Int]
    /\ height \in [Nodes -> 0 .. MaxLevel]
    /\ marked \in [Nodes -> BOOLEAN]
    /\ size \in 0 .. MaxNodes
    /\ maxLevel \in 1 .. MaxLevel
    /\ count \in Int

LocalTypeOK ==
    /\ pc \in [Procs -> {"idle"} \cup PushSteps \cup PopSteps \cup PeekSteps \cup ClearSteps]
    /\ want \in [Procs -> Int]
    /\ tall \in [Procs -> 0 .. MaxLevel]
    /\ lev \in [Procs -> 0 .. MaxLevel]
    /\ up \in [Procs -> 0 .. MaxLevel]
    /\ pred \in [Procs -> {Head} \cup Pointers]
    /\ curr \in [Procs -> Pointers]
    /\ preds \in [Procs -> [Above -> {Head} \cup Pointers]]
    /\ succs \in [Procs -> [Above -> Pointers]]
    /\ node \in [Procs -> Pointers]
    /\ succ \in [Procs -> Pointers]

HistoryTypeOK ==
    /\ clears \in 0 .. MaxClears
    /\ mixed \in BOOLEAN
    /\ fronts \in [Procs -> SUBSET Pointers]

TypeOK == SharedTypeOK /\ LocalTypeOK /\ HistoryTypeOK

\* At every level priorities do not rise along the list, whatever Pushes and
\* Pops do to it at the same time; at level 0, of nodes with one priority the
\* younger comes first.  So no search runs in a circle.
Sorted ==
    /\ \A l \in Levels, x \in Linked : next[l][x] # Nil =>
          next[l][x] \in Linked /\ prio[next[l][x]] <= prio[x]
    /\ \A l \in Levels : next[l][Head] \in Linked \cup {Nil}
    /\ \A x \in Linked : next[0][x] # Nil /\ prio[next[0][x]] = prio[x] => next[0][x] < x

ListSorted == TypeOK /\ Sorted

\* What Pop takes was at some moment of the call the highest item that the
\* list held, and a Pop that answers "empty" found the list empty.
PopsHighest ==
    [][\A p \in Procs :
        /\ pc[p] = "mark" /\ pc'[p] = "next" => node[p] \in fronts[p]
        /\ Popping(p) /\ pc'[p] = "idle" => Nil \in fronts[p]]_vars

\* Items get lost, but only in two ways: an item that is not in the list and
\* that nobody has popped hangs behind a popped one, or a Clear was in progress
\* at the same time as another operation.
LostBehindPopped ==
    mixed \/ \A x \in Live : \/ x \in InList
                             \/ \E y \in Linked \ Live : next[0][y] = x
                             \/ \E y \in Live \ InList : next[0][y] = x

\* Len: the counter is the number of items that have been pushed and neither
\* popped nor cleared, but for the operations that have not counted yet, as
\* long as no Clear has overlapped another operation.
Uncounted == {p \in Procs : up[p] > 0 /\ pc[p] # "raise"}
Overcounted == {p \in Procs : pc[p] \in PopSteps \ {"first", "mark"}}

CountExact ==
    (~mixed /\ \A p \in Procs : pc[p] \notin ClearSteps)
        => count + Cardinality(Uncounted) = Cardinality(Live) + Cardinality(Overcounted)

\* Every item that was pushed is in the list, popped, cleared or lost in one of
\* those ways, and Len counts it for as long as nobody has popped it.
ItemsAccounted == LostBehindPopped /\ CountExact

\* "Lock-free", as the comments of Push and Pop have it: as long as goroutines
\* work on the queue, calls return.
LockFree ==
    \/ []<>(\A p \in Procs : pc[p] = "idle")
    \/ []<><<\E p \in Procs : pc[p] # "idle" /\ pc'[p] = "idle">>_vars
=============================================================================
