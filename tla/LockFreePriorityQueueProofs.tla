-------------------- MODULE LockFreePriorityQueueProofs --------------------
(***************************************************************************)
(* Proofs about the skip list: for any goroutines, priorities, levels and  *)
(* nodes its levels stay sorted, a Pop takes what was the highest item at  *)
(* some moment of the call, and the counter and the items agree unless a   *)
(* Clear met other operations.                                             *)
(*                                                                         *)
(* What the steps need is what the local variables of a goroutine still    *)
(* say of the list when it comes to its compare-and-swap: a search stops   *)
(* between a node of higher priority and one that is not, and a linked     *)
(* node keeps its priority and its mark for ever (Grows).                  *)
(***************************************************************************)
EXTENDS LockFreePriorityQueue, TLAPS, FiniteSetTheorems

SearchSteps == {"max", "enter", "scan", "step"}
Ends == Linked \cup {Nil}

\* Where the search of p may go on from, and what may follow its node.
High(p, x) == x = Head \/ (x \in Linked /\ prio[x] > want[p])
Low(p, x) == x = Nil \/ (x \in Linked /\ prio[x] <= want[p])

\* x may follow y.
Follows(x, y) == x = Nil \/ (x \in Linked /\ prio[x] <= prio[y])

\* What the local variables of a goroutine say of the list.
PushLocal(p) ==
    /\ up[p] > 0 => pc[p] \in PushSteps /\ node[p] \in Linked /\ prio[node[p]] = want[p]
    /\ pc[p] \in {"linkUp", "count", "raise"} => up[p] > 0
    /\ pc[p] \in SearchSteps \cup {"linkUp"} => up[p] < tall[p]
    /\ \A l \in Above : preds[p][l] # Nil =>
          pc[p] \in PushSteps /\ High(p, preds[p][l]) /\ Low(p, succs[p][l])
    /\ pc[p] \in {"enter", "scan", "step"} => lev[p] \in Levels /\ High(p, pred[p])
    /\ pc[p] = "scan" => curr[p] \in Ends
    /\ pc[p] = "step" => curr[p] \in Linked

PopLocal(p) ==
    /\ pc[p] \in PopSteps \ {"first"} => node[p] \in Linked
    /\ pc[p] \in PopSteps \ {"first", "mark"} => marked[node[p]]
    /\ pc[p] \in {"walkHead", "walk", "unlinkUp"} => lev[p] \in Above
    /\ pc[p] \in {"walk", "unlinkUp"} => pred[p] \in {Head} \cup Linked
    /\ pc[p] = "walk" => curr[p] \in Ends
    /\ pc[p] \in {"unlink", "unlinkUp"} => Follows(succ[p], node[p])

WalkLocal(p) ==
    /\ pc[p] \in {"peek", "clearMark"} => curr[p] \in Ends
    /\ pc[p] \in {"peekNext", "clearNext"} => curr[p] \in Linked
    /\ pc[p] \in {"idle", "clearFirst", "clearMark", "clearNext"} => lev[p] = 0
    /\ pc[p] = "clearHead" => lev[p] \in Levels

Locals == \A p \in Procs : PushLocal(p) /\ PopLocal(p) /\ WalkLocal(p)

\* A node that is not linked at level 0 is not linked at all.
Fresh == \A x \in Nodes : x > size => ~marked[x] /\ \A l \in Levels : next[l][x] = Nil

\* There is a node for every Push that has begun.
Room == size + Cardinality(Pushing) <= MaxNodes

Core == SharedTypeOK /\ LocalTypeOK /\ Sorted /\ Fresh /\ Room /\ Locals

IInv == Core /\ HistoryTypeOK
-----------------------------------------------------------------------------
LEMMA LevelFacts ==
    /\ 0 \in Levels /\ Above \subseteq Levels /\ Nil \notin Nodes /\ Head \notin Nodes
    /\ Head # Nil
BY PriorityQueueAssumption DEF PriorityQueueAssumption, Levels, Above, Nodes, Head

LEMMA LinkedFacts ==
    ASSUME SharedTypeOK
    PROVE  Linked \subseteq Nodes /\ Nil \notin Linked /\ Head \notin Linked
BY LevelFacts, PriorityQueueAssumption
   DEF PriorityQueueAssumption, SharedTypeOK, Linked, Nodes, Head

\* What goroutine q knows is not touched.
Same(q) ==
    /\ pc'[q] = pc[q] /\ want'[q] = want[q] /\ tall'[q] = tall[q] /\ lev'[q] = lev[q]
    /\ up'[q] = up[q] /\ pred'[q] = pred[q] /\ curr'[q] = curr[q] /\ preds'[q] = preds[q]
    /\ succs'[q] = succs[q] /\ node'[q] = node[q] /\ succ'[q] = succ[q]

\* Nodes that are linked keep their priority and their mark.
Grows ==
    /\ Linked \subseteq Linked'
    /\ \A x \in Linked : prio'[x] = prio[x] /\ (marked[x] => marked'[x])

\* What a step of p leaves to the others.
Step(p) == Grows /\ \A q \in Procs \ {p} : Same(q)

LEMMA SameKeeps ==
    ASSUME SharedTypeOK, LocalTypeOK, NEW q \in Procs, Same(q), Grows,
           PushLocal(q), PopLocal(q), WalkLocal(q)
    PROVE  PushLocal(q)' /\ PopLocal(q)' /\ WalkLocal(q)'
<1>1. PushLocal(q)'
  BY DEF Same, Grows, PushLocal, High, Low, Ends
<1>2. PopLocal(q)'
  <2>1. pc[q] \in PopSteps \ {"first"} => node[q] \in Linked'
    BY DEF Grows, PopLocal
  <2>2. pc[q] \in PopSteps \ {"first", "mark"} => marked'[node[q]]
    BY DEF Grows, PopLocal, PopSteps
  <2>3. pc[q] \in {"unlink", "unlinkUp"} => Follows(succ[q], node[q])'
    BY DEF Same, Grows, PopLocal, PopSteps, Follows
  <2>4. pc[q] \in {"walk", "unlinkUp"} => pred[q] \in ({Head} \cup Linked)'
    BY DEF Grows, PopLocal, Head
  <2>5. pc[q] = "walk" => curr[q] \in Ends'
    BY DEF Grows, PopLocal, Ends
  <2> QED
    BY <2>1, <2>2, <2>3, <2>4, <2>5 DEF Same, PopLocal
<1>3. WalkLocal(q)'
  BY DEF Same, Grows, WalkLocal, Ends
<1> QED
  BY <1>1, <1>2, <1>3

LEMMA PushingFinite == IsFiniteSet(Pushing) /\ Cardinality(Pushing) \in Nat
<1>1. Pushing \subseteq Procs
  BY DEF Pushing
<1> QED
  BY <1>1, FS_Subset, FS_CardinalityType, PriorityQueueAssumption DEF PriorityQueueAssumption

\* A step of p that links no node at level 0.
LEMMA OwnStep ==
    ASSUME Core, NEW p \in Procs, \A q \in Procs \ {p} : Same(q), size' = size, Grows,
           SharedTypeOK', Sorted', Fresh', LocalTypeOK', p \in Pushing' => p \in Pushing,
           PushLocal(p)', PopLocal(p)', WalkLocal(p)'
    PROVE  Core' /\ Step(p)
<1>1. Room'
  <2>1. Pushing' \subseteq Pushing
    BY DEF Same, Pushing
  <2>2. Cardinality(Pushing') <= Cardinality(Pushing) /\ Cardinality(Pushing') \in Nat
    BY <2>1, PushingFinite, FS_Subset, FS_CardinalityType
  <2> QED
    BY <2>2, PushingFinite, PriorityQueueAssumption
       DEF PriorityQueueAssumption, Core, SharedTypeOK, Room
<1>2. Locals'
  BY SameKeeps DEF Core, Locals
<1> QED
  BY <1>1, <1>2 DEF Core, Step

\* A step of p that changes nothing of the nodes.
LEMMA QuietStep ==
    ASSUME Core, NEW p \in Procs, \A q \in Procs \ {p} : Same(q), UNCHANGED nodeVars,
           SharedTypeOK', LocalTypeOK', p \in Pushing' => p \in Pushing,
           PushLocal(p)', PopLocal(p)', WalkLocal(p)'
    PROVE  Core' /\ Step(p)
<1>1. Grows /\ size' = size
  BY DEF Grows, nodeVars, Linked
<1>2. Sorted' /\ Fresh'
  BY DEF Core, SharedTypeOK, Sorted, Fresh, nodeVars, Linked
<1> QED
  BY <1>1, <1>2, OwnStep

\* A step of p that changes nothing that is shared.
LEMMA LocalStep ==
    ASSUME Core, NEW p \in Procs, \A q \in Procs \ {p} : Same(q), UNCHANGED sharedVars,
           LocalTypeOK', p \in Pushing' => p \in Pushing,
           PushLocal(p)', PopLocal(p)', WalkLocal(p)'
    PROVE  Core' /\ Step(p)
<1>1. SharedTypeOK' /\ UNCHANGED nodeVars
  BY DEF Core, SharedTypeOK, sharedVars, nodeVars
<1> QED
  BY <1>1, QuietStep

\* What a goroutine finds when it follows a pointer.
LEMMA NextFacts ==
    ASSUME Core, NEW l \in Levels, NEW x \in {Head} \cup Linked
    PROVE  /\ next[l][x] \in Ends /\ next[l][x] \in Pointers
           /\ x # Head => Follows(next[l][x], x)
BY LinkedFacts, LevelFacts DEF Core, Sorted, Ends, Follows, Pointers
-----------------------------------------------------------------------------
(* The search.                                                              *)

LEMMA SearchMaxKeeps ==
    ASSUME Core, NEW p \in Procs, SearchMax(p)
    PROVE  Core' /\ Step(p)
<1>1. /\ pc[p] = "max" /\ pc' = [pc EXCEPT ![p] = "enter"]
      /\ lev' = [lev EXCEPT ![p] = maxLevel - 1] /\ pred' = [pred EXCEPT ![p] = Head]
      /\ preds' = [preds EXCEPT ![p] = [l \in Above |-> Nil]]
      /\ succs' = [succs EXCEPT ![p] = [l \in Above |-> Nil]]
      /\ UNCHANGED <<want, tall, up, curr, node, succ>> /\ UNCHANGED sharedVars
  BY DEF SearchMax, Goto, Set, Within
<1>2. maxLevel - 1 \in Levels /\ maxLevel - 1 \in 0 .. MaxLevel
  BY PriorityQueueAssumption DEF PriorityQueueAssumption, Core, SharedTypeOK, Levels
<1>3. LocalTypeOK'
  <2>1. [l \in Above |-> Nil] \in [Above -> {Head} \cup Pointers]
        /\ [l \in Above |-> Nil] \in [Above -> Pointers]
    BY DEF Pointers
  <2> QED
    BY <1>1, <1>2, <2>1 DEF Core, LocalTypeOK, PushSteps
<1>4. \A q \in Procs \ {p} : Same(q)
  BY <1>1 DEF Core, LocalTypeOK, Same
<1>5. p \in Pushing' => p \in Pushing
  BY <1>1 DEF Core, LocalTypeOK, Pushing, PushSteps
<1>6. PushLocal(p)'
  <2>1. PushLocal(p)
    BY DEF Core, Locals
  <2> QED
    BY <1>1, <1>2, <2>1 DEF Core, LocalTypeOK, PushLocal, High, Low, PushSteps, SearchSteps,
       sharedVars, Linked
<1>7. PopLocal(p)' /\ WalkLocal(p)'
  BY <1>1 DEF Core, LocalTypeOK, PopLocal, WalkLocal, PopSteps
<1> QED
  BY <1>1, <1>3, <1>4, <1>5, <1>6, <1>7, LocalStep

LEMMA SearchEnterKeeps ==
    ASSUME Core, NEW p \in Procs, SearchEnter(p)
    PROVE  Core' /\ Step(p)
<1>1. /\ pc[p] = "enter" /\ pc' = [pc EXCEPT ![p] = "scan"]
      /\ curr' = [curr EXCEPT ![p] = next[lev[p]][pred[p]]]
      /\ UNCHANGED <<want, tall, lev, up, pred, preds, succs, node, succ>>
      /\ UNCHANGED sharedVars
  BY DEF SearchEnter, Goto, Set, Within
<1>2. next[lev[p]][pred[p]] \in Ends /\ next[lev[p]][pred[p]] \in Pointers
  <2>1. lev[p] \in Levels /\ pred[p] \in {Head} \cup Linked
    BY <1>1, LevelFacts DEF Core, Locals, PushLocal, High
  <2> QED
    BY <2>1, NextFacts, LinkedFacts DEF Core
<1>3. LocalTypeOK'
  BY <1>1, <1>2 DEF Core, LocalTypeOK, PushSteps, PopSteps, PeekSteps, ClearSteps
<1>4. \A q \in Procs \ {p} : Same(q)
  BY <1>1 DEF Core, LocalTypeOK, Same
<1>5. p \in Pushing' => p \in Pushing
  BY <1>1, <1>2 DEF Core, LocalTypeOK, Pushing, PushSteps
<1>6. PushLocal(p)' /\ PopLocal(p)' /\ WalkLocal(p)'
  <2>1. PushLocal(p) /\ PopLocal(p) /\ WalkLocal(p)
    BY DEF Core, Locals
  <2>2. PushLocal(p)'
    BY <1>1, <1>2, <2>1 DEF Core, LocalTypeOK, PushLocal, High, Low, PushSteps, SearchSteps,
       sharedVars, nodeVars, Linked, Ends
  <2>3. PopLocal(p)'
    BY <1>1, <1>2, <2>1, LinkedFacts DEF Core, LocalTypeOK, PopLocal, Follows, PopSteps,
       sharedVars, nodeVars, Linked, Ends
  <2>4. WalkLocal(p)'
    BY <1>1, <1>2, <2>1 DEF Core, LocalTypeOK, WalkLocal, sharedVars, nodeVars, Linked, Ends
  <2> QED
    BY <2>2, <2>3, <2>4
<1> QED
  BY <1>1, <1>2, <1>3, <1>4, <1>5, <1>6, LocalStep

LEMMA SearchMarkKeeps ==
    ASSUME Core, NEW p \in Procs, SearchMark(p)
    PROVE  Core' /\ Step(p)
<1>1. /\ pc[p] = "scan" /\ pc' = [pc EXCEPT ![p] = "step"]
      /\ pred' = [pred EXCEPT ![p] = IF marked[curr[p]] THEN pred[p] ELSE curr[p]]
      /\ UNCHANGED <<want, tall, lev, up, curr, preds, succs, node, succ>>
      /\ UNCHANGED sharedVars
  BY DEF SearchMark, Goto, Set, Within
<1>2. curr[p] \in Linked /\ curr[p] \in Pointers /\ prio[curr[p]] > want[p]
  BY <1>1, LinkedFacts DEF Core, Locals, PushLocal, Ends, SearchMark, Passed, LocalTypeOK
<1>3. LocalTypeOK'
  BY <1>1, <1>2 DEF Core, LocalTypeOK, PushSteps, PopSteps, PeekSteps, ClearSteps
<1>4. \A q \in Procs \ {p} : Same(q)
  BY <1>1 DEF Core, LocalTypeOK, Same
<1>5. p \in Pushing' => p \in Pushing
  BY <1>1, <1>2 DEF Core, LocalTypeOK, Pushing, PushSteps
<1>6. PushLocal(p)' /\ PopLocal(p)' /\ WalkLocal(p)'
  <2>1. PushLocal(p) /\ PopLocal(p) /\ WalkLocal(p)
    BY DEF Core, Locals
  <2>2. PushLocal(p)'
    BY <1>1, <1>2, <2>1 DEF Core, LocalTypeOK, PushLocal, High, Low, PushSteps, SearchSteps,
       sharedVars, nodeVars, Linked, Ends
  <2>3. PopLocal(p)'
    BY <1>1, <1>2, <2>1, LinkedFacts DEF Core, LocalTypeOK, PopLocal, Follows, PopSteps,
       sharedVars, nodeVars, Linked, Ends
  <2>4. WalkLocal(p)'
    BY <1>1, <1>2, <2>1 DEF Core, LocalTypeOK, WalkLocal, sharedVars, nodeVars, Linked, Ends
  <2> QED
    BY <2>2, <2>3, <2>4
<1> QED
  BY <1>1, <1>2, <1>3, <1>4, <1>5, <1>6, LocalStep

LEMMA SearchStepKeeps ==
    ASSUME Core, NEW p \in Procs, SearchStep(p)
    PROVE  Core' /\ Step(p)
<1>1. /\ pc[p] = "step" /\ pc' = [pc EXCEPT ![p] = "scan"]
      /\ curr' = [curr EXCEPT ![p] = next[lev[p]][curr[p]]]
      /\ UNCHANGED <<want, tall, lev, up, pred, preds, succs, node, succ>>
      /\ UNCHANGED sharedVars
  BY DEF SearchStep, Goto, Set, Within
<1>2. next[lev[p]][curr[p]] \in Ends /\ next[lev[p]][curr[p]] \in Pointers
  <2>1. lev[p] \in Levels /\ curr[p] \in Linked
    BY <1>1, LevelFacts DEF Core, Locals, PushLocal
  <2> QED
    BY <2>1, NextFacts, LinkedFacts DEF Core
<1>3. LocalTypeOK'
  BY <1>1, <1>2 DEF Core, LocalTypeOK, PushSteps, PopSteps, PeekSteps, ClearSteps
<1>4. \A q \in Procs \ {p} : Same(q)
  BY <1>1 DEF Core, LocalTypeOK, Same
<1>5. p \in Pushing' => p \in Pushing
  BY <1>1, <1>2 DEF Core, LocalTypeOK, Pushing, PushSteps
<1>6. PushLocal(p)' /\ PopLocal(p)' /\ WalkLocal(p)'
  <2>1. PushLocal(p) /\ PopLocal(p) /\ WalkLocal(p)
    BY DEF Core, Locals
  <2>2. PushLocal(p)'
    BY <1>1, <1>2, <2>1 DEF Core, LocalTypeOK, PushLocal, High, Low, PushSteps, SearchSteps,
       sharedVars, nodeVars, Linked, Ends
  <2>3. PopLocal(p)'
    BY <1>1, <1>2, <2>1, LinkedFacts DEF Core, LocalTypeOK, PopLocal, Follows, PopSteps,
       sharedVars, nodeVars, Linked, Ends
  <2>4. WalkLocal(p)'
    BY <1>1, <1>2, <2>1 DEF Core, LocalTypeOK, WalkLocal, sharedVars, nodeVars, Linked, Ends
  <2> QED
    BY <2>2, <2>3, <2>4
<1> QED
  BY <1>1, <1>2, <1>3, <1>4, <1>5, <1>6, LocalStep

LEMMA SearchDownKeeps ==
    ASSUME Core, NEW p \in Procs, SearchDown(p)
    PROVE  Core' /\ Step(p)
<1>1. /\ pc[p] = "scan" /\ pc' = [pc EXCEPT ![p] = "enter"]
      /\ lev' = [lev EXCEPT ![p] = lev[p] - 1]
      /\ preds' = [preds EXCEPT ![p][lev[p]] = pred[p]]
      /\ succs' = [succs EXCEPT ![p][lev[p]] = curr[p]]
      /\ UNCHANGED <<want, tall, up, pred, curr, node, succ>> /\ UNCHANGED sharedVars
  BY DEF SearchDown, Goto, Set, Within
<1>2. /\ lev[p] \in Above /\ lev[p] - 1 \in Levels /\ lev[p] - 1 \in 0 .. MaxLevel
      /\ High(p, pred[p]) /\ Low(p, curr[p])
  <2>1. PushLocal(p)
    BY DEF Core, Locals
  <2>2. lev[p] \in Levels /\ lev[p] > 0 /\ High(p, pred[p]) /\ curr[p] \in Ends
    BY <1>1, <2>1 DEF PushLocal, SearchDown
  <2>3. Low(p, curr[p])
    BY <2>2 DEF SearchDown, Placed, Low, Ends
  <2> QED
    BY <2>2, <2>3, PriorityQueueAssumption DEF PriorityQueueAssumption, Levels, Above
<1>3. LocalTypeOK'
  BY <1>1, <1>2 DEF Core, LocalTypeOK, PushSteps
<1>4. \A q \in Procs \ {p} : Same(q)
  BY <1>1 DEF Core, LocalTypeOK, Same
<1>5. p \in Pushing' => p \in Pushing
  BY <1>1 DEF Core, LocalTypeOK, Pushing, PushSteps
<1>6. PushLocal(p)' /\ PopLocal(p)' /\ WalkLocal(p)'
  <2>1. PushLocal(p)
    BY DEF Core, Locals
  <2>2. \A l \in Above : /\ preds'[p][l] = IF l = lev[p] THEN pred[p] ELSE preds[p][l]
                         /\ succs'[p][l] = IF l = lev[p] THEN curr[p] ELSE succs[p][l]
    BY <1>1 DEF Core, LocalTypeOK
  <2>3. UNCHANGED <<Linked, prio, want>>
    BY <1>1 DEF sharedVars, Linked
  <2>4. \A l \in Above : preds'[p][l] # Nil => High(p, preds[p][l])' /\ Low(p, succs[p][l])'
    BY <1>2, <2>1, <2>2, <2>3 DEF PushLocal, High, Low
  <2>5. PushLocal(p)'
    BY <1>1, <1>2, <2>1, <2>3, <2>4
       DEF Core, LocalTypeOK, PushLocal, High, PushSteps, SearchSteps
  <2>6. PopLocal(p)' /\ WalkLocal(p)'
    BY <1>1 DEF Core, LocalTypeOK, PopLocal, WalkLocal, PopSteps
  <2> QED
    BY <2>5, <2>6
<1> QED
  BY <1>1, <1>3, <1>4, <1>5, <1>6, LocalStep
-----------------------------------------------------------------------------
(* Peek, and the walk of Clear.                                             *)

LEMMA PeekFirstKeeps ==
    ASSUME Core, NEW p \in Procs, PeekFirst(p)
    PROVE  Core' /\ Step(p)
<1>1. /\ pc[p] = "peekFirst" /\ pc' = [pc EXCEPT ![p] = "peek"]
      /\ curr' = [curr EXCEPT ![p] = next[0][Head]]
      /\ UNCHANGED <<want, tall, lev, up, pred, preds, succs, node, succ>>
      /\ UNCHANGED sharedVars
  BY DEF PeekFirst, Goto, Set, Within
<1>2. next[0][Head] \in Ends /\ next[0][Head] \in Pointers
  <2>1. 0 \in Levels
    BY <1>1, LevelFacts DEF Levels
  <2> QED
    BY <2>1, NextFacts, LinkedFacts DEF Core
<1>3. LocalTypeOK'
  BY <1>1, <1>2 DEF Core, LocalTypeOK, PushSteps, PopSteps, PeekSteps, ClearSteps
<1>4. \A q \in Procs \ {p} : Same(q)
  BY <1>1 DEF Core, LocalTypeOK, Same
<1>5. p \in Pushing' => p \in Pushing
  BY <1>1, <1>2 DEF Core, LocalTypeOK, Pushing, PushSteps
<1>6. PushLocal(p)' /\ PopLocal(p)' /\ WalkLocal(p)'
  <2>1. PushLocal(p) /\ PopLocal(p) /\ WalkLocal(p)
    BY DEF Core, Locals
  <2>2. PushLocal(p)'
    BY <1>1, <1>2, <2>1 DEF Core, LocalTypeOK, PushLocal, High, Low, PushSteps, SearchSteps,
       sharedVars, nodeVars, Linked, Ends
  <2>3. PopLocal(p)'
    BY <1>1, <1>2, <2>1, LinkedFacts DEF Core, LocalTypeOK, PopLocal, Follows, PopSteps,
       sharedVars, nodeVars, Linked, Ends
  <2>4. WalkLocal(p)'
    BY <1>1, <1>2, <2>1 DEF Core, LocalTypeOK, WalkLocal, sharedVars, nodeVars, Linked, Ends
  <2> QED
    BY <2>2, <2>3, <2>4
<1> QED
  BY <1>1, <1>2, <1>3, <1>4, <1>5, <1>6, LocalStep

LEMMA PeekMarkedKeeps ==
    ASSUME Core, NEW p \in Procs, PeekMarked(p)
    PROVE  Core' /\ Step(p)
<1>1. /\ pc[p] = "peek" /\ pc' = [pc EXCEPT ![p] = "peekNext"]
      /\ UNCHANGED <<want, tall, lev, up, pred, curr, preds, succs, node, succ>>
      /\ UNCHANGED sharedVars
  BY DEF PeekMarked, Goto, Set, Within, Quiet, searchVars
<1>2. curr[p] \in Linked
  BY <1>1, LinkedFacts DEF Core, Locals, WalkLocal, Ends, PeekMarked
<1>3. LocalTypeOK'
  BY <1>1, <1>2 DEF Core, LocalTypeOK, PushSteps, PopSteps, PeekSteps, ClearSteps
<1>4. \A q \in Procs \ {p} : Same(q)
  BY <1>1 DEF Core, LocalTypeOK, Same
<1>5. p \in Pushing' => p \in Pushing
  BY <1>1, <1>2 DEF Core, LocalTypeOK, Pushing, PushSteps
<1>6. PushLocal(p)' /\ PopLocal(p)' /\ WalkLocal(p)'
  <2>1. PushLocal(p) /\ PopLocal(p) /\ WalkLocal(p)
    BY DEF Core, Locals
  <2>2. PushLocal(p)'
    BY <1>1, <1>2, <2>1 DEF Core, LocalTypeOK, PushLocal, High, Low, PushSteps, SearchSteps,
       sharedVars, nodeVars, Linked, Ends
  <2>3. PopLocal(p)'
    BY <1>1, <1>2, <2>1, LinkedFacts DEF Core, LocalTypeOK, PopLocal, Follows, PopSteps,
       sharedVars, nodeVars, Linked, Ends
  <2>4. WalkLocal(p)'
    BY <1>1, <1>2, <2>1 DEF Core, LocalTypeOK, WalkLocal, sharedVars, nodeVars, Linked, Ends
  <2> QED
    BY <2>2, <2>3, <2>4
<1> QED
  BY <1>1, <1>2, <1>3, <1>4, <1>5, <1>6, LocalStep

LEMMA PeekNextKeeps ==
    ASSUME Core, NEW p \in Procs, PeekNext(p)
    PROVE  Core' /\ Step(p)
<1>1. /\ pc[p] = "peekNext" /\ pc' = [pc EXCEPT ![p] = "peek"]
      /\ curr' = [curr EXCEPT ![p] = next[0][curr[p]]]
      /\ UNCHANGED <<want, tall, lev, up, pred, preds, succs, node, succ>>
      /\ UNCHANGED sharedVars
  BY DEF PeekNext, Goto, Set, Within
<1>2. next[0][curr[p]] \in Ends /\ next[0][curr[p]] \in Pointers
  <2>1. 0 \in Levels /\ curr[p] \in Linked
    BY <1>1, LevelFacts DEF Core, Locals, WalkLocal
  <2> QED
    BY <2>1, NextFacts, LinkedFacts DEF Core
<1>3. LocalTypeOK'
  BY <1>1, <1>2 DEF Core, LocalTypeOK, PushSteps, PopSteps, PeekSteps, ClearSteps
<1>4. \A q \in Procs \ {p} : Same(q)
  BY <1>1 DEF Core, LocalTypeOK, Same
<1>5. p \in Pushing' => p \in Pushing
  BY <1>1, <1>2 DEF Core, LocalTypeOK, Pushing, PushSteps
<1>6. PushLocal(p)' /\ PopLocal(p)' /\ WalkLocal(p)'
  <2>1. PushLocal(p) /\ PopLocal(p) /\ WalkLocal(p)
    BY DEF Core, Locals
  <2>2. PushLocal(p)'
    BY <1>1, <1>2, <2>1 DEF Core, LocalTypeOK, PushLocal, High, Low, PushSteps, SearchSteps,
       sharedVars, nodeVars, Linked, Ends
  <2>3. PopLocal(p)'
    BY <1>1, <1>2, <2>1, LinkedFacts DEF Core, LocalTypeOK, PopLocal, Follows, PopSteps,
       sharedVars, nodeVars, Linked, Ends
  <2>4. WalkLocal(p)'
    BY <1>1, <1>2, <2>1 DEF Core, LocalTypeOK, WalkLocal, sharedVars, nodeVars, Linked, Ends
  <2> QED
    BY <2>2, <2>3, <2>4
<1> QED
  BY <1>1, <1>2, <1>3, <1>4, <1>5, <1>6, LocalStep

LEMMA ClearFirstKeeps ==
    ASSUME Core, NEW p \in Procs, ClearFirst(p)
    PROVE  Core' /\ Step(p)
<1>1. /\ pc[p] = "clearFirst" /\ pc' = [pc EXCEPT ![p] = "clearMark"]
      /\ curr' = [curr EXCEPT ![p] = next[0][Head]]
      /\ UNCHANGED <<want, tall, lev, up, pred, preds, succs, node, succ>>
      /\ UNCHANGED sharedVars
  BY DEF ClearFirst, Goto, Set, Within
<1>2. next[0][Head] \in Ends /\ next[0][Head] \in Pointers
  <2>1. 0 \in Levels
    BY <1>1, LevelFacts DEF Levels
  <2> QED
    BY <2>1, NextFacts, LinkedFacts DEF Core
<1>3. LocalTypeOK'
  BY <1>1, <1>2 DEF Core, LocalTypeOK, PushSteps, PopSteps, PeekSteps, ClearSteps
<1>4. \A q \in Procs \ {p} : Same(q)
  BY <1>1 DEF Core, LocalTypeOK, Same
<1>5. p \in Pushing' => p \in Pushing
  BY <1>1, <1>2 DEF Core, LocalTypeOK, Pushing, PushSteps
<1>6. PushLocal(p)' /\ PopLocal(p)' /\ WalkLocal(p)'
  <2>1. PushLocal(p) /\ PopLocal(p) /\ WalkLocal(p)
    BY DEF Core, Locals
  <2>2. PushLocal(p)'
    BY <1>1, <1>2, <2>1 DEF Core, LocalTypeOK, PushLocal, High, Low, PushSteps, SearchSteps,
       sharedVars, nodeVars, Linked, Ends
  <2>3. PopLocal(p)'
    BY <1>1, <1>2, <2>1, LinkedFacts DEF Core, LocalTypeOK, PopLocal, Follows, PopSteps,
       sharedVars, nodeVars, Linked, Ends
  <2>4. WalkLocal(p)'
    BY <1>1, <1>2, <2>1 DEF Core, LocalTypeOK, WalkLocal, sharedVars, nodeVars, Linked, Ends
  <2> QED
    BY <2>2, <2>3, <2>4
<1> QED
  BY <1>1, <1>2, <1>3, <1>4, <1>5, <1>6, LocalStep

LEMMA ClearNextKeeps ==
    ASSUME Core, NEW p \in Procs, ClearNext(p)
    PROVE  Core' /\ Step(p)
<1>1. /\ pc[p] = "clearNext" /\ pc' = [pc EXCEPT ![p] = "clearMark"]
      /\ curr' = [curr EXCEPT ![p] = next[0][curr[p]]]
      /\ UNCHANGED <<want, tall, lev, up, pred, preds, succs, node, succ>>
      /\ UNCHANGED sharedVars
  BY DEF ClearNext, Goto, Set, Within
<1>2. next[0][curr[p]] \in Ends /\ next[0][curr[p]] \in Pointers
  <2>1. 0 \in Levels /\ curr[p] \in Linked
    BY <1>1, LevelFacts DEF Core, Locals, WalkLocal
  <2> QED
    BY <2>1, NextFacts, LinkedFacts DEF Core
<1>3. LocalTypeOK'
  BY <1>1, <1>2 DEF Core, LocalTypeOK, PushSteps, PopSteps, PeekSteps, ClearSteps
<1>4. \A q \in Procs \ {p} : Same(q)
  BY <1>1 DEF Core, LocalTypeOK, Same
<1>5. p \in Pushing' => p \in Pushing
  BY <1>1, <1>2 DEF Core, LocalTypeOK, Pushing, PushSteps
<1>6. PushLocal(p)' /\ PopLocal(p)' /\ WalkLocal(p)'
  <2>1. PushLocal(p) /\ PopLocal(p) /\ WalkLocal(p)
    BY DEF Core, Locals
  <2>2. PushLocal(p)'
    BY <1>1, <1>2, <2>1 DEF Core, LocalTypeOK, PushLocal, High, Low, PushSteps, SearchSteps,
       sharedVars, nodeVars, Linked, Ends
  <2>3. PopLocal(p)'
    BY <1>1, <1>2, <2>1, LinkedFacts DEF Core, LocalTypeOK, PopLocal, Follows, PopSteps,
       sharedVars, nodeVars, Linked, Ends
  <2>4. WalkLocal(p)'
    BY <1>1, <1>2, <2>1 DEF Core, LocalTypeOK, WalkLocal, sharedVars, nodeVars, Linked, Ends
  <2> QED
    BY <2>2, <2>3, <2>4
<1> QED
  BY <1>1, <1>2, <1>3, <1>4, <1>5, <1>6, LocalStep
-----------------------------------------------------------------------------
(* Calls and returns.                                                       *)

\* A goroutine that is idle has forgotten what it knew.
LEMMA IdleFacts ==
    ASSUME Core, NEW p \in Procs, pc[p] = "idle"
    PROVE  up[p] = 0 /\ lev[p] = 0 /\ \A l \in Above : preds[p][l] = Nil
<1>1. PushLocal(p) /\ WalkLocal(p)
  BY DEF Core, Locals
<1>2. ~(up[p] > 0) /\ \A l \in Above : preds[p][l] = Nil
  BY <1>1 DEF PushLocal, PushSteps
<1>3. up[p] \in 0 .. MaxLevel
  BY DEF Core, LocalTypeOK
<1>4. lev[p] = 0
  BY <1>1 DEF WalkLocal
<1> QED
  BY <1>2, <1>3, <1>4, PriorityQueueAssumption DEF PriorityQueueAssumption

LEMMA CallKeeps ==
    ASSUME Core, NEW p \in Procs, NEW first \in {"first", "peekFirst", "clearFirst"},
           Call(p, first), UNCHANGED sharedVars, UNCHANGED localVars
    PROVE  Core' /\ Step(p)
<1>1. pc[p] = "idle" /\ pc' = [pc EXCEPT ![p] = first]
      /\ UNCHANGED <<want, tall, lev, up, pred, curr, preds, succs, node, succ>>
  BY DEF Call, Goto, localVars
<1>2. LocalTypeOK'
  BY <1>1 DEF Core, LocalTypeOK, PushSteps, PopSteps, PeekSteps, ClearSteps
<1>3. \A q \in Procs \ {p} : Same(q)
  BY <1>1 DEF Core, LocalTypeOK, Same
<1>4. p \notin Pushing'
  BY <1>1 DEF Core, LocalTypeOK, Pushing, PushSteps
<1>5. PushLocal(p)' /\ PopLocal(p)' /\ WalkLocal(p)'
  BY <1>1, IdleFacts DEF Core, LocalTypeOK, PushLocal, PopLocal, WalkLocal, SearchSteps, PopSteps
<1> QED
  BY <1>2, <1>3, <1>4, <1>5, LocalStep

LEMMA PushCallKeeps ==
    ASSUME Core, NEW p \in Procs, PushCall(p)
    PROVE  Core' /\ Step(p)
<1>1. PICK x \in Priorities, l \in 1 .. MaxLevel :
          want' = [want EXCEPT ![p] = x] /\ tall' = [tall EXCEPT ![p] = l]
  BY DEF PushCall, Set
<1>2. /\ pc[p] = "idle" /\ pc' = [pc EXCEPT ![p] = "max"]
      /\ UNCHANGED <<lev, up, pred, curr, preds, succs, node, succ>> /\ UNCHANGED sharedVars
      /\ size + Cardinality(Pushing) < MaxNodes
  BY DEF PushCall, Call, Goto, searchVars
<1>3. x \in Int /\ l \in 0 .. MaxLevel /\ l > 0
  BY PriorityQueueAssumption DEF PriorityQueueAssumption
<1>4. LocalTypeOK'
  BY <1>1, <1>2, <1>3 DEF Core, LocalTypeOK, PushSteps
<1>5. \A q \in Procs \ {p} : Same(q)
  BY <1>1, <1>2 DEF Core, LocalTypeOK, Same
<1>6. PushLocal(p)' /\ PopLocal(p)' /\ WalkLocal(p)'
  BY <1>1, <1>2, <1>3, IdleFacts
     DEF Core, LocalTypeOK, PushLocal, PopLocal, WalkLocal, SearchSteps, PopSteps
<1>7. SharedTypeOK' /\ Sorted' /\ Fresh' /\ Grows
  BY <1>2 DEF Core, SharedTypeOK, Sorted, Fresh, sharedVars, Linked, Grows
<1>8. Room'
  <2>1. Pushing' = Pushing \cup {p} /\ p \notin Pushing
    BY <1>2, <1>5, IdleFacts DEF Core, LocalTypeOK, Pushing, PushSteps, Same
  <2>2. Cardinality(Pushing') = Cardinality(Pushing) + 1
    BY <2>1, PushingFinite, FS_AddElement
  <2>3. size' = size /\ size \in Nat
    BY <1>2, PriorityQueueAssumption
       DEF PriorityQueueAssumption, sharedVars, Core, SharedTypeOK
  <2> QED
    BY <1>2, <2>2, <2>3, PushingFinite, PriorityQueueAssumption
       DEF PriorityQueueAssumption, Room
<1>9. Locals'
  BY <1>5, <1>6, <1>7, SameKeeps DEF Core, Locals
<1> QED
  BY <1>4, <1>5, <1>7, <1>8, <1>9 DEF Core, Step

\* Whatever returns changes no node.
LEMMA ReturnKeeps ==
    ASSUME Core, NEW p \in Procs, NEW step, Return(p, step), UNCHANGED nodeVars, SharedTypeOK'
    PROVE  Core' /\ Step(p)
<1>1. /\ pc' = [pc EXCEPT ![p] = "idle"]
      /\ want' = [want EXCEPT ![p] = 0] /\ tall' = [tall EXCEPT ![p] = 0]
      /\ lev' = [lev EXCEPT ![p] = 0] /\ up' = [up EXCEPT ![p] = 0]
      /\ pred' = [pred EXCEPT ![p] = Nil] /\ curr' = [curr EXCEPT ![p] = Nil]
      /\ preds' = [preds EXCEPT ![p] = [l \in Above |-> Nil]]
      /\ succs' = [succs EXCEPT ![p] = [l \in Above |-> Nil]]
      /\ node' = [node EXCEPT ![p] = Nil] /\ succ' = [succ EXCEPT ![p] = Nil]
  BY DEF Return, Goto, Set
<1>2. LocalTypeOK'
  <2>1. /\ [l \in Above |-> Nil] \in [Above -> {Head} \cup Pointers]
        /\ [l \in Above |-> Nil] \in [Above -> Pointers]
        /\ Nil \in Pointers /\ 0 \in 0 .. MaxLevel
    BY PriorityQueueAssumption DEF PriorityQueueAssumption, Pointers
  <2> QED
    BY <1>1, <2>1 DEF Core, LocalTypeOK
<1>3. \A q \in Procs \ {p} : Same(q)
  BY <1>1 DEF Core, LocalTypeOK, Same
<1>4. p \notin Pushing'
  BY <1>1 DEF Core, LocalTypeOK, Pushing, PushSteps
<1>5. PushLocal(p)' /\ PopLocal(p)' /\ WalkLocal(p)'
  BY <1>1 DEF Core, LocalTypeOK, PushLocal, PopLocal, WalkLocal, SearchSteps, PopSteps
<1> QED
  BY <1>2, <1>3, <1>4, <1>5, QuietStep

\* The counter and maxLevel are beside the list.
LEMMA ReturnsKeep ==
    ASSUME Core, NEW p \in Procs, PushRaise(p) \/ PopUncount(p) \/ PeekEnd(p) \/ ClearCount(p)
    PROVE  Core' /\ Step(p)
<1>1. CASE PushRaise(p)
  <2>1. UNCHANGED nodeVars /\ count' = count
        /\ maxLevel' = IF tall[p] > maxLevel THEN tall[p] ELSE maxLevel
    BY <1>1 DEF PushRaise
  <2>2. maxLevel' \in 1 .. MaxLevel
    BY <2>1, PriorityQueueAssumption DEF PriorityQueueAssumption, Core, SharedTypeOK, LocalTypeOK
  <2>3. SharedTypeOK'
    BY <2>1, <2>2 DEF nodeVars, Core, SharedTypeOK
  <2> QED
    BY <1>1, <2>1, <2>3, ReturnKeeps DEF PushRaise
<1>2. CASE PopUncount(p) \/ ClearCount(p)
  <2>1. UNCHANGED nodeVars /\ maxLevel' = maxLevel /\ (count' = count - 1 \/ count' = 0)
    BY <1>2 DEF PopUncount, ClearCount
  <2>2. count' \in Int
    BY <2>1 DEF Core, SharedTypeOK
  <2>3. SharedTypeOK'
    BY <2>1, <2>2 DEF nodeVars, Core, SharedTypeOK
  <2> QED
    BY <1>2, <2>1, <2>3, ReturnKeeps DEF PopUncount, ClearCount
<1>3. CASE PeekEnd(p)
  <2>1. UNCHANGED sharedVars
    BY <1>3 DEF PeekEnd
  <2>2. SharedTypeOK' /\ UNCHANGED nodeVars
    BY <2>1 DEF sharedVars, nodeVars, Core, SharedTypeOK
  <2> QED
    BY <1>3, <2>2, ReturnKeeps DEF PeekEnd
<1> QED
  BY <1>1, <1>2, <1>3
-----------------------------------------------------------------------------
(* The walks of Pop.                                                        *)

\* Where a Pop goes from one level to the next.
LEMMA NextLevel ==
    ASSUME Core, NEW p \in Procs, pc[p] \in {"walk", "unlinkUp"}
    PROVE  /\ lev[p] + 1 \in 0 .. MaxLevel /\ lev[p] \in Above
           /\ \/ AfterUnlink(p, lev[p]) = "walkHead" /\ lev[p] + 1 \in Above
              \/ AfterUnlink(p, lev[p]) = "uncount"
<1>1. lev[p] \in Above /\ node[p] \in Nodes
  BY LinkedFacts DEF Core, Locals, PopLocal, PopSteps
<1> QED
  BY <1>1, PriorityQueueAssumption
     DEF PriorityQueueAssumption, Core, SharedTypeOK, AfterUnlink, Above

LEMMA PopFirstKeeps ==
    ASSUME Core, NEW p \in Procs, PopFirst(p)
    PROVE  Core' /\ Step(p)
<1> SUFFICES ASSUME ~Return(p, "first") PROVE Core' /\ Step(p)
  <2>1. Return(p, "first") => UNCHANGED sharedVars
    BY DEF PopFirst, Return, Goto, Set, Within, sharedVars
  <2>2. Return(p, "first") => SharedTypeOK' /\ UNCHANGED nodeVars
    BY <2>1 DEF sharedVars, nodeVars, Core, SharedTypeOK
  <2> QED
    BY <2>2, ReturnKeeps
<1>1. /\ pc[p] = "first" /\ pc' = [pc EXCEPT ![p] = "mark"]
      /\ node' = [node EXCEPT ![p] = next[0][Head]]
      /\ UNCHANGED <<want, tall, lev, up, pred, curr, preds, succs, succ>>
      /\ UNCHANGED sharedVars
  BY DEF PopFirst, Goto, Set, Within, searchVars
<1>2. next[0][Head] \in Linked /\ next[0][Head] \in Pointers
  <2>1. next[0][Head] # Nil
    BY DEF PopFirst
  <2> QED
    BY <2>1, NextFacts, LevelFacts DEF Ends
<1>3. LocalTypeOK'
  BY <1>1, <1>2 DEF Core, LocalTypeOK, PushSteps, PopSteps, PeekSteps, ClearSteps
<1>4. \A q \in Procs \ {p} : Same(q)
  BY <1>1 DEF Core, LocalTypeOK, Same
<1>5. p \in Pushing' => p \in Pushing
  BY <1>1, <1>2 DEF Core, LocalTypeOK, Pushing, PushSteps
<1>6. PushLocal(p)' /\ PopLocal(p)' /\ WalkLocal(p)'
  <2>1. PushLocal(p) /\ PopLocal(p) /\ WalkLocal(p)
    BY DEF Core, Locals
  <2>2. PushLocal(p)'
    BY <1>1, <1>2, <2>1 DEF Core, LocalTypeOK, PushLocal, High, Low, PushSteps, SearchSteps,
       sharedVars, nodeVars, Linked, Ends
  <2>3. PopLocal(p)'
    BY <1>1, <1>2, <2>1, LinkedFacts DEF Core, LocalTypeOK, PopLocal, Follows, PopSteps,
       sharedVars, nodeVars, Linked, Ends
  <2>4. WalkLocal(p)'
    BY <1>1, <1>2, <2>1 DEF Core, LocalTypeOK, WalkLocal, sharedVars, nodeVars, Linked, Ends
  <2> QED
    BY <2>2, <2>3, <2>4
<1> QED
  BY <1>1, <1>2, <1>3, <1>4, <1>5, <1>6, LocalStep

LEMMA PopNextKeeps ==
    ASSUME Core, NEW p \in Procs, PopNext(p)
    PROVE  Core' /\ Step(p)
<1>1. /\ pc[p] = "next" /\ pc' = [pc EXCEPT ![p] = "unlink"]
      /\ succ' = [succ EXCEPT ![p] = next[0][node[p]]]
      /\ UNCHANGED <<want, tall, lev, up, pred, curr, preds, succs, node>>
      /\ UNCHANGED sharedVars
  BY DEF PopNext, Goto, Set, Within, searchVars
<1>2. next[0][node[p]] \in Ends /\ next[0][node[p]] \in Pointers
      /\ Follows(next[0][node[p]], node[p])
  <2>1. 0 \in Levels /\ node[p] \in Linked
    BY <1>1, LevelFacts DEF Core, Locals, PopLocal, PopSteps
  <2> QED
    BY <2>1, NextFacts, LinkedFacts DEF Core
<1>3. LocalTypeOK'
  BY <1>1, <1>2 DEF Core, LocalTypeOK, PushSteps, PopSteps, PeekSteps, ClearSteps
<1>4. \A q \in Procs \ {p} : Same(q)
  BY <1>1 DEF Core, LocalTypeOK, Same
<1>5. p \in Pushing' => p \in Pushing
  BY <1>1, <1>2 DEF Core, LocalTypeOK, Pushing, PushSteps
<1>6. PushLocal(p)' /\ PopLocal(p)' /\ WalkLocal(p)'
  <2>1. PushLocal(p) /\ PopLocal(p) /\ WalkLocal(p)
    BY DEF Core, Locals
  <2>2. PushLocal(p)'
    BY <1>1, <1>2, <2>1 DEF Core, LocalTypeOK, PushLocal, High, Low, PushSteps, SearchSteps,
       sharedVars, nodeVars, Linked, Ends
  <2>3. PopLocal(p)'
    BY <1>1, <1>2, <2>1, LinkedFacts DEF Core, LocalTypeOK, PopLocal, Follows, PopSteps,
       sharedVars, nodeVars, Linked, Ends
  <2>4. WalkLocal(p)'
    BY <1>1, <1>2, <2>1 DEF Core, LocalTypeOK, WalkLocal, sharedVars, nodeVars, Linked, Ends
  <2> QED
    BY <2>2, <2>3, <2>4
<1> QED
  BY <1>1, <1>2, <1>3, <1>4, <1>5, <1>6, LocalStep

LEMMA PopWalkHeadKeeps ==
    ASSUME Core, NEW p \in Procs, PopWalkHead(p)
    PROVE  Core' /\ Step(p)
<1>1. /\ pc[p] = "walkHead" /\ pc' = [pc EXCEPT ![p] = "walk"]
      /\ pred' = [pred EXCEPT ![p] = Head]
      /\ curr' = [curr EXCEPT ![p] = next[lev[p]][Head]]
      /\ UNCHANGED <<want, tall, lev, up, preds, succs, node, succ>>
      /\ UNCHANGED sharedVars
  BY DEF PopWalkHead, Goto, Set, Within
<1>2. next[lev[p]][Head] \in Ends /\ next[lev[p]][Head] \in Pointers
  <2>1. lev[p] \in Levels
    BY <1>1, LevelFacts DEF Core, Locals, PopLocal, PopSteps
  <2> QED
    BY <2>1, NextFacts, LinkedFacts DEF Core
<1>3. LocalTypeOK'
  BY <1>1, <1>2 DEF Core, LocalTypeOK, PushSteps, PopSteps, PeekSteps, ClearSteps
<1>4. \A q \in Procs \ {p} : Same(q)
  BY <1>1 DEF Core, LocalTypeOK, Same
<1>5. p \in Pushing' => p \in Pushing
  BY <1>1, <1>2 DEF Core, LocalTypeOK, Pushing, PushSteps
<1>6. PushLocal(p)' /\ PopLocal(p)' /\ WalkLocal(p)'
  <2>1. PushLocal(p) /\ PopLocal(p) /\ WalkLocal(p)
    BY DEF Core, Locals
  <2>2. PushLocal(p)'
    BY <1>1, <1>2, <2>1 DEF Core, LocalTypeOK, PushLocal, High, Low, PushSteps, SearchSteps,
       sharedVars, nodeVars, Linked, Ends
  <2>3. PopLocal(p)'
    BY <1>1, <1>2, <2>1, LinkedFacts DEF Core, LocalTypeOK, PopLocal, Follows, PopSteps,
       sharedVars, nodeVars, Linked, Ends
  <2>4. WalkLocal(p)'
    BY <1>1, <1>2, <2>1 DEF Core, LocalTypeOK, WalkLocal, sharedVars, nodeVars, Linked, Ends
  <2> QED
    BY <2>2, <2>3, <2>4
<1> QED
  BY <1>1, <1>2, <1>3, <1>4, <1>5, <1>6, LocalStep

LEMMA PopWalkKeeps ==
    ASSUME Core, NEW p \in Procs, PopWalk(p)
    PROVE  Core' /\ Step(p)
<1>1. /\ pc[p] = "walk" /\ pc' = pc /\ curr[p] # Nil
      /\ pred' = [pred EXCEPT ![p] = curr[p]]
      /\ curr' = [curr EXCEPT ![p] = next[lev[p]][curr[p]]]
      /\ UNCHANGED <<want, tall, lev, up, preds, succs, node, succ>>
      /\ UNCHANGED sharedVars
  BY DEF PopWalk, Goto, Set, Within
<1>2. next[lev[p]][curr[p]] \in Ends /\ next[lev[p]][curr[p]] \in Pointers
      /\ curr[p] \in Linked /\ curr[p] \in Pointers
  <2>1. lev[p] \in Levels /\ curr[p] \in Linked
    BY <1>1, LevelFacts DEF Core, Locals, PopLocal, PopSteps, Ends
  <2> QED
    BY <2>1, NextFacts, LinkedFacts DEF Core, Pointers
<1>3. LocalTypeOK'
  BY <1>1, <1>2 DEF Core, LocalTypeOK, PushSteps, PopSteps, PeekSteps, ClearSteps
<1>4. \A q \in Procs \ {p} : Same(q)
  BY <1>1 DEF Core, LocalTypeOK, Same
<1>5. p \in Pushing' => p \in Pushing
  BY <1>1, <1>2 DEF Core, LocalTypeOK, Pushing, PushSteps
<1>6. PushLocal(p)' /\ PopLocal(p)' /\ WalkLocal(p)'
  <2>1. PushLocal(p) /\ PopLocal(p) /\ WalkLocal(p)
    BY DEF Core, Locals
  <2>2. PushLocal(p)'
    BY <1>1, <1>2, <2>1 DEF Core, LocalTypeOK, PushLocal, High, Low, PushSteps, SearchSteps,
       sharedVars, nodeVars, Linked, Ends
  <2>3. PopLocal(p)'
    BY <1>1, <1>2, <2>1, LinkedFacts DEF Core, LocalTypeOK, PopLocal, Follows, PopSteps,
       sharedVars, nodeVars, Linked, Ends
  <2>4. WalkLocal(p)'
    BY <1>1, <1>2, <2>1 DEF Core, LocalTypeOK, WalkLocal, sharedVars, nodeVars, Linked, Ends
  <2> QED
    BY <2>2, <2>3, <2>4
<1> QED
  BY <1>1, <1>2, <1>3, <1>4, <1>5, <1>6, LocalStep

LEMMA PopWalkEndKeeps ==
    ASSUME Core, NEW p \in Procs, PopWalkEnd(p)
    PROVE  Core' /\ Step(p)
<1>1. /\ pc[p] = "walk" /\ pc' = [pc EXCEPT ![p] = AfterUnlink(p, lev[p])]
      /\ lev' = [lev EXCEPT ![p] = lev[p] + 1]
      /\ UNCHANGED <<want, tall, up, pred, curr, preds, succs, node, succ>>
      /\ UNCHANGED sharedVars
  BY DEF PopWalkEnd, Goto, Set, Within
<1>2. /\ lev[p] + 1 \in 0 .. MaxLevel
      /\ \/ AfterUnlink(p, lev[p]) = "walkHead" /\ lev[p] + 1 \in Above
         \/ AfterUnlink(p, lev[p]) = "uncount"
  BY <1>1, NextLevel DEF PopSteps
<1>3. LocalTypeOK'
  BY <1>1, <1>2 DEF Core, LocalTypeOK, PushSteps, PopSteps, PeekSteps, ClearSteps
<1>4. \A q \in Procs \ {p} : Same(q)
  BY <1>1 DEF Core, LocalTypeOK, Same
<1>5. p \in Pushing' => p \in Pushing
  BY <1>1, <1>2 DEF Core, LocalTypeOK, Pushing, PushSteps
<1>6. PushLocal(p)' /\ PopLocal(p)' /\ WalkLocal(p)'
  <2>1. PushLocal(p) /\ PopLocal(p) /\ WalkLocal(p)
    BY DEF Core, Locals
  <2>2. PushLocal(p)'
    BY <1>1, <1>2, <2>1 DEF Core, LocalTypeOK, PushLocal, High, Low, PushSteps, SearchSteps,
       sharedVars, nodeVars, Linked, Ends
  <2>3. PopLocal(p)'
    BY <1>1, <1>2, <2>1, LinkedFacts DEF Core, LocalTypeOK, PopLocal, Follows, PopSteps,
       sharedVars, nodeVars, Linked, Ends
  <2>4. WalkLocal(p)'
    BY <1>1, <1>2, <2>1 DEF Core, LocalTypeOK, WalkLocal, sharedVars, nodeVars, Linked, Ends
  <2> QED
    BY <2>2, <2>3, <2>4
<1> QED
  BY <1>1, <1>2, <1>3, <1>4, <1>5, <1>6, LocalStep

LEMMA PopWalkFoundKeeps ==
    ASSUME Core, NEW p \in Procs, PopWalkFound(p)
    PROVE  Core' /\ Step(p)
<1>1. /\ pc[p] = "walk" /\ pc' = [pc EXCEPT ![p] = "unlinkUp"]
      /\ succ' = [succ EXCEPT ![p] = next[lev[p]][node[p]]]
      /\ UNCHANGED <<want, tall, lev, up, pred, curr, preds, succs, node>>
      /\ UNCHANGED sharedVars
  BY DEF PopWalkFound, Goto, Set, Within, searchVars
<1>2. next[lev[p]][node[p]] \in Ends /\ next[lev[p]][node[p]] \in Pointers
      /\ Follows(next[lev[p]][node[p]], node[p])
  <2>1. lev[p] \in Levels /\ node[p] \in Linked
    BY <1>1, LevelFacts DEF Core, Locals, PopLocal, PopSteps
  <2> QED
    BY <2>1, NextFacts, LinkedFacts DEF Core
<1>3. LocalTypeOK'
  BY <1>1, <1>2 DEF Core, LocalTypeOK, PushSteps, PopSteps, PeekSteps, ClearSteps
<1>4. \A q \in Procs \ {p} : Same(q)
  BY <1>1 DEF Core, LocalTypeOK, Same
<1>5. p \in Pushing' => p \in Pushing
  BY <1>1, <1>2 DEF Core, LocalTypeOK, Pushing, PushSteps
<1>6. PushLocal(p)' /\ PopLocal(p)' /\ WalkLocal(p)'
  <2>1. PushLocal(p) /\ PopLocal(p) /\ WalkLocal(p)
    BY DEF Core, Locals
  <2>2. PushLocal(p)'
    BY <1>1, <1>2, <2>1 DEF Core, LocalTypeOK, PushLocal, High, Low, PushSteps, SearchSteps,
       sharedVars, nodeVars, Linked, Ends
  <2>3. PopLocal(p)'
    BY <1>1, <1>2, <2>1, LinkedFacts DEF Core, LocalTypeOK, PopLocal, Follows, PopSteps,
       sharedVars, nodeVars, Linked, Ends
  <2>4. WalkLocal(p)'
    BY <1>1, <1>2, <2>1 DEF Core, LocalTypeOK, WalkLocal, sharedVars, nodeVars, Linked, Ends
  <2> QED
    BY <2>2, <2>3, <2>4
<1> QED
  BY <1>1, <1>2, <1>3, <1>4, <1>5, <1>6, LocalStep
-----------------------------------------------------------------------------
(* The steps that change what is shared.                                    *)

\* Only Push at level 0 changes the pointer of a node there, and only when it
\* links its own.
LEMMA PointerStep ==
    ASSUME Core, UNCHANGED <<prio, height, marked, size, maxLevel, count>>,
           next' \in [Levels -> [{Head} \cup Nodes -> Pointers]],
           \A l \in Levels, x \in {Head} \cup Nodes :
              \/ next'[l][x] = next[l][x]
              \/ /\ x \in {Head} \cup Linked /\ next'[l][x] \in Ends
                 /\ x # Head => l # 0 /\ Follows(next'[l][x], x)
    PROVE  SharedTypeOK' /\ Sorted' /\ Fresh' /\ Grows
<1>1. SharedTypeOK'
  BY DEF Core, SharedTypeOK
<1>2. Linked' = Linked /\ Linked \subseteq Nodes /\ Head \notin Linked
  BY LinkedFacts DEF Core, Linked
<1>3. Grows
  BY <1>2 DEF Grows
<1>4. Sorted'
  BY <1>2, LevelFacts DEF Core, Sorted, Ends, Follows
<1>5. Fresh'
  <2>1. \A x \in Nodes : x > size => x \notin Linked /\ x # Head
    BY PriorityQueueAssumption, LevelFacts
       DEF PriorityQueueAssumption, Core, SharedTypeOK, Linked, Nodes
  <2> QED
    BY <2>1 DEF Core, Fresh
<1> QED
  BY <1>1, <1>3, <1>4, <1>5

\* A node is marked.
LEMMA MarkStep ==
    ASSUME Core, NEW x \in Linked, marked' = [marked EXCEPT ![x] = TRUE],
           UNCHANGED <<next, prio, height, size, maxLevel, count>>
    PROVE  SharedTypeOK' /\ Sorted' /\ Fresh' /\ Grows
<1>1. SharedTypeOK'
  BY DEF Core, SharedTypeOK
<1>2. Linked' = Linked /\ Linked \subseteq Nodes
  BY LinkedFacts DEF Core, Linked
<1>3. \A y \in Nodes : marked'[y] = (marked[y] \/ y = x)
  BY DEF Core, SharedTypeOK
<1>4. Grows
  BY <1>2, <1>3 DEF Grows
<1>5. Sorted'
  BY <1>2 DEF Core, Sorted
<1>6. Fresh'
  <2>1. x \in Nodes /\ ~(x > size)
    BY <1>2, PriorityQueueAssumption DEF PriorityQueueAssumption, Core, SharedTypeOK, Linked
  <2> QED
    BY <1>3, <2>1 DEF Core, Fresh
<1> QED
  BY <1>1, <1>4, <1>5, <1>6

LEMMA PopMarkKeeps ==
    ASSUME Core, NEW p \in Procs, PopMark(p)
    PROVE  Core' /\ Step(p)
<1>1. /\ pc[p] = "mark" /\ (pc' = [pc EXCEPT ![p] = "next"] \/ pc' = [pc EXCEPT ![p] = "first"])
      /\ UNCHANGED <<want, tall, lev, up, pred, curr, preds, succs, node, succ>>
      /\ UNCHANGED <<next, prio, height, size, maxLevel, count>>
  BY DEF PopMark, Goto, Within, Quiet, searchVars, sharedVars
<1>2. /\ SharedTypeOK' /\ Sorted' /\ Fresh' /\ Grows
      /\ pc'[p] = "next" => marked'[node[p]]
  <2>1. node[p] \in Linked /\ node[p] \in Nodes
    BY <1>1, LinkedFacts DEF Core, Locals, PopLocal, PopSteps
  <2>2. CASE marked' = [marked EXCEPT ![node[p]] = TRUE]
    <3>1. marked'[node[p]]
      BY <2>1, <2>2 DEF Core, SharedTypeOK
    <3> QED
      BY <1>1, <2>1, <2>2, <3>1, MarkStep
  <2>3. CASE pc' = [pc EXCEPT ![p] = "first"] /\ marked' = marked
    <3>1. pc'[p] # "next"
      BY <2>3 DEF Core, LocalTypeOK
    <3> QED
      BY <1>1, <2>3, <3>1 DEF Core, SharedTypeOK, Sorted, Fresh, Grows, Linked
  <2> QED
    BY <2>2, <2>3 DEF PopMark, Set, Goto, Quiet, sharedVars
<1>3. LocalTypeOK'
  BY <1>1, <1>2 DEF Core, LocalTypeOK, PushSteps, PopSteps, PeekSteps, ClearSteps
<1>4. \A q \in Procs \ {p} : Same(q)
  BY <1>1 DEF Core, LocalTypeOK, Same
<1>5. p \in Pushing' => p \in Pushing
  BY <1>1, <1>2 DEF Core, LocalTypeOK, Pushing, PushSteps
<1>6. PushLocal(p)' /\ PopLocal(p)' /\ WalkLocal(p)'
  <2>1. PushLocal(p) /\ PopLocal(p) /\ WalkLocal(p)
    BY DEF Core, Locals
  <2>2. PushLocal(p)'
    BY <1>1, <1>2, <2>1 DEF Core, LocalTypeOK, PushLocal, High, Low, PushSteps, SearchSteps,
       sharedVars, nodeVars, Linked, Ends
  <2>3. PopLocal(p)'
    BY <1>1, <1>2, <2>1, LinkedFacts DEF Core, LocalTypeOK, PopLocal, Follows, PopSteps,
       sharedVars, nodeVars, Linked, Ends
  <2>4. WalkLocal(p)'
    BY <1>1, <1>2, <2>1 DEF Core, LocalTypeOK, WalkLocal, sharedVars, nodeVars, Linked, Ends
  <2> QED
    BY <2>2, <2>3, <2>4
<1> QED
  BY <1>1, <1>2, <1>3, <1>4, <1>5, <1>6, OwnStep

LEMMA PushCountKeeps ==
    ASSUME Core, NEW p \in Procs, PushCount(p)
    PROVE  Core' /\ Step(p)
<1>1. /\ pc[p] = "count" /\ pc' = [pc EXCEPT ![p] = "raise"]
      /\ UNCHANGED <<want, tall, lev, up, pred, curr, preds, succs, node, succ>>
      /\ UNCHANGED nodeVars /\ maxLevel' = maxLevel /\ count' = count + 1
  BY DEF PushCount, Goto, Within, searchVars
<1>2. SharedTypeOK'
  <2>1. count' \in Int
    BY <1>1 DEF Core, SharedTypeOK
  <2> QED
    BY <1>1, <2>1 DEF nodeVars, Core, SharedTypeOK
<1>3. LocalTypeOK'
  BY <1>1 DEF Core, LocalTypeOK, PushSteps, PopSteps, PeekSteps, ClearSteps
<1>4. \A q \in Procs \ {p} : Same(q)
  BY <1>1 DEF Core, LocalTypeOK, Same
<1>5. p \in Pushing' => p \in Pushing
  BY <1>1 DEF Core, LocalTypeOK, Pushing, PushSteps
<1>6. PushLocal(p)' /\ PopLocal(p)' /\ WalkLocal(p)'
  <2>1. PushLocal(p) /\ PopLocal(p) /\ WalkLocal(p)
    BY DEF Core, Locals
  <2>2. PushLocal(p)'
    BY <1>1, <2>1 DEF Core, LocalTypeOK, PushLocal, High, Low, PushSteps, SearchSteps,
       sharedVars, nodeVars, Linked, Ends
  <2>3. PopLocal(p)'
    BY <1>1, <2>1, LinkedFacts DEF Core, LocalTypeOK, PopLocal, Follows, PopSteps,
       sharedVars, nodeVars, Linked, Ends
  <2>4. WalkLocal(p)'
    BY <1>1, <2>1 DEF Core, LocalTypeOK, WalkLocal, sharedVars, nodeVars, Linked, Ends
  <2> QED
    BY <2>2, <2>3, <2>4
<1> QED
  BY <1>1, <1>2, <1>3, <1>4, <1>5, <1>6, QuietStep

LEMMA PopUnlinkKeeps ==
    ASSUME Core, NEW p \in Procs, PopUnlink(p)
    PROVE  Core' /\ Step(p)
<1>1. /\ pc[p] = "unlink" /\ pc' = [pc EXCEPT ![p] = AfterUnlink(p, 0)]
      /\ next' = [next EXCEPT ![0][Head] = IF @ = node[p] THEN succ[p] ELSE @]
      /\ lev' = [lev EXCEPT ![p] = 1]
      /\ UNCHANGED <<want, tall, up, pred, curr, preds, succs, node, succ>>
      /\ UNCHANGED <<prio, height, marked, size, maxLevel, count>>
  BY DEF PopUnlink, Goto, Set, Within, CASNext
<1>2. /\ 1 \in 0 .. MaxLevel
      /\ \/ AfterUnlink(p, 0) = "walkHead" /\ 1 \in Above
         \/ AfterUnlink(p, 0) = "uncount"
  <2>1. node[p] \in Nodes
    BY <1>1, LinkedFacts DEF Core, Locals, PopLocal, PopSteps
  <2> QED
    BY <2>1, PriorityQueueAssumption
       DEF PriorityQueueAssumption, Core, SharedTypeOK, AfterUnlink, Above
<1>7. SharedTypeOK' /\ Sorted' /\ Fresh' /\ Grows
  <2>1. succ[p] \in Ends /\ succ[p] \in Pointers
    BY <1>1, LinkedFacts DEF Core, Locals, PopLocal, Follows, Ends, LocalTypeOK
  <2> QED
    BY <1>1, <2>1, LevelFacts, PointerStep DEF Core, SharedTypeOK
<1>3. LocalTypeOK'
  BY <1>1, <1>2 DEF Core, LocalTypeOK, PushSteps, PopSteps, PeekSteps, ClearSteps
<1>4. \A q \in Procs \ {p} : Same(q)
  BY <1>1 DEF Core, LocalTypeOK, Same
<1>5. p \in Pushing' => p \in Pushing
  BY <1>1, <1>2 DEF Core, LocalTypeOK, Pushing, PushSteps
<1>6. PushLocal(p)' /\ PopLocal(p)' /\ WalkLocal(p)'
  <2>1. PushLocal(p) /\ PopLocal(p) /\ WalkLocal(p)
    BY DEF Core, Locals
  <2>2. PushLocal(p)'
    BY <1>1, <1>2, <2>1 DEF Core, LocalTypeOK, PushLocal, High, Low, PushSteps, SearchSteps,
       sharedVars, nodeVars, Linked, Ends
  <2>3. PopLocal(p)'
    BY <1>1, <1>2, <2>1, LinkedFacts DEF Core, LocalTypeOK, PopLocal, Follows, PopSteps,
       sharedVars, nodeVars, Linked, Ends
  <2>4. WalkLocal(p)'
    BY <1>1, <1>2, <2>1 DEF Core, LocalTypeOK, WalkLocal, sharedVars, nodeVars, Linked, Ends
  <2> QED
    BY <2>2, <2>3, <2>4
<1> QED
  BY <1>1, <1>2, <1>7, <1>3, <1>4, <1>5, <1>6, OwnStep

LEMMA PopUnlinkUpKeeps ==
    ASSUME Core, NEW p \in Procs, PopUnlinkUp(p)
    PROVE  Core' /\ Step(p)
<1>1. /\ pc[p] = "unlinkUp"
      /\ \/ /\ pc' = [pc EXCEPT ![p] = AfterUnlink(p, lev[p])]
            /\ lev' = [lev EXCEPT ![p] = lev[p] + 1]
         \/ pc' = [pc EXCEPT ![p] = "walkHead"] /\ lev' = lev
      /\ next' = [next EXCEPT ![lev[p]][pred[p]] = IF @ = node[p] THEN succ[p] ELSE @]
      /\ UNCHANGED <<want, tall, up, pred, curr, preds, succs, node, succ>>
      /\ UNCHANGED <<prio, height, marked, size, maxLevel, count>>
  BY DEF PopUnlinkUp, Goto, Set, Within, CASNext
<1>2. /\ lev[p] + 1 \in 0 .. MaxLevel /\ lev[p] \in Above
      /\ \/ AfterUnlink(p, lev[p]) = "walkHead" /\ lev[p] + 1 \in Above
         \/ AfterUnlink(p, lev[p]) = "uncount"
  BY <1>1, NextLevel DEF PopSteps
<1>7. SharedTypeOK' /\ Sorted' /\ Fresh' /\ Grows
  <2>1. /\ succ[p] \in Ends /\ succ[p] \in Pointers /\ Follows(succ[p], node[p])
        /\ pred[p] \in {Head} \cup Linked /\ node[p] \in Linked
    BY <1>1, LinkedFacts DEF Core, Locals, PopLocal, Follows, Ends, LocalTypeOK, PopSteps
  <2>2. /\ lev[p] \in Levels /\ lev[p] # 0 /\ Linked \subseteq Nodes /\ Head \notin Linked
        /\ pred[p] \in {Head} \cup Nodes
    BY <1>2, <2>1, LevelFacts, LinkedFacts, PriorityQueueAssumption
       DEF PriorityQueueAssumption, Core, Above
  <2>3. next[lev[p]][pred[p]] = node[p] /\ pred[p] # Head => Follows(succ[p], pred[p])
    <3>1. pred[p] # Head => Follows(next[lev[p]][pred[p]], pred[p])
      BY <2>1, <2>2, NextFacts
    <3>2. \A x \in Linked : prio[x] \in Int
      BY <2>2 DEF Core, SharedTypeOK
    <3> QED
      BY <2>1, <2>2, <3>1, <3>2, LinkedFacts DEF Core, Follows
  <2>4. \A l \in Levels, x \in {Head} \cup Nodes :
            next'[l][x] = IF l = lev[p] /\ x = pred[p] /\ next[l][x] = node[p] THEN succ[p]
                          ELSE next[l][x]
    BY <1>1, <2>2 DEF Core, SharedTypeOK
  <2>5. next' \in [Levels -> [{Head} \cup Nodes -> Pointers]]
    BY <1>1, <2>1, <2>2 DEF Core, SharedTypeOK
  <2> QED
    BY <1>1, <2>1, <2>2, <2>3, <2>4, <2>5, PointerStep
<1>3. LocalTypeOK'
  BY <1>1, <1>2 DEF Core, LocalTypeOK, PushSteps, PopSteps, PeekSteps, ClearSteps
<1>4. \A q \in Procs \ {p} : Same(q)
  BY <1>1 DEF Core, LocalTypeOK, Same
<1>5. p \in Pushing' => p \in Pushing
  BY <1>1, <1>2 DEF Core, LocalTypeOK, Pushing, PushSteps
<1>6. PushLocal(p)' /\ PopLocal(p)' /\ WalkLocal(p)'
  <2>1. PushLocal(p) /\ PopLocal(p) /\ WalkLocal(p)
    BY DEF Core, Locals
  <2>2. PushLocal(p)'
    BY <1>1, <1>2, <2>1 DEF Core, LocalTypeOK, PushLocal, High, Low, PushSteps, SearchSteps,
       sharedVars, nodeVars, Linked, Ends
  <2>3. PopLocal(p)'
    BY <1>1, <1>2, <2>1, LinkedFacts DEF Core, LocalTypeOK, PopLocal, Follows, PopSteps,
       sharedVars, nodeVars, Linked, Ends
  <2>4. WalkLocal(p)'
    BY <1>1, <1>2, <2>1 DEF Core, LocalTypeOK, WalkLocal, sharedVars, nodeVars, Linked, Ends
  <2> QED
    BY <2>2, <2>3, <2>4
<1> QED
  BY <1>1, <1>2, <1>7, <1>3, <1>4, <1>5, <1>6, OwnStep

LEMMA ClearMarkKeeps ==
    ASSUME Core, NEW p \in Procs, ClearMark(p)
    PROVE  Core' /\ Step(p)
<1>1. /\ pc[p] = "clearMark" /\ pc' = [pc EXCEPT ![p] = "clearNext"]
      /\ marked' = [marked EXCEPT ![curr[p]] = TRUE]
      /\ UNCHANGED <<want, tall, lev, up, pred, curr, preds, succs, node, succ>>
      /\ UNCHANGED <<next, prio, height, size, maxLevel, count>>
  BY DEF ClearMark, Goto, Set, Within, searchVars
<1>2. curr[p] \in Linked
  BY <1>1 DEF Core, Locals, WalkLocal, ClearMark, Ends
<1>7. SharedTypeOK' /\ Sorted' /\ Fresh' /\ Grows
  BY <1>1, <1>2, MarkStep
<1>3. LocalTypeOK'
  BY <1>1, <1>2 DEF Core, LocalTypeOK, PushSteps, PopSteps, PeekSteps, ClearSteps
<1>4. \A q \in Procs \ {p} : Same(q)
  BY <1>1 DEF Core, LocalTypeOK, Same
<1>5. p \in Pushing' => p \in Pushing
  BY <1>1, <1>2 DEF Core, LocalTypeOK, Pushing, PushSteps
<1>6. PushLocal(p)' /\ PopLocal(p)' /\ WalkLocal(p)'
  <2>1. PushLocal(p) /\ PopLocal(p) /\ WalkLocal(p)
    BY DEF Core, Locals
  <2>2. PushLocal(p)'
    BY <1>1, <1>2, <2>1 DEF Core, LocalTypeOK, PushLocal, High, Low, PushSteps, SearchSteps,
       sharedVars, nodeVars, Linked, Ends
  <2>3. PopLocal(p)'
    BY <1>1, <1>2, <2>1, LinkedFacts DEF Core, LocalTypeOK, PopLocal, Follows, PopSteps,
       sharedVars, nodeVars, Linked, Ends
  <2>4. WalkLocal(p)'
    BY <1>1, <1>2, <2>1 DEF Core, LocalTypeOK, WalkLocal, sharedVars, nodeVars, Linked, Ends
  <2> QED
    BY <2>2, <2>3, <2>4
<1> QED
  BY <1>1, <1>2, <1>7, <1>3, <1>4, <1>5, <1>6, OwnStep

LEMMA ClearHeadKeeps ==
    ASSUME Core, NEW p \in Procs, ClearHead(p)
    PROVE  Core' /\ Step(p)
<1>1. /\ pc[p] \in {"clearHead", "clearMark"}
      /\ pc' = [pc EXCEPT ![p] = IF lev[p] + 1 < MaxLevel THEN "clearHead" ELSE "clearCount"]
      /\ next' = [next EXCEPT ![lev[p]][Head] = Nil]
      /\ lev' = [lev EXCEPT ![p] = lev[p] + 1]
      /\ UNCHANGED <<want, tall, up, pred, curr, preds, succs, node, succ>>
      /\ UNCHANGED <<prio, height, marked, size, maxLevel, count>>
  BY DEF ClearHead, Goto, Set, Within
<1>2. /\ lev[p] \in Levels /\ lev[p] + 1 \in 0 .. MaxLevel
      /\ lev[p] + 1 < MaxLevel => lev[p] + 1 \in Levels
  <2>1. lev[p] \in Levels
    BY <1>1, LevelFacts DEF Core, Locals, WalkLocal
  <2> QED
    BY <2>1, PriorityQueueAssumption DEF PriorityQueueAssumption, Levels
<1>7. SharedTypeOK' /\ Sorted' /\ Fresh' /\ Grows
  <2>1. Nil \in Ends /\ Nil \in Pointers
    BY DEF Ends, Pointers
  <2> QED
    BY <1>1, <1>2, <2>1, PointerStep DEF Core, SharedTypeOK
<1>3. LocalTypeOK'
  BY <1>1, <1>2 DEF Core, LocalTypeOK, PushSteps, PopSteps, PeekSteps, ClearSteps
<1>4. \A q \in Procs \ {p} : Same(q)
  BY <1>1 DEF Core, LocalTypeOK, Same
<1>5. p \in Pushing' => p \in Pushing
  BY <1>1, <1>2 DEF Core, LocalTypeOK, Pushing, PushSteps
<1>6. PushLocal(p)' /\ PopLocal(p)' /\ WalkLocal(p)'
  <2>1. PushLocal(p) /\ PopLocal(p) /\ WalkLocal(p)
    BY DEF Core, Locals
  <2>2. PushLocal(p)'
    BY <1>1, <1>2, <2>1 DEF Core, LocalTypeOK, PushLocal, High, Low, PushSteps, SearchSteps,
       sharedVars, nodeVars, Linked, Ends
  <2>3. PopLocal(p)'
    BY <1>1, <1>2, <2>1, LinkedFacts DEF Core, LocalTypeOK, PopLocal, Follows, PopSteps,
       sharedVars, nodeVars, Linked, Ends
  <2>4. WalkLocal(p)'
    BY <1>1, <1>2, <2>1 DEF Core, LocalTypeOK, WalkLocal, sharedVars, nodeVars, Linked, Ends
  <2> QED
    BY <2>2, <2>3, <2>4
<1> QED
  BY <1>1, <1>2, <1>7, <1>3, <1>4, <1>5, <1>6, OwnStep
-----------------------------------------------------------------------------
(* Push links its node.                                                     *)

\* The compare-and-swap of level 0 succeeds: what it does.
Links(p, x) ==
    /\ pc[p] = "scan" /\ pc' = [pc EXCEPT ![p] = AfterLevel(p, 0)]
    /\ lev[p] = 0 /\ up[p] = 0 /\ x = size + 1
    /\ High(p, pred[p]) /\ Low(p, curr[p]) /\ next[0][pred[p]] = curr[p]
    /\ next' = [next EXCEPT ![0] = [next[0] EXCEPT ![pred[p]] = x, ![x] = curr[p]]]
    /\ prio' = [prio EXCEPT ![x] = want[p]] /\ height' = [height EXCEPT ![x] = tall[p]]
    /\ size' = x
    /\ node' = [node EXCEPT ![p] = x] /\ up' = [up EXCEPT ![p] = 1]
    /\ UNCHANGED <<marked, maxLevel, count, want, tall, lev, pred, curr, preds, succs, succ>>

LEMMA PushLinkDoes ==
    ASSUME Core, NEW p \in Procs, PushLink(p)
    PROVE  \/ Links(p, size + 1)
           \/ /\ pc[p] = "scan" /\ pc' = [pc EXCEPT ![p] = "max"]
              /\ UNCHANGED <<want, tall, lev, up, pred, curr, preds, succs, node, succ>>
              /\ UNCHANGED sharedVars
<1>1. pc[p] = "scan" /\ Placed(p) /\ lev[p] = 0 /\ up[p] = 0
  BY DEF PushLink, Placed
<1>2. High(p, pred[p]) /\ Low(p, curr[p])
  BY <1>1 DEF Core, Locals, PushLocal, Placed, Low, Ends
<1>3. CASE next[0][pred[p]] = curr[p]
  BY <1>1, <1>2, <1>3 DEF PushLink, Goto, LinkNode, Set, Within, Links
<1>4. CASE next[0][pred[p]] # curr[p]
  BY <1>1, <1>4 DEF PushLink, Goto, Quiet, Within, searchVars
<1> QED
  BY <1>3, <1>4

LEMMA LinkFacts ==
    ASSUME Core, NEW p \in Procs, NEW x, Links(p, x)
    PROVE  /\ x \in Nodes /\ x \notin Linked /\ Linked' = Linked \cup {x}
           /\ \A y \in Linked : y < x
           /\ pred[p] \in {Head} \cup Linked /\ curr[p] \in Ends
           /\ \A l \in Levels, z \in {Head} \cup Nodes :
                 next'[l][z] = IF l # 0 THEN next[l][z]
                               ELSE IF z = x THEN curr[p]
                               ELSE IF z = pred[p] THEN x ELSE next[l][z]
           /\ \A y \in Nodes : prio'[y] = IF y = x THEN want[p] ELSE prio[y]
<1>1. size + 1 <= MaxNodes
  <2>1. p \in Pushing
    BY DEF Links, Pushing, PushSteps
  <2>2. Cardinality(Pushing) # 0
    BY <2>1, PushingFinite, FS_EmptySet
  <2> QED
    BY <2>2, PushingFinite, PriorityQueueAssumption
       DEF PriorityQueueAssumption, Core, SharedTypeOK, Room
<1>2. size \in Nat /\ size' = size + 1 /\ x = size + 1
  BY PriorityQueueAssumption DEF PriorityQueueAssumption, Core, SharedTypeOK, Links
<1>3. x \in Nodes /\ x \notin Linked /\ Linked' = Linked \cup {x} /\ \A y \in Linked : y < x
  BY <1>1, <1>2, PriorityQueueAssumption DEF PriorityQueueAssumption, Nodes, Linked
<1>4. pred[p] \in {Head} \cup Linked /\ curr[p] \in Ends
  BY DEF Links, High, Low, Ends
<1>5. pred[p] \in {Head} \cup Nodes /\ pred[p] # x
  BY <1>3, <1>4, LinkedFacts, LevelFacts DEF Core
<1>6. \A l \in Levels, z \in {Head} \cup Nodes :
         next'[l][z] = IF l # 0 THEN next[l][z]
                       ELSE IF z = x THEN curr[p]
                       ELSE IF z = pred[p] THEN x ELSE next[l][z]
  BY <1>3, <1>5, LevelFacts DEF Core, SharedTypeOK, Links
<1>7. \A y \in Nodes : prio'[y] = IF y = x THEN want[p] ELSE prio[y]
  BY <1>3 DEF Core, SharedTypeOK, Links
<1> QED
  BY <1>3, <1>4, <1>6, <1>7

\* Its node has less priority than the one before and no less than the one
\* after; of equals it is the younger.
LEMMA LinkKeepsSorted ==
    ASSUME Core, NEW p \in Procs, NEW x, Links(p, x)
    PROVE  Sorted'
<1>1. want[p] \in Int /\ \A y \in Linked : prio[y] \in Int /\ y \in Nodes
  BY LinkedFacts DEF Core, SharedTypeOK, LocalTypeOK
<1>2. Nil \notin Linked' /\ Head \notin Linked' /\ x # Head
  BY LinkFacts, LinkedFacts, LevelFacts DEF Core
<1>3. \A l \in Levels : next'[l][Head] \in Linked' \cup {Nil}
  BY LinkFacts, <1>2, LevelFacts DEF Core, Sorted, Ends
<1>4. \A l \in Levels : l # 0 => next'[l][x] = Nil
  <2>1. x > size
    BY PriorityQueueAssumption DEF PriorityQueueAssumption, Links, Core, SharedTypeOK
  <2> QED
    BY <2>1, LinkFacts DEF Core, Fresh
<1>5. \A l \in Levels, y \in Linked' : next'[l][y] # Nil =>
         next'[l][y] \in Linked' /\ prio'[next'[l][y]] <= prio'[y]
  <2> SUFFICES ASSUME NEW l \in Levels, NEW y \in Linked', next'[l][y] # Nil
               PROVE  next'[l][y] \in Linked' /\ prio'[next'[l][y]] <= prio'[y]
    OBVIOUS
  <2>1. CASE y = x
    <3>1. l = 0 /\ next'[l][y] = curr[p] /\ curr[p] \in Linked
      BY <2>1, <1>4, LinkFacts DEF Ends
    <3>2. prio[curr[p]] <= want[p]
      BY <3>1, <1>2, LinkFacts DEF Links, Low
    <3> QED
      BY <2>1, <3>1, <3>2, <1>1, LinkFacts
  <2>2. CASE y # x /\ l = 0 /\ y = pred[p]
    <3>1. next'[l][y] = x /\ y \in Linked /\ y # Head
      BY <2>2, <1>1, <1>2, LinkFacts
    <3>2. prio[y] > want[p]
      BY <2>2, <3>1 DEF Links, High
    <3> QED
      BY <2>2, <3>1, <3>2, <1>1, LinkFacts
  <2>3. CASE y # x /\ ~(l = 0 /\ y = pred[p])
    <3>1. next'[l][y] = next[l][y] /\ y \in Linked
      BY <2>3, <1>1, LinkFacts
    <3>2. next[l][y] \in Linked /\ prio[next[l][y]] <= prio[y]
      BY <3>1 DEF Core, Sorted
    <3> QED
      BY <3>1, <3>2, <1>1, LinkFacts
  <2> QED
    BY <2>1, <2>2, <2>3
<1>6. \A y \in Linked' :
         next'[0][y] # Nil /\ prio'[next'[0][y]] = prio'[y] => next'[0][y] < y
  <2> SUFFICES ASSUME NEW y \in Linked', next'[0][y] # Nil, prio'[next'[0][y]] = prio'[y]
               PROVE  next'[0][y] < y
    OBVIOUS
  <2>1. CASE y = x
    BY <2>1, LinkFacts, LevelFacts DEF Ends
  <2>2. CASE y # x /\ y = pred[p]
    <3>1. next'[0][y] = x /\ y \in Linked /\ y # Head
      BY <2>2, <1>1, <1>2, LinkFacts, LevelFacts
    <3>2. prio[y] > want[p]
      BY <2>2, <3>1 DEF Links, High
    <3> QED
      BY <2>2, <3>1, <3>2, <1>1, LinkFacts
  <2>3. CASE y # x /\ y # pred[p]
    <3>1. next'[0][y] = next[0][y] /\ y \in Linked
      BY <2>3, <1>1, LinkFacts, LevelFacts
    <3>2. next[0][y] \in Linked
      BY <3>1, LevelFacts DEF Core, Sorted
    <3>3. prio[next[0][y]] = prio[y]
      BY <3>1, <3>2, <1>1, LinkFacts
    <3> QED
      BY <3>1, <3>2, <3>3 DEF Core, Sorted
  <2> QED
    BY <2>1, <2>2, <2>3
<1> QED
  BY <1>3, <1>5, <1>6 DEF Sorted

LEMMA LinkKeeps ==
    ASSUME Core, NEW p \in Procs, NEW x, Links(p, x)
    PROVE  Core' /\ Step(p)
<1>1. size \in Nat /\ x = size + 1 /\ size' = size + 1
  BY PriorityQueueAssumption DEF PriorityQueueAssumption, Core, SharedTypeOK, Links
<1>2. SharedTypeOK'
  <2>1. x \in Pointers /\ curr[p] \in Pointers /\ tall[p] \in 0 .. MaxLevel /\ want[p] \in Int
    BY LinkFacts DEF Core, LocalTypeOK, Pointers
  <2>2. next' \in [Levels -> [{Head} \cup Nodes -> Pointers]]
    BY <2>1, LevelFacts DEF Core, SharedTypeOK, Links
  <2>3. size' \in 0 .. MaxNodes
    BY <1>1, LinkFacts, PriorityQueueAssumption DEF PriorityQueueAssumption, Nodes
  <2>4. prio' \in [Nodes -> Int] /\ height' \in [Nodes -> 0 .. MaxLevel]
    BY <2>1 DEF Core, SharedTypeOK, Links
  <2> QED
    BY <2>2, <2>3, <2>4 DEF Core, SharedTypeOK, Links
<1>3. AfterLevel(p, 0) \in {"linkUp", "count"} /\ (AfterLevel(p, 0) = "linkUp" => 1 < tall[p])
  BY DEF AfterLevel
<1>4. LocalTypeOK'
  <2>1. 1 \in 0 .. MaxLevel /\ x \in Pointers
    BY LinkFacts, PriorityQueueAssumption DEF PriorityQueueAssumption, Pointers
  <2> QED
    BY <1>3, <2>1 DEF Core, LocalTypeOK, Links, PushSteps
<1>5. \A q \in Procs \ {p} : Same(q)
  BY DEF Core, LocalTypeOK, Links, Same
<1>6. Grows
  <2>1. \A y \in Linked : y # x /\ y \in Nodes
    BY LinkFacts, LinkedFacts DEF Core
  <2> QED
    BY ZenonT(40), <2>1, LinkFacts DEF Grows, Links
<1>7. Sorted'
  BY LinkKeepsSorted
<1>8. Fresh'
  <2> SUFFICES ASSUME NEW y \in Nodes, y > size'
               PROVE  ~marked'[y] /\ \A l \in Levels : next'[l][y] = Nil
    BY DEF Fresh
  <2>1. y > size /\ y # x /\ y \notin Linked
    BY <1>1 DEF Nodes, Linked
  <2>2. y # pred[p]
    BY <2>1, LinkFacts, LevelFacts
  <2>3. ~marked[y] /\ \A l \in Levels : next[l][y] = Nil
    BY <2>1 DEF Core, Fresh
  <2>4. \A l \in Levels : next'[l][y] = next[l][y]
    BY <2>1, <2>2, LinkFacts
  <2>5. marked' = marked
    BY DEF Links
  <2> QED
    BY <2>3, <2>4, <2>5
<1>9. Room'
  <2>1. Pushing' = Pushing \ {p} /\ p \in Pushing
    BY <1>3, <1>5 DEF Core, LocalTypeOK, Pushing, PushSteps, Same, Links
  <2>2. Cardinality(Pushing') = Cardinality(Pushing) - 1
    BY <2>1, PushingFinite, FS_RemoveElement
  <2> QED
    BY <1>1, <2>2, PushingFinite, PriorityQueueAssumption
       DEF PriorityQueueAssumption, Core, Room
<1>10. PushLocal(p)' /\ PopLocal(p)' /\ WalkLocal(p)'
  <2>1. PushLocal(p)
    BY DEF Core, Locals
  <2>2. /\ pc'[p] = AfterLevel(p, 0) /\ up'[p] = 1 /\ node'[p] = x
        /\ UNCHANGED <<want, tall, preds, succs>>
    BY DEF Core, LocalTypeOK, Links
  <2>3. \A l \in Above : preds'[p][l] # Nil => High(p, preds[p][l])' /\ Low(p, succs[p][l])'
    <3>1. \A y \in Linked : y \in Linked' /\ prio'[y] = prio[y]
      BY <1>6 DEF Grows
    <3> QED
      BY <2>1, <2>2, <3>1 DEF PushLocal, High, Low
  <2>4. node'[p] \in Linked' /\ prio'[node'[p]] = want'[p]
    BY <2>2, LinkFacts
  <2>5. PushLocal(p)'
    BY <1>3, <2>2, <2>3, <2>4 DEF PushLocal, PushSteps, SearchSteps
  <2>6. PopLocal(p)' /\ WalkLocal(p)'
    BY <1>3, <2>2 DEF PopLocal, WalkLocal, PopSteps
  <2> QED
    BY <2>5, <2>6
<1>11. Locals'
  BY <1>5, <1>6, <1>10, SameKeeps DEF Core, Locals
<1> QED
  BY <1>2, <1>4, <1>5, <1>6, <1>7, <1>8, <1>9, <1>11 DEF Core, Step

LEMMA PushLinkKeeps ==
    ASSUME Core, NEW p \in Procs, PushLink(p)
    PROVE  Core' /\ Step(p)
<1> SUFFICES ASSUME ~Links(p, size + 1) PROVE Core' /\ Step(p)
  BY LinkKeeps
<1>1. /\ pc[p] = "scan" /\ pc' = [pc EXCEPT ![p] = "max"]
      /\ UNCHANGED <<want, tall, lev, up, pred, curr, preds, succs, node, succ>>
      /\ UNCHANGED sharedVars
  BY PushLinkDoes
<1>3. LocalTypeOK'
  BY <1>1 DEF Core, LocalTypeOK, PushSteps, PopSteps, PeekSteps, ClearSteps
<1>4. \A q \in Procs \ {p} : Same(q)
  BY <1>1 DEF Core, LocalTypeOK, Same
<1>5. p \in Pushing' => p \in Pushing
  BY <1>1 DEF Core, LocalTypeOK, Pushing, PushSteps
<1>6. PushLocal(p)' /\ PopLocal(p)' /\ WalkLocal(p)'
  <2>1. PushLocal(p) /\ PopLocal(p) /\ WalkLocal(p)
    BY DEF Core, Locals
  <2>2. PushLocal(p)'
    BY <1>1, <2>1 DEF Core, LocalTypeOK, PushLocal, High, Low, PushSteps, SearchSteps,
       sharedVars, nodeVars, Linked, Ends
  <2>3. PopLocal(p)'
    BY <1>1, <2>1, LinkedFacts DEF Core, LocalTypeOK, PopLocal, Follows, PopSteps,
       sharedVars, nodeVars, Linked, Ends
  <2>4. WalkLocal(p)'
    BY <1>1, <2>1 DEF Core, LocalTypeOK, WalkLocal, sharedVars, nodeVars, Linked, Ends
  <2> QED
    BY <2>2, <2>3, <2>4
<1> QED
  BY <1>1, <1>3, <1>4, <1>5, <1>6, LocalStep

LEMMA PushLinkUpKeeps ==
    ASSUME Core, NEW p \in Procs, PushLinkUp(p)
    PROVE  Core' /\ Step(p)
<1>1. /\ pc[p] \in {"linkUp", "scan"} /\ up[p] > 0
      /\ UNCHANGED <<want, tall, lev, pred, curr, preds, succs, node, succ>>
      /\ UNCHANGED <<prio, height, marked, size, maxLevel, count>>
      /\ \/ pc' = [pc EXCEPT ![p] = "max"] /\ up' = up
         \/ /\ pc' = [pc EXCEPT ![p] = AfterLevel(p, up[p])]
            /\ up' = [up EXCEPT ![p] = up[p] + 1]
  BY DEF PushLinkUp, Placed, Goto, Set, Quiet, Within, searchVars, sharedVars
<1>2. /\ up[p] \in Above /\ up[p] + 1 \in 0 .. MaxLevel /\ up[p] + 1 > 0
      /\ AfterLevel(p, up[p]) \in {"linkUp", "count"}
      /\ AfterLevel(p, up[p]) = "linkUp" => up[p] + 1 < tall[p]
  <2>1. up[p] < tall[p] /\ tall[p] \in 0 .. MaxLevel /\ up[p] \in 0 .. MaxLevel
    BY <1>1 DEF Core, Locals, PushLocal, SearchSteps, LocalTypeOK
  <2> QED
    BY <1>1, <2>1, PriorityQueueAssumption DEF PriorityQueueAssumption, Above, AfterLevel
<1>7. SharedTypeOK' /\ Sorted' /\ Fresh' /\ Grows
  <2> DEFINE l == up[p]
             x == preds[p][l]
             s == succs[p][l]
             n == node[p]
  <2>1. CASE next' = next
    BY <1>1, <2>1 DEF Core, SharedTypeOK, Sorted, Fresh, Grows, Linked
  <2>2. CASE x # Nil /\ next' = [next EXCEPT ![l] = [next[l] EXCEPT ![x] = n, ![n] = s]]
    <3>1. High(p, x) /\ Low(p, s) /\ n \in Linked /\ prio[n] = want[p]
      BY <1>1, <1>2, <2>2 DEF Core, Locals, PushLocal
    <3>2. /\ x \in {Head} \cup Linked /\ s \in Ends /\ n \in Ends
          /\ x # Head => Follows(n, x)
          /\ Follows(s, n)
      <4>1. want[p] \in Int /\ \A y \in Linked : prio[y] \in Int
        BY LinkedFacts DEF Core, SharedTypeOK, LocalTypeOK
      <4> QED
        BY <3>1, <4>1 DEF High, Low, Follows, Ends
    <3>3. /\ l \in Levels /\ l # 0 /\ x \in {Head} \cup Nodes /\ n \in {Head} \cup Nodes
          /\ n \in Pointers /\ s \in Pointers /\ n # Head
      BY <1>1, <1>2, <3>1, <3>2, LinkedFacts, LevelFacts DEF Core, LocalTypeOK, Ends, Pointers
    <3>4. next' \in [Levels -> [{Head} \cup Nodes -> Pointers]]
      <4>1. [next[l] EXCEPT ![x] = n, ![n] = s] \in [{Head} \cup Nodes -> Pointers]
        BY <3>3 DEF Core, SharedTypeOK
      <4> QED
        BY <2>2, <4>1 DEF Core, SharedTypeOK
    <3>5. \A k \in Levels, z \in {Head} \cup Nodes :
             next'[k][z] = IF k # l THEN next[k][z] ELSE IF z = n THEN s
                           ELSE IF z = x THEN n ELSE next[k][z]
      BY <2>2, <3>3 DEF Core, SharedTypeOK
    <3> HIDE DEF l, x, s, n
    <3> QED
      BY <1>1, <3>1, <3>2, <3>3, <3>4, <3>5, PointerStep
  <2> QED
    BY <2>1, <2>2 DEF PushLinkUp, Quiet, sharedVars
<1>3. LocalTypeOK'
  BY <1>1, <1>2 DEF Core, LocalTypeOK, PushSteps, PopSteps, PeekSteps, ClearSteps
<1>4. \A q \in Procs \ {p} : Same(q)
  BY <1>1 DEF Core, LocalTypeOK, Same
<1>5. p \in Pushing' => p \in Pushing
  BY <1>1, <1>2 DEF Core, LocalTypeOK, Pushing, PushSteps
<1>6. PushLocal(p)' /\ PopLocal(p)' /\ WalkLocal(p)'
  <2>1. PushLocal(p) /\ PopLocal(p) /\ WalkLocal(p)
    BY DEF Core, Locals
  <2>2. PushLocal(p)'
    BY <1>1, <1>2, <2>1 DEF Core, LocalTypeOK, PushLocal, High, Low, PushSteps, SearchSteps,
       sharedVars, nodeVars, Linked, Ends
  <2>3. PopLocal(p)'
    BY <1>1, <1>2, <2>1, LinkedFacts DEF Core, LocalTypeOK, PopLocal, Follows, PopSteps,
       sharedVars, nodeVars, Linked, Ends
  <2>4. WalkLocal(p)'
    BY <1>1, <1>2, <2>1 DEF Core, LocalTypeOK, WalkLocal, sharedVars, nodeVars, Linked, Ends
  <2> QED
    BY <2>2, <2>3, <2>4
<1> QED
  BY <1>1, <1>2, <1>7, <1>3, <1>4, <1>5, <1>6, OwnStep
-----------------------------------------------------------------------------
(* Type correctness and order.                                              *)

LEMMA CoreInit == Init => Core
<1> SUFFICES ASSUME Init PROVE Core
  OBVIOUS
<1>1. Linked = {} /\ Pushing = {}
  BY DEF Init, Linked, Pushing, PushSteps
<1>2. SharedTypeOK
  BY PriorityQueueAssumption DEF PriorityQueueAssumption, Init, SharedTypeOK, Pointers
<1>3. LocalTypeOK
  BY PriorityQueueAssumption DEF PriorityQueueAssumption, Init, LocalTypeOK, Pointers
<1>4. Sorted /\ Fresh
  BY <1>1 DEF Init, Sorted, Fresh
<1>5. Room
  BY <1>1, FS_EmptySet, PriorityQueueAssumption DEF PriorityQueueAssumption, Init, Room
<1>6. Locals
  BY PriorityQueueAssumption DEF PriorityQueueAssumption, Init, Locals, PushLocal, PopLocal,
     WalkLocal, SearchSteps, PopSteps, PushSteps
<1> QED
  BY <1>2, <1>3, <1>4, <1>5, <1>6 DEF Core

LEMMA WorkKeeps ==
    ASSUME Core, NEW p \in Procs, Work(p)
    PROVE  Core' /\ Step(p)
<1>1. CASE Push(p)
  BY <1>1, SearchMaxKeeps, SearchEnterKeeps, SearchMarkKeeps, SearchStepKeeps, SearchDownKeeps,
     PushLinkKeeps, PushLinkUpKeeps, PushCountKeeps, ReturnsKeep DEF Push, Search
<1>2. CASE Pop(p)
  BY <1>2, PopFirstKeeps, PopMarkKeeps, PopNextKeeps, PopUnlinkKeeps, PopWalkHeadKeeps,
     PopWalkKeeps, PopWalkEndKeeps, PopWalkFoundKeeps, PopUnlinkUpKeeps, ReturnsKeep DEF Pop
<1>3. CASE Peek(p)
  BY <1>3, PeekFirstKeeps, PeekMarkedKeeps, PeekNextKeeps, ReturnsKeep DEF Peek
<1>4. CASE Clear(p)
  BY <1>4, ClearFirstKeeps, ClearMarkKeeps, ClearNextKeeps, ClearHeadKeeps, ReturnsKeep DEF Clear
<1> QED
  BY <1>1, <1>2, <1>3, <1>4 DEF Work

LEMMA CallOpKeeps ==
    ASSUME Core, NEW p \in Procs, CallOp(p)
    PROVE  Core' /\ Step(p)
BY PushCallKeeps, CallKeeps DEF CallOp, PopCall, PeekCall, ClearCall

\* Only calls change what says how operations overlap.
LEMMA WorkHistory ==
    ASSUME NEW p \in Procs, Work(p)
    PROVE  UNCHANGED <<clears, mixed>>
<1>1. CASE Push(p)
  BY <1>1 DEF Push, Search, SearchMax, SearchEnter, SearchMark, SearchStep, SearchDown, PushLink,
     LinkNode, PushLinkUp, PushCount, PushRaise, Return, Within, Quiet
<1>2. CASE Pop(p)
  BY <1>2 DEF Pop, PopFirst, PopMark, PopNext, PopUnlink, PopWalkHead, PopWalk, PopWalkEnd,
     PopWalkFound, PopUnlinkUp, PopUncount, Return, Within, Quiet
<1>3. CASE Peek(p)
  BY <1>3 DEF Peek, PeekFirst, PeekMarked, PeekNext, PeekEnd, Return, Within, Quiet
<1>4. CASE Clear(p)
  BY <1>4 DEF Clear, ClearFirst, ClearMark, ClearNext, ClearHead, ClearCount, Return, Within,
     Quiet
<1> QED
  BY <1>1, <1>2, <1>3, <1>4 DEF Work

LEMMA HistoryKeeps ==
    ASSUME HistoryTypeOK, Core, Core', NEW p \in Procs, CallOp(p) \/ Work(p), Record
    PROVE  HistoryTypeOK'
<1>1. mixed' \in BOOLEAN
  <2>1. CASE Work(p)
    BY <2>1, WorkHistory DEF HistoryTypeOK
  <2>2. CASE CallOp(p)
    <3>1. PICK first : mixed' = (mixed \/ Mixes(first))
      BY <2>2 DEF CallOp, PushCall, PopCall, PeekCall, ClearCall, Call
    <3> QED
      BY <3>1
  <2> QED
    BY <2>1, <2>2
<1>2. clears' \in 0 .. MaxClears
  <2>1. clears' = clears \/ (clears < MaxClears /\ clears' = clears + 1)
    BY WorkHistory DEF CallOp, PushCall, PopCall, PeekCall, ClearCall
  <2> QED
    BY <2>1, PriorityQueueAssumption DEF PriorityQueueAssumption, HistoryTypeOK
<1>3. Highest' \subseteq Pointers
  <2>1. Linked' \subseteq Nodes
    BY PriorityQueueAssumption DEF PriorityQueueAssumption, Core, SharedTypeOK, Linked, Nodes
  <2> QED
    BY <2>1 DEF Highest, InList, From, Pointers
<1>4. fronts' \in [Procs -> SUBSET Pointers]
  <2>1. \A q \in Procs : (IF Popping(q)' THEN fronts[q] \cup Highest' ELSE {}) \in SUBSET Pointers
    BY <1>3 DEF HistoryTypeOK
  <2> QED
    BY <2>1 DEF Record
<1> QED
  BY <1>1, <1>2, <1>4 DEF HistoryTypeOK

LEMMA Invariance == Spec => []IInv
<1>1. Init => IInv
  <2>1. Init => HistoryTypeOK
    <3> SUFFICES ASSUME Init PROVE HistoryTypeOK
      OBVIOUS
    <3>1. clears \in 0 .. MaxClears
      BY PriorityQueueAssumption DEF PriorityQueueAssumption, Init
    <3>2. mixed \in BOOLEAN
      BY Zenon DEF Init
    <3>3. fronts \in [Procs -> SUBSET Pointers]
      BY DEF Init
    <3> QED
      BY <3>1, <3>2, <3>3 DEF HistoryTypeOK
  <2> QED
    BY <2>1, CoreInit DEF IInv
<1>2. IInv /\ [Next]_vars => IInv'
  <2> SUFFICES ASSUME IInv, [Next]_vars PROVE IInv'
    OBVIOUS
  <2>1. CASE Next
    BY <2>1, WorkKeeps, CallOpKeeps, HistoryKeeps DEF Next, IInv
  <2>2. CASE UNCHANGED vars
    <3>1. UNCHANGED nodeVars /\ UNCHANGED <<maxLevel, count, pc, clears, mixed, fronts>>
          /\ UNCHANGED localVars
      BY <2>2 DEF vars, sharedVars, nodeVars
    <3>2. SharedTypeOK' /\ LocalTypeOK' /\ HistoryTypeOK'
      BY <3>1 DEF nodeVars, localVars, IInv, Core, SharedTypeOK, LocalTypeOK, HistoryTypeOK
    <3>3. Sorted' /\ Fresh' /\ Room'
      BY <3>1 DEF nodeVars, localVars, IInv, Core, Sorted, Fresh, Room, Linked, Pushing
    <3>4. Locals'
      BY <3>1 DEF nodeVars, localVars, IInv, Core, Locals, PushLocal, PopLocal, WalkLocal, High,
         Low, Follows, Ends, Linked
    <3> QED
      BY <3>2, <3>3, <3>4 DEF IInv, Core
  <2> QED
    BY <2>1, <2>2
<1> QED
  BY <1>1, <1>2, PTL DEF Spec

\* Whatever Pushes, Pops, Peeks and Clears (pkg/ds/lockfree/priority_queue.go)
\* do at the same time, no level leads from a node to one of higher priority.
THEOREM ListStaysSorted == Spec => []ListSorted
<1>1. IInv => ListSorted
  BY DEF IInv, Core, ListSorted, TypeOK
<1> QED
  BY <1>1, Invariance, PTL
-----------------------------------------------------------------------------
(* Which steps lead where.                                                  *)

\* A call that has begun goes on with its own steps until it returns.
LEMMA PushGoesOn ==
    ASSUME LocalTypeOK, NEW p \in Procs, Push(p)
    PROVE  pc[p] \in PushSteps /\ pc'[p] \in PushSteps \cup {"idle"}
<1>1. pc[p] \in PushSteps
  BY DEF Push, Search, SearchMax, SearchEnter, SearchMark, SearchStep, SearchDown, PushLink,
     PushLinkUp, PushCount, PushRaise, Return, Goto, Passed, Placed, PushSteps
<1>2. CASE Search(p)
  BY <1>2 DEF LocalTypeOK, Search, SearchMax, SearchEnter, SearchMark, SearchStep, SearchDown,
     Goto, PushSteps
<1>3. CASE PushLink(p)
  BY <1>3 DEF LocalTypeOK, PushLink, AfterLevel, Goto, PushSteps
<1>4. CASE PushLinkUp(p)
  <2>1. pc' = [pc EXCEPT ![p] = "max"] \/ pc' = [pc EXCEPT ![p] = AfterLevel(p, up[p])]
    BY <1>4 DEF PushLinkUp, Goto
  <2> QED
    BY <1>1, <2>1 DEF LocalTypeOK, AfterLevel, PushSteps
<1>5. CASE PushCount(p) \/ PushRaise(p)
  BY <1>5 DEF LocalTypeOK, PushCount, PushRaise, Return, Goto, PushSteps
<1> QED
  BY <1>1, <1>2, <1>3, <1>4, <1>5 DEF Push

LEMMA PopGoesOn ==
    ASSUME LocalTypeOK, NEW p \in Procs, Pop(p)
    PROVE  /\ pc[p] \in PopSteps /\ pc'[p] \in PopSteps \cup {"idle"}
           /\ pc'[p] = "mark" => PopFirst(p)
           /\ pc'[p] = "first" => pc[p] = "mark"
           /\ pc[p] = "mark" => PopMark(p)
           /\ pc[p] = "first" => PopFirst(p)
<1>1. CASE PopFirst(p)
  BY <1>1 DEF LocalTypeOK, PopFirst, Return, Goto, PopSteps
<1>2. CASE PopMark(p)
  BY <1>2 DEF LocalTypeOK, PopMark, Goto, PopSteps
<1>3. CASE PopNext(p) \/ PopUnlink(p) \/ PopWalkHead(p) \/ PopWalk(p)
  BY <1>3 DEF LocalTypeOK, PopNext, PopUnlink, PopWalkHead, PopWalk, AfterUnlink, Goto, PopSteps
<1>4. CASE PopWalkEnd(p) \/ PopWalkFound(p) \/ PopUnlinkUp(p) \/ PopUncount(p)
  BY <1>4 DEF LocalTypeOK, PopWalkEnd, PopWalkFound, PopUnlinkUp, PopUncount, AfterUnlink, Return,
     Goto, PopSteps
<1> QED
  BY <1>1, <1>2, <1>3, <1>4 DEF Pop

LEMMA PeekGoesOn ==
    ASSUME LocalTypeOK, NEW p \in Procs, Peek(p)
    PROVE  /\ pc[p] \in PeekSteps /\ pc'[p] \in PeekSteps \cup {"idle"}
           /\ UNCHANGED sharedVars /\ up'[p] = IF pc'[p] = "idle" THEN 0 ELSE up[p]
<1>1. CASE PeekFirst(p) \/ PeekMarked(p) \/ PeekNext(p)
  BY <1>1 DEF LocalTypeOK, PeekFirst, PeekMarked, PeekNext, Goto, PeekSteps, Quiet, Within,
     searchVars
<1>2. CASE PeekEnd(p)
  BY <1>2 DEF LocalTypeOK, PeekEnd, Return, Goto, PeekSteps, Set
<1> QED
  BY <1>1, <1>2 DEF Peek

LEMMA ClearGoesOn ==
    ASSUME LocalTypeOK, NEW p \in Procs, Clear(p)
    PROVE  /\ pc[p] \in ClearSteps /\ pc'[p] \in ClearSteps \cup {"idle"}
           /\ pc'[p] = "clearMark" => ClearFirst(p) \/ ClearNext(p)
           /\ pc'[p] = "clearNext" => ClearMark(p)
           /\ pc'[p] \in {"clearHead", "clearCount"} => ClearHead(p)
           /\ pc'[p] # "clearFirst"
           /\ pc'[p] = "idle" => ClearCount(p)
<1>1. CASE ClearFirst(p) \/ ClearMark(p) \/ ClearNext(p)
  BY <1>1 DEF LocalTypeOK, ClearFirst, ClearMark, ClearNext, Goto, ClearSteps
<1>2. CASE ClearHead(p) \/ ClearCount(p)
  BY <1>2 DEF LocalTypeOK, ClearHead, ClearCount, Return, Goto, ClearSteps
<1> QED
  BY <1>1, <1>2 DEF Clear

LEMMA CallBegins ==
    ASSUME LocalTypeOK, NEW p \in Procs, CallOp(p)
    PROVE  /\ pc[p] = "idle" /\ UNCHANGED sharedVars /\ up' = up
           /\ pc'[p] \in {"max", "first", "peekFirst", "clearFirst"}
           /\ mixed' = (mixed \/ Mixes(pc'[p]))
<1>1. CASE PushCall(p)
  BY <1>1 DEF LocalTypeOK, PushCall, Call, Goto, searchVars
<1>2. CASE PopCall(p) \/ PeekCall(p) \/ ClearCall(p)
  BY <1>2 DEF LocalTypeOK, PopCall, PeekCall, ClearCall, Call, Goto, localVars
<1> QED
  BY <1>1, <1>2 DEF CallOp
-----------------------------------------------------------------------------
(* What level 0 leads to.                                                   *)

LEMMA NothingFromNil == From(Nil) = {}
<1>1. {} \in SUBSET Linked /\ Closed({}) /\ Nil \in {} \cup {Nil}
  BY DEF Closed
<1> QED
  BY <1>1 DEF From

LEMMA FromSelf == \A x \in Linked : x \in From(x)
BY PriorityQueueAssumption DEF PriorityQueueAssumption, From, Linked

\* From a node leads to it and to what its successor leads to.
LEMMA FromUnrolls ==
    ASSUME NEW x \in Linked
    PROVE  From(x) \subseteq {x} \cup From(next[0][x])
<1> SUFFICES ASSUME NEW y \in From(x), y # x, NEW S \in SUBSET Linked, Closed(S),
                    next[0][x] \in S \cup {Nil}
             PROVE  y \in S
  BY DEF From
<1>1. S \cup {x} \in SUBSET Linked /\ Closed(S \cup {x}) /\ x \in (S \cup {x}) \cup {Nil}
  BY DEF Closed
<1>2. y \in S \cup {x}
  BY <1>1 DEF From
<1> QED
  BY <1>2

\* What a node in the list leads to is in the list.
LEMMA FromFollows ==
    ASSUME NEW x, NEW y \in From(x), next[0][y] \in Linked
    PROVE  next[0][y] \in From(x)
<1> SUFFICES ASSUME NEW S \in SUBSET Linked, Closed(S), x \in S \cup {Nil}
             PROVE  next[0][y] \in S
  BY DEF From
<1>1. y \in S
  BY DEF From
<1>2. next[0][y] \in S \cup {Nil} /\ Nil \notin Linked
  BY <1>1, PriorityQueueAssumption DEF Closed, PriorityQueueAssumption, Linked
<1> QED
  BY <1>2

\* The first node, if nobody has marked it, is one of the highest.
LEMMA FirstIsHighest ==
    ASSUME Core
    PROVE  /\ next[0][Head] = Nil => Nil \in Highest
           /\ next[0][Head] # Nil => marked[next[0][Head]] \/ next[0][Head] \in Highest
<1> DEFINE x == next[0][Head]
<1>1. x \in Ends
  BY LevelFacts, NextFacts
<1>2. x = Nil => Nil \in Highest
  BY NothingFromNil DEF Highest, InList
<1>3. ASSUME x # Nil, ~marked[x] PROVE x \in Highest
  <2>1. x \in Linked
    BY <1>1, <1>3 DEF Ends
  <2>2. x \in InList \cap Live
    BY <2>1, <1>3, FromSelf DEF InList, Live
  <2>3. ASSUME NEW y \in InList PROVE prio[y] <= prio[x]
    <3> DEFINE S == {z \in Linked : prio[z] <= prio[x]}
    <3>1. \A z \in Linked : prio[z] \in Int
      BY LinkedFacts DEF Core, SharedTypeOK
    <3>2. Closed(S)
      <4> SUFFICES ASSUME NEW z \in S, next[0][z] # Nil PROVE next[0][z] \in S
        BY DEF Closed
      <4>1. next[0][z] \in Linked /\ prio[next[0][z]] <= prio[z]
        BY LevelFacts DEF Core, Sorted
      <4> QED
        BY <4>1, <3>1, <2>1
    <3>3. x \in S
      BY <2>1, <3>1
    <3>4. S \in SUBSET Linked
      OBVIOUS
    <3> HIDE DEF S
    <3>5. y \in S
      BY <3>2, <3>3, <3>4 DEF InList, From
    <3> QED
      BY <3>5 DEF S
  <2> HIDE DEF x
  <2> QED
    BY <2>2, <2>3 DEF Highest
<1> QED
  BY <1>2, <1>3
-----------------------------------------------------------------------------
(* What a Pop takes.                                                        *)

\* A Pop has been shown the highest nodes of now, and the node it is about to
\* mark was one of them unless another Pop has marked it.
FrontsOK ==
    \A p \in Procs :
        /\ Popping(p) => Highest \subseteq fronts[p]
        /\ pc[p] = "mark" => node[p] \in fronts[p] \/ marked[node[p]]

LEMMA NextKeeps ==
    ASSUME IInv, NEW p \in Procs, CallOp(p) \/ Work(p)
    PROVE  Core' /\ Step(p)
BY WorkKeeps, CallOpKeeps DEF IInv

LEMMA FrontsKeep ==
    ASSUME IInv, FrontsOK, NEW p \in Procs, CallOp(p) \/ Work(p), Record, Core', Step(p)
    PROVE  FrontsOK'
<1> SUFFICES ASSUME NEW q \in Procs
             PROVE  /\ Popping(q)' => Highest' \subseteq fronts'[q]
                    /\ pc'[q] = "mark" => node'[q] \in fronts'[q] \/ marked'[node'[q]]
  BY DEF FrontsOK
<1>1. Popping(q)' => fronts'[q] = fronts[q] \cup Highest'
  BY DEF Record
<1>2. CASE pc'[q] = "mark" /\ pc[q] = "mark" /\ node'[q] = node[q]
  <2>1. node[q] \in Linked
    BY <1>2 DEF IInv, Core, Locals, PopLocal, PopSteps
  <2>2. node[q] \in fronts[q] \/ marked[node[q]]
    BY <1>2 DEF FrontsOK
  <2>3. marked[node[q]] => marked'[node[q]]
    BY <2>1 DEF Step, Grows
  <2>4. Popping(q)'
    BY <1>2 DEF Popping
  <2> QED
    BY <1>1, <1>2, <2>2, <2>3, <2>4
<1>3. CASE pc'[q] = "mark" /\ ~(pc[q] = "mark" /\ node'[q] = node[q])
  <2>1. q = p
    BY <1>3 DEF Step, Same
  <2>2. PopFirst(q)
    BY <1>3, <2>1, PushGoesOn, PopGoesOn, PeekGoesOn, ClearGoesOn, CallBegins
       DEF IInv, Core, Work, PushSteps, PeekSteps, ClearSteps
  <2>3. /\ pc[q] = "first" /\ next[0][Head] # Nil /\ node'[q] = next[0][Head]
        /\ UNCHANGED sharedVars
    BY <1>3, <2>2 DEF PopFirst, Return, Goto, Set, Within, IInv, Core, LocalTypeOK
  <2>4. Popping(q) /\ Popping(q)'
    BY <1>3, <2>3 DEF Popping
  <2>5. marked[node'[q]] \/ node'[q] \in fronts[q]
    BY <2>3, <2>4, FirstIsHighest DEF FrontsOK, IInv
  <2> QED
    BY <1>1, <2>3, <2>4, <2>5 DEF sharedVars
<1> QED
  BY <1>1, <1>2, <1>3

FInv == IInv /\ FrontsOK

LEMMA FrontsInvariance == Spec => []FInv
<1>1. Init => FrontsOK
  BY DEF Init, FrontsOK, Popping
<1>2. IInv /\ FrontsOK /\ [Next]_vars => FrontsOK'
  <2> SUFFICES ASSUME IInv, FrontsOK, [Next]_vars PROVE FrontsOK'
    OBVIOUS
  <2>1. CASE Next
    BY <2>1, NextKeeps, FrontsKeep DEF Next
  <2>2. CASE UNCHANGED vars
    BY <2>2 DEF vars, sharedVars, localVars, FrontsOK, Popping, Highest, InList, From, Closed, Live,
       Linked
  <2> QED
    BY <2>1, <2>2
<1> QED
  BY <1>1, <1>2, Invariance, PTL DEF Spec, FInv

\* A Pop (pkg/ds/lockfree/priority_queue.go) takes an item that was the highest
\* in the list at some moment of the call, and says that there is none only if
\* the list was empty at one.
THEOREM PopsTakeTheHighest == Spec => PopsHighest
<1>1. ASSUME FInv, [Next]_vars
      PROVE  [\A p \in Procs :
                 /\ pc[p] = "mark" /\ pc'[p] = "next" => node[p] \in fronts[p]
                 /\ Popping(p) /\ pc'[p] = "idle" => Nil \in fronts[p]]_vars
  <2> SUFFICES ASSUME NEW q \in Procs, Next
               PROVE  /\ pc[q] = "mark" /\ pc'[q] = "next" => node[q] \in fronts[q]
                      /\ Popping(q) /\ pc'[q] = "idle" => Nil \in fronts[q]
    BY <1>1
  <2>1. PICK p \in Procs : CallOp(p) \/ Work(p)
    BY DEF Next
  <2>2. q # p => pc'[q] = pc[q]
    BY <1>1, <2>1, NextKeeps DEF FInv, Step, Same
  <2>3. LocalTypeOK
    BY <1>1 DEF FInv, IInv, Core
  <2>4. ASSUME pc[q] = "mark", pc'[q] = "next" PROVE node[q] \in fronts[q]
    <3>1. q = p
      BY <2>2, <2>4
    <3>2. PopMark(q)
      BY <3>1, <2>1, <2>3, <2>4, PushGoesOn, PopGoesOn, PeekGoesOn, ClearGoesOn, CallBegins
         DEF Work, PushSteps, PeekSteps, ClearSteps
    <3>3. ~marked[node[q]]
      BY <3>2, <2>3, <2>4 DEF PopMark, Goto, LocalTypeOK
    <3> QED
      BY <1>1, <2>4, <3>3 DEF FInv, FrontsOK
  <2>5. ASSUME Popping(q), pc'[q] = "idle" PROVE Nil \in fronts[q]
    <3>1. q = p
      BY <2>2, <2>5 DEF Popping
    <3>2. Pop(q)
      BY <3>1, <2>1, <2>3, <2>5, PushGoesOn, PeekGoesOn, ClearGoesOn, CallBegins
         DEF Work, PushSteps, PeekSteps, ClearSteps, Popping
    <3>3. pc[q] = "first" /\ PopFirst(q)
      <4>1. pc[q] = "mark" => pc'[q] \in {"next", "first"}
        BY <3>2, <2>3, PopGoesOn DEF PopMark, Goto, LocalTypeOK
      <4> QED
        BY <4>1, <3>2, <2>3, <2>5, PopGoesOn DEF Popping
    <3>4. next[0][Head] = Nil
      BY <3>3, <2>3, <2>5 DEF PopFirst, Goto, LocalTypeOK
    <3> QED
      BY <1>1, <2>5, <3>4, FirstIsHighest DEF FInv, IInv, FrontsOK
  <2> QED
    BY <2>4, <2>5
<1> QED
  BY <1>1, FrontsInvariance, PTL DEF Spec, PopsHighest
-----------------------------------------------------------------------------
(* The items and the counter.                                               *)

\* Unless a Clear was mixed with other operations: a Clear is alone but for
\* Peeks, every item has something before it in level 0, and a Clear has before
\* it all that nobody has marked.
Alone ==
    ~mixed => \A p, q \in Procs :
        pc[p] \in ClearSteps /\ q # p => pc[q] \in {"idle"} \cup PeekSteps

Hung == ~mixed => \A x \in Live : \E y \in {Head} \cup Linked : next[0][y] = x

ClearSees(p) ==
    /\ pc[p] = "clearFirst" => Live \subseteq InList
    /\ pc[p] = "clearMark" => Live \subseteq From(curr[p])
    /\ pc[p] = "clearNext" => Live \subseteq From(next[0][curr[p]])
    /\ pc[p] \in {"clearHead", "clearCount"} => Live = {}

ClearOK == ~mixed => \A p \in Procs : ClearSees(p)

CInv == Alone /\ Hung /\ ClearOK /\ CountExact

LEMMA MixedStays ==
    ASSUME LocalTypeOK, NEW p \in Procs, CallOp(p) \/ Work(p), ~mixed'
    PROVE  ~mixed
BY WorkHistory, CallBegins

LEMMA AloneKeeps ==
    ASSUME IInv, Alone, NEW p \in Procs, CallOp(p) \/ Work(p), Step(p)
    PROVE  Alone'
<1> SUFFICES ASSUME ~mixed', NEW r \in Procs, NEW q \in Procs, pc'[r] \in ClearSteps, q # r
             PROVE  pc'[q] \in {"idle"} \cup PeekSteps
  BY DEF Alone
<1>1. LocalTypeOK /\ ~mixed
  BY MixedStays DEF IInv, Core
<1>2. \A s \in Procs : pc[s] \in {"idle"} \cup PushSteps \cup PopSteps \cup PeekSteps \cup ClearSteps
  BY <1>1 DEF LocalTypeOK
<1>3. CASE pc[r] \in ClearSteps
  <2>1. pc[q] \in {"idle"} \cup PeekSteps
    BY <1>1, <1>3 DEF Alone
  <2>2. CASE q # p
    BY <2>1, <2>2 DEF Step, Same
  <2>3. CASE q = p /\ Work(p)
    BY <2>1, <2>3, <1>1, PushGoesOn, PopGoesOn, PeekGoesOn, ClearGoesOn
       DEF Work, PushSteps, PopSteps, PeekSteps, ClearSteps
  <2>4. CASE q = p /\ CallOp(p)
    <3>1. ~Mixes(pc'[p]) /\ pc'[p] \in {"max", "first", "peekFirst", "clearFirst"}
      BY <2>4, <1>1, CallBegins
    <3>2. pc'[p] # "max" /\ pc'[p] # "first" /\ pc'[p] # "clearFirst"
      BY <3>1, <1>3 DEF Mixes
    <3> QED
      BY <3>1, <3>2, <2>4 DEF PeekSteps
  <2> QED
    BY <2>2, <2>3, <2>4
<1>4. CASE pc[r] \notin ClearSteps
  <2>1. r = p
    BY <1>4 DEF Step, Same
  <2>2. CallOp(p)
    BY <2>1, <1>1, <1>4, PushGoesOn, PopGoesOn, PeekGoesOn, ClearGoesOn
       DEF Work, PushSteps, PopSteps, PeekSteps, ClearSteps
  <2>3. pc'[p] = "clearFirst" /\ ~Mixes("clearFirst")
    BY <2>1, <2>2, <1>1, CallBegins DEF ClearSteps
  <2>4. pc[q] \notin PushSteps \cup PopSteps \cup ClearSteps
    BY <2>3 DEF Mixes
  <2>5. pc'[q] = pc[q]
    BY <2>1 DEF Step, Same
  <2> QED
    BY <2>4, <2>5, <1>2
<1> QED
  BY <1>3, <1>4

\* How a step may change level 0.
LEMMA LevelZero ==
    ASSUME IInv, NEW p \in Procs, CallOp(p) \/ Work(p), Step(p)
    PROVE  \/ next'[0] = next[0] /\ size' = size
           \/ \E x \in Nodes : Links(p, x)
           \/ PopUnlink(p)
           \/ ClearHead(p) /\ lev[p] = 0
<1>0. Core /\ LocalTypeOK /\ SharedTypeOK /\ 0 \in Levels
  BY LevelFacts DEF IInv, Core
<1>1. CASE CallOp(p) \/ Peek(p)
  BY <1>0, <1>1, CallBegins, PeekGoesOn DEF sharedVars
<1>2. CASE PushLink(p)
  BY <1>0, <1>2, PushLinkDoes, LinkFacts DEF sharedVars
<1>3. CASE PushLinkUp(p)
  <2>1. up[p] # 0
    BY <1>0, <1>3, PriorityQueueAssumption
       DEF PriorityQueueAssumption, PushLinkUp, LocalTypeOK
  <2>2. /\ UNCHANGED size
        /\ \/ next' = next
           \/ next' = [next EXCEPT ![up[p]] = [@ EXCEPT ![preds[p][up[p]]] = node[p],
                                                        ![node[p]] = succs[p][up[p]]]]
    BY <1>3 DEF PushLinkUp, Quiet, sharedVars
  <2> QED
    BY <1>0, <2>1, <2>2 DEF SharedTypeOK
<1>4. CASE Search(p) \/ PushCount(p) \/ PushRaise(p)
  <2>1. UNCHANGED <<next, size>>
    BY <1>4 DEF Search, SearchMax, SearchEnter, SearchMark, SearchStep, SearchDown, PushCount,
       PushRaise, sharedVars, nodeVars
  <2> QED
    BY <2>1
<1>5. CASE PopUnlinkUp(p)
  <2>1. lev[p] # 0
    BY <1>0, <1>5 DEF PopUnlinkUp, Core, Locals, PopLocal, Above
  <2> QED
    BY <1>0, <1>5, <2>1 DEF PopUnlinkUp, CASNext, SharedTypeOK
<1>6. CASE Pop(p) /\ ~PopUnlink(p) /\ ~PopUnlinkUp(p)
  <2>1. UNCHANGED <<next, size>>
    BY <1>6 DEF Pop, PopFirst, PopMark, PopNext, PopWalkHead, PopWalk, PopWalkEnd, PopWalkFound,
       PopUncount, Quiet, sharedVars, nodeVars
  <2> QED
    BY <2>1
<1>7. CASE ClearHead(p)
  BY <1>0, <1>7 DEF ClearHead, SharedTypeOK
<1>8. CASE Clear(p) /\ ~ClearHead(p)
  <2>1. UNCHANGED <<next, size>>
    BY <1>8 DEF Clear, ClearFirst, ClearMark, ClearNext, ClearCount, sharedVars, nodeVars
  <2> QED
    BY <2>1
<1> QED
  BY <1>1, <1>2, <1>3, <1>4, <1>5, <1>6, <1>7, <1>8 DEF Work, Push, Pop

\* Nothing comes alive but a node that Push links.
LEMMA LiveShrinks ==
    ASSUME IInv, NEW p \in Procs, Step(p), size' = size
    PROVE  Live' \subseteq Live /\ Linked' = Linked
BY DEF Step, Grows, Live, Linked

LEMMA LinkIsLive ==
    ASSUME IInv, NEW p \in Procs, NEW x, Links(p, x)
    PROVE  /\ Live' = Live \cup {x} /\ x \notin Live
           /\ pc[p] \notin ClearSteps /\ pc[p] = "scan"
<1>1. ~marked[x] /\ marked' = marked
  <2>1. size \in Nat /\ x = size + 1
    BY PriorityQueueAssumption DEF PriorityQueueAssumption, Links, IInv, Core, SharedTypeOK
  <2>2. x > size /\ x \in Nodes
    BY <2>1, LinkFacts DEF IInv
  <2> QED
    BY <2>2 DEF IInv, Core, Fresh, Links
<1>2. x \notin Linked /\ Linked' = Linked \cup {x}
  BY LinkFacts DEF IInv
<1>3. pc[p] = "scan"
  BY DEF Links
<1> QED
  BY <1>1, <1>2, <1>3 DEF Live, ClearSteps

LEMMA ClearHeadFinds ==
    ASSUME ~mixed, ClearOK, NEW p \in Procs, ClearHead(p)
    PROVE  Live = {}
<1>1. ClearSees(p)
  BY DEF ClearOK
<1>2. CASE pc[p] = "clearHead"
  BY <1>1, <1>2 DEF ClearSees
<1>3. CASE pc[p] = "clearMark" /\ curr[p] = Nil
  BY <1>1, <1>3, NothingFromNil DEF ClearSees
<1> QED
  BY <1>2, <1>3 DEF ClearHead

LEMMA HungKeeps ==
    ASSUME IInv, Hung, ClearOK, NEW p \in Procs, CallOp(p) \/ Work(p), Step(p)
    PROVE  Hung'
<1> SUFFICES ASSUME ~mixed', NEW x \in Live'
             PROVE  \E y \in {Head} \cup Linked' : next'[0][y] = x
  BY DEF Hung
<1>1. ~mixed /\ Core /\ 0 \in Levels
  BY MixedStays, LevelFacts DEF IInv, Core
<1>2. CASE next'[0] = next[0] /\ size' = size
  <2>1. x \in Live /\ Linked' = Linked
    BY <1>2, LiveShrinks
  <2> QED
    BY <1>1, <1>2, <2>1 DEF Hung
<1>3. ASSUME NEW n \in Nodes, Links(p, n)
      PROVE  \E y \in {Head} \cup Linked' : next'[0][y] = x
  <2>1. pred[p] \in {Head} \cup Linked /\ Linked' = Linked \cup {n} /\ n \notin Linked
    BY <1>1, <1>3, LinkFacts
  <2>2. Linked \subseteq Nodes /\ n # pred[p]
    BY <1>1, <2>1, LinkedFacts, LevelFacts DEF Core
  <2>3. \A z \in {Head} \cup Nodes :
           next'[0][z] = IF z = n THEN curr[p] ELSE IF z = pred[p] THEN n ELSE next[0][z]
    BY <1>1, <1>3, LinkFacts
  <2>4. CASE x = n
    BY <2>1, <2>2, <2>3, <2>4
  <2>5. CASE x # n
    <3>1. x \in Live
      BY <1>3, <2>5, LinkIsLive
    <3>2. PICK y \in {Head} \cup Linked : next[0][y] = x
      BY <1>1, <3>1 DEF Hung
    <3>3. CASE y = pred[p]
      <4>1. curr[p] = x
        BY <1>3, <3>2, <3>3 DEF Links
      <4> QED
        BY <2>1, <2>3, <4>1
    <3>4. CASE y # pred[p]
      <4>1. y # n /\ y \in {Head} \cup Nodes
        BY <1>3, <2>1, <2>2, LevelFacts
      <4> QED
        BY <2>1, <2>3, <3>2, <3>4, <4>1
    <3> QED
      BY <3>3, <3>4
  <2> QED
    BY <2>4, <2>5
<1>4. CASE PopUnlink(p)
  <2>1. size' = size /\ next' = [next EXCEPT ![0][Head] = IF @ = node[p] THEN succ[p] ELSE @]
        /\ pc[p] = "unlink"
    BY <1>4 DEF PopUnlink, CASNext, Goto
  <2>2. x \in Live /\ Linked' = Linked /\ Linked \subseteq Nodes
    BY <1>1, <2>1, LiveShrinks, LinkedFacts DEF Core
  <2>3. PICK y \in {Head} \cup Linked : next[0][y] = x
    BY <1>1, <2>2 DEF Hung
  <2>4. marked[node[p]]
    BY <1>1, <2>1 DEF Core, Locals, PopLocal, PopSteps
  <2>5. x # node[p]
    BY <2>2, <2>4 DEF Live
  <2>6. next'[0][y] = next[0][y]
    <3>1. \A z \in {Head} \cup Nodes : z # Head => next'[0][z] = next[0][z]
      BY <1>1, <2>1 DEF Core, SharedTypeOK
    <3>2. next[0][Head] # node[p] => next'[0][Head] = next[0][Head]
      BY <1>1, <2>1 DEF Core, SharedTypeOK
    <3> QED
      BY <2>2, <2>3, <2>5, <3>1, <3>2
  <2> QED
    BY <2>2, <2>3, <2>6
<1>5. CASE ClearHead(p)
  <2>1. size' = size
    BY <1>5 DEF ClearHead
  <2> QED
    BY <1>1, <1>5, <2>1, ClearHeadFinds, LiveShrinks
<1> QED
  BY <1>2, <1>3, <1>4, <1>5, LevelZero

LEMMA ClearKeeps ==
    ASSUME IInv, Alone, Alone', ClearOK, NEW p \in Procs, CallOp(p) \/ Work(p), Step(p)
    PROVE  ClearOK'
<1> SUFFICES ASSUME ~mixed', NEW r \in Procs PROVE ClearSees(r)'
  BY DEF ClearOK
<1>1. ~mixed /\ Core /\ LocalTypeOK /\ 0 \in Levels
  BY MixedStays, LevelFacts DEF IInv, Core
<1>2. ClearSees(r)
  BY <1>1 DEF ClearOK
<1>3. CASE UNCHANGED nodeVars /\ ~ClearHead(p) /\ ~ClearMark(p)
  <2>1. UNCHANGED <<Live, InList>> /\ \A x : From(x)' = From(x)
    BY <1>3 DEF nodeVars, Live, InList, From, Closed, Linked
  <2>2. CASE r # p
    BY <1>2, <1>3, <2>1, <2>2 DEF ClearSees, Step, Same, nodeVars
  <2>3. CASE r = p /\ CallOp(p)
    <3>1. pc'[p] \in {"max", "first", "peekFirst", "clearFirst"}
          /\ (pc'[p] = "clearFirst" => ~Mixes("clearFirst"))
      BY <1>1, <2>3, CallBegins
    <3>2. pc'[p] = "clearFirst" => Live \subseteq InList
      BY <3>1 DEF Mixes
    <3> QED
      BY <2>1, <2>3, <3>1, <3>2 DEF ClearSees
  <2>4. CASE r = p /\ ClearFirst(p)
    <3>1. pc[p] = "clearFirst" /\ pc'[p] = "clearMark" /\ curr'[p] = next[0][Head]
      BY <1>1, <2>4 DEF ClearFirst, Goto, Set, LocalTypeOK
    <3> QED
      BY <1>2, <2>1, <2>4, <3>1 DEF ClearSees, InList
  <2>5. CASE r = p /\ ClearNext(p)
    <3>1. pc[p] = "clearNext" /\ pc'[p] = "clearMark" /\ curr'[p] = next[0][curr[p]]
      BY <1>1, <2>5 DEF ClearNext, Goto, Set, LocalTypeOK
    <3> QED
      BY <1>2, <2>1, <2>5, <3>1 DEF ClearSees
  <2>6. CASE r = p /\ pc'[p] \notin ClearSteps
    BY <2>6 DEF ClearSees, ClearSteps
  <2>7. Work(p) /\ pc'[p] \in ClearSteps => ClearFirst(p) \/ ClearNext(p)
    <3>1. Work(p) /\ pc'[p] \in ClearSteps => Clear(p)
      BY <1>1, PushGoesOn, PopGoesOn, PeekGoesOn
         DEF Work, PushSteps, PopSteps, PeekSteps, ClearSteps
    <3>2. ClearCount(p) => pc'[p] = "idle"
      BY <1>1 DEF ClearCount, Return, Goto, LocalTypeOK
    <3> QED
      BY <1>3, <3>1, <3>2 DEF Clear, ClearSteps
  <2> QED
    BY <2>2, <2>3, <2>4, <2>5, <2>6, <2>7
<1>4. CASE ClearHead(p) \/ ClearMark(p)
  <2>1. pc[p] \in ClearSteps
    BY <1>4 DEF ClearHead, ClearMark, Goto, ClearSteps
  <2>2. CASE r # p
    <3>1. pc'[r] \in {"idle"} \cup PeekSteps
      BY <1>1, <2>1, <2>2 DEF Alone, Step, Same
    <3> QED
      BY <3>1 DEF ClearSees, PeekSteps
  <2>3. CASE r = p /\ ClearHead(p)
    <3>1. Live = {} /\ pc'[p] \in {"clearHead", "clearCount"} /\ size' = size
      BY <1>1, <2>3, ClearHeadFinds DEF ClearHead, Goto, LocalTypeOK
    <3>2. Live' = {}
      BY <3>1, LiveShrinks
    <3> QED
      BY <2>3, <3>1, <3>2 DEF ClearSees
  <2>4. CASE r = p /\ ClearMark(p)
    <3>1. pc[p] = "clearMark" /\ pc'[p] = "clearNext" /\ curr'[p] = curr[p] /\ curr[p] \in Linked
          /\ marked' = [marked EXCEPT ![curr[p]] = TRUE] /\ UNCHANGED <<next, size>>
      BY <1>1, <2>4 DEF ClearMark, Goto, Set, LocalTypeOK, searchVars, Core, Locals, WalkLocal, Ends
    <3>2. Live' \subseteq Live \ {curr[p]}
      <4>1. Live' \subseteq Live /\ marked'[curr[p]]
        BY <1>1, <3>1, LiveShrinks, LinkedFacts DEF Core, SharedTypeOK
      <4> QED
        BY <4>1 DEF Live
    <3>3. Live \subseteq From(curr[p])
      BY <1>2, <2>4, <3>1 DEF ClearSees
    <3>4. Live' \subseteq From(next[0][curr[p]])
      BY <3>1, <3>2, <3>3, FromUnrolls
    <3>5. From(next[0][curr[p]])' = From(next[0][curr[p]])
      BY <3>1 DEF From, Closed, Linked
    <3> QED
      BY <2>4, <3>1, <3>4, <3>5 DEF ClearSees
  <2> QED
    BY <1>4, <2>2, <2>3, <2>4
<1>5. CASE ~UNCHANGED nodeVars /\ ~ClearHead(p) /\ ~ClearMark(p)
  <2>1. Push(p) \/ Pop(p)
    BY <1>5, <1>1, CallBegins, PeekGoesOn
       DEF Work, Clear, ClearFirst, ClearNext, ClearCount, sharedVars, nodeVars
  <2>2. pc[p] \in PushSteps \cup PopSteps /\ pc'[p] \notin ClearSteps
    BY <2>1, <1>1, PushGoesOn, PopGoesOn DEF PushSteps, PopSteps, ClearSteps
  <2>3. pc'[r] \notin ClearSteps
    <3>1. CASE r = p
      BY <2>2, <3>1
    <3>2. CASE r # p
      <4>1. pc[p] \notin {"idle"} \cup PeekSteps
        BY <2>2 DEF PushSteps, PopSteps, PeekSteps
      <4>2. pc[r] \notin ClearSteps
        BY <1>1, <3>2, <4>1 DEF Alone
      <4> QED
        BY <3>2, <4>2 DEF Step, Same
    <3> QED
      BY <3>1, <3>2
  <2> QED
    BY <2>3 DEF ClearSees, ClearSteps
<1> QED
  BY <1>3, <1>4, <1>5

\* The sets that the counter is compared with.
LEMMA CountedFinite ==
    ASSUME SharedTypeOK
    PROVE  /\ IsFiniteSet(Uncounted) /\ Cardinality(Uncounted) \in Nat
           /\ IsFiniteSet(Overcounted) /\ Cardinality(Overcounted) \in Nat
           /\ IsFiniteSet(Live) /\ Cardinality(Live) \in Nat /\ count \in Int
<1>1. Uncounted \subseteq Procs /\ Overcounted \subseteq Procs
  BY DEF Uncounted, Overcounted
<1>2. IsFiniteSet(Nodes)
  BY FS_Interval, PriorityQueueAssumption DEF PriorityQueueAssumption, Nodes
<1>3. Live \subseteq Nodes
  BY LinkedFacts DEF Live
<1> QED
  BY <1>1, <1>2, <1>3, FS_Subset, FS_CardinalityType, PriorityQueueAssumption
     DEF PriorityQueueAssumption, SharedTypeOK

Balanced == count + Cardinality(Uncounted) = Cardinality(Live) + Cardinality(Overcounted)

\* Where p stands with its counting.
Counting(p) == up[p] > 0 /\ pc[p] # "raise"
Uncounting(p) == pc[p] \in PopSteps \ {"first", "mark"}

LEMMA SetsAfterStep ==
    ASSUME NEW p \in Procs, Step(p)
    PROVE  /\ Uncounted' = IF Counting(p)' THEN Uncounted \cup {p} ELSE Uncounted \ {p}
           /\ Overcounted' = IF Uncounting(p)' THEN Overcounted \cup {p} ELSE Overcounted \ {p}
           /\ p \in Uncounted <=> Counting(p)
           /\ p \in Overcounted <=> Uncounting(p)
<1>1. \A q \in Procs \ {p} : (q \in Uncounted' <=> q \in Uncounted)
                             /\ (q \in Overcounted' <=> q \in Overcounted)
  BY DEF Step, Same, Uncounted, Overcounted
<1>2. p \in Uncounted' <=> Counting(p)'
  BY DEF Uncounted, Counting
<1>3. p \in Overcounted' <=> Uncounting(p)'
  BY DEF Overcounted, Uncounting
<1>4. Uncounted \subseteq Procs /\ Overcounted \subseteq Procs
      /\ Uncounted' \subseteq Procs /\ Overcounted' \subseteq Procs
  BY DEF Uncounted, Overcounted
<1>5. Uncounted' = IF Counting(p)' THEN Uncounted \cup {p} ELSE Uncounted \ {p}
  BY <1>1, <1>2, <1>4
<1>6. Overcounted' = IF Uncounting(p)' THEN Overcounted \cup {p} ELSE Overcounted \ {p}
  BY <1>1, <1>3, <1>4
<1> QED
  BY <1>5, <1>6 DEF Uncounted, Overcounted, Counting, Uncounting

\* A step that neither counts nor changes what is to be counted.
LEMMA CalmStep ==
    ASSUME IInv, Balanced, NEW p \in Procs, Step(p), count' = count, marked' = marked, size' = size,
           Counting(p)' <=> Counting(p), Uncounting(p)' <=> Uncounting(p)
    PROVE  Balanced'
<1>1. Live' = Live
  BY DEF Live, Linked
<1>2. Uncounted' = Uncounted /\ Overcounted' = Overcounted
  BY SetsAfterStep
<1> QED
  BY <1>1, <1>2 DEF Balanced

LEMMA PushBalances ==
    ASSUME IInv, Balanced, NEW p \in Procs, Push(p), Step(p)
    PROVE  Balanced'
<1>0. Core /\ LocalTypeOK /\ SharedTypeOK /\ PushLocal(p) /\ up[p] \in Nat
  BY PriorityQueueAssumption DEF PriorityQueueAssumption, IInv, Core, Locals, LocalTypeOK
<1>1. ~Uncounting(p) /\ ~Uncounting(p)'
  BY <1>0, PushGoesOn DEF Uncounting, PushSteps, PopSteps
<1>2. CASE Search(p)
  <2>1. UNCHANGED sharedVars /\ up' = up /\ pc[p] # "raise" /\ pc'[p] # "raise"
    BY <1>0, <1>2 DEF Search, SearchMax, SearchEnter, SearchMark, SearchStep, SearchDown, Goto,
       LocalTypeOK, Passed, Placed
  <2> QED
    BY <1>1, <2>1, CalmStep DEF Counting, sharedVars
<1>3. CASE PushLink(p) /\ Links(p, size + 1)
  <2>1. /\ Live' = Live \cup {size + 1} /\ size + 1 \notin Live /\ count' = count
        /\ ~Counting(p) /\ Counting(p)'
    <3>1. Live' = Live \cup {size + 1} /\ size + 1 \notin Live /\ count' = count
      BY <1>3, LinkIsLive DEF Links
    <3>2. up[p] = 0 /\ up'[p] = 1 /\ pc'[p] \in {"linkUp", "count"}
      BY <1>0, <1>3 DEF Links, AfterLevel, LocalTypeOK
    <3> QED
      BY <3>1, <3>2 DEF Counting
  <2>2. /\ Cardinality(Live') = Cardinality(Live) + 1
        /\ Cardinality(Uncounted') = Cardinality(Uncounted) + 1 /\ Overcounted' = Overcounted
    <3>1. /\ Uncounted' = Uncounted \cup {p} /\ p \notin Uncounted
          /\ Overcounted' = Overcounted
      BY <1>1, <2>1, SetsAfterStep
    <3> QED
      BY <1>0, <2>1, <3>1, CountedFinite, FS_AddElement
  <2> QED
    BY <1>0, <2>1, <2>2, CountedFinite DEF Balanced
<1>4. CASE PushLink(p) /\ ~Links(p, size + 1)
  <2>1. UNCHANGED sharedVars /\ up' = up /\ pc[p] = "scan" /\ pc'[p] = "max"
    BY <1>0, <1>4, PushLinkDoes DEF LocalTypeOK
  <2> QED
    BY <1>1, <2>1, CalmStep DEF Counting, sharedVars
<1>5. CASE PushLinkUp(p)
  <2>1. /\ up[p] > 0 /\ pc[p] \in {"linkUp", "scan"}
        /\ UNCHANGED <<marked, size, count>>
        /\ \/ pc' = [pc EXCEPT ![p] = "max"] /\ up' = up
           \/ /\ pc' = [pc EXCEPT ![p] = AfterLevel(p, up[p])]
              /\ up' = [up EXCEPT ![p] = up[p] + 1]
    BY <1>5 DEF PushLinkUp, Placed, Goto, Set, Quiet, Within, searchVars, sharedVars
  <2>2. up'[p] > 0 /\ pc'[p] # "raise"
    BY <1>0, <2>1 DEF LocalTypeOK, AfterLevel
  <2> QED
    BY <1>1, <2>1, <2>2, CalmStep DEF Counting
<1>6. CASE PushCount(p)
  <2>1. /\ Live' = Live /\ count' = count + 1 /\ Counting(p) /\ ~Counting(p)'
    BY <1>0, <1>6 DEF PushCount, Goto, PushLocal, Counting, LocalTypeOK, nodeVars, Live, Linked
  <2>2. Cardinality(Uncounted') = Cardinality(Uncounted) - 1 /\ Overcounted' = Overcounted
    <3>1. Uncounted' = Uncounted \ {p} /\ p \in Uncounted /\ Overcounted' = Overcounted
      BY <1>1, <2>1, SetsAfterStep
    <3> QED
      BY <1>0, <3>1, CountedFinite, FS_RemoveElement
  <2> QED
    BY <1>0, <2>1, <2>2, CountedFinite DEF Balanced
<1>7. CASE PushRaise(p)
  <2>1. UNCHANGED <<marked, size, count>> /\ pc[p] = "raise" /\ up'[p] = 0
    BY <1>0, <1>7 DEF PushRaise, Return, Goto, Set, nodeVars, LocalTypeOK
  <2> QED
    BY <1>1, <2>1, CalmStep DEF Counting
<1> QED
  BY <1>2, <1>3, <1>4, <1>5, <1>6, <1>7 DEF Push

LEMMA PopBalances ==
    ASSUME IInv, Balanced, NEW p \in Procs, Pop(p), Step(p)
    PROVE  Balanced'
<1>0. Core /\ LocalTypeOK /\ SharedTypeOK /\ PopLocal(p) /\ PushLocal(p) /\ up[p] \in 0 .. MaxLevel
  BY DEF IInv, Core, Locals, LocalTypeOK
<1>1. up[p] = 0 /\ up'[p] = 0
  <2>1. up[p] = 0
    BY <1>0, PopGoesOn, PriorityQueueAssumption
       DEF PriorityQueueAssumption, PushLocal, PushSteps, PopSteps
  <2>2. up' = up \/ up' = [up EXCEPT ![p] = 0]
    BY DEF Pop, PopFirst, PopMark, PopNext, PopUnlink, PopWalkHead, PopWalk, PopWalkEnd,
       PopWalkFound, PopUnlinkUp, PopUncount, Return, Set, Quiet, searchVars
  <2> QED
    BY <1>0, <2>1, <2>2 DEF LocalTypeOK
<1>2. ~Counting(p) /\ ~Counting(p)'
  BY <1>1 DEF Counting
<1>3. CASE PopMark(p) /\ ~marked[node[p]]
  <2>1. node[p] \in Linked /\ node[p] \in Nodes
    BY <1>0, <1>3, LinkedFacts DEF PopMark, Goto, PopLocal, PopSteps
  <2>2. /\ count' = count /\ ~Uncounting(p) /\ Uncounting(p)' /\ size' = size
        /\ marked' = [marked EXCEPT ![node[p]] = TRUE]
    BY <1>0, <1>3 DEF PopMark, Goto, Set, Uncounting, LocalTypeOK, PopSteps
  <2>3. node[p] \in Live /\ Live' = Live \ {node[p]}
    <3>1. \A x \in Nodes : marked'[x] = (marked[x] \/ x = node[p])
      BY <1>0, <2>1, <2>2 DEF SharedTypeOK
    <3>2. Linked' = Linked /\ Linked \subseteq Nodes
      BY <1>0, <2>2, LinkedFacts DEF Linked
    <3> QED
      BY <1>3, <2>1, <3>1, <3>2 DEF Live
  <2>4. /\ Cardinality(Live') = Cardinality(Live) - 1
        /\ Cardinality(Overcounted') = Cardinality(Overcounted) + 1 /\ Uncounted' = Uncounted
    <3>1. /\ Overcounted' = Overcounted \cup {p} /\ p \notin Overcounted
          /\ Uncounted' = Uncounted
      BY <1>2, <2>2, SetsAfterStep
    <3> QED
      BY <1>0, <2>3, <3>1, CountedFinite, FS_AddElement, FS_RemoveElement
  <2> QED
    BY <1>0, <2>2, <2>4, CountedFinite DEF Balanced
<1>4. CASE PopUncount(p)
  <2>1. Live' = Live /\ count' = count - 1 /\ Uncounting(p) /\ ~Uncounting(p)'
    BY <1>0, <1>4 DEF PopUncount, Return, Goto, Uncounting, LocalTypeOK, PopSteps, nodeVars, Live,
       Linked
  <2>2. Cardinality(Overcounted') = Cardinality(Overcounted) - 1 /\ Uncounted' = Uncounted
    <3>1. Overcounted' = Overcounted \ {p} /\ p \in Overcounted /\ Uncounted' = Uncounted
      BY <1>2, <2>1, SetsAfterStep
    <3> QED
      BY <1>0, <3>1, CountedFinite, FS_RemoveElement
  <2> QED
    BY <1>0, <2>1, <2>2, CountedFinite DEF Balanced
<1>5. CASE PopFirst(p) \/ (PopMark(p) /\ marked[node[p]])
  <2>1. UNCHANGED sharedVars /\ pc[p] \in {"first", "mark"} /\ pc'[p] \in {"first", "mark", "idle"}
    BY <1>0, <1>5 DEF PopFirst, PopMark, Return, Goto, Within, Quiet, LocalTypeOK
  <2> QED
    BY <1>2, <2>1, CalmStep DEF Uncounting, PopSteps, sharedVars
<1>6. CASE PopNext(p) \/ PopUnlink(p) \/ PopWalkHead(p) \/ PopWalk(p)
  <2>1. /\ UNCHANGED <<marked, size, count>>
        /\ pc[p] \in {"next", "unlink", "walkHead", "walk"}
        /\ pc'[p] \in {"unlink", "walkHead", "walk", "uncount"}
    BY <1>0, <1>6 DEF PopNext, PopUnlink, PopWalkHead, PopWalk, AfterUnlink, Goto, sharedVars,
       LocalTypeOK
  <2> QED
    BY <1>2, <2>1, CalmStep DEF Uncounting, PopSteps
<1>7. CASE PopWalkEnd(p) \/ PopWalkFound(p) \/ PopUnlinkUp(p)
  <2>1. /\ UNCHANGED <<marked, size, count>>
        /\ pc[p] \in {"walk", "unlinkUp"}
        /\ pc'[p] \in {"walkHead", "unlinkUp", "uncount"}
    BY <1>0, <1>7 DEF PopWalkEnd, PopWalkFound, PopUnlinkUp, AfterUnlink, Goto, sharedVars,
       LocalTypeOK
  <2> QED
    BY <1>2, <2>1, CalmStep DEF Uncounting, PopSteps
<1> QED
  BY <1>3, <1>4, <1>5, <1>6, <1>7 DEF Pop

\* A Clear that nothing has disturbed ends with an empty list and counter.
LEMMA ClearBalances ==
    ASSUME IInv, ~mixed, Alone, ClearOK, NEW p \in Procs, Clear(p), pc'[p] \notin ClearSteps,
           Step(p)
    PROVE  Balanced'
<1>0. Core /\ LocalTypeOK /\ SharedTypeOK
  BY DEF IInv, Core
<1>1. pc[p] = "clearCount" /\ pc'[p] = "idle" /\ ClearCount(p)
  BY <1>0, ClearGoesOn DEF ClearCount, Return, Goto
<1>2. Live = {} /\ count' = 0 /\ UNCHANGED nodeVars /\ up'[p] = 0
  BY <1>0, <1>1 DEF ClearOK, ClearSees, ClearCount, Return, Set, LocalTypeOK
<1>3. Live' = {}
  BY <1>2 DEF nodeVars, Live, Linked
<1>4. \A q \in Procs \ {p} : pc'[q] \in {"idle"} \cup PeekSteps /\ up'[q] = 0
  <2> SUFFICES ASSUME NEW q \in Procs \ {p}
               PROVE  pc'[q] \in {"idle"} \cup PeekSteps /\ up'[q] = 0
    OBVIOUS
  <2>1. pc[q] \in {"idle"} \cup PeekSteps
    BY <1>1 DEF Alone, ClearSteps
  <2>2. ~(up[q] > 0)
    BY <1>0, <2>1 DEF Core, Locals, PushLocal, PushSteps, PeekSteps
  <2>3. up[q] = 0
    BY <1>0, <2>2, PriorityQueueAssumption DEF PriorityQueueAssumption, LocalTypeOK
  <2> QED
    BY <2>1, <2>3 DEF Step, Same
<1>5. Uncounted' = {}
  BY <1>2, <1>4 DEF Uncounted
<1>6. Overcounted' = {}
  BY <1>1, <1>4 DEF Overcounted, PopSteps, PeekSteps
<1> QED
  BY <1>2, <1>3, <1>5, <1>6, FS_EmptySet DEF Balanced

LEMMA CountKeeps ==
    ASSUME IInv, Alone, ClearOK, CountExact, NEW p \in Procs, CallOp(p) \/ Work(p), Step(p)
    PROVE  CountExact'
<1> SUFFICES ASSUME ~mixed', \A q \in Procs : pc'[q] \notin ClearSteps
             PROVE  Balanced'
  BY DEF CountExact, Balanced
<1>1. ~mixed /\ LocalTypeOK
  BY MixedStays DEF IInv, Core
<1>2. CASE Clear(p)
  BY <1>1, <1>2, ClearBalances
<1>3. CASE ~Clear(p)
  <2>1. pc[p] \notin ClearSteps
    BY <1>1, <1>3, PushGoesOn, PopGoesOn, PeekGoesOn, CallBegins
       DEF Work, PushSteps, PopSteps, PeekSteps, ClearSteps
  <2>2. Balanced
    BY <1>1, <2>1 DEF CountExact, Balanced, Step, Same
  <2>3. CASE Peek(p)
    <3>1. UNCHANGED sharedVars /\ (up'[p] = 0 \/ up'[p] = up[p])
      BY <1>1, <2>3, PeekGoesOn
    <3>2. pc[p] \in PeekSteps /\ pc'[p] \in PeekSteps \cup {"idle"}
      BY <1>1, <2>3, PeekGoesOn
    <3>3. ~(up[p] > 0)
      BY <3>2 DEF IInv, Core, Locals, PushLocal, PushSteps, PeekSteps
    <3>4. ~Counting(p) /\ ~Counting(p)' /\ ~Uncounting(p) /\ ~Uncounting(p)'
      BY <3>1, <3>2, <3>3 DEF Counting, Uncounting, PopSteps, PeekSteps
    <3> QED
      BY <2>2, <3>1, <3>4, CalmStep DEF sharedVars
  <2>4. CASE CallOp(p)
    <3>1. UNCHANGED sharedVars /\ up' = up /\ pc[p] = "idle"
          /\ pc'[p] \in {"max", "first", "peekFirst", "clearFirst"}
      BY <1>1, <2>4, CallBegins
    <3>2. up[p] = 0
      BY <3>1, IdleFacts DEF IInv
    <3>3. ~Counting(p) /\ ~Counting(p)' /\ ~Uncounting(p) /\ ~Uncounting(p)'
      BY <3>1, <3>2 DEF Counting, Uncounting, PopSteps
    <3> QED
      BY <2>2, <3>1, <3>3, CalmStep DEF sharedVars
  <2> QED
    BY <1>3, <2>2, <2>3, <2>4, PushBalances, PopBalances DEF Work
<1> QED
  BY <1>2, <1>3

LEMMA CountInit == Init => CInv
<1> SUFFICES ASSUME Init PROVE CInv
  OBVIOUS
<1>1. Alone /\ Hung /\ ClearOK
  BY DEF Init, Alone, Hung, ClearOK, ClearSees, ClearSteps, Live, Linked
<1>2. Live = {} /\ Uncounted = {} /\ Overcounted = {} /\ count = 0
  BY DEF Init, Live, Linked, Uncounted, Overcounted, PopSteps
<1> QED
  BY <1>1, <1>2, FS_EmptySet DEF CInv, CountExact

AllInv == IInv /\ CInv

LEMMA CountInvariance == Spec => []AllInv
<1>1. IInv /\ CInv /\ [Next]_vars => CInv'
  <2> SUFFICES ASSUME IInv, CInv, [Next]_vars PROVE CInv'
    OBVIOUS
  <2>1. CASE Next
    <3>1. PICK p \in Procs : CallOp(p) \/ Work(p)
      BY <2>1 DEF Next
    <3>2. Step(p)
      BY <3>1, NextKeeps
    <3>3. Alone'
      BY <3>1, <3>2, AloneKeeps DEF CInv
    <3> QED
      BY <3>1, <3>2, <3>3, HungKeeps, ClearKeeps, CountKeeps DEF CInv
  <2>2. CASE UNCHANGED vars
    <3>1. UNCHANGED nodeVars /\ UNCHANGED <<maxLevel, count, pc, mixed>> /\ UNCHANGED localVars
      BY <2>2 DEF vars, sharedVars, nodeVars
    <3>2. UNCHANGED <<Live, Linked, InList, Uncounted, Overcounted>> /\ \A x : From(x)' = From(x)
      BY <3>1 DEF nodeVars, localVars, Live, Linked, InList, From, Closed, Uncounted, Overcounted
    <3>3. Alone' /\ Hung'
      BY <3>1, <3>2 DEF nodeVars, CInv, Alone, Hung
    <3>4. ClearOK'
      BY <3>1, <3>2 DEF nodeVars, localVars, CInv, ClearOK, ClearSees
    <3>5. CountExact'
      BY <3>1, <3>2 DEF CInv, CountExact
    <3> QED
      BY <3>3, <3>4, <3>5 DEF CInv
  <2> QED
    BY <2>1, <2>2
<1> QED
  BY <1>1, CountInit, Invariance, PTL DEF Spec, AllInv

LEMMA HungIsEnough ==
    ASSUME IInv, Hung
    PROVE  LostBehindPopped
<1> SUFFICES ASSUME ~mixed, NEW x \in Live, x \notin InList
             PROVE  \/ \E y \in Linked \ Live : next[0][y] = x
                    \/ \E y \in Live \ InList : next[0][y] = x
  BY DEF LostBehindPopped
<1>1. x \in Linked
  BY DEF Live
<1>2. PICK y \in {Head} \cup Linked : next[0][y] = x
  BY DEF Hung
<1>3. y # Head
  BY <1>1, <1>2, FromSelf DEF InList
<1>4. y \notin InList
  BY <1>1, <1>2, FromFollows DEF InList
<1> QED
  BY <1>2, <1>3, <1>4

\* What becomes of the items of the queue (pkg/ds/lockfree/priority_queue.go):
\* none is out of the list but behind a popped one, and the counter is right,
\* unless a Clear has met a Push, a Pop or another Clear.
THEOREM ItemsStayAccounted == Spec => []ItemsAccounted
<1>1. AllInv => ItemsAccounted
  BY HungIsEnough DEF AllInv, CInv, ItemsAccounted
<1> QED
  BY <1>1, CountInvariance, PTL
=============================================================================
