--------------------------- MODULE LockFreeQueue ---------------------------
(***************************************************************************)
(* The Michael-Scott queue of pkg/ds/lockfree/queue.go: a linked list with *)
(* a dummy node, and atomic pointers head and tail.  Every atomic load and *)
(* every compare-and-swap is a step of its own; pc[p] is the next one of   *)
(* goroutine p and lhead, ltail, lnext are the local variables head, tail  *)
(* and next of the loop it is in.                                          *)
(*                                                                         *)
(* A node stands for itself and for the value it carries.  Nodes are never *)
(* used twice: the garbage collector gives no node away while a goroutine  *)
(* still holds a pointer to it (queue.go:364-368).                         *)
(***************************************************************************)
EXTENDS Integers, FiniteSets, Sequences

CONSTANTS
    Procs,          \* goroutines that use the queue
    Nodes,          \* nodes that can be allocated, the dummy among them
    Dummy,          \* the node NewQueue allocates
    Null,           \* nil
    Done,           \* the answer of an operation that returns nothing
    Live            \* goroutines the scheduler never stops running

ASSUME NodesAssumption ==
    /\ IsFiniteSet(Nodes)
    /\ Dummy \in Nodes
    /\ Null \notin Nodes

VARIABLES
    head, tail,     \* the queue's pointers
    next,           \* the pointer each node holds
    pc, lhead, ltail, lnext,
    newNode,        \* the node Enqueue allocated
    answer,         \* what the last operation returned
    order,          \* history: the place of a node in the order of linking,
                    \* 1 for the dummy and 0 for a node not in the list
    seen            \* history: fronts of the queue since Dequeue or Peek was
                    \* called

queueVars == <<head, tail, next>>
localVars == <<lhead, ltail, lnext, newNode>>
vars == <<head, tail, next, pc, lhead, ltail, lnext, newNode, answer, order, seen>>

Pointers == Nodes \cup {Null}
\* Steps of Enqueue before its node is in the list, of Dequeue, and of Peek.
EnqSteps == {"enqTail", "enqNext", "enqCheck", "enqLink", "enqHelp"}
DeqSteps == {"deqHead", "deqTail", "deqNext", "deqCheck", "deqHelp", "deqSwing"}
PeekSteps == {"peekHead", "peekNext"}

Linked == {x \in Nodes : order[x] > 0}
Length == Cardinality(Linked)

\* The node linked in k-th place.
NodeAt(k) == CHOOSE x \in Nodes : order[x] = k

\* The items in the queue: those linked after the node head points to.
Items == [i \in 1 .. Length - order[head] |-> NodeAt(order[head] + i)]

Front == IF order[head] = Length THEN Null ELSE NodeAt(order[head] + 1)

\* Fronts shown to the callers of Dequeue and Peek after this step.
Shown == [p \in Procs |-> IF pc[p] \in DeqSteps \cup PeekSteps
                          THEN seen[p] \cup {Front'} ELSE {}]

Goto(p, step, target) == pc[p] = step /\ pc' = [pc EXCEPT ![p] = target]

\* The call returns a; its local variables are gone.
Return(p, step, a) ==
    /\ Goto(p, step, "idle")
    /\ answer' = [answer EXCEPT ![p] = a]
    /\ lhead' = [lhead EXCEPT ![p] = Null]
    /\ ltail' = [ltail EXCEPT ![p] = Null]
    /\ lnext' = [lnext EXCEPT ![p] = Null]
    /\ newNode' = [newNode EXCEPT ![p] = Null]

\* atomic.CompareAndSwapPointer(&q.tail, old, new)
CASTail(old, new) == tail' = IF tail = old THEN new ELSE tail
-----------------------------------------------------------------------------
(* Enqueue.                                                                *)

\* newNode := &node{value: value}
EnqCall(p) ==
    /\ Goto(p, "idle", "enqTail")
    /\ \E x \in Nodes \ Linked :
          /\ \A q \in Procs : newNode[q] # x
          /\ newNode' = [newNode EXCEPT ![p] = x]
    /\ answer' = [answer EXCEPT ![p] = Done]
    /\ UNCHANGED <<queueVars, lhead, ltail, lnext, order, seen>>

EnqLoadTail(p) ==
    /\ Goto(p, "enqTail", "enqNext")
    /\ ltail' = [ltail EXCEPT ![p] = tail]
    /\ UNCHANGED <<queueVars, lhead, lnext, newNode, answer, order, seen>>

EnqLoadNext(p) ==
    /\ Goto(p, "enqNext", "enqCheck")
    /\ lnext' = [lnext EXCEPT ![p] = next[ltail[p]]]
    /\ UNCHANGED <<queueVars, lhead, ltail, newNode, answer, order, seen>>

\* Wrong: a lagging tail is waited for, not helped.
EnqCheckNoHelp(p) ==
    /\ \/ (ltail[p] # tail \/ lnext[p] # Null) /\ Goto(p, "enqCheck", "enqTail")
       \/ ltail[p] = tail /\ lnext[p] = Null /\ Goto(p, "enqCheck", "enqLink")
    /\ UNCHANGED <<queueVars, localVars, answer, order, seen>>

\* tail is read again: start over, link the node, or help a lagging tail.
EnqCheck(p) ==
    /\ \/ ltail[p] # tail /\ Goto(p, "enqCheck", "enqTail")
       \/ ltail[p] = tail /\ lnext[p] = Null /\ Goto(p, "enqCheck", "enqLink")
       \/ ltail[p] = tail /\ lnext[p] # Null /\ Goto(p, "enqCheck", "enqHelp")
    /\ UNCHANGED <<queueVars, localVars, answer, order, seen>>

\* Wrong: a plain store to tail.next.
EnqLinkStore(p) ==
    /\ Goto(p, "enqLink", "enqSwing")
    /\ next' = [next EXCEPT ![ltail[p]] = newNode[p]]
    /\ order' = [order EXCEPT ![newNode[p]] = Length + 1]
    /\ UNCHANGED <<head, tail, localVars, answer>>
    /\ seen' = Shown

\* CompareAndSwapPointer(&tail.next, nil, newNode)
EnqLink(p) ==
    \/ /\ Goto(p, "enqLink", "enqSwing")
       /\ next[ltail[p]] = Null
       /\ next' = [next EXCEPT ![ltail[p]] = newNode[p]]
       /\ order' = [order EXCEPT ![newNode[p]] = Length + 1]
       /\ UNCHANGED <<head, tail, localVars, answer>>
       /\ seen' = Shown
    \/ /\ Goto(p, "enqLink", "enqTail")
       /\ next[ltail[p]] # Null
       /\ UNCHANGED <<queueVars, localVars, answer, order, seen>>

EnqSwing(p) ==
    /\ Return(p, "enqSwing", Done)
    /\ CASTail(ltail[p], newNode[p])
    /\ UNCHANGED <<head, next, order, seen>>

EnqHelp(p) ==
    /\ Goto(p, "enqHelp", "enqTail")
    /\ CASTail(ltail[p], lnext[p])
    /\ UNCHANGED <<head, next, localVars, answer, order, seen>>

Enqueue(p) ==
    \/ EnqLoadTail(p)
    \/ EnqLoadNext(p)
    \/ EnqCheck(p)
    \/ EnqLink(p)
    \/ EnqSwing(p)
    \/ EnqHelp(p)
-----------------------------------------------------------------------------
(* Dequeue.                                                                *)

\* A call of Dequeue or Peek begins at its first step.
ReadCall(p, first) ==
    /\ Goto(p, "idle", first)
    /\ answer' = [answer EXCEPT ![p] = Done]
    /\ seen' = [seen EXCEPT ![p] = {Front}]
    /\ UNCHANGED <<queueVars, localVars, order>>

DeqLoadHead(p) ==
    /\ Goto(p, "deqHead", "deqTail")
    /\ lhead' = [lhead EXCEPT ![p] = head]
    /\ UNCHANGED <<queueVars, ltail, lnext, newNode, answer, order, seen>>

DeqLoadTail(p) ==
    /\ Goto(p, "deqTail", "deqNext")
    /\ ltail' = [ltail EXCEPT ![p] = tail]
    /\ UNCHANGED <<queueVars, lhead, lnext, newNode, answer, order, seen>>

DeqLoadNext(p) ==
    /\ Goto(p, "deqNext", "deqCheck")
    /\ lnext' = [lnext EXCEPT ![p] = next[lhead[p]]]
    /\ UNCHANGED <<queueVars, lhead, ltail, newNode, answer, order, seen>>

\* Wrong: head is compared with itself only, not with tail.
DeqCheckHeadOnly(p) ==
    /\ \/ lhead[p] # head /\ Goto(p, "deqCheck", "deqHead")
       \/ lhead[p] = head /\ Goto(p, "deqCheck", "deqSwing")
    /\ UNCHANGED <<queueVars, localVars, answer, order, seen>>

\* head is read again: start over, help a lagging tail, or take the item.
DeqCheck(p) ==
    /\ \/ lhead[p] # head /\ Goto(p, "deqCheck", "deqHead")
       \/ /\ lhead[p] = head /\ lhead[p] = ltail[p] /\ lnext[p] # Null
          /\ Goto(p, "deqCheck", "deqHelp")
       \/ /\ lhead[p] = head /\ lhead[p] # ltail[p]
          /\ Goto(p, "deqCheck", "deqSwing")
    /\ UNCHANGED <<queueVars, localVars, answer, order, seen>>

\* head has not moved, equals tail and had no next: return nil, false.
DeqEmpty(p) ==
    /\ lhead[p] = head /\ lhead[p] = ltail[p] /\ lnext[p] = Null
    /\ Return(p, "deqCheck", Null)
    /\ seen' = [seen EXCEPT ![p] = {}]
    /\ UNCHANGED <<queueVars, order>>

DeqHelp(p) ==
    /\ Goto(p, "deqHelp", "deqHead")
    /\ CASTail(ltail[p], lnext[p])
    /\ UNCHANGED <<head, next, localVars, answer, order, seen>>

\* Wrong: a plain store to head.
DeqSwingStore(p) ==
    /\ Return(p, "deqSwing", lnext[p])
    /\ head' = lnext[p]
    /\ UNCHANGED <<tail, next, order>>
    /\ seen' = [Shown EXCEPT ![p] = {}]

\* value := next.value, then CompareAndSwapPointer(&q.head, head, next)
DeqSwing(p) ==
    \/ /\ head = lhead[p]
       /\ Return(p, "deqSwing", lnext[p])
       /\ head' = lnext[p]
       /\ UNCHANGED <<tail, next, order>>
       /\ seen' = [Shown EXCEPT ![p] = {}]
    \/ /\ head # lhead[p]
       /\ Goto(p, "deqSwing", "deqHead")
       /\ UNCHANGED <<queueVars, localVars, answer, order, seen>>

Dequeue(p) ==
    \/ DeqLoadHead(p)
    \/ DeqLoadTail(p)
    \/ DeqLoadNext(p)
    \/ DeqCheck(p)
    \/ DeqEmpty(p)
    \/ DeqHelp(p)
    \/ DeqSwing(p)
-----------------------------------------------------------------------------
(* Peek, and IsEmpty, which makes the same two loads.                      *)

PeekLoadHead(p) ==
    /\ Goto(p, "peekHead", "peekNext")
    /\ lhead' = [lhead EXCEPT ![p] = head]
    /\ UNCHANGED <<queueVars, ltail, lnext, newNode, answer, order, seen>>

PeekLoadNext(p) ==
    /\ Return(p, "peekNext", next[lhead[p]])
    /\ seen' = [seen EXCEPT ![p] = {}]
    /\ UNCHANGED <<queueVars, order>>

Peek(p) == PeekLoadHead(p) \/ PeekLoadNext(p)
-----------------------------------------------------------------------------
\* NewQueue
Init ==
    /\ head = Dummy
    /\ tail = Dummy
    /\ next = [x \in Nodes |-> Null]
    /\ pc = [p \in Procs |-> "idle"]
    /\ lhead = [p \in Procs |-> Null]
    /\ ltail = [p \in Procs |-> Null]
    /\ lnext = [p \in Procs |-> Null]
    /\ newNode = [p \in Procs |-> Null]
    /\ answer = [p \in Procs |-> Done]
    /\ order = [x \in Nodes |-> IF x = Dummy THEN 1 ELSE 0]
    /\ seen = [p \in Procs |-> {}]

CallOp(p) ==
    \/ EnqCall(p)
    \/ ReadCall(p, "deqHead")
    \/ ReadCall(p, "peekHead")

\* A step of the operation p has called.
Work(p) == Enqueue(p) \/ Dequeue(p) \/ Peek(p)

Next == \E p \in Procs : CallOp(p) \/ Work(p)

Spec == Init /\ [][Next]_vars

\* The scheduler runs the goroutines of Live whenever they can move; the
\* others may stop anywhere, between any two atomic operations.
FairSpec == Spec /\ \A p \in Live : WF_vars(Work(p))
-----------------------------------------------------------------------------
TypeOK ==
    /\ head \in Nodes
    /\ tail \in Nodes
    /\ next \in [Nodes -> Pointers]
    /\ pc \in [Procs -> EnqSteps \cup DeqSteps \cup PeekSteps \cup {"idle", "enqSwing"}]
    /\ lhead \in [Procs -> Pointers]
    /\ ltail \in [Procs -> Pointers]
    /\ lnext \in [Procs -> Pointers]
    /\ newNode \in [Procs -> Pointers]
    /\ answer \in [Procs -> Pointers \cup {Done}]
    /\ order \in [Nodes -> Nat]
    /\ seen \in [Procs -> SUBSET Pointers]

\* The next pointers form one list in the order of linking, which no step
\* ever breaks, forks or truncates: nothing enqueued is lost.
OneList ==
    /\ \A x, y \in Linked : next[x] = y <=> order[y] = order[x] + 1
    /\ \A x \in Nodes : next[x] = Null <=> order[x] \in {0, Length}
    /\ \A x \in Nodes : next[x] # Null => next[x] \in Linked

\* head never passes tail, and tail is the last node or the one before it.
HeadBehindTail ==
    /\ head \in Linked /\ tail \in Linked
    /\ order[head] <= order[tail]
    /\ order[tail] \in {Length - 1, Length}

\* What holds the queue together, whatever has stopped where.
ListIntact == TypeOK /\ OneList /\ HeadBehindTail

\* Every pointer a goroutine is about to follow is not nil: Dequeue's next
\* when it reads next.value, and the nodes whose next it loads or swaps.
NoNilDereference ==
    \A p \in Procs :
        /\ pc[p] = "deqSwing" => lnext[p] # Null
        /\ pc[p] \in {"deqNext", "peekNext"} => lhead[p] # Null
        /\ pc[p] \in {"enqNext", "enqLink"} => ltail[p] # Null

\* The lock-free queue is a queue: each operation takes effect at one moment
\* between call and return - Enqueue when its node is linked, Dequeue when
\* head moves - and an answer "empty" or a peeked item was true at one.
opOf(p) == IF pc[p] \in EnqSteps THEN "enqueue"
           ELSE IF pc[p] \in DeqSteps THEN "dequeue"
           ELSE IF pc[p] \in PeekSteps THEN "peek" ELSE "none"

Q == INSTANCE QueueSpec WITH
        Items <- Nodes \ {Dummy},
        Empty <- Null,
        items <- Items,
        op <- [p \in Procs |-> opOf(p)],
        item <- [p \in Procs |-> IF opOf(p) = "enqueue" THEN newNode[p] ELSE Null]

ImplementsQueue == Q!Spec

\* Lock-freedom: no goroutine of Live stays in an operation for ever although
\* the others may have stopped anywhere, even between linking a node and
\* moving tail.  Retries end because enqueues do, and because a lagging tail
\* is helped on by whoever meets it.
OpsFinish == \A p \in Live : pc[p] # "idle" ~> pc[p] = "idle"
=============================================================================
