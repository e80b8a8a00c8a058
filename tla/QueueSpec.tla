----------------------------- MODULE QueueSpec -----------------------------
(***************************************************************************)
(* What a queue shared by several goroutines promises its callers: every   *)
(* operation takes effect at one moment between its call and its return.   *)
(* The mutex queue (SyncQueue, pkg/ds/sync/queue.go) and the lock-free one *)
(* (LockFreeQueue, pkg/ds/lockfree/queue.go) both implement it.            *)
(*                                                                         *)
(* An operation that only reads - Peek, IsEmpty, a Dequeue that finds      *)
(* nothing - may answer with the front the queue had at any moment since   *)
(* the call; seen[p] collects those fronts.                                *)
(***************************************************************************)
EXTENDS Sequences

CONSTANTS
    Procs,          \* goroutines that use the queue
    Items,          \* what is enqueued
    Empty,          \* the answer (nil, false)
    Done            \* the answer of an operation that returns nothing

VARIABLES
    items,          \* the queue
    op,             \* operation each goroutine has called and that has not
                    \* yet taken effect
    item,           \* the argument of its Enqueue
    answer,         \* the answer of its last operation
    seen            \* fronts shown since the call

specVars == <<items, op, item, answer, seen>>

Front(s) == IF s = <<>> THEN Empty ELSE Head(s)

\* What the callers of Dequeue and Peek have been shown once the queue is s.
Shown(s) == [p \in Procs |-> IF op[p] \in {"dequeue", "peek"}
                             THEN seen[p] \cup {Front(s)} ELSE {}]

Call(p, o, x) ==
    /\ op[p] = "none"
    /\ op' = [op EXCEPT ![p] = o]
    /\ item' = [item EXCEPT ![p] = x]
    /\ answer' = [answer EXCEPT ![p] = Done]
    /\ seen' = [seen EXCEPT ![p] = IF o \in {"dequeue", "peek"}
                                   THEN {Front(items)} ELSE {}]
    /\ UNCHANGED items

\* p's operation o takes effect, leaves the queue as s and answers a.
Takes(p, o, s, a) ==
    /\ op[p] = o
    /\ items' = s
    /\ op' = [op EXCEPT ![p] = "none"]
    /\ item' = [item EXCEPT ![p] = Empty]
    /\ answer' = [answer EXCEPT ![p] = a]
    /\ seen' = [Shown(s) EXCEPT ![p] = {}]

Enqueue(p) == Takes(p, "enqueue", Append(items, item[p]), Done)

Dequeue(p) == items # <<>> /\ Takes(p, "dequeue", Tail(items), Head(items))

\* The queue was empty at some moment of the call.
DequeueNothing(p) == Empty \in seen[p] /\ Takes(p, "dequeue", items, Empty)

Peek(p) == \E a \in seen[p] : Takes(p, "peek", items, a)

\* Only the mutex queue has these two.
Length(p) == Takes(p, "len", items, Len(items))

Clear(p) == Takes(p, "clear", <<>>, Done)

Init ==
    /\ items = <<>>
    /\ op = [p \in Procs |-> "none"]
    /\ item = [p \in Procs |-> Empty]
    /\ answer = [p \in Procs |-> Done]
    /\ seen = [p \in Procs |-> {}]

Next == \E p \in Procs :
    \/ \E x \in Items : Call(p, "enqueue", x)
    \/ \E o \in {"dequeue", "peek", "len", "clear"} : Call(p, o, Empty)
    \/ Enqueue(p)
    \/ Dequeue(p)
    \/ DequeueNothing(p)
    \/ Peek(p)
    \/ Length(p)
    \/ Clear(p)

Spec == Init /\ [][Next]_specVars
=============================================================================
