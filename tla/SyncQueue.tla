----------------------------- MODULE SyncQueue -----------------------------
(***************************************************************************)
(* The queue of pkg/ds/sync/queue.go: a slice that every operation reads   *)
(* and writes while it holds a mutex.  The body of an operation is two     *)
(* steps, one that reads the slice and one that stores the new one, so it  *)
(* is the mutex that makes it atomic and not the model.  IsEmpty is a Len  *)
(* that answers whether it is 0.                                           *)
(***************************************************************************)
EXTENDS Integers, Sequences

CONSTANTS
    Procs,          \* goroutines that use the queue
    Values,         \* what is enqueued
    Null,           \* no goroutine, no value, the answer (nil, false)
    Done,           \* the answer of an operation that returns nothing
    MaxLength       \* bound: no Enqueue is called on a longer queue

ASSUME SyncQueueAssumption == Null \notin Procs \cup Values /\ MaxLength \in Nat

VARIABLES
    items,          \* the slice
    mu,             \* the goroutine that holds the mutex
    pc, op, value,  \* next step, operation and argument of each goroutine
    local,          \* the slice as the operation has read it
    answer,         \* what the last operation returned
    seen            \* history: fronts of the queue since Dequeue or Peek was
                    \* called

vars == <<items, mu, pc, op, value, local, answer, seen>>

Ops == {"enqueue", "dequeue", "peek", "len", "clear"}
\* Steps before the operation has taken effect.
Pending == {"lock", "read", "store"}

Front(s) == IF s = <<>> THEN Null ELSE Head(s)

Goto(p, step, target) == pc[p] = step /\ pc' = [pc EXCEPT ![p] = target]

Call(p, o, x) ==
    /\ Goto(p, "idle", "lock")
    /\ op' = [op EXCEPT ![p] = o]
    /\ value' = [value EXCEPT ![p] = x]
    /\ answer' = [answer EXCEPT ![p] = Done]
    /\ seen' = [seen EXCEPT ![p] = IF o \in {"dequeue", "peek"}
                                   THEN {Front(items)} ELSE {}]
    /\ UNCHANGED <<items, mu, local>>

\* Wrong: Lock does not wait.
LockShared(p) ==
    /\ Goto(p, "lock", "read")
    /\ mu' = p
    /\ UNCHANGED <<items, op, value, local, answer, seen>>

\* q.mu.Lock()
Lock(p) ==
    /\ Goto(p, "lock", "read")
    /\ mu = Null
    /\ mu' = p
    /\ UNCHANGED <<items, op, value, local, answer, seen>>

\* The operations that return without a store: Peek, Len, and a Dequeue that
\* finds nothing.
ReturnsEarly(o, s) == o \in {"peek", "len"} \/ (o = "dequeue" /\ s = <<>>)

Read(p) ==
    /\ \/ /\ ReturnsEarly(op[p], items)
          /\ Goto(p, "read", "unlock")
          /\ answer' = [answer EXCEPT ![p] = IF op[p] = "len" THEN Len(items)
                                             ELSE Front(items)]
          /\ seen' = [seen EXCEPT ![p] = {}]
          /\ UNCHANGED <<value, local>>
       \/ /\ ~ReturnsEarly(op[p], items)
          /\ Goto(p, "read", "store")
          /\ local' = [local EXCEPT ![p] = items]
          /\ UNCHANGED <<answer, value, seen>>
    /\ UNCHANGED <<items, mu, op>>

\* What operation o leaves of the slice s.
Stored(o, s, x) ==
    CASE o = "enqueue" -> Append(s, x)
      [] o = "dequeue" -> Tail(s)
      [] o = "clear" -> <<>>

Store(p) ==
    /\ Goto(p, "store", "unlock")
    /\ items' = Stored(op[p], local[p], value[p])
    /\ answer' = [answer EXCEPT ![p] = IF op[p] = "dequeue" THEN Head(local[p]) ELSE Done]
    /\ seen' = [q \in Procs |->
                  IF q # p /\ pc[q] \in Pending /\ op[q] \in {"dequeue", "peek"}
                  THEN seen[q] \cup {Front(items')} ELSE {}]
    /\ local' = [local EXCEPT ![p] = <<>>]
    /\ value' = [value EXCEPT ![p] = Null]
    /\ UNCHANGED <<mu, op>>

\* q.mu.Unlock()
Unlock(p) ==
    /\ Goto(p, "unlock", "idle")
    /\ mu' = Null
    /\ UNCHANGED <<items, op, value, local, answer, seen>>

\* NewQueue
Init ==
    /\ items = <<>>
    /\ mu = Null
    /\ pc = [p \in Procs |-> "idle"]
    /\ op = [p \in Procs |-> "len"]
    /\ value = [p \in Procs |-> Null]
    /\ local = [p \in Procs |-> <<>>]
    /\ answer = [p \in Procs |-> Done]
    /\ seen = [p \in Procs |-> {}]

CallOp(p) ==
    \/ \E x \in Values : Len(items) <= MaxLength /\ Call(p, "enqueue", x)
    \/ \E o \in Ops \ {"enqueue"} : Call(p, o, Null)

Next == \E p \in Procs : CallOp(p) \/ Lock(p) \/ Read(p) \/ Store(p) \/ Unlock(p)

Spec == Init /\ [][Next]_vars
-----------------------------------------------------------------------------
\* The mutex queue is a queue: each operation takes effect at one moment
\* between its call and its return.
Q == INSTANCE QueueSpec WITH
        Items <- Values,
        Empty <- Null,
        op <- [p \in Procs |-> IF pc[p] \in Pending THEN op[p] ELSE "none"],
        item <- value

ImplementsQueue == Q!Spec
=============================================================================
