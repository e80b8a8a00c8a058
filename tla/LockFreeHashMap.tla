-------------------------- MODULE LockFreeHashMap --------------------------
(***************************************************************************)
(* The map of pkg/ds/lockfree/hashmap.go: one list of all nodes, sorted by *)
(* hash, from which no node is ever taken out, and for each bucket a       *)
(* pointer to the node a search for the bucket's keys begins at.  Deleting *)
(* sets a flag in the node; putting the key again clears it.  Each atomic  *)
(* load, store, addition and compare-and-swap is a step.                   *)
(*                                                                         *)
(* Nodes are numbered in the order of linking.  A node that is not linked  *)
(* is known to its Put alone, so it has no number yet.                     *)
(***************************************************************************)
EXTENDS Integers, FiniteSets

CONSTANTS
    Procs,          \* goroutines that use the map
    Keys, Values,
    Puts,           \* pairs of a key and a value that are put
    Hash,           \* the hash of each key
    Requested,      \* the number of buckets NewHashMap is asked for
    BucketCount,    \* and the number it makes
    MaxNodes,       \* bound: nodes linked, the head not counted
    MaxClears,      \* bound: calls of Clear
    Nil, NoKey, NoValue

\* The least power of two that is not below n.
nextPowerOf2(n) == IF n = 0 THEN 1
                   ELSE CHOOSE m \in 1 .. 2 * n :
                          /\ m >= n /\ \E i \in 0 .. n : m = 2 ^ i
                          /\ \A i \in 0 .. n : 2 ^ i >= n => 2 ^ i >= m

ASSUME BucketsAssumption ==
    BucketCount = nextPowerOf2(IF Requested = 0 THEN 64 ELSE Requested)

ASSUME HashMapAssumption ==
    /\ IsFiniteSet(Procs) /\ IsFiniteSet(Keys)
    /\ Puts \subseteq Keys \X Values
    /\ Hash \in [Keys -> Nat]
    /\ BucketCount \in Nat \ {0} /\ MaxNodes \in Nat /\ MaxClears \in Nat
    /\ Nil \notin Nat /\ NoKey \notin Keys /\ NoValue \notin Values

VARIABLES
    next,           \* the pointer each node holds; node 0 is the head
    nkey, val, deleted,
    size,           \* nodes linked
    bucket, count,
    pc, op, key, value,         \* of each goroutine: next step, operation, arguments
    prev, curr, nnext,          \* its local variables; nnext is newNode.next
    answer,         \* the keys that the last operation but Get has found
    clears,         \* calls of Clear so far
    mixed,          \* history: a Clear has overlapped a Put, Delete or Clear
    was,            \* history: <<k, b>>: since the call, k was in the map or not
    shown,          \* history: what its key was bound to since Get was called
    excused         \* history: that Get may be wrong, and why: see GetExplained

nodeVars == <<next, nkey, val, deleted, size>>
sharedVars == <<next, nkey, val, deleted, size, bucket, count>>
localVars == <<prev, curr, nnext>>
opVars == <<op, key, value>>
histVars == <<was, shown, excused>>
vars == <<sharedVars, pc, opVars, localVars, answer, clears, mixed, histVars>>

Head == 0
Nodes == 1 .. MaxNodes
Linked == 1 .. size
Pointers == Nodes \cup {Nil}

getBucket(k) == Hash[k] % BucketCount
BucketIndexes == 0 .. BucketCount - 1

Live == {x \in Linked : ~deleted[x]}
LiveKeys == {nkey[x] : x \in Live}

FindSteps == {"first", "find"}
EffectSteps == FindSteps \cup {"revive", "readHead", "link", "delMark"}
ClearSteps == {"clear", "clearNext"}
Steps == EffectSteps \cup ClearSteps \cup
         {"idle", "update", "revalue", "countRevived", "countNew", "setBucket",
          "uncount", "bucket", "walk", "value", "range", "rangeNext", "clearBuckets"}
-----------------------------------------------------------------------------
(* History: what callers could see.                                        *)

About(k) == IF k = NoKey THEN Keys ELSE {k}

State(K) == {<<k, k \in LiveKeys>> : k \in K}

\* A goroutine whose Delete, Range or Clear has not taken effect.
Watching(p) == pc[p] \in {"first", "find", "delMark", "range", "rangeNext"} \cup ClearSteps
               /\ op[p] \in {"delete", "range", "clear"}

Getting(p) == pc[p] \in {"bucket", "walk", "value"}

\* A Put has brought k's node back and not yet stored its value.
Reviving(k) == \E p \in Procs : pc[p] = "revalue" /\ key[p] = k

\* What k is bound to: not what it was bound to before a Delete.
Bound(k) == IF k \in LiveKeys
            THEN {val[x] : x \in {y \in Live : nkey[y] = k /\ ~Reviving(k)}}
            ELSE {NoValue}

\* The values Puts of k are about to store in its node.
Arriving(k) == {value[p] : p \in {q \in Procs : pc[q] \in {"update", "revalue"}
                                                /\ key[q] = k}}

\* In this step q's Get takes a bucket's node that is not before its key's.
StartsBeyond(q) ==
    /\ pc[q] = "bucket"
    /\ curr'[q] \in Linked
    /\ nkey[curr'[q]] # key[q]
    /\ Hash[nkey[curr'[q]]] >= Hash[key[q]]

\* What every step adds to the histories.
Record ==
    /\ was' = [q \in Procs |->
                  IF Watching(q)' THEN was[q] \cup State(About(key[q]))' ELSE {}]
    /\ shown' = [q \in Procs |->
                  IF Getting(q)' THEN shown[q] \cup (Bound(key[q]) \cup Arriving(key[q]))'
                                 ELSE {}]
    /\ excused' = [q \in Procs |->
                  IF Getting(q)'
                  THEN excused[q] \cup {e \in {"stale"} : Reviving(key[q])'}
                                  \cup {e \in {"beyond"} : StartsBeyond(q)}
                  ELSE {}]
-----------------------------------------------------------------------------
Goto(p, step, target) == pc[p] = step /\ pc' = [pc EXCEPT ![p] = target]

Call(p, o, k, v, first) ==
    /\ Goto(p, "idle", first)
    /\ op' = [op EXCEPT ![p] = o]
    /\ key' = [key EXCEPT ![p] = k]
    /\ value' = [value EXCEPT ![p] = v]
    /\ answer' = [answer EXCEPT ![p] = IF o = "get" THEN @ ELSE {}]
    /\ mixed' = (mixed \/ \E q \in Procs :
                   \/ o = "clear" /\ op[q] \in {"put", "delete", "clear"}
                   \/ o \in {"put", "delete"} /\ op[q] = "clear")
    /\ UNCHANGED <<sharedVars, localVars>>

\* The end of an operation: its local variables are gone.
Return(p, step) ==
    /\ Goto(p, step, "idle")
    /\ op' = [op EXCEPT ![p] = "none"]
    /\ key' = [key EXCEPT ![p] = NoKey]
    /\ value' = [value EXCEPT ![p] = NoValue]
    /\ prev' = [prev EXCEPT ![p] = Nil]
    /\ curr' = [curr EXCEPT ![p] = Nil]
    /\ nnext' = [nnext EXCEPT ![p] = Nil]
    /\ UNCHANGED <<clears, mixed>>

ReturnAnswer(p, step, a) ==
    Return(p, step) /\ answer' = [answer EXCEPT ![p] = a] /\ UNCHANGED sharedVars

\* A step from which the operation goes on.
Within == UNCHANGED <<opVars, clears, mixed>>
Quiet == Within /\ UNCHANGED <<sharedVars, localVars, answer>>

Advance(p, x) == curr' = [curr EXCEPT ![p] = x]
-----------------------------------------------------------------------------
(* findPosition: the node of the key, or the place for it.                 *)

Finding(p, o) == pc[p] = "find" /\ op[p] = o

Found(p) == curr[p] # Nil /\ nkey[curr[p]] = key[p]

\* The end of the list or a node of a larger hash.
Missed(p) == curr[p] # Nil => Hash[nkey[curr[p]]] > Hash[key[p]]

FindFirst(p) ==
    /\ Goto(p, "first", "find")
    /\ prev' = [prev EXCEPT ![p] = Head]
    /\ Advance(p, next[Head])
    /\ Within /\ UNCHANGED <<sharedVars, nnext, answer>>

FindNext(p) ==
    /\ pc[p] = "find"
    /\ ~Found(p) /\ ~Missed(p)
    /\ prev' = [prev EXCEPT ![p] = curr[p]]
    /\ Advance(p, next[curr[p]])
    /\ Within /\ UNCHANGED <<sharedVars, pc, nnext, answer>>
-----------------------------------------------------------------------------
(* Put.                                                                    *)

\* Wrong: a node is updated whether it is deleted or not.
PutFoundDead(p) ==
    /\ Finding(p, "put") /\ Found(p)
    /\ Goto(p, "find", "update")
    /\ Quiet

\* The key has a node: its flag is read.
PutFound(p) ==
    /\ Finding(p, "put") /\ Found(p)
    /\ Goto(p, "find", IF deleted[curr[p]] THEN "revive" ELSE "update")
    /\ Quiet

PutUpdate(p) ==
    /\ Return(p, "update")
    /\ val' = [val EXCEPT ![curr[p]] = value[p]]
    /\ UNCHANGED <<next, nkey, deleted, size, bucket, count, answer>>

\* Wrong: the flag is stored, and two Puts count the key.
PutReviveStore(p) ==
    /\ Goto(p, "revive", "revalue")
    /\ deleted' = [deleted EXCEPT ![curr[p]] = FALSE]
    /\ Within /\ UNCHANGED <<next, nkey, val, size, bucket, count, localVars, answer>>

\* CompareAndSwapInt32(&curr.deleted, 1, 0)
PutRevive(p) ==
    \/ /\ Goto(p, "revive", "revalue")
       /\ deleted[curr[p]]
       /\ deleted' = [deleted EXCEPT ![curr[p]] = FALSE]
       /\ Within /\ UNCHANGED <<next, nkey, val, size, bucket, count, localVars, answer>>
    \/ /\ Goto(p, "revive", "first")
       /\ ~deleted[curr[p]]
       /\ Quiet

PutRevalue(p) ==
    /\ Goto(p, "revalue", "countRevived")
    /\ val' = [val EXCEPT ![curr[p]] = value[p]]
    /\ Within /\ UNCHANGED <<next, nkey, deleted, size, bucket, count, localVars, answer>>

\* The place is the list's first: head.next is read again for newNode.next.
PutReadHead(p) ==
    /\ Finding(p, "put") /\ ~Found(p) /\ Missed(p) /\ prev[p] = Head
    /\ Goto(p, "find", "link")
    /\ nnext' = [nnext EXCEPT ![p] = next[Head]]
    /\ Within /\ UNCHANGED <<sharedVars, prev, curr, answer>>

\* Any other place: newNode.next is curr.
PutReadCurr(p) ==
    /\ Finding(p, "put") /\ ~Found(p) /\ Missed(p) /\ prev[p] # Head
    /\ Goto(p, "find", "link")
    /\ nnext' = [nnext EXCEPT ![p] = curr[p]]
    /\ Within /\ UNCHANGED <<sharedVars, prev, curr, answer>>

LinkNode(p, x) ==
    /\ next' = [next EXCEPT ![prev[p]] = x, ![x] = nnext[p]]
    /\ nkey' = [nkey EXCEPT ![x] = key[p]]
    /\ val' = [val EXCEPT ![x] = value[p]]
    /\ size' = x
    /\ Advance(p, x)
    /\ Within /\ UNCHANGED <<deleted, bucket, count, prev, nnext, answer>>

\* Wrong: prev.next is stored, whatever it has become.
PutLinkStore(p) ==
    /\ Goto(p, "link", "countNew")
    /\ size < MaxNodes
    /\ LinkNode(p, size + 1)

\* CompareAndSwapPointer(&prev.next, curr, newNode)
PutLink(p) ==
    \/ /\ Goto(p, "link", "countNew")
       /\ size < MaxNodes
       /\ next[prev[p]] = curr[p]
       /\ LinkNode(p, size + 1)
    \/ /\ Goto(p, "link", "first")
       /\ next[prev[p]] # curr[p]
       /\ Quiet

PutCountRevived(p) ==
    /\ Return(p, "countRevived")
    /\ count' = count + 1
    /\ UNCHANGED <<nodeVars, bucket, answer>>

PutCountNew(p) ==
    /\ Goto(p, "countNew", "setBucket")
    /\ count' = count + 1
    /\ Within /\ UNCHANGED <<nodeVars, bucket, localVars, answer>>

\* maybeUpdateBucket: CompareAndSwapPointer(&buckets[i], nil, node)
PutSetBucket(p) ==
    /\ Return(p, "setBucket")
    /\ bucket' = [bucket EXCEPT ![getBucket(key[p])] = IF @ = Nil THEN curr[p] ELSE @]
    /\ UNCHANGED <<nodeVars, count, answer>>

Put(p) ==
    \/ PutFound(p)
    \/ PutUpdate(p)
    \/ PutRevive(p)
    \/ PutRevalue(p)
    \/ PutReadHead(p)
    \/ PutReadCurr(p)
    \/ PutLink(p)
    \/ PutCountRevived(p)
    \/ PutCountNew(p)
    \/ PutSetBucket(p)
-----------------------------------------------------------------------------
(* Delete.                                                                 *)

DelMiss(p) ==
    /\ Finding(p, "delete") /\ ~Found(p) /\ Missed(p)
    /\ ReturnAnswer(p, "find", {})

DelFound(p) ==
    /\ Finding(p, "delete") /\ Found(p)
    /\ \/ deleted[curr[p]] /\ ReturnAnswer(p, "find", {})
       \/ ~deleted[curr[p]] /\ Goto(p, "find", "delMark") /\ Quiet

\* CompareAndSwapInt32(&curr.deleted, 0, 1)
DelMark(p) ==
    \/ /\ Goto(p, "delMark", "uncount")
       /\ ~deleted[curr[p]]
       /\ deleted' = [deleted EXCEPT ![curr[p]] = TRUE]
       /\ answer' = [answer EXCEPT ![p] = {key[p]}]
       /\ Within /\ UNCHANGED <<next, nkey, val, size, bucket, count, localVars>>
    \/ /\ Goto(p, "delMark", "first")
       /\ deleted[curr[p]]
       /\ Quiet

DelUncount(p) ==
    /\ Return(p, "uncount")
    /\ count' = count - 1
    /\ UNCHANGED <<nodeVars, bucket, answer>>

Delete(p) == DelMiss(p) \/ DelFound(p) \/ DelMark(p) \/ DelUncount(p)
-----------------------------------------------------------------------------
(* Get, and Has, which is a Get.  What GetMiss returns is (nil, false), what *)
(* GetValue returns is (val[curr[p]], true).                               *)

ReturnGet(p, step) == Return(p, step) /\ UNCHANGED <<sharedVars, answer>>

\* Where the search begins: the bucket's node, or the head.
GetStart(p) ==
    /\ Goto(p, "bucket", "walk")
    /\ LET b == bucket[getBucket(key[p])] IN Advance(p, IF b = Nil THEN Head ELSE b)
    /\ Within /\ UNCHANGED <<sharedVars, prev, nnext, answer>>

GetNext(p) ==
    /\ pc[p] = "walk"
    /\ curr[p] # Head => ~Found(p) /\ ~Missed(p)
    /\ Advance(p, next[curr[p]])
    /\ Within /\ UNCHANGED <<sharedVars, pc, prev, nnext, answer>>

GetMiss(p) ==
    /\ pc[p] = "walk" /\ curr[p] # Head /\ ~Found(p) /\ Missed(p)
    /\ ReturnGet(p, "walk")

\* Wrong: the flag is not read.
GetFoundAnyway(p) ==
    /\ pc[p] = "walk" /\ curr[p] # Head /\ Found(p)
    /\ Goto(p, "walk", "value")
    /\ Quiet

GetFound(p) ==
    /\ pc[p] = "walk" /\ curr[p] # Head /\ Found(p)
    /\ \/ deleted[curr[p]] /\ ReturnGet(p, "walk")
       \/ ~deleted[curr[p]] /\ Goto(p, "walk", "value") /\ Quiet

GetValue(p) == ReturnGet(p, "value")

Get(p) == GetStart(p) \/ GetNext(p) \/ GetMiss(p) \/ GetFound(p) \/ GetValue(p)
-----------------------------------------------------------------------------
(* Range; answer collects the keys the caller's function has been given.   *)

RangeFirst(p) ==
    /\ op[p] = "range"
    /\ Goto(p, "first", "range")
    /\ Advance(p, next[Head])
    /\ Within /\ UNCHANGED <<sharedVars, prev, nnext, answer>>

\* A live node is given to the function, which says whether to go on.
RangeVisit(p) ==
    /\ pc[p] = "range" /\ curr[p] # Nil
    /\ \/ /\ Goto(p, "range", "rangeNext")
          /\ answer' = [answer EXCEPT ![p] = @ \cup {nkey[x] : x \in {curr[p]} \cap Live}]
          /\ Within /\ UNCHANGED <<sharedVars, localVars>>
       \/ ~deleted[curr[p]] /\ ReturnAnswer(p, "range", {})

RangeNext(p) ==
    /\ Goto(p, "rangeNext", "range")
    /\ Advance(p, next[curr[p]])
    /\ Within /\ UNCHANGED <<sharedVars, prev, nnext, answer>>

RangeEnd(p) == pc[p] = "range" /\ curr[p] = Nil /\ ReturnAnswer(p, "range", answer[p])

RangeAll(p) == RangeFirst(p) \/ RangeVisit(p) \/ RangeNext(p) \/ RangeEnd(p)
-----------------------------------------------------------------------------
(* Clear; prev counts the buckets that have been reset.                    *)

ClearFirst(p) ==
    /\ op[p] = "clear"
    /\ Goto(p, "first", "clear")
    /\ Advance(p, next[Head])
    /\ Within /\ UNCHANGED <<sharedVars, prev, nnext, answer>>

ClearMark(p) ==
    /\ pc[p] = "clear" /\ curr[p] # Nil
    /\ Goto(p, "clear", "clearNext")
    /\ deleted' = [deleted EXCEPT ![curr[p]] = TRUE]
    /\ Within /\ UNCHANGED <<next, nkey, val, size, bucket, count, localVars, answer>>

ClearNext(p) ==
    /\ Goto(p, "clearNext", "clear")
    /\ Advance(p, next[curr[p]])
    /\ Within /\ UNCHANGED <<sharedVars, prev, nnext, answer>>

ClearCount(p) ==
    /\ curr[p] = Nil
    /\ Goto(p, "clear", "clearBuckets")
    /\ count' = 0
    /\ prev' = [prev EXCEPT ![p] = 0]
    /\ Within /\ UNCHANGED <<nodeVars, bucket, curr, nnext, answer>>

ClearBucket(p) ==
    /\ pc[p] = "clearBuckets"
    /\ bucket' = [bucket EXCEPT ![prev[p]] = Nil]
    /\ UNCHANGED <<nodeVars, count, answer>>
    /\ \/ /\ prev[p] + 1 < BucketCount
          /\ prev' = [prev EXCEPT ![p] = @ + 1]
          /\ Within /\ UNCHANGED <<pc, curr, nnext>>
       \/ prev[p] + 1 = BucketCount /\ Return(p, "clearBuckets")

Clear(p) == ClearFirst(p) \/ ClearMark(p) \/ ClearNext(p) \/ ClearCount(p) \/ ClearBucket(p)
-----------------------------------------------------------------------------
\* NewHashMap
Init ==
    /\ next = [x \in {Head} \cup Nodes |-> Nil]
    /\ nkey = [x \in Nodes |-> NoKey]
    /\ val = [x \in Nodes |-> NoValue]
    /\ deleted = [x \in Nodes |-> FALSE]
    /\ size = 0
    /\ bucket = [i \in BucketIndexes |-> Nil]
    /\ count = 0
    /\ pc = [p \in Procs |-> "idle"]
    /\ op = [p \in Procs |-> "none"]
    /\ key = [p \in Procs |-> NoKey]
    /\ value = [p \in Procs |-> NoValue]
    /\ prev = [p \in Procs |-> Nil]
    /\ curr = [p \in Procs |-> Nil]
    /\ nnext = [p \in Procs |-> Nil]
    /\ answer = [p \in Procs |-> {}]
    /\ clears = 0
    /\ mixed = FALSE
    /\ was = [p \in Procs |-> {}]
    /\ shown = [p \in Procs |-> {}]
    /\ excused = [p \in Procs |-> {}]

CallOp(p) ==
    \/ \E w \in Puts : Call(p, "put", w[1], w[2], "first") /\ UNCHANGED clears
    \/ \E k \in Keys : Call(p, "delete", k, NoValue, "first") /\ UNCHANGED clears
    \/ \E k \in Keys : Call(p, "get", k, NoValue, "bucket") /\ UNCHANGED clears
    \/ Call(p, "range", NoKey, NoValue, "first") /\ UNCHANGED clears
    \/ clears < MaxClears /\ Call(p, "clear", NoKey, NoValue, "first") /\ clears' = clears + 1

Find(p) == op[p] \in {"put", "delete"} /\ (FindFirst(p) \/ FindNext(p))

Work(p) == Find(p) \/ Put(p) \/ Delete(p) \/ Get(p) \/ RangeAll(p) \/ Clear(p)

Next == \E p \in Procs : (CallOp(p) \/ Work(p)) /\ Record

Spec == Init /\ [][Next]_vars
-----------------------------------------------------------------------------
TypeOK ==
    /\ next \in [{Head} \cup Nodes -> Pointers]
    /\ nkey \in [Nodes -> Keys \cup {NoKey}]
    /\ val \in [Nodes -> Values \cup {NoValue}]
    /\ deleted \in [Nodes -> BOOLEAN]
    /\ size \in 0 .. MaxNodes
    /\ bucket \in [BucketIndexes -> Pointers]
    /\ count \in Int
    /\ pc \in [Procs -> Steps]
    /\ op \in [Procs -> {"none", "put", "delete", "get", "range", "clear"}]
    /\ key \in [Procs -> Keys \cup {NoKey}]
    /\ value \in [Procs -> Values \cup {NoValue}]
    /\ prev \in [Procs -> Nat \cup {Nil}]
    /\ curr \in [Procs -> {Head} \cup Pointers]
    /\ nnext \in [Procs -> Pointers]
    /\ answer \in [Procs -> SUBSET Keys]
    /\ clears \in 0 .. MaxClears
    /\ mixed \in BOOLEAN

\* Two nodes that are linked have different keys, and a node's successor is
\* linked and has no smaller hash.
ListSorted ==
    /\ \A x, y \in Linked : nkey[x] = nkey[y] => x = y
    /\ \A x \in Linked : nkey[x] \in Keys
    /\ next[Head] \in Linked \cup {Nil}
    /\ \A x \in Linked :
          next[x] # Nil => next[x] \in Linked /\ Hash[nkey[next[x]]] >= Hash[nkey[x]]

\* However Puts race, no key ever has two nodes: of two Puts that look for the
\* place of one new key, the slower one finds prev.next changed.
KeysUnique == TypeOK /\ ListSorted

\* Len: the counter is the number of keys in the map but for the operations
\* that have taken effect and not yet counted it, as long as no Clear has
\* overlapped an operation that counts.
Uncounted == {p \in Procs : pc[p] \in {"revalue", "countRevived", "countNew"}}
Overcounted == {p \in Procs : pc[p] = "uncount"}

CountExact ==
    (~mixed /\ \A p \in Procs : op[p] # "clear")
        => count + Cardinality(Uncounted) = Cardinality(Live) + Cardinality(Overcounted)

\* A Get answers what its key was bound to at some moment of the call, or what
\* a Put that overlaps it stores.  There are two exceptions: it may miss a key
\* when its bucket's node is not before the key's place ("beyond"), and it may
\* answer with a value from before a Delete while a Put is bringing the key
\* back and has not stored its own ("stale").
Explained(p) ==
    /\ (pc[p] = "walk" /\ pc'[p] = "idle")
          => NoValue \in shown[p] \/ "beyond" \in excused[p]
    /\ (pc[p] = "value" /\ pc'[p] = "idle")
          => val[curr[p]] \in shown[p] \/ "stale" \in excused[p]

GetExplained == [][\A p \in Procs : Explained(p)]_vars

\* Puts, Deletes, Ranges and Clears are those of a map, as far as the keys in
\* it are concerned: Put takes effect when it links a node, clears its flag or
\* sees that it is clear, Delete when it sets the flag.
opOf(p) ==
    CASE op[p] = "put" /\ pc[p] \in EffectSteps -> "put"
      [] op[p] \in {"delete", "range", "clear"} /\ Watching(p) -> op[p]
      [] OTHER -> "none"

KeySet == INSTANCE KeySetSpec WITH
        keys <- LiveKeys,
        op <- [p \in Procs |-> opOf(p)],
        key <- [p \in Procs |-> IF opOf(p) = "none" THEN NoKey ELSE key[p]],
        answer <- [p \in Procs |-> IF opOf(p) = "range" THEN {} ELSE answer[p]]

ImplementsKeySet == KeySet!Spec
=============================================================================
