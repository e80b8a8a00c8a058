----------------------- MODULE LockFreeHashMapProofs -----------------------
(***************************************************************************)
(* Proofs about the lock-free map, for any goroutines, keys, hashes that   *)
(* collide or not, buckets and operations: no key ever has two nodes       *)
(* (KeysUnique); as far as the keys in it are concerned the map implements *)
(* KeySetSpec; a Get answers what it was shown but for its two excuses     *)
(* (GetExplained); the counter is exact but for those that have not        *)
(* counted yet (CountExact).                                               *)
(*                                                                         *)
(* The list is sorted by hash, and by the order of linking among nodes of  *)
(* the same hash, since a node is linked only where the next one has a     *)
(* larger hash.  That order says which nodes a search, a Range or a Clear  *)
(* has passed without a notion of reachability, and it stays as it is when *)
(* a node is linked.                                                       *)
(***************************************************************************)
EXTENDS LockFreeHashMap, TLAPS, FiniteSetTheorems

Before(x, y) ==
    \/ Hash[nkey[x]] < Hash[nkey[y]]
    \/ Hash[nkey[x]] = Hash[nkey[y]] /\ x < y

After(u, y) == u = Head \/ Before(u, y)

\* The list: a node's successor is the next one in that order.
Ordered ==
    /\ \A x \in Linked : nkey[x] \in Keys
    /\ \A x, y \in Linked : nkey[x] = nkey[y] => x = y
    /\ \A u \in {Head} \cup Linked :
          /\ next[u] \in Linked \cup {Nil}
          /\ next[u] # Nil => After(u, next[u])
          /\ \A y \in Linked : After(u, y) => next[u] # Nil /\ (y = next[u] \/ Before(next[u], y))

\* A search: what has the key is after prev, and not before curr unless curr is
\* beyond the key's place.
SearchOK(p) ==
    /\ key[p] \in Keys /\ prev[p] \in {Head} \cup Linked /\ curr[p] \in Linked \cup {Nil}
    /\ prev[p] # Head => Hash[nkey[prev[p]]] <= Hash[key[p]]
    /\ \A x \in Linked : nkey[x] = key[p] => After(prev[p], x)
    /\ curr[p] # Nil /\ Hash[nkey[curr[p]]] <= Hash[key[p]] =>
          \A x \in Linked : nkey[x] = key[p] => x = curr[p] \/ Before(curr[p], x)

\* A node about to be linked: its successor is the one it replaces, if the
\* compare-and-swap succeeds.
LinkOK(p) ==
    /\ Missed(p)
    /\ next[prev[p]] = curr[p] => nnext[p] = curr[p]

LocalOK(p) ==
    /\ op[p] \in {"put", "delete", "get"} => key[p] \in Keys
    /\ pc[p] \in {"find", "link", "revive", "delMark"} => op[p] \in {"put", "delete"}
    /\ pc[p] = "bucket" => op[p] = "get"
    /\ pc[p] \in {"countNew", "setBucket"} => curr[p] \in Nodes
    /\ pc[p] \in {"find", "link"} => SearchOK(p)
    /\ pc[p] = "link" => LinkOK(p)
    /\ pc[p] \in {"rangeNext", "clearNext"} => curr[p] # Nil
    /\ pc[p] = "clearBuckets" => prev[p] \in Nat

IInv == TypeOK /\ Ordered /\ \A p \in Procs : LocalOK(p)
-----------------------------------------------------------------------------
LEMMA Constants ==
    /\ Hash \in [Keys -> Nat] /\ MaxNodes \in Nat /\ MaxClears \in Nat
    /\ Nil \notin Nat /\ NoKey \notin Keys /\ BucketCount \in Nat
    /\ \A w \in Puts : w[1] \in Keys /\ w[2] \in Values
BY HashMapAssumption DEF HashMapAssumption

\* The parts of TypeOK.
SharedType ==
    /\ next \in [{Head} \cup Nodes -> Pointers]
    /\ nkey \in [Nodes -> Keys \cup {NoKey}]
    /\ val \in [Nodes -> Values \cup {NoValue}]
    /\ deleted \in [Nodes -> BOOLEAN]
    /\ size \in 0 .. MaxNodes
    /\ bucket \in [BucketIndexes -> Pointers]
    /\ count \in Int

AnswerType ==
    answer \in [Procs -> SUBSET Keys] /\ clears \in 0 .. MaxClears /\ mixed \in BOOLEAN

LocalType ==
    /\ pc \in [Procs -> Steps]
    /\ op \in [Procs -> {"none", "put", "delete", "get", "range", "clear"}]
    /\ key \in [Procs -> Keys \cup {NoKey}]
    /\ value \in [Procs -> Values \cup {NoValue}]
    /\ prev \in [Procs -> Nat \cup {Nil}]
    /\ curr \in [Procs -> {Head} \cup Pointers]
    /\ nnext \in [Procs -> Pointers]

LEMMA TypeParts == TypeOK <=> SharedType /\ AnswerType /\ LocalType
BY DEF TypeOK, SharedType, AnswerType, LocalType

\* Node numbers.
LEMMA Numbers ==
    ASSUME SharedType
    PROVE  /\ Linked \subseteq Nodes /\ Linked \subseteq Nat /\ Nodes \subseteq Nat
           /\ Head \notin Nodes /\ Head \in Nat /\ Nil \notin Nodes /\ Nil # Head
           /\ size < MaxNodes => size + 1 \in Nodes /\ size + 1 \notin Linked
           /\ \A x \in Linked : x < size + 1
BY Constants DEF SharedType, Linked, Nodes, Head

\* The other goroutines stay where they are.
OthersKeep(p) ==
    \A q \in Procs : q # p =>
        /\ pc'[q] = pc[q] /\ op'[q] = op[q] /\ key'[q] = key[q]
        /\ prev'[q] = prev[q] /\ curr'[q] = curr[q] /\ nnext'[q] = nnext[q]

\* A step of p that changes neither the list nor the keys in it.
LEMMA Frame ==
    ASSUME IInv, NEW p \in Procs, UNCHANGED <<next, nkey, size>>, OthersKeep(p),
           TypeOK', LocalOK(p)'
    PROVE  IInv'
<1>1. Ordered'
  BY DEF IInv, Ordered, Linked, After, Before
<1>2. ASSUME NEW q \in Procs, q # p PROVE LocalOK(q)'
  <2>1. /\ pc'[q] = pc[q] /\ op'[q] = op[q] /\ key'[q] = key[q]
        /\ prev'[q] = prev[q] /\ curr'[q] = curr[q] /\ nnext'[q] = nnext[q]
    BY <1>2 DEF OthersKeep
  <2>2. LocalOK(q)
    BY DEF IInv
  <2>3. SearchOK(q) => SearchOK(q)'
    BY <2>1 DEF SearchOK, After, Before, Linked
  <2>4. LinkOK(q) => LinkOK(q)'
    BY <2>1 DEF LinkOK, Missed
  <2> QED
    BY <2>1, <2>2, <2>3, <2>4 DEF LocalOK
<1> QED
  BY <1>1, <1>2 DEF IInv

\* The end of an operation.
LEMMA ReturnKeeps ==
    ASSUME IInv, NEW p \in Procs, NEW step, Return(p, step), UNCHANGED <<next, nkey, size>>,
           SharedType', answer' \in [Procs -> SUBSET Keys]
    PROVE  IInv'
<1>1. LocalType
  BY TypeParts DEF IInv
<1>2. /\ pc'[p] = "idle" /\ op'[p] = "none" /\ OthersKeep(p)
      /\ pc' \in [Procs -> Steps]
      /\ op' \in [Procs -> {"none", "put", "delete", "get", "range", "clear"}]
  BY <1>1 DEF Return, Goto, LocalType, OthersKeep, Steps
<1>3. LocalType'
  <2>1. "idle" \in Steps /\ Nil \in Pointers
    BY DEF Steps, Pointers
  <2> QED
    BY <1>1, <1>2, <2>1 DEF Return, LocalType
<1>4. AnswerType'
  BY TypeParts DEF IInv, AnswerType, Return
<1>5. LocalOK(p)'
  BY <1>2 DEF LocalOK
<1>6. TypeOK'
  BY <1>3, <1>4 DEF TypeOK, SharedType, AnswerType, LocalType
<1> QED
  BY <1>2, <1>5, <1>6, Frame

\* A step within an operation.
LEMMA StepKeeps ==
    ASSUME IInv, NEW p \in Procs, Within, UNCHANGED <<next, nkey, size>>,
           SharedType', answer' \in [Procs -> SUBSET Keys],
           NEW t \in Steps, pc' = [pc EXCEPT ![p] = t],
           NEW u \in Nat \cup {Nil}, prev' = [prev EXCEPT ![p] = u],
           NEW c \in {Head} \cup Pointers, curr' = [curr EXCEPT ![p] = c],
           NEW n \in Pointers, nnext' = [nnext EXCEPT ![p] = n],
           LocalOK(p)'
    PROVE  IInv'
<1>1. LocalType
  BY TypeParts DEF IInv
<1>2. OthersKeep(p)
  BY <1>1 DEF Within, opVars, LocalType, OthersKeep
<1>3. LocalType'
  BY <1>1 DEF Within, opVars, LocalType
<1>4. AnswerType'
  BY TypeParts DEF IInv, AnswerType, Within
<1>5. TypeOK'
  BY <1>3, <1>4 DEF TypeOK, SharedType, AnswerType, LocalType
<1> QED
  BY <1>2, <1>5, Frame

\* Steps of which LocalOK asks nothing but that the key is one.
Plain == Steps \ {"find", "link", "revive", "delMark", "rangeNext", "clearNext", "clearBuckets",
                  "bucket", "countNew", "setBucket"}

LEMMA PlainOK ==
    ASSUME IInv, NEW p \in Procs, Within, pc'[p] \in Plain
    PROVE  LocalOK(p)'
BY DEF IInv, LocalOK, Within, opVars, Plain

\* A step that only goes elsewhere.
LEMMA QuietKeeps ==
    ASSUME IInv, NEW p \in Procs, Quiet, NEW t \in Steps, pc' = [pc EXCEPT ![p] = t],
           LocalOK(p)'
    PROVE  IInv'
<1>1. SharedType /\ AnswerType /\ LocalType
  BY TypeParts DEF IInv
<1>2. /\ Within /\ UNCHANGED <<next, nkey, val, deleted, size, bucket, count>>
      /\ UNCHANGED <<prev, curr, nnext, answer>>
  BY DEF Quiet, sharedVars, localVars
<1>3. SharedType' /\ answer' \in [Procs -> SUBSET Keys]
  BY <1>1, <1>2 DEF SharedType, AnswerType
<1>4. /\ prev[p] \in Nat \cup {Nil} /\ prev' = [prev EXCEPT ![p] = prev[p]]
      /\ curr[p] \in {Head} \cup Pointers /\ curr' = [curr EXCEPT ![p] = curr[p]]
      /\ nnext[p] \in Pointers /\ nnext' = [nnext EXCEPT ![p] = nnext[p]]
  BY <1>1, <1>2 DEF LocalType
<1> QED
  BY <1>2, <1>3, <1>4, StepKeeps

LEMMA PlainKeeps ==
    ASSUME IInv, NEW p \in Procs, Quiet, NEW t \in Plain, pc' = [pc EXCEPT ![p] = t]
    PROVE  IInv'
<1>1. t \in Steps /\ Within
  BY DEF Plain, Quiet
<1>2. pc'[p] = t
  BY TypeParts DEF IInv, LocalType
<1> QED
  BY <1>1, <1>2, PlainOK, QuietKeeps

\* A step that moves curr within the list or to its end.
LEMMA AdvanceKeeps ==
    ASSUME IInv, NEW p \in Procs, Within, UNCHANGED <<sharedVars, answer, prev, nnext>>,
           NEW t \in Steps, pc' = [pc EXCEPT ![p] = t],
           NEW c \in {Head} \cup Pointers, Advance(p, c), LocalOK(p)'
    PROVE  IInv'
<1>1. SharedType /\ AnswerType /\ LocalType
  BY TypeParts DEF IInv
<1>2. UNCHANGED <<next, nkey, val, deleted, size, bucket, count>>
  BY DEF sharedVars
<1>3. SharedType' /\ answer' \in [Procs -> SUBSET Keys]
  BY <1>1, <1>2 DEF SharedType, AnswerType
<1>4. /\ prev[p] \in Nat \cup {Nil} /\ prev' = [prev EXCEPT ![p] = prev[p]]
      /\ nnext[p] \in Pointers /\ nnext' = [nnext EXCEPT ![p] = nnext[p]]
      /\ curr' = [curr EXCEPT ![p] = c]
  BY <1>1 DEF LocalType, Advance
<1> QED
  BY <1>2, <1>3, <1>4, StepKeeps

\* A step that changes flags, values, buckets or the counter.
LEMMA ChangeKeeps ==
    ASSUME IInv, NEW p \in Procs, Within, UNCHANGED <<next, nkey, size, localVars>>,
           SharedType', answer' \in [Procs -> SUBSET Keys],
           NEW t \in Plain, pc' = [pc EXCEPT ![p] = t]
    PROVE  IInv'
<1>1. LocalType
  BY TypeParts DEF IInv
<1>2. /\ prev[p] \in Nat \cup {Nil} /\ prev' = [prev EXCEPT ![p] = prev[p]]
      /\ curr[p] \in {Head} \cup Pointers /\ curr' = [curr EXCEPT ![p] = curr[p]]
      /\ nnext[p] \in Pointers /\ nnext' = [nnext EXCEPT ![p] = nnext[p]]
  BY <1>1 DEF LocalType, localVars
<1>3. t \in Steps /\ LocalOK(p)'
  BY <1>1, PlainOK DEF Plain, LocalType
<1> QED
  BY <1>2, <1>3, StepKeeps
-----------------------------------------------------------------------------
(* findPosition.                                                           *)

\* The nodes' order is one.
LEMMA OrderIsTotal ==
    ASSUME IInv
    PROVE  /\ \A x \in Linked : nkey[x] \in Keys /\ Hash[nkey[x]] \in Nat /\ x \in Nat
           /\ \A x, y \in Linked : x # y => Before(x, y) \/ Before(y, x)
           /\ \A x, y, z \in Linked : Before(x, y) /\ Before(y, z) => Before(x, z)
<1>1. \A x \in Linked : nkey[x] \in Keys /\ Hash[nkey[x]] \in Nat /\ x \in Nat
  BY TypeParts, Numbers, Constants DEF IInv, Ordered
<1> QED
  BY <1>1 DEF Before

LEMMA FindFirstKeeps ==
    ASSUME IInv, NEW p \in Procs, FindFirst(p), op[p] \in {"put", "delete"}
    PROVE  IInv'
<1>1. SharedType /\ AnswerType /\ LocalType
  BY TypeParts DEF IInv
<1>2. /\ pc' = [pc EXCEPT ![p] = "find"] /\ prev' = [prev EXCEPT ![p] = Head]
      /\ curr' = [curr EXCEPT ![p] = next[Head]] /\ Within
      /\ UNCHANGED <<next, nkey, val, deleted, size, bucket, count, nnext, answer>>
  BY DEF FindFirst, Goto, Advance, sharedVars
<1>3. /\ pc'[p] = "find" /\ prev'[p] = Head /\ curr'[p] = next[Head]
      /\ op' = op /\ key' = key /\ key[p] \in Keys
  BY <1>1, <1>2 DEF LocalType, Within, opVars, IInv, LocalOK
<1>4. SearchOK(p)'
  BY <1>2, <1>3, Numbers, TypeParts DEF SearchOK, IInv, Ordered, After, Before, Linked
<1>5. LocalOK(p)'
  BY <1>3, <1>4 DEF LocalOK
<1>6. /\ "find" \in Steps /\ Head \in Nat \cup {Nil} /\ next[Head] \in {Head} \cup Pointers
      /\ nnext[p] \in Pointers /\ nnext' = [nnext EXCEPT ![p] = nnext[p]]
      /\ SharedType' /\ answer' \in [Procs -> SUBSET Keys]
  BY <1>1, <1>2, Numbers DEF Steps, EffectSteps, FindSteps, SharedType, AnswerType, LocalType
<1> QED
  BY <1>2, <1>5, <1>6, StepKeeps

LEMMA FindNextKeeps ==
    ASSUME IInv, NEW p \in Procs, FindNext(p), op[p] \in {"put", "delete"}
    PROVE  IInv'
<1>1. SharedType /\ AnswerType /\ LocalType
  BY TypeParts DEF IInv
<1>2. /\ pc[p] = "find" /\ ~Found(p) /\ ~Missed(p) /\ prev' = [prev EXCEPT ![p] = curr[p]]
      /\ curr' = [curr EXCEPT ![p] = next[curr[p]]] /\ Within
      /\ UNCHANGED <<next, nkey, val, deleted, size, bucket, count, pc, nnext, answer>>
  BY DEF FindNext, Advance, sharedVars
<1>3. SearchOK(p)
  BY <1>2 DEF IInv, LocalOK
<1>4. /\ curr[p] \in Linked /\ nkey[curr[p]] # key[p] /\ key[p] \in Keys
      /\ Hash[nkey[curr[p]]] <= Hash[key[p]]
  BY <1>2, <1>3, OrderIsTotal, Constants DEF Found, Missed, SearchOK
<1>5. \A x \in Linked : nkey[x] = key[p] => Before(curr[p], x)
  BY <1>1, <1>3, <1>4, Numbers DEF SearchOK
<1>6. /\ pc'[p] = "find" /\ prev'[p] = curr[p] /\ curr'[p] = next[curr[p]]
      /\ op' = op /\ key' = key
  BY <1>1, <1>2 DEF LocalType, Within, opVars
<1>7. SearchOK(p)'
  <2>1. /\ next[curr[p]] \in Linked \cup {Nil}
        /\ \A x \in Linked : nkey[x] = key[p] => x = next[curr[p]] \/ Before(next[curr[p]], x)
    BY <1>4, <1>5 DEF IInv, Ordered, After
  <2> QED
    BY <1>2, <1>4, <1>5, <1>6, <2>1 DEF SearchOK, After, Before, Linked
<1>8. LocalOK(p)'
  BY <1>2, <1>4, <1>6, <1>7 DEF LocalOK
<1>9. /\ "find" \in Steps /\ pc' = [pc EXCEPT ![p] = "find"]
      /\ curr[p] \in Nat \cup {Nil} /\ next[curr[p]] \in {Head} \cup Pointers
      /\ nnext[p] \in Pointers /\ nnext' = [nnext EXCEPT ![p] = nnext[p]]
      /\ SharedType' /\ answer' \in [Procs -> SUBSET Keys]
  BY <1>1, <1>2, <1>4, Numbers
     DEF Steps, EffectSteps, FindSteps, SharedType, AnswerType, LocalType
<1> QED
  BY <1>2, <1>8, <1>9, StepKeeps

LEMMA ReadKeeps ==
    ASSUME IInv, NEW p \in Procs, PutReadHead(p) \/ PutReadCurr(p)
    PROVE  IInv'
<1>1. SharedType /\ AnswerType /\ LocalType
  BY TypeParts DEF IInv
<1>2. /\ pc[p] = "find" /\ op[p] = "put" /\ Missed(p)
      /\ pc' = [pc EXCEPT ![p] = "link"] /\ Within
      /\ UNCHANGED <<next, nkey, val, deleted, size, bucket, count, prev, curr, answer>>
  BY DEF PutReadHead, PutReadCurr, Goto, sharedVars, Finding
<1>3. SearchOK(p)
  BY <1>2 DEF IInv, LocalOK
<1> DEFINE n == IF prev[p] = Head THEN next[Head] ELSE curr[p]
<1>4. n \in Pointers /\ nnext' = [nnext EXCEPT ![p] = n]
  <2>1. curr[p] \in Pointers /\ next[Head] \in Pointers
    BY <1>1, <1>3, Numbers DEF SearchOK, Pointers, SharedType
  <2> QED
    BY <2>1 DEF PutReadHead, PutReadCurr
<1>5. /\ pc'[p] = "link" /\ prev' = prev /\ curr' = curr /\ nnext'[p] = n
      /\ op' = op /\ key' = key /\ next' = next /\ nkey' = nkey /\ size' = size
  <2>1. pc'[p] = "link"
    BY <1>1, <1>2 DEF LocalType
  <2>2. nnext'[p] = n
    BY <1>1, <1>4 DEF LocalType
  <2> QED
    BY <1>2, <2>1, <2>2 DEF Within, opVars
<1>6. SearchOK(p)' /\ LinkOK(p)'
  <2>1. SearchOK(p)'
    BY <1>3, <1>5 DEF SearchOK, After, Before, Linked
  <2>2. LinkOK(p)'
    BY <1>2, <1>4, <1>5 DEF LinkOK, Missed
  <2> QED
    BY <2>1, <2>2
<1>7. LocalOK(p)'
  BY <1>2, <1>3, <1>5, <1>6 DEF LocalOK, SearchOK
<1>8. /\ "link" \in Steps
      /\ prev[p] \in Nat \cup {Nil} /\ prev' = [prev EXCEPT ![p] = prev[p]]
      /\ curr[p] \in {Head} \cup Pointers /\ curr' = [curr EXCEPT ![p] = curr[p]]
      /\ SharedType' /\ answer' \in [Procs -> SUBSET Keys]
  BY <1>1, <1>2 DEF Steps, EffectSteps, SharedType, AnswerType, LocalType
<1> QED
  BY <1>2, <1>4, <1>7, <1>8, StepKeeps
-----------------------------------------------------------------------------
(* A node is linked.                                                       *)

\* What a compare-and-swap that succeeds does: x is the new node, u its
\* predecessor and c its successor.
Links(p, x, u, c) ==
    /\ x = size + 1 /\ x \in Nodes /\ x \notin Linked /\ Linked' = Linked \cup {x}
    /\ u = prev[p] /\ c = curr[p] /\ next[u] = c
    /\ key[p] \in Keys /\ nkey'[x] = key[p] /\ \A y \in Linked : nkey'[y] = nkey[y]
    /\ next'[u] = x /\ next'[x] = c
    /\ \A w \in {Head} \cup Linked : w # u => next'[w] = next[w]
    /\ SearchOK(p) /\ (c # Nil => Hash[nkey[c]] > Hash[key[p]])

\* The order of the nodes in the state after.
BeforeNext(x, y) ==
    \/ Hash[nkey'[x]] < Hash[nkey'[y]]
    \/ Hash[nkey'[x]] = Hash[nkey'[y]] /\ x < y

AfterNext(u, y) == u = Head \/ BeforeNext(u, y)

LEMMA LinkDoes ==
    ASSUME IInv, NEW p \in Procs, Goto(p, "link", "countNew"), size < MaxNodes,
           next[prev[p]] = curr[p], LinkNode(p, size + 1)
    PROVE  Links(p, size + 1, prev[p], curr[p]) /\ OthersKeep(p) /\ TypeOK'
<1>1. SharedType /\ AnswerType /\ LocalType
  BY TypeParts DEF IInv
<1> DEFINE x == size + 1
           u == prev[p]
<1>2. /\ pc[p] = "link" /\ pc' = [pc EXCEPT ![p] = "countNew"] /\ Within
      /\ next' = [next EXCEPT ![u] = x, ![x] = nnext[p]] /\ nkey' = [nkey EXCEPT ![x] = key[p]]
      /\ val' = [val EXCEPT ![x] = value[p]] /\ size' = x /\ curr' = [curr EXCEPT ![p] = x]
      /\ UNCHANGED <<deleted, bucket, count, prev, nnext, answer>>
  BY DEF LinkNode, Goto, Advance
<1>3. SearchOK(p) /\ LinkOK(p)
  BY <1>2 DEF IInv, LocalOK
<1>4. /\ x \in Nodes /\ x \notin Linked /\ x # Head /\ x # u /\ u \in {Head} \cup Nodes
      /\ Linked \subseteq Nodes
  BY <1>1, <1>3, Numbers DEF SearchOK
<1>5. Linked' = Linked \cup {x}
  BY <1>1, <1>2, Constants DEF Linked, SharedType
<1>6. /\ nnext[p] = curr[p] /\ (curr[p] # Nil => Hash[nkey[curr[p]]] > Hash[key[p]])
  BY <1>3 DEF LinkOK, Missed
<1> HIDE DEF x, u
<1>7. /\ next'[u] = x /\ next'[x] = nnext[p]
      /\ \A w \in {Head} \cup Linked : w # u => next'[w] = next[w]
  BY <1>1, <1>2, <1>4 DEF SharedType
<1>8. nkey'[x] = key[p] /\ \A y \in Linked : nkey'[y] = nkey[y]
  BY <1>1, <1>2, <1>4 DEF SharedType
<1>9. Links(p, x, u, curr[p])
  BY <1>3, <1>4, <1>5, <1>6, <1>7, <1>8 DEF Links, SearchOK, x, u
<1>10. OthersKeep(p)
  BY <1>1, <1>2 DEF OthersKeep, Within, opVars, LocalType
<1>11. TypeOK'
  <2>1. next' \in [{Head} \cup Nodes -> Pointers]
    BY <1>1, <1>2, <1>4 DEF SharedType, LocalType, Pointers
  <2>2. nkey' \in [Nodes -> Keys \cup {NoKey}] /\ val' \in [Nodes -> Values \cup {NoValue}]
    BY <1>1, <1>2 DEF SharedType, LocalType
  <2>3. size' \in 0 .. MaxNodes
    BY <1>2, <1>4 DEF Nodes
  <2>4. pc' \in [Procs -> Steps] /\ curr' \in [Procs -> {Head} \cup Pointers]
    BY <1>1, <1>2, <1>4 DEF LocalType, Steps, Pointers
  <2> QED
    BY <1>1, <1>2, <2>1, <2>2, <2>3, <2>4
       DEF TypeOK, SharedType, AnswerType, LocalType, Within, opVars
<1> QED
  BY <1>9, <1>10, <1>11 DEF x, u

\* There is no node of the key yet: it would be between prev and its successor.
LEMMA KeyIsNew ==
    ASSUME IInv, NEW p \in Procs, NEW x, NEW u, NEW c, Links(p, x, u, c)
    PROVE  \A y \in Linked : nkey[y] # key[p]
<1> SUFFICES ASSUME NEW y \in Linked, nkey[y] = key[p] PROVE FALSE
  OBVIOUS
<1>1. After(u, y) /\ u \in {Head} \cup Linked
  BY DEF Links, SearchOK
<1>2. c # Nil /\ c \in Linked /\ (y = c \/ Before(c, y))
  BY <1>1 DEF Links, IInv, Ordered
<1>3. Hash[nkey[c]] > Hash[nkey[y]] /\ Hash[nkey[c]] \in Nat /\ Hash[nkey[y]] \in Nat
  BY <1>2, OrderIsTotal DEF Links
<1> QED
  BY <1>2, <1>3 DEF Before

\* The new node is behind all of the same hash and before all of a larger one.
LEMMA NewOrder ==
    ASSUME IInv, NEW p \in Procs, NEW x, NEW u, NEW c, Links(p, x, u, c)
    PROVE  /\ \A y \in Linked :
                  /\ BeforeNext(y, x) <=> Hash[nkey[y]] <= Hash[key[p]]
                  /\ BeforeNext(x, y) <=> Hash[nkey[y]] > Hash[key[p]]
           /\ \A y, z \in Linked : BeforeNext(y, z) <=> Before(y, z)
           /\ ~BeforeNext(x, x)
<1>1. /\ Hash[key[p]] \in Nat /\ x \in Nat /\ nkey'[x] = key[p]
      /\ \A y \in Linked : nkey'[y] = nkey[y]
      /\ \A y \in Linked : y < x /\ y \in Nat /\ Hash[nkey[y]] \in Nat
  BY OrderIsTotal, Numbers, TypeParts, Constants DEF Links, IInv
<1> QED
  BY <1>1 DEF Before, BeforeNext

\* A node that is not prev and whose place is before the new one's is before
\* prev, so its successor is not beyond it.
LEMMA NotBeyond ==
    ASSUME IInv, NEW p \in Procs, NEW x, NEW u, NEW c, Links(p, x, u, c),
           NEW w \in {Head} \cup Linked, w # u,
           w # Head => Hash[nkey[w]] <= Hash[key[p]]
    PROVE  next[w] # Nil /\ Hash[nkey[next[w]]] <= Hash[key[p]]
<1>1. u \in {Head} \cup Linked /\ c \in Linked \cup {Nil} /\ Hash[key[p]] \in Nat
      /\ (u # Head => Hash[nkey[u]] <= Hash[key[p]]) /\ next[u] = c
      /\ (c # Nil => Hash[nkey[c]] > Hash[key[p]])
  BY Constants DEF Links, SearchOK
<1>2. ASSUME w # Head PROVE ~After(u, w)
  <2>1. SUFFICES ASSUME After(u, w) PROVE FALSE
    OBVIOUS
  <2>2. c \in Linked /\ c # Nil /\ (w = c \/ Before(c, w))
    BY <1>1, <1>2, <2>1 DEF IInv, Ordered
  <2>3. Hash[nkey[c]] \in Nat /\ Hash[nkey[w]] \in Nat
    BY <1>2, <2>2, OrderIsTotal
  <2> QED
    BY <1>1, <1>2, <2>2, <2>3 DEF Before
<1>3. u \in Linked /\ After(w, u)
  <2>1. CASE w = Head
    BY <1>1, <2>1 DEF After, AfterNext
  <2>2. CASE w # Head
    BY <1>1, <1>2, <2>2, OrderIsTotal DEF After, AfterNext
  <2> QED
    BY <2>1, <2>2
<1>4. next[w] \in Linked /\ (u = next[w] \/ Before(next[w], u))
  BY <1>3 DEF IInv, Ordered
<1>5. Hash[nkey[next[w]]] <= Hash[nkey[u]]
  BY <1>3, <1>4, OrderIsTotal DEF Before
<1>6. Hash[nkey[u]] <= Hash[key[p]] /\ Hash[nkey[u]] \in Nat /\ Hash[nkey[next[w]]] \in Nat
      /\ next[w] # Nil
  BY <1>1, <1>3, <1>4, Numbers, TypeParts, OrderIsTotal DEF IInv
<1> QED
  BY <1>1, <1>5, <1>6

LEMMA LinkKeepsOrder ==
    ASSUME IInv, NEW p \in Procs, NEW x, NEW u, NEW c, Links(p, x, u, c)
    PROVE  Ordered'
<1>1. /\ x \notin Linked /\ Linked' = Linked \cup {x} /\ x # Head /\ x # Nil /\ Head \notin Linked
      /\ nkey'[x] = key[p] /\ key[p] \in Keys /\ \A y \in Linked : nkey'[y] = nkey[y]
      /\ u \in {Head} \cup Linked /\ c \in Linked \cup {Nil} /\ Nil \notin Linked
  BY Numbers, TypeParts DEF Links, SearchOK, IInv
<1>2. \A y \in Linked' : nkey'[y] \in Keys
  BY <1>1 DEF IInv, Ordered
<1>3. \A y, z \in Linked' : nkey'[y] = nkey'[z] => y = z
  BY <1>1, KeyIsNew DEF IInv, Ordered
<1> DEFINE Good(w) ==
        /\ next'[w] \in Linked' \cup {Nil}
        /\ next'[w] # Nil => AfterNext(w, next'[w])
        /\ \A y \in Linked' : AfterNext(w, y) =>
               next'[w] # Nil /\ (y = next'[w] \/ BeforeNext(next'[w], y))
<1>4. ASSUME NEW w \in {Head} \cup Linked, w # u PROVE Good(w)
  <2>1. next'[w] = next[w] /\ next[w] \in Linked \cup {Nil}
    BY <1>4 DEF Links, IInv, Ordered
  <2>2. next[w] # Nil => AfterNext(w, next[w])
    <3>1. next[w] # Nil => After(w, next[w])
      BY DEF IInv, Ordered
    <3> QED
      BY <1>1, <2>1, <3>1, NewOrder DEF After, AfterNext
  <2>3. ASSUME NEW y \in Linked, AfterNext(w, y)
        PROVE  next[w] # Nil /\ (y = next[w] \/ BeforeNext(next[w], y))
    <3>1. After(w, y)
      BY <2>3, NewOrder DEF After, AfterNext
    <3>2. next[w] # Nil /\ (y = next[w] \/ Before(next[w], y))
      BY <3>1 DEF IInv, Ordered
    <3> QED
      BY <2>1, <3>2, NewOrder
  <2>4. ASSUME AfterNext(w, x) PROVE next[w] # Nil /\ BeforeNext(next[w], x)
    <3>1. w # Head => Hash[nkey[w]] <= Hash[key[p]]
      BY <2>4, NewOrder DEF After, AfterNext
    <3>2. next[w] # Nil /\ Hash[nkey[next[w]]] <= Hash[key[p]]
      BY <1>4, <3>1, NotBeyond
    <3> QED
      BY <2>1, <3>2, NewOrder
  <2> QED
    BY <1>1, <2>1, <2>2, <2>3, <2>4
<1>5. Good(u)
  <2>1. next'[u] = x /\ next[u] = c /\ AfterNext(u, x)
    BY <1>1, NewOrder DEF Links, SearchOK, After, AfterNext
  <2>2. ASSUME NEW y \in Linked, AfterNext(u, y) PROVE BeforeNext(x, y)
    <3>1. After(u, y)
      BY <1>1, <2>2, NewOrder DEF After, AfterNext
    <3>2. c \in Linked /\ (y = c \/ Before(c, y)) /\ Hash[nkey[c]] > Hash[key[p]]
      BY <1>1, <2>1, <3>1 DEF Links, IInv, Ordered
    <3>3. Hash[nkey[y]] >= Hash[nkey[c]] /\ Hash[nkey[y]] \in Nat /\ Hash[nkey[c]] \in Nat
      BY <3>2, OrderIsTotal DEF Before
    <3>4. Hash[nkey[y]] > Hash[key[p]]
      BY <1>1, <3>2, <3>3, Constants
    <3> QED
      BY <3>4, NewOrder
  <2> QED
    BY <1>1, <2>1, <2>2
<1>6. Good(x)
  <2>1. next'[x] = c /\ next[u] = c /\ (c # Nil => AfterNext(x, c))
    BY <1>1, NewOrder DEF Links, After, AfterNext
  <2>2. ASSUME NEW y \in Linked, AfterNext(x, y) PROVE c # Nil /\ (y = c \/ BeforeNext(c, y))
    <3>1. Hash[nkey[y]] > Hash[key[p]]
      BY <1>1, <2>2, NewOrder DEF After, AfterNext
    <3>2. After(u, y)
      <4>1. u # Head => Hash[nkey[u]] <= Hash[key[p]] /\ Hash[nkey[u]] \in Nat
        BY <1>1, OrderIsTotal DEF Links, SearchOK
      <4>2. Hash[nkey[y]] \in Nat /\ Hash[key[p]] \in Nat
        BY <1>1, OrderIsTotal, Constants
      <4> QED
        BY <3>1, <4>1, <4>2 DEF After, Before
    <3>3. c # Nil /\ (y = c \/ Before(c, y))
      BY <1>1, <2>1, <3>2 DEF IInv, Ordered
    <3> QED
      BY <1>1, <3>3, NewOrder
  <2>3. ~AfterNext(x, x)
    BY <1>1, NewOrder DEF After, AfterNext
  <2> QED
    BY <1>1, <2>1, <2>2, <2>3
<1>7. \A w \in {Head} \cup Linked' : Good(w)
  BY <1>1, <1>4, <1>5, <1>6
<1> QED
  BY <1>2, <1>3, <1>7 DEF Ordered, Before, After, BeforeNext, AfterNext

\* Searches under way go on: the new node is behind what they have passed.
LEMMA LinkKeepsSearches ==
    ASSUME IInv, NEW p \in Procs, NEW x, NEW u, NEW c, Links(p, x, u, c), OthersKeep(p),
           NEW q \in Procs, q # p
    PROVE  LocalOK(q)'
<1>1. /\ pc'[q] = pc[q] /\ op'[q] = op[q] /\ key'[q] = key[q]
      /\ prev'[q] = prev[q] /\ curr'[q] = curr[q] /\ nnext'[q] = nnext[q]
  BY DEF OthersKeep
<1>2. /\ x \notin Linked /\ Linked' = Linked \cup {x} /\ x # Head /\ x # Nil /\ Head \notin Linked
      /\ nkey'[x] = key[p] /\ \A y \in Linked : nkey'[y] = nkey[y]
      /\ next'[u] = x /\ \A w \in {Head} \cup Linked : w # u => next'[w] = next[w]
  BY Numbers, TypeParts DEF Links, IInv
<1>3. ASSUME SearchOK(q) PROVE SearchOK(q)'
  <2>1. /\ prev[q] \in {Head} \cup Linked' /\ curr[q] \in Linked' \cup {Nil}
        /\ prev[q] # Head => Hash[nkey'[prev[q]]] <= Hash[key[q]]
    BY <1>2, <1>3 DEF SearchOK
  <2>2. ASSUME NEW y \in Linked', nkey'[y] = key[q] PROVE AfterNext(prev[q], y)
    <3>1. CASE y = x
      BY <1>2, <1>3, <2>2, <3>1, NewOrder DEF SearchOK, After, AfterNext
    <3>2. CASE y \in Linked
      BY <1>2, <1>3, <2>2, <3>2, NewOrder DEF SearchOK, After, AfterNext
    <3> QED
      BY <1>2, <3>1, <3>2
  <2>3. ASSUME curr[q] # Nil, Hash[nkey'[curr[q]]] <= Hash[key[q]],
               NEW y \in Linked', nkey'[y] = key[q]
        PROVE  y = curr[q] \/ BeforeNext(curr[q], y)
    <3>1. curr[q] \in Linked /\ Hash[nkey[curr[q]]] <= Hash[key[q]]
      BY <1>2, <1>3, <2>3 DEF SearchOK
    <3>2. CASE y = x
      BY <1>2, <2>3, <3>1, <3>2, NewOrder
    <3>3. CASE y \in Linked
      BY <1>2, <1>3, <2>3, <3>1, <3>3, NewOrder DEF SearchOK
    <3> QED
      BY <1>2, <3>2, <3>3
  <2> QED
    BY <1>1, <1>3, <2>1, <2>2, <2>3 DEF SearchOK, Before, After, BeforeNext, AfterNext
<1>4. ASSUME SearchOK(q), LinkOK(q) PROVE LinkOK(q)'
  <2>1. Missed(q)'
    BY <1>1, <1>2, <1>4 DEF LinkOK, Missed, SearchOK
  <2>2. next'[prev[q]] = curr[q] => next[prev[q]] = curr[q]
    BY <1>2, <1>4 DEF SearchOK
  <2> QED
    BY <1>1, <1>4, <2>1, <2>2 DEF LinkOK
<1>5. LocalOK(q)
  BY DEF IInv
<1> QED
  BY <1>1, <1>3, <1>4, <1>5 DEF LocalOK

LEMMA LinkKeeps ==
    ASSUME IInv, NEW p \in Procs, PutLink(p)
    PROVE  IInv'
<1>1. CASE /\ Goto(p, "link", "countNew") /\ size < MaxNodes
           /\ next[prev[p]] = curr[p] /\ LinkNode(p, size + 1)
  <2>1. Links(p, size + 1, prev[p], curr[p]) /\ OthersKeep(p) /\ TypeOK'
    BY <1>1, LinkDoes
  <2>2. Ordered'
    BY <2>1, LinkKeepsOrder
  <2>3. \A q \in Procs : q # p => LocalOK(q)'
    BY <2>1, LinkKeepsSearches
  <2>4. LocalOK(p)'
    <3>1. pc'[p] = "countNew" /\ curr'[p] = size + 1 /\ op' = op /\ key' = key
      BY <1>1, TypeParts DEF IInv, Goto, LocalType, LinkNode, Within, opVars, Advance
    <3>2. size + 1 \in Nodes
      BY <2>1 DEF Links
    <3>3. LocalOK(p)
      BY DEF IInv
    <3> QED
      BY <3>1, <3>2, <3>3 DEF LocalOK, Nodes
  <2> QED
    BY <2>1, <2>2, <2>3, <2>4 DEF IInv
<1>2. CASE Goto(p, "link", "first") /\ Quiet
  <2>1. "first" \in Plain /\ pc' = [pc EXCEPT ![p] = "first"]
    BY <1>2 DEF Plain, Steps, EffectSteps, FindSteps, Goto
  <2> QED
    BY <1>2, <2>1, PlainKeeps
<1> QED
  BY <1>1, <1>2 DEF PutLink
-----------------------------------------------------------------------------
(* The other steps.                                                        *)

LEMMA CallKeeps ==
    ASSUME IInv, NEW p \in Procs,
           NEW o \in {"put", "delete", "get", "range", "clear"},
           NEW k \in Keys \cup {NoKey}, NEW v \in Values \cup {NoValue},
           NEW first \in {"first", "bucket"}, Call(p, o, k, v, first),
           o \in {"put", "delete", "get"} => k \in Keys, first = "bucket" => o = "get",
           clears' \in 0 .. MaxClears
    PROVE  IInv'
<1>1. SharedType /\ AnswerType /\ LocalType
  BY TypeParts DEF IInv
<1>2. /\ pc' = [pc EXCEPT ![p] = first] /\ op' = [op EXCEPT ![p] = o]
      /\ key' = [key EXCEPT ![p] = k] /\ value' = [value EXCEPT ![p] = v]
      /\ UNCHANGED <<next, nkey, val, deleted, size, bucket, count, prev, curr, nnext>>
  BY DEF Call, Goto, sharedVars, localVars
<1>3. first \in Steps
  BY DEF Steps, EffectSteps, FindSteps
<1>4. answer' \in [Procs -> SUBSET Keys]
  BY <1>1 DEF Call, AnswerType
<1>5. mixed' \in BOOLEAN
  BY DEF Call
<1>6. TypeOK'
  BY <1>1, <1>2, <1>3, <1>4, <1>5 DEF TypeOK, SharedType, LocalType
<1>7. OthersKeep(p) /\ pc'[p] = first /\ op'[p] = o /\ key'[p] = k
  BY <1>1, <1>2 DEF OthersKeep, LocalType
<1>8. LocalOK(p)'
  BY <1>7 DEF LocalOK
<1> QED
  BY <1>2, <1>6, <1>7, <1>8, Frame

LEMMA CallsKeep ==
    ASSUME IInv, NEW p \in Procs, CallOp(p)
    PROVE  IInv'
<1>1. clears' \in 0 .. MaxClears
  BY Constants DEF CallOp, IInv, TypeOK
<1>2. PICK o \in {"put", "delete", "get", "range", "clear"}, k \in Keys \cup {NoKey},
           v \in Values \cup {NoValue}, first \in {"first", "bucket"} :
         /\ Call(p, o, k, v, first)
         /\ o \in {"put", "delete", "get"} => k \in Keys
         /\ first = "bucket" => o = "get"
  BY Constants DEF CallOp
<1> QED
  BY <1>1, <1>2, CallKeeps

LEMMA PutKeeps ==
    ASSUME IInv, NEW p \in Procs, Put(p)
    PROVE  IInv'
<1>1. SharedType /\ AnswerType /\ LocalType
  BY TypeParts DEF IInv
<1>2. CASE PutFound(p)
  <2>1. CASE deleted[curr[p]]
    <3>1. /\ Quiet /\ "revive" \in Steps /\ pc' = [pc EXCEPT ![p] = "revive"] /\ op[p] = "put"
      BY <1>2, <2>1 DEF PutFound, Goto, Finding, Steps, EffectSteps
    <3>2. LocalOK(p)'
      BY <1>1, <3>1 DEF IInv, LocalOK, LocalType, Quiet, Within, opVars
    <3> QED
      BY <3>1, <3>2, QuietKeeps
  <2>2. CASE ~deleted[curr[p]]
    BY <1>2, <2>2, PlainKeeps DEF PutFound, Goto, Plain, Steps
  <2> QED
    BY <2>1, <2>2
<1>3. CASE PutUpdate(p)
  <2>1. SharedType' /\ answer' \in [Procs -> SUBSET Keys]
    BY <1>1, <1>3 DEF PutUpdate, SharedType, AnswerType, LocalType
  <2> QED
    BY <1>3, <2>1, ReturnKeeps DEF PutUpdate
<1>4. CASE PutRevive(p)
  <2>1. "revalue" \in Plain /\ "first" \in Plain
    BY DEF Plain, Steps, EffectSteps, FindSteps
  <2>2. CASE /\ Goto(p, "revive", "revalue") /\ Within
             /\ deleted' = [deleted EXCEPT ![curr[p]] = FALSE]
             /\ UNCHANGED <<next, nkey, val, size, bucket, count, localVars, answer>>
    <3>1. SharedType' /\ answer' \in [Procs -> SUBSET Keys]
      BY <1>1, <2>2 DEF SharedType, AnswerType
    <3> QED
      BY <2>1, <2>2, <3>1, ChangeKeeps DEF Goto
  <2>3. CASE Goto(p, "revive", "first") /\ Quiet
    BY <2>1, <2>3, PlainKeeps DEF Goto
  <2> QED
    BY <1>4, <2>2, <2>3 DEF PutRevive
<1>5. CASE PutRevalue(p)
  <2>1. SharedType' /\ answer' \in [Procs -> SUBSET Keys]
    BY <1>1, <1>5 DEF PutRevalue, SharedType, AnswerType, LocalType
  <2> QED
    BY <1>5, <2>1, ChangeKeeps DEF PutRevalue, Goto, Plain, Steps
<1>6. CASE PutCountRevived(p)
  <2>1. SharedType' /\ answer' \in [Procs -> SUBSET Keys]
    BY <1>1, <1>6 DEF PutCountRevived, nodeVars, SharedType, AnswerType
  <2> QED
    BY <1>6, <2>1, ReturnKeeps DEF PutCountRevived, nodeVars
<1>7. CASE PutCountNew(p)
  <2>1. SharedType' /\ answer' \in [Procs -> SUBSET Keys]
    BY <1>1, <1>7 DEF PutCountNew, nodeVars, SharedType, AnswerType
  <2>2. /\ pc[p] = "countNew" /\ pc' = [pc EXCEPT ![p] = "setBucket"] /\ Within
        /\ UNCHANGED <<next, nkey, size, prev, curr, nnext>> /\ "setBucket" \in Steps
    BY <1>7 DEF PutCountNew, nodeVars, localVars, Goto, Steps
  <2>3. /\ prev[p] \in Nat \cup {Nil} /\ prev' = [prev EXCEPT ![p] = prev[p]]
        /\ curr[p] \in {Head} \cup Pointers /\ curr' = [curr EXCEPT ![p] = curr[p]]
        /\ nnext[p] \in Pointers /\ nnext' = [nnext EXCEPT ![p] = nnext[p]]
    BY <1>1, <2>2 DEF LocalType
  <2>4. LocalOK(p)'
    BY <1>1, <2>2 DEF IInv, LocalOK, LocalType, Within, opVars, Nodes
  <2> QED
    BY <2>1, <2>2, <2>3, <2>4, StepKeeps
<1>8. CASE PutSetBucket(p)
  <2>1. curr[p] \in Pointers
    BY <1>8 DEF PutSetBucket, Return, Goto, IInv, LocalOK, Pointers
  <2>2. SharedType' /\ answer' \in [Procs -> SUBSET Keys]
    BY <1>1, <1>8, <2>1 DEF PutSetBucket, nodeVars, SharedType, AnswerType
  <2> QED
    BY <1>8, <2>2, ReturnKeeps DEF PutSetBucket, nodeVars
<1> QED
  BY <1>2, <1>3, <1>4, <1>5, <1>6, <1>7, <1>8, ReadKeeps, LinkKeeps DEF Put

LEMMA DeleteKeeps ==
    ASSUME IInv, NEW p \in Procs, Delete(p)
    PROVE  IInv'
<1>1. SharedType /\ AnswerType /\ LocalType
  BY TypeParts DEF IInv
<1>2. ASSUME ReturnAnswer(p, "find", {}) PROVE IInv'
  <2>1. SharedType' /\ answer' \in [Procs -> SUBSET Keys]
    BY <1>1, <1>2 DEF ReturnAnswer, sharedVars, SharedType, AnswerType
  <2> QED
    BY <1>2, <2>1, ReturnKeeps DEF ReturnAnswer, sharedVars
<1>3. CASE DelMiss(p)
  BY <1>2, <1>3 DEF DelMiss
<1>4. CASE DelFound(p)
  <2>1. CASE Goto(p, "find", "delMark") /\ Quiet /\ op[p] = "delete"
    <3>1. /\ "delMark" \in Steps /\ pc' = [pc EXCEPT ![p] = "delMark"]
      BY <2>1 DEF Goto, Steps, EffectSteps
    <3>2. LocalOK(p)'
      BY <1>1, <2>1, <3>1 DEF IInv, LocalOK, LocalType, Quiet, Within, opVars
    <3> QED
      BY <2>1, <3>1, <3>2, QuietKeeps
  <2> QED
    BY <1>2, <1>4, <2>1 DEF DelFound, Finding
<1>5. CASE DelMark(p)
  <2>1. "uncount" \in Plain /\ "first" \in Plain
    BY DEF Plain, Steps, EffectSteps, FindSteps
  <2>2. CASE /\ Goto(p, "delMark", "uncount") /\ Within
             /\ deleted' = [deleted EXCEPT ![curr[p]] = TRUE]
             /\ answer' = [answer EXCEPT ![p] = {key[p]}]
             /\ UNCHANGED <<next, nkey, val, size, bucket, count, localVars>>
    <3>1. key[p] \in Keys
      BY <2>2 DEF Goto, IInv, LocalOK
    <3>2. SharedType' /\ answer' \in [Procs -> SUBSET Keys]
      BY <1>1, <2>2, <3>1 DEF SharedType, AnswerType
    <3> QED
      BY <2>1, <2>2, <3>2, ChangeKeeps DEF Goto
  <2>3. CASE Goto(p, "delMark", "first") /\ Quiet
    BY <2>1, <2>3, PlainKeeps DEF Goto
  <2> QED
    BY <1>5, <2>2, <2>3 DEF DelMark
<1>6. CASE DelUncount(p)
  <2>1. SharedType' /\ answer' \in [Procs -> SUBSET Keys]
    BY <1>1, <1>6 DEF DelUncount, nodeVars, SharedType, AnswerType
  <2> QED
    BY <1>6, <2>1, ReturnKeeps DEF DelUncount, nodeVars
<1> QED
  BY <1>3, <1>4, <1>5, <1>6 DEF Delete

\* A step of Get, Range or Clear through the list.
LEMMA WalkKeeps ==
    ASSUME IInv, NEW p \in Procs, Within, UNCHANGED <<sharedVars, answer, prev, nnext>>,
           NEW t \in Plain, pc' = [pc EXCEPT ![p] = t],
           NEW c \in {Head} \cup Pointers, Advance(p, c)
    PROVE  IInv'
<1>1. t \in Steps /\ LocalOK(p)'
  BY PlainOK, TypeParts DEF IInv, LocalType, Plain
<1> QED
  BY <1>1, AdvanceKeeps

LEMMA GetKeeps ==
    ASSUME IInv, NEW p \in Procs, Get(p)
    PROVE  IInv'
<1>1. SharedType /\ AnswerType /\ LocalType
  BY TypeParts DEF IInv
<1>2. "walk" \in Plain /\ "value" \in Plain
  BY DEF Plain, Steps
<1>3. ASSUME NEW t, ReturnGet(p, t) PROVE IInv'
  <2>1. SharedType' /\ answer' \in [Procs -> SUBSET Keys]
    BY <1>1, <1>3 DEF ReturnGet, sharedVars, SharedType, AnswerType
  <2> QED
    BY <1>3, <2>1, ReturnKeeps DEF ReturnGet, sharedVars
<1>4. CASE GetStart(p)
  <2> DEFINE c == IF bucket[getBucket(key[p])] = Nil THEN Head ELSE bucket[getBucket(key[p])]
  <2>1. /\ Advance(p, c) /\ Within /\ UNCHANGED <<sharedVars, answer, prev, nnext>>
        /\ pc' = [pc EXCEPT ![p] = "walk"]
    BY <1>4 DEF GetStart, Goto
  <2>2. key[p] \in Keys
    BY <1>4 DEF GetStart, Goto, IInv, LocalOK
  <2>3. Hash[key[p]] \in Nat /\ BucketCount \in Nat \ {0}
    BY <2>2, HashMapAssumption DEF HashMapAssumption
  <2>4. getBucket(key[p]) \in BucketIndexes
    BY <2>3 DEF getBucket, BucketIndexes
  <2>5. c \in {Head} \cup Pointers
    BY <1>1, <2>4 DEF SharedType
  <2> QED
    BY <1>2, <2>1, <2>5, WalkKeeps
<1>5. CASE GetNext(p)
  <2>1. curr[p] \in {Head} \cup Nodes
    BY <1>1, <1>5 DEF GetNext, Missed, LocalType, Pointers
  <2>2. next[curr[p]] \in {Head} \cup Pointers
    BY <1>1, <2>1 DEF SharedType
  <2>3. pc' = [pc EXCEPT ![p] = "walk"]
    BY <1>1, <1>5 DEF GetNext, LocalType
  <2> QED
    BY <1>2, <1>5, <2>2, <2>3, WalkKeeps DEF GetNext
<1>6. CASE GetFound(p)
  BY <1>2, <1>3, <1>6, PlainKeeps DEF GetFound, Goto
<1> QED
  BY <1>3, <1>4, <1>5, <1>6 DEF Get, GetMiss, GetValue

LEMMA RangeKeeps ==
    ASSUME IInv, NEW p \in Procs, RangeAll(p)
    PROVE  IInv'
<1>1. SharedType /\ AnswerType /\ LocalType
  BY TypeParts DEF IInv
<1>2. "range" \in Plain /\ "range" \in Steps /\ "rangeNext" \in Steps
  BY DEF Plain, Steps
<1>3. ASSUME NEW a \in SUBSET Keys, ReturnAnswer(p, "range", a) PROVE IInv'
  <2>1. SharedType' /\ answer' \in [Procs -> SUBSET Keys]
    BY <1>1, <1>3 DEF ReturnAnswer, sharedVars, SharedType, AnswerType
  <2> QED
    BY <1>3, <2>1, ReturnKeeps DEF ReturnAnswer, sharedVars
<1>4. CASE RangeFirst(p)
  <2>1. next[Head] \in {Head} \cup Pointers
    BY <1>1 DEF SharedType
  <2> QED
    BY <1>2, <1>4, <2>1, WalkKeeps DEF RangeFirst, Goto
<1>5. CASE RangeVisit(p)
  <2>1. CASE /\ curr[p] # Nil /\ Goto(p, "range", "rangeNext")
             /\ answer' = [answer EXCEPT ![p] = @ \cup {nkey[x] : x \in {curr[p]} \cap Live}]
             /\ Within /\ UNCHANGED <<sharedVars, localVars>>
    <3>1. {nkey[x] : x \in {curr[p]} \cap Live} \in SUBSET Keys
      BY DEF IInv, Ordered, Live
    <3>2. SharedType' /\ answer' \in [Procs -> SUBSET Keys]
      BY <1>1, <2>1, <3>1 DEF sharedVars, SharedType, AnswerType
    <3>3. /\ prev[p] \in Nat \cup {Nil} /\ prev' = [prev EXCEPT ![p] = prev[p]]
          /\ curr[p] \in {Head} \cup Pointers /\ curr' = [curr EXCEPT ![p] = curr[p]]
          /\ nnext[p] \in Pointers /\ nnext' = [nnext EXCEPT ![p] = nnext[p]]
          /\ UNCHANGED <<next, nkey, size>>
      BY <1>1, <2>1 DEF LocalType, localVars, sharedVars
    <3>4. LocalOK(p)'
      BY <1>1, <2>1 DEF IInv, LocalOK, LocalType, Within, opVars, Goto, localVars
    <3> QED
      BY <1>2, <2>1, <3>2, <3>3, <3>4, StepKeeps DEF Goto
  <2>2. CASE ReturnAnswer(p, "range", {})
    BY <1>3, <2>2
  <2> QED
    BY <1>5, <2>1, <2>2 DEF RangeVisit
<1>6. CASE RangeNext(p)
  <2>1. next[curr[p]] \in {Head} \cup Pointers
    BY <1>1, <1>6 DEF RangeNext, Goto, IInv, LocalOK, LocalType, SharedType, Pointers
  <2> QED
    BY <1>2, <1>6, <2>1, WalkKeeps DEF RangeNext, Goto
<1>7. CASE RangeEnd(p)
  BY <1>1, <1>3, <1>7 DEF RangeEnd, AnswerType
<1> QED
  BY <1>4, <1>5, <1>6, <1>7 DEF RangeAll

LEMMA ClearKeeps ==
    ASSUME IInv, NEW p \in Procs, Clear(p)
    PROVE  IInv'
<1>1. SharedType /\ AnswerType /\ LocalType
  BY TypeParts DEF IInv
<1>2. /\ "clear" \in Plain /\ {"clear", "clearNext", "clearBuckets"} \subseteq Steps
  BY DEF Plain, Steps, ClearSteps
<1>3. /\ prev[p] \in Nat \cup {Nil} /\ prev = [prev EXCEPT ![p] = prev[p]]
      /\ curr[p] \in {Head} \cup Pointers /\ curr = [curr EXCEPT ![p] = curr[p]]
      /\ nnext[p] \in Pointers /\ nnext = [nnext EXCEPT ![p] = nnext[p]]
      /\ pc = [pc EXCEPT ![p] = pc[p]]
  BY <1>1 DEF LocalType
<1>4. CASE ClearFirst(p)
  <2>1. next[Head] \in {Head} \cup Pointers
    BY <1>1 DEF SharedType
  <2> QED
    BY <1>2, <1>4, <2>1, WalkKeeps DEF ClearFirst, Goto
<1>5. CASE ClearMark(p)
  <2>1. SharedType' /\ answer' \in [Procs -> SUBSET Keys]
    BY <1>1, <1>5 DEF ClearMark, SharedType, AnswerType
  <2>2. LocalOK(p)'
    BY <1>1, <1>5 DEF ClearMark, IInv, LocalOK, LocalType, Within, opVars, Goto, localVars
  <2>3. UNCHANGED <<next, nkey, size, prev, curr, nnext>> /\ Within
        /\ pc' = [pc EXCEPT ![p] = "clearNext"]
    BY <1>5 DEF ClearMark, localVars, Goto
  <2> QED
    BY <1>2, <1>3, <2>1, <2>2, <2>3, StepKeeps
<1>6. CASE ClearNext(p)
  <2>1. next[curr[p]] \in {Head} \cup Pointers
    BY <1>1, <1>6 DEF ClearNext, Goto, IInv, LocalOK, LocalType, SharedType, Pointers
  <2> QED
    BY <1>2, <1>6, <2>1, WalkKeeps DEF ClearNext, Goto
<1>7. CASE ClearCount(p)
  <2>1. SharedType' /\ answer' \in [Procs -> SUBSET Keys]
    BY <1>1, <1>7 DEF ClearCount, nodeVars, SharedType, AnswerType
  <2>2. /\ UNCHANGED <<next, nkey, size, curr, nnext>> /\ Within
        /\ pc' = [pc EXCEPT ![p] = "clearBuckets"] /\ prev' = [prev EXCEPT ![p] = 0]
    BY <1>7 DEF ClearCount, nodeVars, Goto
  <2>3. LocalOK(p)'
    BY <1>1, <2>2 DEF IInv, LocalOK, LocalType, Within, opVars
  <2> QED
    BY <1>2, <1>3, <2>1, <2>2, <2>3, StepKeeps
<1>8. CASE ClearBucket(p)
  <2>1. SharedType' /\ answer' \in [Procs -> SUBSET Keys] /\ UNCHANGED <<next, nkey, size>>
    <3>1. Nil \in Pointers
      BY DEF Pointers
    <3> QED
      BY <1>1, <1>8, <3>1 DEF ClearBucket, nodeVars, SharedType, AnswerType
  <2>2. CASE prev' = [prev EXCEPT ![p] = @ + 1] /\ Within /\ UNCHANGED <<pc, curr, nnext>>
    <3>1. pc[p] = "clearBuckets" /\ prev[p] \in Nat
      BY <1>8 DEF ClearBucket, IInv, LocalOK
    <3>2. prev[p] + 1 \in Nat \cup {Nil} /\ prev' = [prev EXCEPT ![p] = prev[p] + 1]
      BY <2>2, <3>1
    <3>3. LocalOK(p)'
      BY <1>1, <2>2, <3>1, <3>2 DEF IInv, LocalOK, LocalType, Within, opVars
    <3> QED
      BY <1>2, <1>3, <2>1, <2>2, <3>1, <3>2, <3>3, StepKeeps
  <2>3. CASE Return(p, "clearBuckets")
    BY <2>1, <2>3, ReturnKeeps
  <2> QED
    BY <1>8, <2>2, <2>3 DEF ClearBucket
<1> QED
  BY <1>4, <1>5, <1>6, <1>7, <1>8 DEF Clear
-----------------------------------------------------------------------------
LEMMA InitInvariant ==
    ASSUME Init
    PROVE  IInv
<1>1. TypeOK
  <2>1. "idle" \in Steps /\ Nil \in Pointers
    BY DEF Steps, Pointers
  <2>2. SharedType
    BY <2>1, Constants DEF Init, SharedType
  <2>3. AnswerType
    <3>1. answer \in [Procs -> SUBSET Keys] /\ mixed \in BOOLEAN
      BY DEF Init
    <3>2. clears \in 0 .. MaxClears
      BY Constants DEF Init
    <3> QED
      BY <3>1, <3>2 DEF AnswerType
  <2>4. LocalType
    BY <2>1 DEF Init, LocalType
  <2> QED
    BY <2>2, <2>3, <2>4, TypeParts
<1>2. Linked = {}
  BY DEF Init, Linked
<1>3. Ordered
  BY <1>2 DEF Init, Ordered
<1>4. \A p \in Procs : LocalOK(p)
  BY DEF Init, LocalOK
<1> QED
  BY <1>1, <1>3, <1>4 DEF IInv

LEMMA StutterInvariant ==
    ASSUME IInv, UNCHANGED vars
    PROVE  IInv'
<1>1. TypeOK'
  BY DEF IInv, TypeOK, vars, sharedVars, opVars, localVars
<1>2. Ordered'
  BY DEF IInv, Ordered, vars, sharedVars, After, Before, Linked
<1>3. \A p \in Procs : LocalOK(p)'
  BY DEF IInv, LocalOK, SearchOK, LinkOK, Missed, After, Before, Linked, vars, sharedVars,
         opVars, localVars
<1> QED
  BY <1>1, <1>2, <1>3 DEF IInv

LEMMA Invariance == Spec => []IInv
<1>1. Init => IInv
  BY InitInvariant
<1>2. IInv /\ [Next]_vars => IInv'
  <2> SUFFICES ASSUME IInv, [Next]_vars PROVE IInv'
    OBVIOUS
  <2>1. ASSUME NEW p \in Procs, CallOp(p) \/ Work(p) PROVE IInv'
    <3>1. CASE Find(p)
      BY <3>1, FindFirstKeeps, FindNextKeeps DEF Find
    <3> QED
      BY <2>1, <3>1, CallsKeep, PutKeeps, DeleteKeeps, GetKeeps, RangeKeeps, ClearKeeps DEF Work
  <2>2. CASE UNCHANGED vars
    BY <2>2, StutterInvariant
  <2> QED
    BY <2>1, <2>2 DEF Next
<1> QED
  BY <1>1, <1>2, PTL DEF Spec

\* However many Puts race, and whether hashes collide or not, no key ever has two
\* nodes, and the list stays sorted (hashmap.go, Put and findPosition).
THEOREM KeysStayUnique == Spec => []KeysUnique
<1>1. ASSUME IInv PROVE KeysUnique
  <2>1. Head \in {Head} \cup Linked /\ \A x \in Linked : x # Head
    BY <1>1, TypeParts, Numbers DEF IInv
  <2>2. \A x \in Linked : next[x] # Nil =>
            next[x] \in Linked /\ Hash[nkey[next[x]]] >= Hash[nkey[x]]
    <3> SUFFICES ASSUME NEW x \in Linked, next[x] # Nil
                 PROVE  next[x] \in Linked /\ Hash[nkey[next[x]]] >= Hash[nkey[x]]
      OBVIOUS
    <3>1. next[x] \in Linked /\ Before(x, next[x])
      BY <1>1, <2>1 DEF IInv, Ordered, After
    <3>2. Hash[nkey[x]] \in Nat /\ Hash[nkey[next[x]]] \in Nat
      BY <1>1, <3>1, OrderIsTotal
    <3> QED
      BY <3>1, <3>2 DEF Before
  <2> QED
    BY <1>1, <2>1, <2>2 DEF KeysUnique, ListSorted, IInv, Ordered
<1> QED
  BY <1>1, Invariance, PTL
-----------------------------------------------------------------------------
(* What callers see.                                                       *)

PutSteps == {"first", "find", "revive", "link", "update", "revalue", "countRevived",
             "countNew", "setBucket"}

Fits(o, s) ==
    \/ o = "none" /\ s = "idle"
    \/ o = "put" /\ s \in PutSteps
    \/ o = "delete" /\ s \in {"first", "find", "delMark", "uncount"}
    \/ o = "get" /\ s \in {"bucket", "walk", "value"}
    \/ o = "range" /\ s \in {"first", "range", "rangeNext"}
    \/ o = "clear" /\ s \in {"first", "clear", "clearNext", "clearBuckets"}

\* A goroutine is where its operation can be, and its node is linked.
Control(p) ==
    /\ Fits(op[p], pc[p])
    /\ op[p] \in {"none", "range", "clear"} => key[p] = NoKey
    /\ op[p] \in {"put", "clear"} => answer[p] = {}
    /\ op[p] = "delete" /\ pc[p] # "uncount" => answer[p] = {}
    /\ op[p] = "range" /\ pc[p] = "first" => answer[p] = {}
    /\ pc[p] \in {"revive", "update", "revalue", "delMark", "value"} =>
          curr[p] \in Linked /\ nkey[curr[p]] = key[p]
    /\ pc[p] \in {"rangeNext", "clearNext", "countNew", "setBucket"} => curr[p] \in Linked
    /\ pc[p] \in {"range", "clear"} => curr[p] \in Linked \cup {Nil}
    /\ pc[p] = "walk" => curr[p] \in {Head} \cup Linked \cup {Nil}

\* Nodes are linked live, and buckets hold linked nodes.
Fresh ==
    /\ \A x \in Nodes \ Linked : ~deleted[x]
    /\ \A i \in BucketIndexes : bucket[i] \in Linked \cup {Nil}

Places == Fresh /\ \A p \in Procs : Control(p)

\* The other goroutines stay where they are.
OthersStay(p) ==
    \A q \in Procs : q # p =>
        /\ pc'[q] = pc[q] /\ op'[q] = op[q] /\ key'[q] = key[q] /\ value'[q] = value[q]
        /\ curr'[q] = curr[q] /\ answer'[q] = answer[q]

\* The list may get a node, of a new key.
Grows ==
    /\ Linked \subseteq Linked'
    /\ \A x \in Linked : nkey'[x] = nkey[x]
    /\ \A x, y \in Linked : BeforeNext(x, y) <=> Before(x, y)
    /\ \A x \in Linked' \ Linked : \A y \in Linked :
          /\ nkey[y] # nkey'[x]
          /\ Hash[nkey[y]] <= Hash[nkey'[x]] => BeforeNext(y, x)

LEMMA StepStays ==
    ASSUME IInv, NEW p \in Procs, CallOp(p) \/ Work(p)
    PROVE  OthersStay(p)
<1>1. AnswerType /\ LocalType
  BY TypeParts DEF IInv
<1> USE DEF OthersStay, AnswerType, LocalType, Goto, Within, Quiet, Return, Advance, opVars,
            localVars, sharedVars
<1>2. CASE CallOp(p)
  BY <1>1, <1>2 DEF CallOp, Call
<1>3. CASE Find(p)
  BY <1>1, <1>3 DEF Find, FindFirst, FindNext
<1>4. CASE Put(p)
  BY <1>1, <1>4 DEF Put, PutFound, PutUpdate, PutRevive, PutRevalue, PutReadHead, PutReadCurr,
     PutLink, LinkNode, PutCountRevived, PutCountNew, PutSetBucket
<1>5. CASE Delete(p)
  BY <1>1, <1>5 DEF Delete, DelMiss, DelFound, DelMark, DelUncount, ReturnAnswer
<1>6. CASE Get(p)
  BY <1>1, <1>6 DEF Get, GetStart, GetNext, GetMiss, GetFound, GetValue, ReturnGet
<1>7. CASE RangeAll(p)
  BY <1>1, <1>7 DEF RangeAll, RangeFirst, RangeVisit, RangeNext, RangeEnd, ReturnAnswer
<1>8. CASE Clear(p)
  BY <1>1, <1>8 DEF Clear, ClearFirst, ClearMark, ClearNext, ClearCount, ClearBucket
<1> QED
  BY <1>2, <1>3, <1>4, <1>5, <1>6, <1>7, <1>8 DEF Work

\* Only a Put that links a node changes the list.
LEMMA ListKept ==
    ASSUME NEW p \in Procs, CallOp(p) \/ Work(p),
           ~(pc[p] = "link" /\ size < MaxNodes /\ next[prev[p]] = curr[p])
    PROVE  UNCHANGED <<next, nkey, size>>
<1> USE DEF Quiet, sharedVars, nodeVars
<1>1. CASE CallOp(p)
  BY <1>1 DEF CallOp, Call
<1>2. CASE Find(p)
  BY <1>2 DEF Find, FindFirst, FindNext
<1>3. CASE Put(p)
  BY <1>3 DEF Put, PutFound, PutUpdate, PutRevive, PutRevalue, PutReadHead, PutReadCurr,
     PutLink, Goto, PutCountRevived, PutCountNew, PutSetBucket
<1>4. CASE Delete(p)
  BY <1>4 DEF Delete, DelMiss, DelFound, DelMark, DelUncount, ReturnAnswer
<1>5. CASE Get(p)
  BY <1>5 DEF Get, GetStart, GetNext, GetMiss, GetFound, GetValue, ReturnGet
<1>6. CASE RangeAll(p)
  BY <1>6 DEF RangeAll, RangeFirst, RangeVisit, RangeNext, RangeEnd, ReturnAnswer
<1>7. CASE Clear(p)
  BY <1>7 DEF Clear, ClearFirst, ClearMark, ClearNext, ClearCount, ClearBucket
<1> QED
  BY <1>1, <1>2, <1>3, <1>4, <1>5, <1>6, <1>7 DEF Work

Linking(p) ==
    /\ Goto(p, "link", "countNew") /\ size < MaxNodes
    /\ next[prev[p]] = curr[p] /\ LinkNode(p, size + 1)

LEMMA WhoLinks ==
    ASSUME IInv, NEW p \in Procs, CallOp(p) \/ Work(p)
    PROVE  Linking(p) \/ UNCHANGED <<next, nkey, size>>
<1>1. SUFFICES ASSUME pc[p] = "link", next[prev[p]] = curr[p], size < MaxNodes PROVE Linking(p)
  BY ListKept
<1>2. op[p] \in {"put", "delete"}
  BY <1>1 DEF IInv, LocalOK
<1>3. PutLink(p)
  BY <1>1, <1>2 DEF CallOp, Call, Goto, Work, Find, FindFirst, FindNext, Put, PutFound, PutUpdate,
     PutRevive, PutRevalue, PutReadHead, PutReadCurr, Return, Finding,
     PutCountRevived, PutCountNew, PutSetBucket, Delete, DelMiss, DelFound, DelMark, DelUncount,
     ReturnAnswer, Get, GetStart, GetNext, GetMiss, GetFound, GetValue, ReturnGet, RangeAll,
     RangeFirst, RangeVisit, RangeNext, RangeEnd, Clear, ClearFirst, ClearMark, ClearNext,
     ClearCount, ClearBucket
<1> QED
  BY <1>1, <1>3 DEF PutLink, Linking, Goto

LEMMA ListGrows ==
    ASSUME IInv, NEW p \in Procs, CallOp(p) \/ Work(p)
    PROVE  Grows
<1>1. ASSUME UNCHANGED <<next, nkey, size>> PROVE Grows
  BY <1>1 DEF Grows, Linked, BeforeNext, Before
<1>2. CASE Linking(p)
  <2>1. Links(p, size + 1, prev[p], curr[p])
    BY <1>2, LinkDoes DEF Linking
  <2>2. Linked' = Linked \cup {size + 1} /\ nkey'[size + 1] = key[p]
        /\ \A y \in Linked : nkey'[y] = nkey[y]
    BY <2>1 DEF Links
  <2> QED
    BY <2>1, <2>2, KeyIsNew, NewOrder DEF Grows
<1> QED
  BY <1>1, <1>2, WhoLinks

\* What others are about to do still fits.
LEMMA OthersControl ==
    ASSUME Grows, NEW p \in Procs, OthersStay(p), NEW q \in Procs, q # p, Control(q)
    PROVE  Control(q)'
BY DEF Grows, OthersStay, Control

\* The end of an operation, a step within one, and one that only goes elsewhere.
LEMMA ReturnControl ==
    ASSUME LocalType, NEW p \in Procs, NEW s, Return(p, s)
    PROVE  Control(p)'
BY DEF LocalType, Return, Goto, Control, Fits

LEMMA CallControl ==
    ASSUME IInv, Places, NEW p \in Procs, CallOp(p)
    PROVE  Control(p)'
<1>1. AnswerType /\ LocalType
  BY TypeParts DEF IInv
<1>2. Control(p)
  BY DEF Places
<1>3. PICK o, k, v, first :
         /\ Call(p, o, k, v, first)
         /\ \/ o \in {"put", "delete"} /\ first = "first"
            \/ o = "get" /\ first = "bucket"
            \/ o \in {"range", "clear"} /\ first = "first" /\ k = NoKey
  BY DEF CallOp
<1>4. pc'[p] = first /\ op'[p] = o /\ key'[p] = k /\ (o # "get" => answer'[p] = {})
  BY <1>1, <1>3 DEF Call, Goto, LocalType, AnswerType
<1> QED
  BY <1>3, <1>4 DEF Control, Fits, PutSteps

LEMMA FindControl ==
    ASSUME IInv, Places, NEW p \in Procs, Find(p)
    PROVE  Control(p)'
<1>1. AnswerType /\ LocalType /\ Control(p)
  BY TypeParts DEF IInv, Places
<1>2. /\ pc'[p] = "find" /\ op' = op /\ key' = key /\ answer' = answer
      /\ pc[p] \in {"first", "find"} /\ op[p] \in {"put", "delete"}
  BY <1>1 DEF Find, FindFirst, FindNext, Goto, LocalType, Within, opVars, sharedVars
<1> QED
  BY <1>1, <1>2 DEF Control, Fits, PutSteps

LEMMA PutControl ==
    ASSUME IInv, Places, NEW p \in Procs, Put(p)
    PROVE  Control(p)'
<1>1. AnswerType /\ LocalType /\ Control(p) /\ LocalOK(p)
  BY TypeParts DEF IInv, Places
<1> USE DEF LocalType, Goto, Within, opVars, localVars, sharedVars, nodeVars, Quiet, Linked
<1>2. CASE PutFound(p)
  <2>1. /\ pc'[p] \in {"revive", "update"} /\ op[p] = "put" /\ pc[p] = "find"
        /\ curr[p] # Nil /\ nkey[curr[p]] = key[p]
        /\ UNCHANGED <<op, key, answer, curr, nkey, size>>
    BY <1>1, <1>2 DEF PutFound, Finding, Found
  <2> QED
    BY <1>1, <2>1 DEF Control, Fits, PutSteps, LocalOK, SearchOK
<1>3. CASE PutRevive(p)
  <2>1. /\ pc'[p] \in {"revalue", "first"} /\ pc[p] = "revive"
        /\ UNCHANGED <<op, key, answer, curr, nkey, size>>
    BY <1>1, <1>3 DEF PutRevive
  <2> QED
    BY <1>1, <2>1 DEF Control, Fits, PutSteps
<1>4. CASE PutRevalue(p) \/ PutReadHead(p) \/ PutReadCurr(p)
  <2>1. /\ pc'[p] \in {"countRevived", "link"} /\ op[p] = "put"
        /\ UNCHANGED <<op, key, answer, curr, nkey, size>>
    BY <1>1, <1>4 DEF PutRevalue, PutReadHead, PutReadCurr, Finding, Control, Fits
  <2> QED
    BY <1>1, <2>1 DEF Control, Fits, PutSteps
<1>5. CASE PutLink(p)
  <2>1. /\ pc'[p] \in {"countNew", "first"} /\ pc[p] = "link" /\ op[p] = "put"
        /\ UNCHANGED <<op, key, answer>>
        /\ pc'[p] = "countNew" => curr'[p] = size + 1 /\ size' = size + 1 /\ size \in Nat
    BY <1>1, <1>5, TypeParts DEF PutLink, LinkNode, Advance, IInv, SharedType, Control, Fits
  <2> QED
    BY <1>1, <2>1 DEF Control, Fits, PutSteps
<1>6. CASE PutCountNew(p)
  <2>1. /\ pc'[p] = "setBucket" /\ pc[p] = "countNew"
        /\ UNCHANGED <<op, key, answer, curr, nkey, size>>
    BY <1>1, <1>6 DEF PutCountNew
  <2> QED
    BY <1>1, <2>1 DEF Control, Fits, PutSteps
<1>7. CASE PutUpdate(p) \/ PutCountRevived(p) \/ PutSetBucket(p)
  BY <1>1, <1>7, ReturnControl DEF PutUpdate, PutCountRevived, PutSetBucket
<1> QED
  BY <1>2, <1>3, <1>4, <1>5, <1>6, <1>7 DEF Put

LEMMA DeleteControl ==
    ASSUME IInv, Places, NEW p \in Procs, Delete(p)
    PROVE  Control(p)'
<1>1. AnswerType /\ LocalType /\ Control(p) /\ LocalOK(p)
  BY TypeParts DEF IInv, Places
<1>2. CASE \E s : Return(p, s)
  BY <1>1, <1>2, ReturnControl
<1>3. CASE DelFound(p) /\ Goto(p, "find", "delMark") /\ Quiet
  <2>1. /\ pc'[p] = "delMark" /\ op[p] = "delete" /\ pc[p] = "find"
        /\ curr[p] # Nil /\ nkey[curr[p]] = key[p]
        /\ UNCHANGED <<op, key, answer, curr, nkey, size>>
    BY <1>1, <1>3 DEF DelFound, Finding, Found, LocalType, Goto, Quiet, Within, opVars, localVars,
       sharedVars
  <2> QED
    BY <1>1, <2>1 DEF Control, Fits, LocalOK, SearchOK, Linked
<1>4. CASE DelMark(p)
  <2>1. /\ pc'[p] \in {"uncount", "first"} /\ pc[p] = "delMark"
        /\ UNCHANGED <<op, key, curr, nkey, size>>
        /\ pc'[p] = "first" => answer' = answer
    BY <1>1, <1>4 DEF DelMark, LocalType, Goto, Quiet, Within, opVars, localVars, sharedVars
  <2> QED
    BY <1>1, <2>1 DEF Control, Fits, PutSteps
<1> QED
  BY <1>2, <1>3, <1>4 DEF Delete, DelMiss, DelFound, DelUncount, ReturnAnswer

LEMMA GetControl ==
    ASSUME IInv, Places, NEW p \in Procs, Get(p)
    PROVE  Control(p)'
<1>1. AnswerType /\ LocalType /\ Control(p) /\ LocalOK(p) /\ Fresh /\ Ordered
  BY TypeParts DEF IInv, Places
<1> USE DEF LocalType, Goto, Within, opVars, localVars, sharedVars, Quiet, Linked, Advance
<1>2. CASE \E s : Return(p, s)
  BY <1>1, <1>2, ReturnControl
<1>3. CASE GetStart(p)
  <2>1. getBucket(key[p]) \in BucketIndexes
    <3>1. key[p] \in Keys
      BY <1>1, <1>3 DEF GetStart, LocalOK
    <3>2. Hash[key[p]] \in Nat /\ BucketCount \in Nat \ {0}
      BY <3>1, HashMapAssumption DEF HashMapAssumption
    <3> QED
      BY <3>2 DEF getBucket, BucketIndexes
  <2>2. /\ pc'[p] = "walk" /\ pc[p] = "bucket" /\ UNCHANGED <<op, key, answer, nkey, size>>
        /\ curr'[p] \in {Head} \cup Linked \cup {Nil}
    BY <1>1, <1>3, <2>1 DEF GetStart, Fresh
  <2> QED
    BY <1>1, <2>2 DEF Control, Fits, PutSteps
<1>4. CASE GetNext(p)
  <2>1. /\ pc'[p] = "walk" /\ pc[p] = "walk" /\ UNCHANGED <<op, key, answer, nkey, size>>
        /\ curr'[p] = next[curr[p]] /\ curr[p] \in {Head} \cup Linked
    BY <1>1, <1>4 DEF GetNext, Missed, Control
  <2> QED
    BY <1>1, <2>1 DEF Control, Fits, Ordered
<1>5. CASE GetFound(p) /\ Goto(p, "walk", "value") /\ Quiet
  <2>1. /\ pc'[p] = "value" /\ pc[p] = "walk" /\ UNCHANGED <<op, key, answer, curr, nkey, size>>
        /\ curr[p] # Head /\ curr[p] # Nil /\ nkey[curr[p]] = key[p]
    BY <1>1, <1>5 DEF GetFound, Found
  <2> QED
    BY <1>1, <2>1 DEF Control, Fits, PutSteps
<1> QED
  BY <1>2, <1>3, <1>4, <1>5 DEF Get, GetMiss, GetFound, GetValue, ReturnGet

LEMMA RangeControl ==
    ASSUME IInv, Places, NEW p \in Procs, RangeAll(p)
    PROVE  Control(p)'
<1>1. AnswerType /\ LocalType /\ Control(p) /\ LocalOK(p) /\ Ordered
  BY TypeParts DEF IInv, Places
<1> USE DEF LocalType, Goto, Within, opVars, localVars, sharedVars, Linked, Advance
<1>2. CASE \E s : Return(p, s)
  BY <1>1, <1>2, ReturnControl
<1>3. CASE RangeFirst(p)
  <2>1. /\ pc'[p] = "range" /\ op[p] = "range" /\ UNCHANGED <<op, key, nkey, size>>
        /\ curr'[p] = next[Head]
    BY <1>1, <1>3 DEF RangeFirst
  <2> QED
    BY <1>1, <2>1 DEF Control, Fits, Ordered
<1>4. CASE RangeNext(p)
  <2>1. /\ pc'[p] = "range" /\ pc[p] = "rangeNext" /\ UNCHANGED <<op, key, nkey, size>>
        /\ curr'[p] = next[curr[p]]
    BY <1>1, <1>4 DEF RangeNext
  <2> QED
    BY <1>1, <2>1 DEF Control, Fits, Ordered, PutSteps
<1>5. CASE RangeVisit(p) /\ Goto(p, "range", "rangeNext") /\ Within
           /\ UNCHANGED <<sharedVars, localVars>>
  <2>1. /\ pc'[p] = "rangeNext" /\ pc[p] = "range" /\ UNCHANGED <<op, key, nkey, size, curr>>
        /\ curr[p] # Nil
    BY <1>1, <1>5 DEF RangeVisit
  <2> QED
    BY <1>1, <2>1 DEF Control, Fits, PutSteps
<1> QED
  BY <1>2, <1>3, <1>4, <1>5 DEF RangeAll, RangeVisit, RangeEnd, ReturnAnswer

LEMMA ClearControl ==
    ASSUME IInv, Places, NEW p \in Procs, Clear(p)
    PROVE  Control(p)'
<1>1. AnswerType /\ LocalType /\ Control(p) /\ LocalOK(p) /\ Ordered
  BY TypeParts DEF IInv, Places
<1> USE DEF LocalType, Goto, Within, opVars, localVars, sharedVars, nodeVars, Linked, Advance
<1>2. CASE \E s : Return(p, s)
  BY <1>1, <1>2, ReturnControl
<1>3. CASE ClearFirst(p)
  <2>1. /\ pc'[p] = "clear" /\ op[p] = "clear" /\ UNCHANGED <<op, key, answer, nkey, size>>
        /\ curr'[p] = next[Head]
    BY <1>1, <1>3 DEF ClearFirst
  <2> QED
    BY <1>1, <2>1 DEF Control, Fits, Ordered
<1>4. CASE ClearNext(p)
  <2>1. /\ pc'[p] = "clear" /\ pc[p] = "clearNext" /\ UNCHANGED <<op, key, answer, nkey, size>>
        /\ curr'[p] = next[curr[p]]
    BY <1>1, <1>4 DEF ClearNext
  <2> QED
    BY <1>1, <2>1 DEF Control, Fits, Ordered, PutSteps
<1>5. CASE ClearMark(p)
  <2>1. /\ pc'[p] = "clearNext" /\ pc[p] = "clear"
        /\ UNCHANGED <<op, key, answer, nkey, size, curr>>
        /\ curr[p] # Nil
    BY <1>1, <1>5 DEF ClearMark
  <2> QED
    BY <1>1, <2>1 DEF Control, Fits, PutSteps
<1>6. CASE ClearCount(p) \/ (ClearBucket(p) /\ ~\E s : Return(p, s))
  <2>1. /\ pc'[p] = "clearBuckets" /\ pc[p] \in {"clear", "clearBuckets"}
        /\ UNCHANGED <<op, key, answer, nkey, size>>
    BY <1>1, <1>6 DEF ClearCount, ClearBucket
  <2> QED
    BY <1>1, <2>1 DEF Control, Fits, PutSteps
<1> QED
  BY <1>2, <1>3, <1>4, <1>5, <1>6 DEF Clear

\* Flags are set and cleared in linked nodes only.
LEMMA FlagsChange ==
    ASSUME IInv, Places, NEW p \in Procs, CallOp(p) \/ Work(p)
    PROVE  deleted' = deleted \/ \E b \in BOOLEAN :
              curr[p] \in Linked /\ deleted' = [deleted EXCEPT ![curr[p]] = b]
<1>1. Control(p)
  BY DEF Places
<1> USE DEF Quiet, sharedVars, nodeVars, Goto
<1>2. CASE CallOp(p)
  BY <1>2 DEF CallOp, Call
<1>3. CASE Find(p)
  BY <1>3 DEF Find, FindFirst, FindNext
<1>4. CASE Put(p)
  BY <1>1, <1>4 DEF Put, PutFound, PutUpdate, PutRevive, PutRevalue, PutReadHead, PutReadCurr,
     PutLink, LinkNode, PutCountRevived, PutCountNew, PutSetBucket, Control
<1>5. CASE Delete(p)
  BY <1>1, <1>5 DEF Delete, DelMiss, DelFound, DelMark, DelUncount, ReturnAnswer, Control
<1>6. CASE Get(p)
  BY <1>6 DEF Get, GetStart, GetNext, GetMiss, GetFound, GetValue, ReturnGet
<1>7. CASE RangeAll(p)
  BY <1>7 DEF RangeAll, RangeFirst, RangeVisit, RangeNext, RangeEnd, ReturnAnswer
<1>8. CASE Clear(p)
  BY <1>1, <1>8 DEF Clear, ClearFirst, ClearMark, ClearNext, ClearCount, ClearBucket, Control
<1> QED
  BY <1>2, <1>3, <1>4, <1>5, <1>6, <1>7, <1>8 DEF Work

LEMMA BucketsChange ==
    ASSUME IInv, Places, NEW p \in Procs, CallOp(p) \/ Work(p), NEW i \in BucketIndexes
    PROVE  bucket'[i] \in Linked \cup {Nil}
<1>1. Control(p) /\ bucket[i] \in Linked \cup {Nil} /\ bucket \in [BucketIndexes -> Pointers]
  BY TypeParts DEF Places, Fresh, IInv, SharedType
<1> USE DEF Quiet, sharedVars, nodeVars, Goto
<1>2. CASE CallOp(p)
  BY <1>1, <1>2 DEF CallOp, Call
<1>3. CASE Find(p)
  BY <1>1, <1>3 DEF Find, FindFirst, FindNext
<1>4. CASE Put(p)
  BY <1>1, <1>4 DEF Put, PutFound, PutUpdate, PutRevive, PutRevalue, PutReadHead, PutReadCurr,
     PutLink, LinkNode, PutCountRevived, PutCountNew, PutSetBucket, Return, Control
<1>5. CASE Delete(p)
  BY <1>1, <1>5 DEF Delete, DelMiss, DelFound, DelMark, DelUncount, ReturnAnswer
<1>6. CASE Get(p)
  BY <1>1, <1>6 DEF Get, GetStart, GetNext, GetMiss, GetFound, GetValue, ReturnGet
<1>7. CASE RangeAll(p)
  BY <1>1, <1>7 DEF RangeAll, RangeFirst, RangeVisit, RangeNext, RangeEnd, ReturnAnswer
<1>8. CASE Clear(p)
  BY <1>1, <1>8 DEF Clear, ClearFirst, ClearMark, ClearNext, ClearCount, ClearBucket
<1> QED
  BY <1>2, <1>3, <1>4, <1>5, <1>6, <1>7, <1>8 DEF Work

LEMMA PlacesStep ==
    ASSUME IInv, Places, NEW p \in Procs, CallOp(p) \/ Work(p)
    PROVE  Places'
<1>1. Grows /\ OthersStay(p)
  BY ListGrows, StepStays
<1>2. \A q \in Procs : q # p => Control(q)'
  BY <1>1, OthersControl DEF Places
<1>3. Control(p)'
  BY CallControl, FindControl, PutControl, DeleteControl, GetControl, RangeControl, ClearControl
     DEF Work
<1>4. \A x \in Nodes \ Linked' : ~deleted'[x]
  <2>1. deleted \in [Nodes -> BOOLEAN]
    BY TypeParts DEF IInv, SharedType
  <2> QED
    BY <1>1, <2>1, FlagsChange DEF Grows, Places, Fresh
<1>5. \A i \in BucketIndexes : bucket'[i] \in Linked' \cup {Nil}
  BY <1>1, BucketsChange DEF Grows
<1> QED
  BY <1>2, <1>3, <1>4, <1>5 DEF Places, Fresh

LEMMA PlacesInvariance == Spec => []Places
<1>1. Init => Places
  <2> SUFFICES ASSUME Init PROVE Places
    OBVIOUS
  <2>1. \A p \in Procs : Control(p)
    BY DEF Init, Control, Fits
  <2> QED
    BY <2>1 DEF Init, Places, Fresh
<1>2. IInv /\ Places /\ [Next]_vars => Places'
  <2> SUFFICES ASSUME IInv, Places, [Next]_vars PROVE Places'
    OBVIOUS
  <2>1. CASE UNCHANGED vars
    BY <2>1 DEF Places, Fresh, Control, Linked, vars, sharedVars, opVars, localVars
  <2> QED
    BY <2>1, PlacesStep DEF Next
<1> QED
  BY <1>1, <1>2, Invariance, PTL DEF Spec
-----------------------------------------------------------------------------
(* The keys in the map, and what callers see of them.                      *)

\* A key is in the map when its node is live.
LEMMA KeyLive ==
    ASSUME IInv, NEW x \in Linked
    PROVE  nkey[x] \in LiveKeys <=> ~deleted[x]
BY DEF IInv, Ordered, LiveKeys, Live

LEMMA KeysKept ==
    ASSUME UNCHANGED <<nkey, size, deleted>>
    PROVE  LiveKeys' = LiveKeys
BY DEF LiveKeys, Live, Linked

LEMMA FlagSet ==
    ASSUME IInv, UNCHANGED <<nkey, size>>, NEW c \in Linked,
           deleted' = [deleted EXCEPT ![c] = TRUE]
    PROVE  LiveKeys' = LiveKeys \ {nkey[c]}
<1>1. deleted \in [Nodes -> BOOLEAN] /\ Linked \subseteq Nodes /\ Linked' = Linked
  BY TypeParts, Numbers DEF IInv, SharedType, Linked
<1>2. Live' = Live \ {c}
  BY <1>1 DEF Live
<1>3. \A x \in Live : nkey[x] = nkey[c] => x = c
  BY DEF IInv, Ordered, Live
<1> QED
  BY <1>2, <1>3 DEF LiveKeys

LEMMA FlagCleared ==
    ASSUME IInv, UNCHANGED <<nkey, size>>, NEW c \in Linked,
           deleted' = [deleted EXCEPT ![c] = FALSE]
    PROVE  LiveKeys' = LiveKeys \cup {nkey[c]}
<1>1. deleted \in [Nodes -> BOOLEAN] /\ Linked \subseteq Nodes /\ Linked' = Linked
  BY TypeParts, Numbers DEF IInv, SharedType, Linked
<1>2. Live' = Live \cup {c}
  BY <1>1 DEF Live
<1> QED
  BY <1>2 DEF LiveKeys

LEMMA NodeLinked ==
    ASSUME IInv, Fresh, NEW p \in Procs, Linking(p)
    PROVE  LiveKeys' = LiveKeys \cup {key[p]}
<1>1. Links(p, size + 1, prev[p], curr[p])
  BY LinkDoes DEF Linking
<1> DEFINE x == size + 1
<1>2. /\ Linked' = Linked \cup {x} /\ x \in Nodes \ Linked /\ nkey'[x] = key[p]
      /\ \A y \in Linked : nkey'[y] = nkey[y]
  BY <1>1 DEF Links
<1>3. deleted' = deleted
  BY DEF Linking, LinkNode
<1> HIDE DEF x
<1>4. Live' = Live \cup {x} /\ Live \subseteq Linked
  BY <1>2, <1>3 DEF Live, Fresh
<1> QED
  BY <1>2, <1>4 DEF LiveKeys

\* Range or Clear is past x.
Passed(p, x) ==
    \/ pc[p] \in {"range", "clear"} /\ (curr[p] # Nil => x # curr[p] /\ ~Before(curr[p], x))
    \/ pc[p] \in {"rangeNext", "clearNext"} /\ ~Before(curr[p], x)

\* What callers have been shown justifies what they answer.
Seen(p) ==
    /\ IF Watching(p) THEN State(About(key[p])) \subseteq was[p] ELSE was[p] = {}
    /\ \A x \in Linked : Passed(p, x) => nkey[x] \in answer[p] \/ <<nkey[x], FALSE>> \in was[p]
    /\ op[p] = "range" => \A k \in answer[p] : <<k, TRUE>> \in was[p]
    /\ pc[p] = "find" /\ op[p] = "delete" /\ Missed(p) => <<key[p], FALSE>> \in was[p]

RInv ==
    /\ IInv /\ Places
    /\ \A p \in Procs : Seen(p)
    /\ was = [p \in Procs |-> was[p]]

\* What a step adds to what p has been shown.
LEMMA RecordShows ==
    ASSUME Record, NEW p \in Procs
    PROVE  /\ Watching(p)' => was'[p] = was[p] \cup State(About(key[p]))'
           /\ ~Watching(p)' => was'[p] = {}
           /\ was' = [q \in Procs |-> was'[q]]
BY DEF Record

LEMMA StateSays ==
    ASSUME NEW K, NEW k
    PROVE  /\ k \in K /\ k \in LiveKeys => <<k, TRUE>> \in State(K)
           /\ k \in K /\ k \notin LiveKeys => <<k, FALSE>> \in State(K)
<1>1. k \in K => <<k, k \in LiveKeys>> \in State(K)
  BY DEF State
<1>2. ASSUME k \in LiveKeys PROVE (k \in LiveKeys) = TRUE
  BY <1>2
<1>3. ASSUME k \notin LiveKeys PROVE (k \in LiveKeys) = FALSE
  BY <1>3
<1> QED
  BY <1>1, <1>2, <1>3

LEMMA OthersSee ==
    ASSUME IInv, IInv', Grows, Record, NEW p \in Procs, OthersStay(p),
           NEW q \in Procs, q # p, Control(q), Seen(q)
    PROVE  Seen(q)'
<1>1. /\ pc'[q] = pc[q] /\ op'[q] = op[q] /\ key'[q] = key[q]
      /\ curr'[q] = curr[q] /\ answer'[q] = answer[q]
  BY DEF OthersStay
<1>2. Watching(q)' <=> Watching(q)
  BY <1>1 DEF Watching
<1>3. /\ Watching(q) => was[q] \subseteq was'[q] /\ State(About(key[q]))' \subseteq was'[q]
      /\ ~Watching(q) => was'[q] = {}
  BY <1>2, RecordShows
<1>4. /\ pc[q] \in {"range", "clear", "rangeNext", "clearNext"} =>
             /\ Watching(q) /\ key[q] = NoKey /\ curr[q] \in Linked \cup {Nil}
             /\ pc[q] \in {"rangeNext", "clearNext"} => curr[q] \in Linked
      /\ op[q] = "range" => Watching(q)
      /\ pc[q] = "find" /\ op[q] = "delete" => Watching(q) /\ curr[q] \in Linked \cup {Nil}
  BY DEF Control, Fits, PutSteps, Watching, ClearSteps, IInv, LocalOK, SearchOK
<1>5. ASSUME NEW x \in Linked', Passed(q, x)'
      PROVE  nkey'[x] \in answer[q] \/ <<nkey'[x], FALSE>> \in was'[q]
  <2>1. /\ Watching(q) /\ key[q] = NoKey /\ curr[q] \in Linked \cup {Nil}
        /\ pc[q] \in {"rangeNext", "clearNext"} => curr[q] \in Linked
    BY <1>1, <1>4, <1>5 DEF Passed
  <2>2. CASE x \in Linked
    <3>1. curr[q] \in Linked => (Before(curr[q], x)' <=> Before(curr[q], x))
      BY <1>1, <2>2 DEF Grows, Before, BeforeNext
    <3>2. Passed(q, x)
      BY <1>1, <1>5, <2>1, <3>1 DEF Passed
    <3>3. nkey'[x] = nkey[x]
      BY <2>2 DEF Grows
    <3> QED
      BY <1>3, <2>1, <2>2, <3>2, <3>3 DEF Seen
  <2>3. CASE x \notin Linked
    <3>1. nkey'[x] \notin LiveKeys
      BY <1>5, <2>3 DEF Grows, LiveKeys, Live
    <3>2. nkey'[x] \in Keys
      BY <1>5 DEF IInv, Ordered
    <3>3. <<nkey'[x], FALSE>> \in State(About(key[q]))
      BY <2>1, <3>1, <3>2, StateSays DEF About
    <3> QED
      BY <1>3, <2>1, <3>3 DEF Seen
  <2> QED
    BY <2>2, <2>3
<1>6. op[q] = "range" => \A k \in answer[q] : <<k, TRUE>> \in was'[q]
  BY <1>3, <1>4 DEF Seen
<1>7. pc[q] = "find" /\ op[q] = "delete" /\ Missed(q)' => <<key[q], FALSE>> \in was'[q]
  <2>1. SUFFICES ASSUME pc[q] = "find", op[q] = "delete", Missed(q)'
                 PROVE  <<key[q], FALSE>> \in was'[q]
    OBVIOUS
  <2>2. Missed(q)
    BY <1>1, <1>4, <2>1 DEF Missed, Grows
  <2> QED
    BY <1>3, <1>4, <2>1, <2>2 DEF Seen
<1> QED
  BY <1>1, <1>2, <1>3, <1>5, <1>6, <1>7 DEF Seen

\* Who has answered, or only puts or gets, has been shown nothing.
LEMMA NoneSeen ==
    ASSUME Record, NEW p \in Procs, ~Watching(p)', Control(p)'
    PROVE  Seen(p)'
<1>1. was'[p] = {}
  BY RecordShows
<1>2. ~Watching(p) /\ Control(p) =>
         /\ pc[p] \notin {"range", "rangeNext", "clear", "clearNext"} /\ op[p] # "range"
         /\ ~(pc[p] = "find" /\ op[p] = "delete")
  BY DEF Control, Fits, PutSteps, Watching, ClearSteps
<1>3. (~Watching(p) /\ Control(p) =>
         /\ pc[p] \notin {"range", "rangeNext", "clear", "clearNext"} /\ op[p] # "range"
         /\ ~(pc[p] = "find" /\ op[p] = "delete"))'
  <2>1. pc'[p] = pc'[p]
    OBVIOUS
  <2> QED
    BY <2>1 DEF Control, Fits, PutSteps, Watching, ClearSteps
<1> QED
  BY <1>1, <1>3 DEF Seen, Passed

\* Who begins, or begins again.
LEMMA FirstSeen ==
    ASSUME Record, NEW p \in Procs, Watching(p)', pc'[p] = "first", answer'[p] = {}
    PROVE  Seen(p)'
<1>1. State(About(key[p]))' \subseteq was'[p]
  BY RecordShows
<1> QED
  BY <1>1 DEF Seen, Passed
-----------------------------------------------------------------------------
(* The abstract map.                                                       *)

AbsOp == [p \in Procs |-> opOf(p)]
AbsKey == [p \in Procs |-> IF opOf(p) = "none" THEN NoKey ELSE key[p]]
AbsAnswer == [p \in Procs |-> IF opOf(p) = "range" THEN {} ELSE answer[p]]

LEMMA WhoWatches ==
    ASSUME NEW p \in Procs
    PROVE  /\ Control(p) => (Watching(p) <=> opOf(p) \in {"delete", "range", "clear"})
           /\ Control(p)' => (Watching(p)' <=> opOf(p)' \in {"delete", "range", "clear"})
BY DEF Control, Fits, PutSteps, Watching, opOf, EffectSteps, FindSteps, ClearSteps

LEMMA OthersAbstract ==
    ASSUME NEW p \in Procs, OthersStay(p), NEW q \in Procs, q # p
    PROVE  /\ opOf(q)' = opOf(q) /\ AbsOp'[q] = AbsOp[q] /\ AbsKey'[q] = AbsKey[q]
           /\ AbsAnswer'[q] = AbsAnswer[q] /\ (Watching(q)' <=> Watching(q)) /\ key'[q] = key[q]
<1>1. pc'[q] = pc[q] /\ op'[q] = op[q] /\ key'[q] = key[q] /\ answer'[q] = answer[q]
  BY DEF OthersStay
<1>2. opOf(q)' = opOf(q) /\ (Watching(q)' <=> Watching(q))
  BY <1>1 DEF opOf, Watching
<1> QED
  BY <1>1, <1>2 DEF AbsOp, AbsKey, AbsAnswer

\* While the keys stay, who watches is shown nothing new.
LEMMA ShownNothingNew ==
    ASSUME RInv, Record, LiveKeys' = LiveKeys, NEW q \in Procs, Watching(q)' <=> Watching(q),
           Watching(q) => key'[q] = key[q]
    PROVE  was'[q] = was[q]
<1>1. CASE Watching(q)
  <2>1. was'[q] = was[q] \cup State(About(key[q]))'
    BY <1>1, RecordShows
  <2>2. State(About(key[q]))' = State(About(key[q]))
    BY <1>1 DEF State, About
  <2> QED
    BY <1>1, <2>1, <2>2 DEF RInv, Seen
<1>2. CASE ~Watching(q)
  BY <1>2, RecordShows DEF RInv, Seen
<1> QED
  BY <1>1, <1>2

\* A step that takes no effect.
LEMMA Stutters ==
    ASSUME RInv, Record, NEW p \in Procs, OthersStay(p), Control(p)', LiveKeys' = LiveKeys,
           opOf(p)' = opOf(p), opOf(p) # "none" => key'[p] = key[p],
           opOf(p) # "range" => answer'[p] = answer[p]
    PROVE  UNCHANGED KeySet!specVars
<1>1. /\ Watching(p)' <=> Watching(p)
      /\ Watching(p) => opOf(p) # "none"
  BY WhoWatches DEF RInv, Places
<1>2. AbsOp' = AbsOp /\ AbsKey' = AbsKey /\ AbsAnswer' = AbsAnswer
  <2>1. \A q \in Procs :
           AbsOp'[q] = AbsOp[q] /\ AbsKey'[q] = AbsKey[q] /\ AbsAnswer'[q] = AbsAnswer[q]
    BY OthersAbstract DEF AbsOp, AbsKey, AbsAnswer
  <2> QED
    BY <2>1 DEF AbsOp, AbsKey, AbsAnswer
<1>3. was' = was
  <2>1. \A q \in Procs : was'[q] = was[q]
    BY <1>1, OthersAbstract, ShownNothingNew
  <2>2. was' = [q \in Procs |-> was'[q]] /\ was = [q \in Procs |-> was[q]]
    BY RecordShows DEF RInv
  <2> QED
    BY <2>1, <2>2
<1> QED
  BY <1>2, <1>3 DEF KeySet!specVars, AbsOp, AbsKey, AbsAnswer

\* The histories after a step that leaves the keys K.
LEMMA WasIsShown ==
    ASSUME RInv, Record, NEW p \in Procs, OthersStay(p), NEW q \in Procs,
           Watching(q)' <=> Watching(q), Watching(q) => key'[q] = key[q]
    PROVE  was'[q] = KeySet!Shown(LiveKeys')[q]
<1>1. KeySet!Shown(LiveKeys')[q] =
          IF AbsOp[q] \in {"delete", "range", "clear"}
          THEN was[q] \cup KeySet!State(LiveKeys', KeySet!About(AbsKey[q])) ELSE {}
  <2>1. AbsOp[q] # "get"
    BY DEF AbsOp, opOf
  <2> QED
    BY <2>1 DEF KeySet!Shown, KeySet!Readers, AbsOp, AbsKey
<1>2. AbsOp[q] \in {"delete", "range", "clear"} <=> Watching(q)
  BY WhoWatches DEF RInv, Places, AbsOp
<1>3. Watching(q) => /\ AbsKey[q] = key[q]
                     /\ KeySet!State(LiveKeys', KeySet!About(key[q])) = State(About(key[q]))'
  BY <1>2 DEF AbsKey, AbsOp, KeySet!State, KeySet!About, State, About
<1> QED
  BY <1>1, <1>2, <1>3, RecordShows

\* The moment of effect.
LEMMA TakesEffect ==
    ASSUME RInv, Record, NEW p \in Procs, OthersStay(p), Control(p)', opOf(p) # "none",
           opOf(p)' = "none"
    PROVE  KeySet!Takes(p, opOf(p), LiveKeys', answer'[p])
<1>1. ~Watching(p)'
  BY WhoWatches
<1>2. was' = [KeySet!Shown(LiveKeys') EXCEPT ![p] = {}]
  <2>1. \A q \in Procs : q # p => was'[q] = KeySet!Shown(LiveKeys')[q]
    BY OthersAbstract, WasIsShown
  <2>2. was'[p] = {} /\ was' = [q \in Procs |-> was'[q]]
    BY <1>1, RecordShows
  <2>3. KeySet!Shown(LiveKeys') = [q \in Procs |-> KeySet!Shown(LiveKeys')[q]]
    BY DEF KeySet!Shown
  <2> QED
    BY <2>1, <2>2, <2>3
<1>3. /\ AbsOp[p] = opOf(p) /\ AbsOp' = [AbsOp EXCEPT ![p] = "none"]
      /\ AbsKey' = [AbsKey EXCEPT ![p] = NoKey]
      /\ AbsAnswer' = [AbsAnswer EXCEPT ![p] = answer'[p]]
  BY OthersAbstract DEF AbsOp, AbsKey, AbsAnswer
<1> QED
  BY <1>2, <1>3 DEF KeySet!Takes, AbsOp, AbsKey, AbsAnswer

LEMMA KeepsRInv ==
    ASSUME RInv, IInv', Record, NEW p \in Procs, CallOp(p) \/ Work(p), Seen(p)'
    PROVE  RInv'
<1>1. Places' /\ Grows /\ OthersStay(p)
  BY PlacesStep, ListGrows, StepStays DEF RInv
<1>2. \A q \in Procs : q # p => Seen(q)'
  BY <1>1, OthersSee DEF RInv, Places
<1>3. was' = [q \in Procs |-> was'[q]]
  BY RecordShows
<1> QED
  BY <1>1, <1>2, <1>3 DEF RInv

\* What a step has to be.
Abstract(p) == RInv' /\ (KeySet!Next \/ UNCHANGED KeySet!specVars)

LEMMA StutterIs ==
    ASSUME RInv, IInv', Record, NEW p \in Procs, CallOp(p) \/ Work(p), Seen(p)',
           LiveKeys' = LiveKeys, opOf(p)' = opOf(p), opOf(p) # "none" => key'[p] = key[p],
           opOf(p) # "range" => answer'[p] = answer[p]
    PROVE  Abstract(p)
<1>1. RInv'
  BY KeepsRInv
<1>2. OthersStay(p) /\ Control(p)'
  BY <1>1, StepStays DEF RInv, Places
<1> QED
  BY <1>1, <1>2, Stutters DEF Abstract

\* A step of p outside of what callers see.
LEMMA HiddenIs ==
    ASSUME RInv, IInv', Record, NEW p \in Procs, CallOp(p) \/ Work(p),
           LiveKeys' = LiveKeys, opOf(p) = "none", opOf(p)' = "none", answer'[p] = answer[p]
    PROVE  Abstract(p)
<1>1. Control(p)'
  BY PlacesStep DEF RInv, Places
<1>2. Seen(p)'
  BY <1>1, WhoWatches, NoneSeen
<1> QED
  BY <1>2, StutterIs

LEMMA EffectIs ==
    ASSUME RInv, IInv', Record, NEW p \in Procs, CallOp(p) \/ Work(p),
           NEW o, opOf(p) = o, o # "none", opOf(p)' = "none"
    PROVE  RInv' /\ KeySet!Takes(p, o, LiveKeys', answer'[p]) /\ AbsKey[p] = key[p]
<1>1. Control(p)' /\ OthersStay(p)
  BY PlacesStep, StepStays DEF RInv, Places
<1>2. Seen(p)'
  BY <1>1, WhoWatches, NoneSeen
<1>3. RInv'
  BY <1>2, KeepsRInv
<1>4. KeySet!Takes(p, o, LiveKeys', answer'[p])
  BY <1>1, TakesEffect
<1> QED
  BY <1>3, <1>4 DEF AbsKey

LEMMA PutEffectIs ==
    ASSUME RInv, IInv', Record, NEW p \in Procs, CallOp(p) \/ Work(p),
           opOf(p) = "put", opOf(p)' = "none", answer'[p] = {}, LiveKeys' = LiveKeys \cup {key[p]}
    PROVE  Abstract(p)
<1>1. RInv' /\ KeySet!Takes(p, "put", LiveKeys', answer'[p]) /\ AbsKey[p] = key[p]
  BY EffectIs
<1>2. KeySet!Put(p)
  BY <1>1 DEF KeySet!Put, KeySet!Takes, AbsKey
<1>3. KeySet!Next
  BY <1>2 DEF KeySet!Next
<1> QED
  BY <1>1, <1>3 DEF Abstract

LEMMA CallIsAbstract ==
    ASSUME RInv, IInv', Record, NEW p \in Procs, CallOp(p)
    PROVE  Abstract(p)
<1>1. AnswerType /\ LocalType /\ Places /\ Control(p) /\ IInv
  BY TypeParts DEF RInv, IInv, Places
<1>2. PICK o, k, v, first :
         /\ Call(p, o, k, v, first)
         /\ \/ o = "get" /\ first = "bucket" /\ k \in Keys
            \/ o \in {"put", "delete"} /\ first = "first" /\ k \in Keys
            \/ o \in {"range", "clear"} /\ first = "first" /\ k = NoKey
  BY Constants DEF CallOp
<1>3. /\ pc[p] = "idle" /\ op[p] = "none" /\ LiveKeys' = LiveKeys
      /\ pc'[p] = first /\ op'[p] = o /\ key'[p] = k
      /\ answer'[p] = IF o = "get" THEN answer[p] ELSE {}
  <2>1. pc[p] = "idle" /\ op[p] = "none"
    BY <1>1, <1>2 DEF Call, Goto, Control, Fits, PutSteps
  <2>2. LiveKeys' = LiveKeys
    BY <1>2, KeysKept DEF Call, sharedVars
  <2> QED
    BY <1>1, <1>2, <2>1, <2>2 DEF Call, Goto, LocalType, AnswerType
<1>4. opOf(p) = "none"
  BY <1>3 DEF opOf, Watching, EffectSteps, FindSteps, ClearSteps
<1>5. CASE o = "get"
  <2>1. opOf(p)' = "none"
    BY <1>2, <1>3, <1>5 DEF opOf, Watching, EffectSteps, FindSteps, ClearSteps
  <2> QED
    BY <1>3, <1>4, <1>5, <2>1, HiddenIs DEF RInv
<1>6. CASE o # "get"
  <2>1. opOf(p)' = o /\ (Watching(p)' <=> o # "put") /\ pc'[p] = "first" /\ answer'[p] = {}
    BY <1>2, <1>3, <1>6 DEF opOf, Watching, EffectSteps, FindSteps, ClearSteps
  <2>2. Places' /\ OthersStay(p)
    BY <1>1, PlacesStep, StepStays
  <2>3. Seen(p)'
    <3>1. Control(p)'
      BY <2>2 DEF Places
    <3> QED
      BY <2>1, <3>1, NoneSeen, FirstSeen
  <2>4. RInv'
    BY <2>3, KeepsRInv
  <2>5. was' = [was EXCEPT ![p] =
                    IF o \in KeySet!Readers THEN KeySet!State(LiveKeys, KeySet!About(k)) ELSE {}]
    <3>1. \A q \in Procs : q # p => was'[q] = was[q]
      BY <1>3, <2>2, OthersAbstract, ShownNothingNew
    <3>2. was'[p] = IF o \in KeySet!Readers THEN KeySet!State(LiveKeys, KeySet!About(k)) ELSE {}
      <4>1. was[p] = {}
        BY <1>3 DEF RInv, Seen, Watching
      <4>2. o # "put" <=> o \in KeySet!Readers
        BY <1>2 DEF KeySet!Readers
      <4>3. State(About(key[p]))' = KeySet!State(LiveKeys, KeySet!About(k))
        BY <1>3 DEF State, About, KeySet!State, KeySet!About
      <4> QED
        BY <2>1, <4>1, <4>2, <4>3, RecordShows
    <3> QED
      BY <3>1, <3>2, RecordShows DEF RInv
  <2>6. /\ AbsOp[p] = "none" /\ AbsOp' = [AbsOp EXCEPT ![p] = o]
        /\ AbsKey' = [AbsKey EXCEPT ![p] = k]
        /\ AbsAnswer' = [AbsAnswer EXCEPT ![p] = {}]
    BY <1>2, <1>3, <1>4, <2>1, <2>2, OthersAbstract DEF AbsOp, AbsKey, AbsAnswer
  <2>7. KeySet!Call(p, o, k)
    BY <1>3, <2>5, <2>6 DEF KeySet!Call, AbsOp, AbsKey, AbsAnswer
  <2>8. KeySet!Next
    BY <1>2, <1>6, <2>7 DEF KeySet!Next
  <2> QED
    BY <2>4, <2>8 DEF Abstract
<1> QED
  BY <1>5, <1>6

LEMMA FindIsAbstract ==
    ASSUME RInv, IInv', Record, NEW p \in Procs, Find(p)
    PROVE  Abstract(p)
<1>1. LocalType /\ Control(p) /\ IInv /\ Control(p)' /\ Work(p)
  BY TypeParts, PlacesStep DEF RInv, IInv, Places, Work
<1>2. /\ pc[p] \in {"first", "find"} /\ pc'[p] = "find" /\ op[p] \in {"put", "delete"}
      /\ UNCHANGED <<op, key, answer, next, nkey, size, deleted>>
      /\ curr'[p] = IF pc[p] = "first" THEN next[Head] ELSE next[curr[p]]
      /\ pc[p] = "find" => ~Found(p) /\ ~Missed(p)
  BY <1>1 DEF Find, FindFirst, FindNext, Goto, Within, opVars, sharedVars, Advance, LocalType
<1>3. LiveKeys' = LiveKeys
  BY <1>2, KeysKept
<1>4. opOf(p)' = opOf(p)
  BY <1>2 DEF opOf, Watching, EffectSteps, FindSteps, ClearSteps
<1>5. Seen(p)'
  <2>1. CASE op[p] = "put"
    <3>1. ~Watching(p)'
      BY <1>2, <2>1 DEF Watching
    <3> QED
      BY <1>1, <3>1, NoneSeen
  <2>2. CASE op[p] = "delete"
    <3>1. Watching(p)' /\ State(About(key[p]))' \subseteq was'[p] /\ key[p] \in Keys
          /\ NoKey \notin Keys
      BY <1>1, <1>2, <2>2, RecordShows, Constants DEF Watching, FindSteps, IInv, LocalOK
    <3>2. ASSUME Missed(p)' PROVE <<key[p], FALSE>> \in was'[p]
      <4>1. \A x \in Linked : nkey[x] # key[p]
        <5> SUFFICES ASSUME NEW x \in Linked, nkey[x] = key[p] PROVE FALSE
          OBVIOUS
        <5>1. SearchOK(p)' /\ x \in Linked' /\ nkey'[x] = key'[p]
          BY <1>2 DEF IInv, LocalOK, Linked
        <5>2. After(prev[p], x)' /\ prev'[p] \in {Head} \cup Linked
          BY <1>2, <5>1 DEF SearchOK, Linked
        <5>3. curr'[p] = next[prev'[p]]
          BY <1>1, <1>2 DEF Find, FindFirst, FindNext, LocalType, Goto, Advance
        <5>4. After(prev'[p], x)
          BY <1>2, <5>2 DEF After, Before
        <5>5. curr'[p] \in Linked /\ curr'[p] # Nil /\ (x = curr'[p] \/ Before(curr'[p], x))
          BY <1>1, <5>1, <5>2, <5>3, <5>4 DEF IInv, Ordered
        <5>6. Hash[nkey[curr'[p]]] > Hash[nkey[x]]
          BY <1>2, <3>2, <5>1, <5>5 DEF Missed
        <5>7. Hash[nkey[curr'[p]]] \in Nat /\ Hash[nkey[x]] \in Nat
          BY <1>1, <5>5, OrderIsTotal
        <5> QED
          BY <5>5, <5>6, <5>7 DEF Before
      <4>2. key[p] \notin LiveKeys
        BY <4>1 DEF LiveKeys, Live
      <4>3. <<key[p], FALSE>> \in State(About(key[p]))
        BY <3>1, <4>2, StateSays DEF About
      <4>4. State(About(key[p]))' = State(About(key[p]))
        BY <1>2, <1>3 DEF State, About
      <4> QED
        BY <3>1, <4>3, <4>4
    <3> QED
      BY <1>2, <2>2, <3>1, <3>2 DEF Seen, Passed
  <2> QED
    BY <1>2, <2>1, <2>2
<1> QED
  BY <1>1, <1>2, <1>3, <1>4, <1>5, StutterIs

LEMMA PutIsAbstract ==
    ASSUME RInv, IInv', Record, NEW p \in Procs, Put(p)
    PROVE  Abstract(p)
<1>1. /\ LocalType /\ SharedType /\ AnswerType /\ Control(p) /\ LocalOK(p) /\ IInv /\ Fresh
      /\ Control(p)'
      /\ Work(p)
  BY TypeParts, PlacesStep DEF RInv, IInv, Places, Work
<1> USE DEF LocalType, Goto, Within, opVars, localVars, sharedVars, nodeVars, Quiet
<1>2. op[p] = "put" /\ answer' = answer /\ answer[p] = {} /\ op'[p] \in {"put", "none"}
  BY <1>1 DEF Put, PutFound, PutUpdate, PutRevive, PutRevalue, PutReadHead, PutReadCurr,
     PutLink, LinkNode, PutCountRevived, PutCountNew, PutSetBucket, Return, Finding, Control, Fits,
     PutSteps
<1>3. opOf(p) = (IF pc[p] \in EffectSteps THEN "put" ELSE "none")
  BY <1>2 DEF opOf, Watching
<1>4. opOf(p)' = (IF op'[p] = "put" /\ pc'[p] \in EffectSteps THEN "put" ELSE "none")
  BY <1>2 DEF opOf, Watching
<1>5. ASSUME LiveKeys' = LiveKeys, pc[p] \in EffectSteps, pc'[p] \in EffectSteps, op' = op,
             key' = key
      PROVE  Abstract(p)
  <2>1. ~Watching(p)'
    BY <1>2, <1>5 DEF Watching
  <2>2. Seen(p)'
    BY <1>1, <2>1, NoneSeen
  <2> QED
    BY <1>1, <1>2, <1>3, <1>4, <1>5, <2>2, StutterIs
<1>6. ASSUME LiveKeys' = LiveKeys, pc[p] \notin EffectSteps, pc'[p] \notin EffectSteps
      PROVE  Abstract(p)
  BY <1>1, <1>2, <1>3, <1>4, <1>6, HiddenIs
<1>7. ASSUME LiveKeys' = LiveKeys \cup {key[p]}, pc[p] \in EffectSteps, pc'[p] \notin EffectSteps
      PROVE  Abstract(p)
  BY <1>1, <1>2, <1>3, <1>4, <1>7, PutEffectIs
<1>8. CASE PutFound(p)
  <2>1. /\ pc[p] = "find" /\ pc'[p] = (IF deleted[curr[p]] THEN "revive" ELSE "update")
        /\ curr[p] \in Linked /\ nkey[curr[p]] = key[p]
        /\ op' = op /\ key' = key /\ LiveKeys' = LiveKeys
    BY <1>1, <1>8, KeysKept DEF PutFound, Finding, Found, LocalOK, SearchOK
  <2>2. ~deleted[curr[p]] => key[p] \in LiveKeys
    BY <1>1, <2>1, KeyLive
  <2> QED
    BY <1>5, <1>7, <2>1, <2>2 DEF EffectSteps, FindSteps
<1>9. CASE PutRevive(p)
  <2>1. pc[p] = "revive" /\ curr[p] \in Linked /\ nkey[curr[p]] = key[p]
    BY <1>1, <1>9 DEF PutRevive, Control
  <2>2. CASE deleted[curr[p]]
    <3>1. pc'[p] = "revalue" /\ deleted' = [deleted EXCEPT ![curr[p]] = FALSE]
          /\ UNCHANGED <<nkey, size>>
      BY <1>1, <1>9, <2>2 DEF PutRevive
    <3>2. LiveKeys' = LiveKeys \cup {key[p]}
      BY <1>1, <2>1, <3>1, FlagCleared
    <3> QED
      BY <1>7, <2>1, <3>1, <3>2 DEF EffectSteps, FindSteps
  <2>3. CASE ~deleted[curr[p]]
    <3>1. pc'[p] = "first" /\ op' = op /\ key' = key /\ LiveKeys' = LiveKeys
      BY <1>1, <1>9, <2>3, KeysKept DEF PutRevive
    <3> QED
      BY <1>5, <2>1, <3>1 DEF EffectSteps, FindSteps
  <2> QED
    BY <2>2, <2>3
<1>10. CASE PutReadHead(p) \/ PutReadCurr(p)
  <2>1. pc[p] = "find" /\ pc'[p] = "link" /\ op' = op /\ key' = key /\ LiveKeys' = LiveKeys
    BY <1>1, <1>10, KeysKept DEF PutReadHead, PutReadCurr, Finding
  <2> QED
    BY <1>5, <2>1 DEF EffectSteps, FindSteps
<1>11. CASE Linking(p)
  <2>1. pc[p] = "link" /\ pc'[p] = "countNew"
    BY <1>1, <1>11 DEF Linking
  <2>2. LiveKeys' = LiveKeys \cup {key[p]}
    BY <1>1, <1>11, NodeLinked
  <2> QED
    BY <1>7, <2>1, <2>2 DEF EffectSteps, FindSteps
<1>12. CASE Goto(p, "link", "first") /\ Quiet
  <2>1. pc[p] = "link" /\ pc'[p] = "first" /\ op' = op /\ key' = key /\ LiveKeys' = LiveKeys
    BY <1>1, <1>12, KeysKept
  <2> QED
    BY <1>5, <2>1 DEF EffectSteps, FindSteps
<1>13. CASE PutUpdate(p) \/ PutRevalue(p) \/ PutCountRevived(p) \/ PutCountNew(p) \/ PutSetBucket(p)
  <2>1. /\ pc[p] \in {"update", "revalue", "countRevived", "countNew", "setBucket"}
        /\ pc'[p] \in {"idle", "countRevived", "setBucket"} /\ LiveKeys' = LiveKeys
    BY <1>1, <1>13, KeysKept DEF PutUpdate, PutRevalue, PutCountRevived, PutCountNew, PutSetBucket,
       Return
  <2> QED
    BY <1>6, <2>1 DEF EffectSteps, FindSteps
<1> QED
  BY <1>8, <1>9, <1>10, <1>11, <1>12, <1>13 DEF Put, PutLink, Linking

LEMMA DeleteIsAbstract ==
    ASSUME RInv, IInv', Record, NEW p \in Procs, Delete(p)
    PROVE  Abstract(p)
<1>1. /\ LocalType /\ SharedType /\ AnswerType /\ Control(p) /\ LocalOK(p) /\ IInv /\ Control(p)'
      /\ Work(p) /\ Seen(p)
  BY TypeParts, PlacesStep DEF RInv, IInv, Places, Work
<1> USE DEF LocalType, Goto, Within, opVars, localVars, sharedVars, nodeVars, Quiet
<1>2. op[p] = "delete" /\ key[p] \in Keys /\ NoKey \notin Keys
  BY <1>1, Constants DEF Delete, DelMiss, DelFound, DelMark, DelUncount, ReturnAnswer, Return,
     Finding, Control, Fits, PutSteps, LocalOK
<1>3. CASE DelUncount(p)
  <2>1. /\ pc[p] = "uncount" /\ pc'[p] = "idle" /\ op'[p] = "none" /\ answer' = answer
        /\ LiveKeys' = LiveKeys
    BY <1>1, <1>3, KeysKept DEF DelUncount, Return
  <2>2. opOf(p) = "none" /\ opOf(p)' = "none"
    BY <1>2, <2>1 DEF opOf, Watching, EffectSteps, FindSteps, ClearSteps
  <2> QED
    BY <1>1, <2>1, <2>2, HiddenIs
<1>4. ASSUME UNCHANGED <<op, key, answer, nkey, size, deleted>>, pc[p] \in {"find", "delMark"},
             pc'[p] \in {"delMark", "first"}
      PROVE  Abstract(p)
  <2>1. LiveKeys' = LiveKeys
    BY <1>4, KeysKept
  <2>2. opOf(p)' = opOf(p)
    BY <1>2, <1>4 DEF opOf, Watching, EffectSteps, FindSteps, ClearSteps
  <2>3. Seen(p)'
    <3>1. Watching(p)'
      BY <1>2, <1>4 DEF Watching, FindSteps
    <3>2. State(About(key[p]))' \subseteq was'[p]
      BY <3>1, RecordShows
    <3> QED
      BY <1>2, <1>4, <3>1, <3>2 DEF Seen, Passed
  <2> QED
    BY <1>1, <1>4, <2>1, <2>2, <2>3, StutterIs
<1>5. ASSUME ReturnAnswer(p, "find", {}), <<key[p], FALSE>> \in was[p]
      PROVE  Abstract(p)
  <2>1. /\ pc[p] = "find" /\ pc'[p] = "idle" /\ op'[p] = "none" /\ answer'[p] = {}
        /\ LiveKeys' = LiveKeys
    BY <1>1, <1>5, KeysKept DEF ReturnAnswer, Return, AnswerType
  <2>2. opOf(p) = "delete" /\ opOf(p)' = "none"
    BY <1>2, <2>1 DEF opOf, Watching, EffectSteps, FindSteps, ClearSteps
  <2>3. RInv' /\ KeySet!Takes(p, "delete", LiveKeys', answer'[p]) /\ AbsKey[p] = key[p]
    BY <1>1, <2>2, EffectIs
  <2>4. KeySet!DeleteNothing(p)
    BY <1>5, <2>1, <2>3 DEF KeySet!DeleteNothing, KeySet!Takes, AbsKey
  <2>5. KeySet!Next
    BY <2>4 DEF KeySet!Next
  <2> QED
    BY <2>3, <2>5 DEF Abstract
<1>6. CASE DelMiss(p)
  <2>1. <<key[p], FALSE>> \in was[p]
    BY <1>1, <1>6 DEF DelMiss, Finding, Seen
  <2> QED
    BY <1>5, <1>6, <2>1 DEF DelMiss
<1>7. CASE DelFound(p)
  <2>1. /\ pc[p] = "find" /\ curr[p] \in Linked /\ nkey[curr[p]] = key[p]
    BY <1>1, <1>7 DEF DelFound, Finding, Found, LocalOK, SearchOK
  <2>2. CASE deleted[curr[p]]
    <3>1. key[p] \notin LiveKeys
      BY <1>1, <2>1, <2>2, KeyLive
    <3>2. State(About(key[p])) \subseteq was[p]
      BY <1>1, <1>2, <2>1 DEF Seen, Watching
    <3>3. <<key[p], FALSE>> \in was[p]
      BY <1>2, <3>1, <3>2, StateSays DEF About
    <3> QED
      BY <1>5, <1>7, <2>2, <3>3 DEF DelFound
  <2>3. CASE ~deleted[curr[p]]
    BY <1>1, <1>4, <1>7, <2>1, <2>3 DEF DelFound
  <2> QED
    BY <2>2, <2>3
<1>8. CASE DelMark(p)
  <2>1. /\ pc[p] = "delMark" /\ curr[p] \in Linked /\ nkey[curr[p]] = key[p]
    BY <1>1, <1>8 DEF DelMark, Control
  <2>2. CASE deleted[curr[p]]
    BY <1>1, <1>4, <1>8, <2>1, <2>2 DEF DelMark
  <2>3. CASE ~deleted[curr[p]]
    <3>1. /\ pc'[p] = "uncount" /\ op' = op /\ deleted' = [deleted EXCEPT ![curr[p]] = TRUE]
          /\ UNCHANGED <<nkey, size>> /\ answer'[p] = {key[p]}
      BY <1>1, <1>8, <2>3 DEF DelMark, AnswerType
    <3>2. LiveKeys' = LiveKeys \ {key[p]} /\ key[p] \in LiveKeys
      BY <1>1, <2>1, <2>3, <3>1, FlagSet, KeyLive
    <3>3. opOf(p) = "delete" /\ opOf(p)' = "none"
      BY <1>2, <2>1, <3>1 DEF opOf, Watching, EffectSteps, FindSteps, ClearSteps
    <3>4. RInv' /\ KeySet!Takes(p, "delete", LiveKeys', answer'[p]) /\ AbsKey[p] = key[p]
      BY <1>1, <3>3, EffectIs
    <3>5. KeySet!Delete(p)
      BY <3>1, <3>2, <3>4 DEF KeySet!Delete, KeySet!Takes, AbsKey
    <3>6. KeySet!Next
      BY <3>5 DEF KeySet!Next
    <3> QED
      BY <3>4, <3>6 DEF Abstract
  <2> QED
    BY <2>2, <2>3
<1> QED
  BY <1>3, <1>6, <1>7, <1>8 DEF Delete

LEMMA GetIsAbstract ==
    ASSUME RInv, IInv', Record, NEW p \in Procs, Get(p)
    PROVE  Abstract(p)
<1>1. LocalType /\ Control(p) /\ Work(p) /\ IInv
  BY TypeParts DEF RInv, IInv, Places, Work
<1>2. /\ pc[p] \in {"bucket", "walk", "value"} /\ pc'[p] \in {"walk", "value", "idle"}
      /\ op'[p] \in {"get", "none"} /\ UNCHANGED <<answer, nkey, size, deleted>>
  BY <1>1 DEF Get, GetStart, GetNext, GetMiss, GetFound, GetValue, ReturnGet, Return, Within, Quiet,
     opVars, sharedVars, Goto, LocalType, Control, Fits, PutSteps
<1>3. LiveKeys' = LiveKeys
  BY <1>2, KeysKept
<1>4. opOf(p) = "none" /\ opOf(p)' = "none"
  BY <1>2 DEF opOf, Watching, EffectSteps, FindSteps, ClearSteps
<1> QED
  BY <1>1, <1>2, <1>3, <1>4, HiddenIs

\* Range and Clear begin before all nodes.
LEMMA NonePassed ==
    ASSUME IInv, NEW p \in Procs, UNCHANGED <<next, nkey, size>>,
           pc'[p] \in {"range", "clear"}, curr'[p] = next[Head], NEW x \in Linked
    PROVE  ~Passed(p, x)'
<1>1. next[Head] # Nil /\ (x = next[Head] \/ Before(next[Head], x))
  BY DEF IInv, Ordered, After
<1> QED
  BY <1>1 DEF Passed, Before

\* One step further they are past what they were past with the node they leave.
LEMMA NextPassed ==
    ASSUME IInv, NEW p \in Procs, UNCHANGED <<next, nkey, size>>, curr[p] \in Linked,
           pc[p] \in {"rangeNext", "clearNext"},
           pc'[p] \in {"range", "clear"}, curr'[p] = next[curr[p]], NEW x \in Linked, Passed(p, x)'
    PROVE  Passed(p, x)
<1>1. SUFFICES ASSUME Before(curr[p], x) PROVE FALSE
  BY DEF Passed
<1>2. next[curr[p]] # Nil /\ (x = next[curr[p]] \/ Before(next[curr[p]], x))
  BY <1>1 DEF IInv, Ordered, After
<1> QED
  BY <1>2 DEF Passed, Before

\* The node they are at is the only one they pass by going on.
LEMMA HerePassed ==
    ASSUME IInv, NEW p \in Procs, UNCHANGED <<nkey, size, curr>>, curr[p] \in Linked,
           pc[p] \in {"range", "clear"}, pc'[p] \in {"rangeNext", "clearNext"},
           NEW x \in Linked, Passed(p, x)'
    PROVE  x = curr[p] \/ Passed(p, x)
BY DEF Passed, Before

LEMMA RangeIsAbstract ==
    ASSUME RInv, IInv', Record, NEW p \in Procs, RangeAll(p)
    PROVE  Abstract(p)
<1>1. /\ LocalType /\ SharedType /\ AnswerType /\ Control(p) /\ IInv /\ Control(p)'
      /\ Work(p) /\ Seen(p) /\ OthersStay(p)
  BY TypeParts, PlacesStep, StepStays DEF RInv, IInv, Places, Work
<1> USE DEF LocalType, Goto, Within, opVars, localVars, sharedVars, nodeVars
<1>2. op[p] = "range" /\ key[p] = NoKey /\ UNCHANGED <<next, nkey, size, deleted>>
      /\ Watching(p) /\ opOf(p) = "range"
  <2>1. op[p] = "range" /\ UNCHANGED <<next, nkey, size, deleted>>
        /\ pc[p] \in {"first", "range", "rangeNext"}
    BY <1>1 DEF RangeAll, RangeFirst, RangeVisit, RangeNext, RangeEnd, ReturnAnswer, Return,
       Control, Fits, PutSteps
  <2> QED
    BY <1>1, <2>1 DEF Control, opOf, Watching, EffectSteps, FindSteps, ClearSteps
<1>3. LiveKeys' = LiveKeys
  BY <1>2, KeysKept
<1>4. \A k \in Keys : <<k, k \in LiveKeys>> \in was[p]
  BY <1>1, <1>2 DEF Seen, State, About
<1>5. ASSUME op' = op, key' = key, pc'[p] \in {"range", "rangeNext"}, Seen(p)'
      PROVE  Abstract(p)
  <2>1. opOf(p)' = "range"
    BY <1>2, <1>5 DEF opOf, Watching, EffectSteps, FindSteps, ClearSteps
  <2> QED
    BY <1>1, <1>2, <1>3, <1>5, <2>1, StutterIs
<1>6. ASSUME op' = op, key' = key, pc'[p] \in {"range", "rangeNext"}
      PROVE  State(About(key[p]))' \subseteq was'[p] /\ was[p] \subseteq was'[p] /\ Watching(p)'
  BY <1>2, <1>6, RecordShows DEF Watching
<1>7. ASSUME NEW a, ReturnAnswer(p, "range", a)
      PROVE  /\ RInv' /\ KeySet!Takes(p, "range", LiveKeys', answer'[p]) /\ answer'[p] = a
  <2>1. pc'[p] = "idle" /\ op'[p] = "none" /\ answer'[p] = a
    BY <1>1, <1>7 DEF ReturnAnswer, Return, AnswerType
  <2>2. opOf(p)' = "none"
    BY <2>1 DEF opOf, Watching, EffectSteps, FindSteps, ClearSteps
  <2> QED
    BY <1>1, <1>2, <2>1, <2>2, EffectIs
<1>8. CASE RangeFirst(p)
  <2>1. /\ pc[p] = "first" /\ pc'[p] = "range" /\ op' = op /\ key' = key /\ answer' = answer
        /\ curr'[p] = next[Head] /\ answer[p] = {}
    BY <1>1, <1>2, <1>8 DEF RangeFirst, Advance, Control
  <2>2. \A x \in Linked : ~Passed(p, x)'
    BY <1>1, <1>2, <2>1, NonePassed
  <2>3. Seen(p)'
    BY <1>2, <1>6, <2>1, <2>2 DEF Seen, Linked
  <2> QED
    BY <1>5, <2>1, <2>3
<1>9. CASE RangeNext(p)
  <2>1. /\ pc[p] = "rangeNext" /\ pc'[p] = "range" /\ op' = op /\ key' = key /\ answer' = answer
        /\ curr'[p] = next[curr[p]] /\ curr[p] \in Linked
    BY <1>1, <1>9 DEF RangeNext, Advance, Control
  <2>2. \A x \in Linked : Passed(p, x)' => Passed(p, x)
    BY <1>1, <1>2, <2>1, NextPassed
  <2>3. Seen(p)'
    BY <1>1, <1>2, <1>6, <2>1, <2>2 DEF Seen, Linked
  <2> QED
    BY <1>5, <2>1, <2>3
<1>10. CASE /\ pc[p] = "range" /\ curr[p] # Nil /\ Goto(p, "range", "rangeNext")
            /\ answer' = [answer EXCEPT ![p] = @ \cup {nkey[x] : x \in {curr[p]} \cap Live}]
            /\ Within /\ UNCHANGED <<sharedVars, localVars>>
  <2>1. /\ pc'[p] = "rangeNext" /\ op' = op /\ key' = key /\ curr' = curr /\ curr[p] \in Linked
        /\ answer'[p] = answer[p] \cup {nkey[x] : x \in {curr[p]} \cap Live}
    BY <1>1, <1>10 DEF Control, AnswerType
  <2>2. \A x \in Linked : Passed(p, x)' => x = curr[p] \/ Passed(p, x)
    BY <1>1, <1>2, <1>10, <2>1, HerePassed
  <2>3. nkey[curr[p]] \in Keys
    BY <1>1, <2>1 DEF IInv, Ordered
  <2>4. CASE deleted[curr[p]]
    <3>1. answer'[p] = answer[p] /\ <<nkey[curr[p]], FALSE>> \in State(About(key[p]))
      <4>1. curr[p] \notin Live /\ nkey[curr[p]] \notin LiveKeys
        BY <1>1, <2>1, <2>4, KeyLive DEF Live
      <4> QED
        BY <1>2, <2>1, <2>3, <4>1, StateSays DEF About
    <3>2. <<nkey[curr[p]], FALSE>> \in was'[p]
      BY <1>1, <1>2, <1>6, <2>1, <3>1 DEF Seen
    <3>3. Seen(p)'
      BY <1>1, <1>2, <1>6, <2>1, <2>2, <3>1, <3>2 DEF Seen, Linked
    <3> QED
      BY <1>5, <2>1, <3>3
  <2>5. CASE ~deleted[curr[p]]
    <3>1. answer'[p] = answer[p] \cup {nkey[curr[p]]}
          /\ <<nkey[curr[p]], TRUE>> \in State(About(key[p]))
      <4>1. curr[p] \in Live /\ nkey[curr[p]] \in LiveKeys
        BY <1>1, <2>1, <2>5, KeyLive DEF Live
      <4> QED
        BY <1>2, <2>1, <2>3, <4>1, StateSays DEF About
    <3>2. <<nkey[curr[p]], TRUE>> \in was'[p]
      BY <1>1, <1>2, <1>6, <2>1, <3>1 DEF Seen
    <3>3. Seen(p)'
      BY <1>1, <1>2, <1>6, <2>1, <2>2, <3>1, <3>2 DEF Seen, Linked
    <3> QED
      BY <1>5, <2>1, <3>3
  <2> QED
    BY <2>4, <2>5
<1>11. CASE ReturnAnswer(p, "range", {})
  <2>1. KeySet!RangeStop(p) /\ RInv'
    BY <1>3, <1>7, <1>11 DEF KeySet!RangeStop, KeySet!Takes
  <2> QED
    BY <2>1 DEF KeySet!Next, Abstract
<1>12. CASE RangeEnd(p)
  <2>1. RInv' /\ KeySet!Takes(p, "range", LiveKeys', answer'[p]) /\ answer'[p] = answer[p]
    BY <1>7, <1>12 DEF RangeEnd
  <2>2. answer[p] \in SUBSET Keys /\ pc[p] = "range" /\ curr[p] = Nil
    BY <1>1, <1>12 DEF AnswerType, RangeEnd
  <2>3. ASSUME NEW k \in Keys PROVE <<k, k \in answer[p]>> \in was[p]
    <3>1. CASE k \in answer[p]
      <4>1. <<k, TRUE>> \in was[p] /\ (k \in answer[p]) = TRUE
        BY <1>1, <1>2, <3>1 DEF Seen
      <4> QED
        BY <4>1
    <3>2. CASE k \notin answer[p]
      <4>1. <<k, FALSE>> \in was[p]
        <5>1. CASE \E x \in Linked : nkey[x] = k
          <6>1. PICK x \in Linked : nkey[x] = k
            BY <5>1
          <6>2. Passed(p, x)
            BY <2>2 DEF Passed
          <6> QED
            BY <1>1, <3>2, <6>1, <6>2 DEF Seen
        <5>2. CASE ~\E x \in Linked : nkey[x] = k
          <6>1. k \notin LiveKeys
            BY <5>2 DEF LiveKeys, Live
          <6>2. State(About(key[p])) \subseteq was[p]
            BY <1>1, <1>2 DEF Seen
          <6> QED
            BY <1>2, <6>1, <6>2, StateSays DEF About
        <5> QED
          BY <5>1, <5>2
      <4>2. (k \in answer[p]) = FALSE
        BY <3>2
      <4> QED
        BY <4>1, <4>2
    <3> QED
      BY <3>1, <3>2
  <2>4. KeySet!Range(p)
    BY <1>3, <2>1, <2>2, <2>3 DEF KeySet!Range, KeySet!Takes
  <2> QED
    BY <2>1, <2>4 DEF KeySet!Next, Abstract
<1> QED
  BY <1>8, <1>9, <1>10, <1>11, <1>12 DEF RangeAll, RangeVisit

LEMMA ClearIsAbstract ==
    ASSUME RInv, IInv', Record, NEW p \in Procs, Clear(p)
    PROVE  Abstract(p)
<1>1. /\ LocalType /\ SharedType /\ AnswerType /\ Control(p) /\ IInv /\ Control(p)'
      /\ Work(p) /\ Seen(p) /\ OthersStay(p)
  BY TypeParts, PlacesStep, StepStays DEF RInv, IInv, Places, Work
<1> USE DEF LocalType, Goto, Within, opVars, localVars, sharedVars, nodeVars
<1>2. /\ op[p] = "clear" /\ key[p] = NoKey /\ answer[p] = {}
      /\ UNCHANGED <<answer, next, nkey, size>>
  <2>1. op[p] = "clear" /\ UNCHANGED <<answer, next, nkey, size>>
    BY <1>1 DEF Clear, ClearFirst, ClearMark, ClearNext, ClearCount, ClearBucket, Control, Fits,
       PutSteps
  <2> QED
    BY <1>1, <2>1 DEF Control
<1>3. ASSUME op' = op, key' = key, pc[p] \in {"first", "clear", "clearNext"},
             pc'[p] \in {"clear", "clearNext"}
      PROVE  /\ Watching(p) /\ opOf(p) = "clear" /\ opOf(p)' = "clear" /\ Watching(p)'
             /\ was'[p] = was[p] \cup State(About(key[p]))'
  <2>1. Watching(p) /\ Watching(p)' /\ opOf(p) = "clear" /\ opOf(p)' = "clear"
    BY <1>2, <1>3 DEF opOf, Watching, EffectSteps, FindSteps, ClearSteps
  <2> QED
    BY <2>1, RecordShows
<1>4. CASE ClearFirst(p)
  <2>1. /\ pc[p] = "first" /\ pc'[p] = "clear" /\ op' = op /\ key' = key
        /\ curr'[p] = next[Head] /\ deleted' = deleted
    BY <1>1, <1>4 DEF ClearFirst, Advance
  <2>2. \A x \in Linked : ~Passed(p, x)'
    BY <1>1, <1>2, <2>1, NonePassed
  <2>3. Seen(p)'
    BY <1>2, <1>3, <2>1, <2>2 DEF Seen, Linked
  <2> QED
    BY <1>1, <1>2, <1>3, <2>1, <2>3, KeysKept, StutterIs
<1>5. CASE ClearNext(p)
  <2>1. /\ pc[p] = "clearNext" /\ pc'[p] = "clear" /\ op' = op /\ key' = key
        /\ curr'[p] = next[curr[p]] /\ curr[p] \in Linked /\ deleted' = deleted
    BY <1>1, <1>5 DEF ClearNext, Advance, Control
  <2>2. \A x \in Linked : Passed(p, x)' => Passed(p, x)
    BY <1>1, <1>2, <2>1, NextPassed
  <2>3. Seen(p)'
    BY <1>1, <1>2, <1>3, <2>1, <2>2 DEF Seen, Linked
  <2> QED
    BY <1>1, <1>2, <1>3, <2>1, <2>3, KeysKept, StutterIs
<1>6. CASE ClearMark(p)
  <2>1. /\ pc[p] = "clear" /\ pc'[p] = "clearNext" /\ op' = op /\ key' = key /\ curr' = curr
        /\ curr[p] \in Linked /\ deleted' = [deleted EXCEPT ![curr[p]] = TRUE]
    BY <1>1, <1>6 DEF ClearMark, Control
  <2>2. LiveKeys' = LiveKeys \ {nkey[curr[p]]}
    BY <1>1, <1>2, <2>1, FlagSet
  <2>3. \A x \in Linked : Passed(p, x)' => x = curr[p] \/ Passed(p, x)
    BY <1>1, <1>2, <2>1, HerePassed
  <2>4. <<nkey[curr[p]], FALSE>> \in was'[p]
    <3>1. nkey[curr[p]] \in Keys /\ nkey[curr[p]] \notin LiveKeys'
      BY <1>1, <2>1, <2>2 DEF IInv, Ordered
    <3>2. (nkey[curr[p]] \in LiveKeys') = FALSE
      BY <3>1
    <3>3. <<nkey[curr[p]], nkey[curr[p]] \in LiveKeys'>> \in State(About(key[p]))'
      BY <1>2, <2>1, <3>1 DEF State, About
    <3> QED
      BY <1>3, <2>1, <3>2, <3>3
  <2>5. Seen(p)'
    BY <1>1, <1>2, <1>3, <2>1, <2>3, <2>4 DEF Seen, Linked
  <2>6. RInv'
    BY <1>1, <2>5, KeepsRInv
  <2>7. was' = KeySet!Shown(LiveKeys')
    <3>1. \A q \in Procs : was'[q] = KeySet!Shown(LiveKeys')[q]
      BY <1>1, <1>3, <2>1, OthersAbstract, WasIsShown
    <3>2. KeySet!Shown(LiveKeys') = [q \in Procs |-> KeySet!Shown(LiveKeys')[q]]
      BY DEF KeySet!Shown
    <3> QED
      BY <3>1, <3>2, RecordShows
  <2>8. AbsOp[p] = "clear" /\ AbsOp' = AbsOp /\ AbsKey' = AbsKey /\ AbsAnswer' = AbsAnswer
    <3>1. \A q \in Procs :
             AbsOp'[q] = AbsOp[q] /\ AbsKey'[q] = AbsKey[q] /\ AbsAnswer'[q] = AbsAnswer[q]
      BY <1>1, <1>2, <1>3, <2>1, OthersAbstract DEF AbsOp, AbsKey, AbsAnswer
    <3> QED
      BY <1>3, <2>1, <3>1 DEF AbsOp, AbsKey, AbsAnswer
  <2>9. KeySet!ClearSome(p)
    BY <2>2, <2>7, <2>8 DEF KeySet!ClearSome, AbsOp, AbsKey, AbsAnswer
  <2> QED
    BY <2>6, <2>9 DEF KeySet!Next, Abstract
<1>7. CASE ClearCount(p)
  <2>1. pc[p] = "clear" /\ pc'[p] = "clearBuckets" /\ op' = op /\ deleted' = deleted
        /\ curr[p] = Nil
    BY <1>1, <1>7 DEF ClearCount
  <2>2. opOf(p) = "clear" /\ opOf(p)' = "none" /\ Watching(p)
    BY <1>2, <2>1 DEF opOf, Watching, EffectSteps, FindSteps, ClearSteps
  <2>3. RInv' /\ KeySet!Takes(p, "clear", LiveKeys', answer'[p])
    BY <1>1, <2>2, EffectIs
  <2>4. ASSUME NEW k \in Keys PROVE <<k, FALSE>> \in was[p]
    <3>1. CASE \E x \in Linked : nkey[x] = k
      <4>1. PICK x \in Linked : nkey[x] = k
        BY <3>1
      <4>2. Passed(p, x)
        BY <2>1 DEF Passed
      <4> QED
        BY <1>1, <1>2, <4>1, <4>2 DEF Seen
    <3>2. CASE ~\E x \in Linked : nkey[x] = k
      <4>1. k \notin LiveKeys
        BY <3>2 DEF LiveKeys, Live
      <4>2. State(About(key[p])) \subseteq was[p]
        BY <1>1, <2>2 DEF Seen
      <4> QED
        BY <1>2, <4>1, <4>2, StateSays DEF About
    <3> QED
      BY <3>1, <3>2
  <2>5. LiveKeys' = LiveKeys
    BY <1>2, <2>1, KeysKept
  <2>6. KeySet!ClearEnd(p)
    BY <1>2, <2>3, <2>4, <2>5 DEF KeySet!ClearEnd, KeySet!Takes
  <2> QED
    BY <2>3, <2>6 DEF KeySet!Next, Abstract
<1>8. CASE ClearBucket(p)
  <2>1. /\ pc[p] = "clearBuckets" /\ pc'[p] \in {"clearBuckets", "idle"} /\ deleted' = deleted
        /\ op'[p] \in {"clear", "none"}
    BY <1>1, <1>2, <1>8 DEF ClearBucket, Return
  <2>2. opOf(p) = "none" /\ opOf(p)' = "none"
    BY <1>2, <2>1 DEF opOf, Watching, EffectSteps, FindSteps, ClearSteps
  <2> QED
    BY <1>1, <1>2, <2>1, <2>2, KeysKept, HiddenIs
<1> QED
  BY <1>4, <1>5, <1>6, <1>7, <1>8 DEF Clear

LEMMA StepIsStep == IInv' /\ RInv /\ [Next]_vars => RInv' /\ [KeySet!Next]_(KeySet!specVars)
<1> SUFFICES ASSUME IInv', RInv, [Next]_vars
             PROVE  RInv' /\ (KeySet!Next \/ UNCHANGED KeySet!specVars)
  OBVIOUS
<1>1. CASE UNCHANGED vars
  <2>1. UNCHANGED <<nkey, size, deleted, bucket, pc, op, key, curr, answer, was>>
    BY <1>1 DEF vars, sharedVars, opVars, localVars, histVars
  <2>2. LiveKeys' = LiveKeys
    BY <2>1, KeysKept
  <2>3. Places'
    BY <2>1 DEF RInv, Places, Fresh, Control, Linked
  <2>4. \A p \in Procs : Seen(p)'
    <3> TAKE p \in Procs
    <3>1. Seen(p)
      BY DEF RInv
    <3>2. State(About(key[p]))' = State(About(key[p])) /\ (Watching(p)' <=> Watching(p))
      BY <2>1, <2>2 DEF State, About, Watching
    <3> QED
      BY <2>1, <3>1, <3>2 DEF Seen, Linked, Passed, Before, Missed
  <2>5. RInv'
    BY <2>1, <2>3, <2>4 DEF RInv
  <2>6. \A p \in Procs : opOf(p)' = opOf(p)
    BY <2>1 DEF opOf, Watching
  <2>7. UNCHANGED KeySet!specVars
    BY <2>1, <2>2, <2>6 DEF KeySet!specVars
  <2> QED
    BY <2>5, <2>7
<1>2. ASSUME NEW p \in Procs, CallOp(p) \/ Work(p), Record PROVE Abstract(p)
  BY <1>2, CallIsAbstract, FindIsAbstract, PutIsAbstract, DeleteIsAbstract, GetIsAbstract,
     RangeIsAbstract, ClearIsAbstract DEF Work
<1> QED
  BY <1>1, <1>2 DEF Next, Abstract

\* The lock-free map (pkg/ds/lockfree/hashmap.go) implements a set of keys whose
\* Puts and Deletes take effect at one moment between call and return, and
\* whose answers were true at such a moment, for any goroutines, keys, hashes
\* and buckets and wherever goroutines stop.
THEOREM LockFreeHashMapIsAKeySet == Spec => ImplementsKeySet
<1>1. Init => RInv /\ KeySet!Init
  <2> SUFFICES ASSUME Init PROVE RInv /\ KeySet!Init
    OBVIOUS
  <2>1. Linked = {} /\ LiveKeys = {}
    BY DEF Init, Linked, LiveKeys, Live
  <2>2. \A p \in Procs : Control(p)
    BY DEF Init, Control, Fits
  <2>3. \A p \in Procs : Seen(p)
    BY <2>1 DEF Init, Seen, Watching, Passed
  <2>4. RInv
    BY <2>2, <2>3, InitInvariant DEF Init, RInv, Places, Fresh
  <2>5. \A p \in Procs : opOf(p) = "none"
    BY DEF Init, opOf, Watching, EffectSteps, FindSteps, ClearSteps
  <2>6. KeySet!Init
    BY <2>1, <2>5 DEF KeySet!Init, Init
  <2> QED
    BY <2>4, <2>6
<1> QED
  BY <1>1, StepIsStep, Invariance, PTL DEF Spec, ImplementsKeySet, KeySet!Spec
-----------------------------------------------------------------------------
(* Get.                                                                    *)

\* What a Get in progress has been shown, and what it knows of the way to its key.
Got(p) ==
    /\ Getting(p) => Bound(key[p]) \cup Arriving(key[p]) \subseteq shown[p]
    /\ Getting(p) /\ Reviving(key[p]) => "stale" \in excused[p]
    /\ pc[p] = "walk" /\ curr[p] # Head /\ "beyond" \notin excused[p] =>
          IF Missed(p) THEN NoValue \in shown[p]
          ELSE \A x \in Linked : nkey[x] = key[p] => x = curr[p] \/ Before(curr[p], x)
    /\ pc[p] = "value" => val[curr[p]] \in shown[p] \/ "stale" \in excused[p]

LEMMA RecordGot ==
    ASSUME Record, NEW p \in Procs, Getting(p)'
    PROVE  /\ shown[p] \subseteq shown'[p]
           /\ (Bound(key[p]) \cup Arriving(key[p]))' \subseteq shown'[p]
           /\ excused[p] \subseteq excused'[p]
           /\ Reviving(key[p])' => "stale" \in excused'[p]
           /\ StartsBeyond(p) => "beyond" \in excused'[p]
<1>1. /\ shown'[p] = shown[p] \cup (Bound(key[p]) \cup Arriving(key[p]))'
      /\ excused'[p] = excused[p] \cup {e \in {"stale"} : Reviving(key[p])'}
                                  \cup {e \in {"beyond"} : StartsBeyond(p)}
  BY DEF Record
<1> QED
  BY <1>1

\* The value of a node is changed only by the one Put that stores its own.
LEMMA ValuesChange ==
    ASSUME IInv, Places, NEW p \in Procs, CallOp(p) \/ Work(p), NEW x \in Linked
    PROVE  \/ val'[x] = val[x]
           \/ pc[p] \in {"update", "revalue"} /\ key[p] = nkey[x] /\ val'[x] = value[p]
<1>1. Control(p) /\ val \in [Nodes -> Values \cup {NoValue}] /\ x \in Nodes /\ LocalType
  BY TypeParts, Numbers DEF Places, IInv, SharedType
<1> USE DEF Quiet, sharedVars, nodeVars, Goto
<1>2. CASE CallOp(p)
  BY <1>2 DEF CallOp, Call
<1>3. CASE Find(p)
  BY <1>3 DEF Find, FindFirst, FindNext
<1>4. CASE Linking(p)
  <2>1. x # size + 1
    BY TypeParts, Numbers DEF IInv
  <2> QED
    BY <1>1, <1>4, <2>1 DEF Linking, LinkNode
<1>5. CASE PutUpdate(p) \/ PutRevalue(p)
  BY <1>1, <1>5 DEF PutUpdate, PutRevalue, Return, Control
<1>6. CASE Put(p) /\ ~PutUpdate(p) /\ ~PutRevalue(p) /\ ~Linking(p)
  BY <1>6 DEF Put, PutFound, PutRevive, PutReadHead, PutReadCurr, PutLink, Linking,
     PutCountRevived, PutCountNew, PutSetBucket
<1>7. CASE Delete(p)
  BY <1>7 DEF Delete, DelMiss, DelFound, DelMark, DelUncount, ReturnAnswer
<1>8. CASE Get(p)
  BY <1>8 DEF Get, GetStart, GetNext, GetMiss, GetFound, GetValue, ReturnGet
<1>9. CASE RangeAll(p)
  BY <1>9 DEF RangeAll, RangeFirst, RangeVisit, RangeNext, RangeEnd, ReturnAnswer
<1>10. CASE Clear(p)
  BY <1>10 DEF Clear, ClearFirst, ClearMark, ClearNext, ClearCount, ClearBucket
<1> QED
  BY <1>2, <1>3, <1>4, <1>5, <1>6, <1>7, <1>8, <1>9, <1>10 DEF Work

LEMMA OthersGet ==
    ASSUME IInv, Places, Places', NEW p \in Procs, CallOp(p) \/ Work(p), Record,
           NEW q \in Procs, q # p, Got(q)
    PROVE  Got(q)'
<1>1. /\ pc'[q] = pc[q] /\ key'[q] = key[q] /\ curr'[q] = curr[q]
  BY StepStays DEF OthersStay
<1>2. Grows /\ Control(q)
  BY ListGrows DEF Places
<1>3. Getting(q)' <=> Getting(q)
  BY <1>1 DEF Getting
<1>4. Getting(q) =>
        /\ shown[q] \subseteq shown'[q]
        /\ (Bound(key[q]) \cup Arriving(key[q]))' \subseteq shown'[q]
        /\ excused[q] \subseteq excused'[q]
        /\ Reviving(key[q])' => "stale" \in excused'[q]
  BY <1>3, RecordGot
<1>5. ASSUME pc[q] = "walk", curr[q] # Head, "beyond" \notin excused'[q]
      PROVE  IF Missed(q)' THEN NoValue \in shown'[q]
             ELSE \A x \in Linked' : nkey'[x] = key[q] => x = curr[q] \/ Before(curr[q], x)'
  <2>1. /\ curr[q] \in Linked \cup {Nil} /\ "beyond" \notin excused[q] /\ Getting(q)
        /\ Hash \in [Keys -> Nat] /\ \A x \in Linked : nkey[x] \in Keys
    BY <1>2, <1>4, <1>5, Constants DEF Control, Getting, IInv, Ordered
  <2>2. Missed(q)' <=> Missed(q)
    BY <1>1, <1>2, <2>1 DEF Missed, Grows
  <2>3. CASE Missed(q)
    BY <1>4, <1>5, <2>1, <2>2, <2>3 DEF Got
  <2>4. ASSUME ~Missed(q), NEW x \in Linked', nkey'[x] = key[q]
        PROVE  x = curr[q] \/ Before(curr[q], x)'
    <3>1. curr[q] \in Linked /\ Hash[nkey[curr[q]]] <= Hash[key[q]]
      <4>1. curr[q] # Nil /\ ~(Hash[nkey[curr[q]]] > Hash[key[q]])
        BY <2>4 DEF Missed
      <4>2. key[q] \in Keys
        BY <1>2, <1>5, Constants DEF Control, Fits, IInv, LocalOK
      <4> QED
        BY <2>1, <4>1, <4>2
    <3>2. CASE x \in Linked
      <4>1. nkey[x] = key[q]
        BY <1>2, <2>4, <3>2 DEF Grows
      <4>2. x = curr[q] \/ Before(curr[q], x)
        BY <1>5, <2>1, <2>4, <3>2, <4>1 DEF Got
      <4> QED
        BY <1>1, <1>2, <3>1, <3>2, <4>2 DEF Grows, Before, BeforeNext
    <3>3. CASE x \notin Linked
      BY <1>1, <1>2, <2>4, <3>1, <3>3 DEF Grows, Before, BeforeNext
    <3> QED
      BY <3>2, <3>3
  <2> QED
    BY <2>2, <2>3, <2>4
<1>6. ASSUME pc[q] = "value" PROVE val'[curr[q]] \in shown'[q] \/ "stale" \in excused'[q]
  <2>1. curr[q] \in Linked /\ nkey[curr[q]] = key[q] /\ Getting(q)
    BY <1>2, <1>6 DEF Control, Getting
  <2>2. CASE val'[curr[q]] = val[curr[q]]
    BY <1>4, <1>6, <2>1, <2>2 DEF Got
  <2>3. CASE pc[p] \in {"update", "revalue"} /\ key[p] = nkey[curr[q]] /\ val'[curr[q]] = value[p]
    <3>1. val'[curr[q]] \in Arriving(key[q])
      BY <2>1, <2>3 DEF Arriving
    <3> QED
      BY <1>4, <2>1, <3>1 DEF Got
  <2> QED
    BY <2>1, <2>2, <2>3, ValuesChange
<1> QED
  BY <1>1, <1>3, <1>4, <1>5, <1>6 DEF Got

\* A live node's value is what its key is bound to.
LEMMA BoundToValue ==
    ASSUME IInv, NEW x \in Linked, ~deleted[x], ~Reviving(nkey[x])
    PROVE  val[x] \in Bound(nkey[x])
<1>1. x \in Live /\ nkey[x] \in LiveKeys
  BY DEF Live, LiveKeys
<1> QED
  BY <1>1 DEF Bound

LEMMA NoneBound ==
    ASSUME NEW k, k \notin LiveKeys
    PROVE  NoValue \in Bound(k)
BY DEF Bound

LEMMA GetGets ==
    ASSUME IInv, Places, IInv', Places', NEW p \in Procs, Get(p), Record, Got(p)
    PROVE  Got(p)' /\ Explained(p)
<1>1. /\ LocalType /\ Control(p) /\ Control(p)' /\ LocalOK(p) /\ Hash \in [Keys -> Nat]
      /\ Ordered /\ Fresh
  BY TypeParts, Constants DEF IInv, Places
<1> USE DEF LocalType, Goto, Within, opVars, localVars, sharedVars, Quiet
<1>2. UNCHANGED <<next, nkey, size, val, deleted>> /\ pc[p] \in {"bucket", "walk", "value"}
  BY <1>1 DEF Get, GetStart, GetNext, GetMiss, GetFound, GetValue, ReturnGet, Return
<1>3. /\ op[p] = "get" /\ key[p] \in Keys /\ Getting(p)
  BY <1>1, <1>2 DEF Control, Fits, PutSteps, LocalOK, Getting
<1>4. LiveKeys' = LiveKeys
  BY <1>2, KeysKept
<1>5. Getting(p)' =>
        /\ shown[p] \subseteq shown'[p] /\ Bound(key[p])' \subseteq shown'[p]
        /\ excused[p] \subseteq excused'[p]
        /\ Reviving(key[p])' => "stale" \in excused'[p]
        /\ StartsBeyond(p) => "beyond" \in excused'[p]
  BY RecordGot
<1>6. Getting(p)' => Arriving(key[p])' \subseteq shown'[p]
  BY RecordGot
<1>7. ASSUME pc'[p] = "walk", key'[p] = key[p], pc[p] # "value",
             \A x \in Linked : nkey[x] = key[p] /\ "beyond" \notin excused'[p] =>
                curr'[p] # Nil /\ (x = curr'[p] \/ Before(curr'[p], x)),
             curr'[p] \in Linked \cup {Nil}
      PROVE  Got(p)' /\ Explained(p)
  <2>1. Getting(p)'
    BY <1>7 DEF Getting
  <2>2. ASSUME Missed(p)', "beyond" \notin excused'[p] PROVE NoValue \in shown'[p]
    <3>1. \A x \in Linked : nkey[x] # key[p]
      <4> SUFFICES ASSUME NEW x \in Linked, nkey[x] = key[p] PROVE FALSE
        OBVIOUS
      <4>1. curr'[p] # Nil /\ (x = curr'[p] \/ Before(curr'[p], x))
        BY <1>7, <2>2
      <4>2. curr'[p] \in Linked /\ Hash[nkey[curr'[p]]] > Hash[nkey[x]]
        BY <1>2, <1>7, <2>2, <4>1 DEF Missed
      <4>3. Hash[nkey[curr'[p]]] \in Nat /\ Hash[nkey[x]] \in Nat
        BY <4>2, OrderIsTotal
      <4> QED
        BY <4>1, <4>2, <4>3 DEF Before
    <3>2. key[p] \notin LiveKeys
      BY <3>1 DEF LiveKeys, Live
    <3>3. NoValue \in Bound(key[p])'
      BY <1>4, <1>7, <3>2 DEF Bound
    <3> QED
      BY <1>5, <2>1, <3>3
  <2> QED
    BY <1>2, <1>5, <1>6, <1>7, <2>1, <2>2 DEF Got, Explained, Linked, Before
<1>8. ASSUME pc'[p] = "idle" PROVE Got(p)'
  BY <1>8 DEF Got, Getting
<1>9. CASE GetStart(p)
  <2> DEFINE b == bucket[getBucket(key[p])]
  <2>1. /\ pc[p] = "bucket" /\ pc'[p] = "walk" /\ key' = key
        /\ curr'[p] = IF b = Nil THEN Head ELSE b
    BY <1>1, <1>9 DEF GetStart, Advance
  <2>2. CASE b = Nil
    <3>1. curr'[p] = Head /\ Getting(p)'
      BY <2>1, <2>2 DEF Getting
    <3> QED
      BY <1>5, <1>6, <2>1, <3>1 DEF Got, Explained
  <2>3. CASE b # Nil
    <3>1. getBucket(key[p]) \in BucketIndexes
      <4>1. Hash[key[p]] \in Nat /\ BucketCount \in Nat \ {0}
        BY <1>3, HashMapAssumption DEF HashMapAssumption
      <4> QED
        BY <4>1 DEF getBucket, BucketIndexes
    <3>2. curr'[p] \in Linked
      BY <1>1, <2>1, <2>3, <3>1 DEF Fresh
    <3>3. ASSUME NEW x \in Linked, nkey[x] = key[p], "beyond" \notin excused'[p]
          PROVE  x = curr'[p] \/ Before(curr'[p], x)
      <4>1. ~StartsBeyond(p)
        BY <1>5, <2>1, <3>3 DEF Getting
      <4>2. nkey[curr'[p]] = key[p] \/ ~(Hash[nkey[curr'[p]]] >= Hash[key[p]])
        BY <2>1, <3>2, <4>1 DEF StartsBeyond
      <4>3. Hash[nkey[curr'[p]]] \in Nat /\ Hash[nkey[x]] \in Nat
        BY <3>2, OrderIsTotal
      <4> QED
        BY <1>1, <3>2, <3>3, <4>2, <4>3 DEF Before, Ordered
    <3>4. curr'[p] # Nil
      BY <3>2, TypeParts, Numbers DEF IInv
    <3> QED
      BY <1>7, <2>1, <3>2, <3>3, <3>4
  <2> QED
    BY <2>2, <2>3
<1>10. CASE GetNext(p)
  <2>1. /\ pc[p] = "walk" /\ pc'[p] = "walk" /\ key' = key /\ curr'[p] = next[curr[p]]
        /\ curr[p] \in {Head} \cup Linked /\ (curr[p] # Head => ~Found(p) /\ ~Missed(p))
    BY <1>1, <1>10 DEF GetNext, Advance, Control, Missed
  <2>2. curr'[p] \in Linked \cup {Nil}
    BY <1>1, <2>1 DEF Ordered
  <2>3. ASSUME NEW x \in Linked, nkey[x] = key[p], "beyond" \notin excused'[p]
        PROVE  curr'[p] # Nil /\ (x = curr'[p] \/ Before(curr'[p], x))
    <3>1. After(curr[p], x)
      <4>1. CASE curr[p] = Head
        BY <4>1 DEF After
      <4>2. CASE curr[p] # Head
        <5>1. "beyond" \notin excused[p]
          BY <1>5, <2>1, <2>3 DEF Getting
        <5>2. nkey[curr[p]] # key[p]
          BY <2>1, <4>2 DEF Found, Missed
        <5> QED
          BY <2>1, <2>3, <4>2, <5>1, <5>2 DEF Got, After
      <4> QED
        BY <4>1, <4>2
    <3> QED
      BY <1>1, <2>1, <3>1 DEF Ordered
  <2> QED
    BY <1>7, <2>1, <2>2, <2>3
<1>11. CASE GetMiss(p)
  <2>1. pc[p] = "walk" /\ pc'[p] = "idle" /\ curr[p] # Head /\ Missed(p)
    BY <1>1, <1>11 DEF GetMiss, ReturnGet, Return
  <2> QED
    BY <1>8, <2>1 DEF Got, Explained
<1>12. CASE GetFound(p)
  <2>1. pc[p] = "walk" /\ curr[p] \in Linked /\ nkey[curr[p]] = key[p]
    BY <1>1, <1>12 DEF GetFound, Found, Control
  <2>2. CASE deleted[curr[p]]
    <3>1. pc'[p] = "idle"
      BY <1>1, <1>12, <2>2 DEF GetFound, ReturnGet, Return
    <3>2. NoValue \in shown[p]
      BY <1>3, <2>1, <2>2, KeyLive, NoneBound DEF Got
    <3> QED
      BY <1>8, <2>1, <3>1, <3>2 DEF Explained
  <2>3. CASE ~deleted[curr[p]]
    <3>1. pc'[p] = "value" /\ key' = key /\ curr' = curr
      BY <1>1, <1>12, <2>3 DEF GetFound
    <3>2. Getting(p)'
      BY <3>1 DEF Getting
    <3>3. val[curr[p]] \in shown[p] \/ "stale" \in excused[p]
      BY <1>3, <2>1, <2>3, BoundToValue DEF Got
    <3> QED
      BY <1>2, <1>5, <1>6, <2>1, <3>1, <3>2, <3>3 DEF Got, Explained
  <2> QED
    BY <2>2, <2>3
<1>13. CASE GetValue(p)
  <2>1. pc[p] = "value" /\ pc'[p] = "idle"
    BY <1>1, <1>13 DEF GetValue, ReturnGet, Return
  <2> QED
    BY <1>8, <2>1 DEF Got, Explained
<1> QED
  BY <1>9, <1>10, <1>11, <1>12, <1>13 DEF Get

\* A step of another operation, or a call, is neither in a Get's walk nor leads there.
LEMMA NotGet ==
    ASSUME IInv, Places, NEW p \in Procs, CallOp(p) \/ Work(p), ~Get(p)
    PROVE  pc[p] \notin {"walk", "value"} /\ pc'[p] \notin {"walk", "value"}
<1>1. LocalType /\ Control(p)
  BY TypeParts DEF IInv, Places
<1> USE <1>1 DEF Goto, LocalType
<1>2. CASE CallOp(p)
  BY <1>2 DEF CallOp, Call
<1>3. CASE Find(p)
  BY <1>3 DEF Find, FindFirst, FindNext
<1>4. CASE Put(p)
  BY <1>4 DEF Put, PutFound, PutUpdate, PutRevive, PutRevalue, PutReadHead, PutReadCurr, PutLink,
     PutCountRevived, PutCountNew, PutSetBucket, Return
<1>5. CASE Delete(p)
  BY <1>5 DEF Delete, DelMiss, DelFound, DelMark, DelUncount, ReturnAnswer, Return
<1>6. CASE RangeAll(p)
  BY <1>6 DEF RangeAll, RangeFirst, RangeVisit, RangeNext, RangeEnd, ReturnAnswer, Return
<1>7. CASE Clear(p)
  BY <1>7 DEF Clear, ClearFirst, ClearMark, ClearNext, ClearCount, ClearBucket, Return
<1> QED
  BY <1>2, <1>3, <1>4, <1>5, <1>6, <1>7 DEF Work

LEMMA GotStep ==
    ASSUME IInv, Places, IInv', Places', NEW p \in Procs, CallOp(p) \/ Work(p), Record,
           \A q \in Procs : Got(q)
    PROVE  \A q \in Procs : Got(q)' /\ Explained(q)
<1>1. ASSUME NEW q \in Procs, q # p PROVE Got(q)' /\ Explained(q)
  <2>1. pc'[q] = pc[q]
    BY <1>1, StepStays DEF OthersStay
  <2> QED
    BY <1>1, <2>1, OthersGet DEF Explained
<1>2. CASE Get(p)
  BY <1>1, <1>2, GetGets
<1>3. CASE (CallOp(p) \/ Work(p)) /\ ~Get(p)
  <2>1. pc[p] \notin {"walk", "value"} /\ pc'[p] \notin {"walk", "value"}
    BY <1>3, NotGet
  <2>2. Got(p)'
    BY <2>1, RecordGot DEF Got
  <2> QED
    BY <1>1, <2>1, <2>2 DEF Explained
<1> QED
  BY <1>2, <1>3

AllGot == \A p \in Procs : Got(p)

LEMMA GotInvariance == Spec => []AllGot
<1>1. Init => AllGot
  BY DEF Init, AllGot, Got, Getting
<1>2. ASSUME IInv, Places, IInv', Places', AllGot, [Next]_vars PROVE AllGot'
  <2>1. CASE UNCHANGED vars
    <3> SUFFICES ASSUME NEW p \in Procs PROVE Got(p)'
      BY DEF AllGot
    <3>1. Got(p)
      BY <1>2 DEF AllGot
    <3> QED
      BY <2>1, <3>1 DEF vars, sharedVars, opVars, localVars, histVars, Got, Getting, Bound,
         Arriving,
         Reviving, LiveKeys, Live, Linked, Missed, Before
  <2>2. CASE Next
    BY <1>2, <2>2, GotStep DEF Next, AllGot
  <2> QED
    BY <1>2, <2>1, <2>2
<1> QED
  BY <1>1, <1>2, Invariance, PlacesInvariance, PTL DEF Spec

\* GetExplained: what a Get answers was the value of its key, or its absence
\* true, at a moment of the call, or it has one of the two excuses: it began
\* beyond its key, which it then may miss, or a Put is bringing the key back.
THEOREM GetIsExplained == Spec => GetExplained
<1> DEFINE Answers == \A p \in Procs : Explained(p)
<1>1. ASSUME IInv, Places, IInv', Places', AllGot, [Next]_vars PROVE [Answers]_vars
  BY <1>1, GotStep DEF Next, AllGot
<1> HIDE DEF Answers
<1>2. Spec => [][Answers]_vars
  BY <1>1, GotInvariance, Invariance, PlacesInvariance, PTL DEF Spec
<1> QED
  BY <1>2 DEF GetExplained, Answers
-----------------------------------------------------------------------------
(* Len.                                                                    *)

\* A Clear that no Put, Delete or Clear overlaps has set the flags it is past,
\* and the counter when it resets the buckets.
Alone(p) == ~mixed /\ op[p] = "clear" =>
    /\ \A q \in Procs \ {p} : op[q] \notin {"put", "delete", "clear"}
    /\ \A x \in Linked : Passed(p, x) \/ pc[p] = "clearBuckets" => deleted[x]
    /\ pc[p] = "clearBuckets" => count = 0

CountInv == CountExact /\ \A p \in Procs : Alone(p)

\* Within an operation it stays the same one, and only calls mix operations.
LEMMA WorkStays ==
    ASSUME IInv, NEW p \in Procs, Work(p)
    PROVE  mixed' = mixed /\ op'[p] \in {op[p], "none"}
<1>1. LocalType
  BY TypeParts DEF IInv
<1> USE <1>1 DEF LocalType, Within, Quiet, Return, opVars
<1>2. CASE Find(p)
  BY <1>2 DEF Find, FindFirst, FindNext
<1>3. CASE Put(p)
  BY <1>3 DEF Put, PutFound, PutUpdate, PutRevive, PutRevalue, PutReadHead, PutReadCurr, PutLink,
     LinkNode, PutCountRevived, PutCountNew, PutSetBucket
<1>4. CASE Delete(p)
  BY <1>4 DEF Delete, DelMiss, DelFound, DelMark, DelUncount, ReturnAnswer
<1>5. CASE Get(p)
  BY <1>5 DEF Get, GetStart, GetNext, GetMiss, GetFound, GetValue, ReturnGet
<1>6. CASE RangeAll(p)
  BY <1>6 DEF RangeAll, RangeFirst, RangeVisit, RangeNext, RangeEnd, ReturnAnswer
<1>7. CASE Clear(p)
  BY <1>7 DEF Clear, ClearFirst, ClearMark, ClearNext, ClearCount, ClearBucket
<1> QED
  BY <1>2, <1>3, <1>4, <1>5, <1>6, <1>7 DEF Work

\* Calls, Gets and Ranges change no node and count nothing.
LEMMA ReadersChangeNothing ==
    ASSUME IInv, Places, NEW p \in Procs, CallOp(p) \/ Work(p),
           CallOp(p) \/ op[p] \notin {"put", "delete", "clear"}
    PROVE  /\ UNCHANGED <<nkey, size, deleted, count>>
           /\ p \notin Uncounted \cup Overcounted /\ p \notin (Uncounted \cup Overcounted)'
<1>1. LocalType /\ Control(p)
  BY TypeParts DEF IInv, Places
<1> USE <1>1 DEF LocalType, Goto, Uncounted, Overcounted, sharedVars, Quiet, Control, Fits
<1>2. CASE CallOp(p)
  BY <1>2 DEF CallOp, Call
<1>3. CASE Get(p)
  BY <1>3 DEF Get, GetStart, GetNext, GetMiss, GetFound, GetValue, ReturnGet, Return
<1>4. CASE RangeAll(p)
  BY <1>4 DEF RangeAll, RangeFirst, RangeVisit, RangeNext, RangeEnd, ReturnAnswer, Return
<1>5. CASE (Find(p) \/ Put(p) \/ Delete(p) \/ Clear(p)) /\ ~CallOp(p)
  BY <1>5 DEF Find, Put, PutFound, PutUpdate, PutRevive, PutRevalue, PutReadHead, PutReadCurr,
     PutLink, PutCountRevived, PutCountNew, PutSetBucket, Return, Finding, PutSteps, Delete,
     DelMiss, DelFound, DelMark, DelUncount, ReturnAnswer, Clear, ClearFirst, ClearMark,
     ClearNext, ClearCount, ClearBucket
<1> QED
  BY <1>2, <1>3, <1>4, <1>5 DEF Work

LEMMA CallMixes ==
    ASSUME IInv, NEW p \in Procs, CallOp(p), ~mixed'
    PROVE  /\ ~mixed /\ pc[p] = "idle" /\ pc'[p] \in {"first", "bucket"}
           /\ op'[p] = "clear" => \A q \in Procs : op[q] \notin {"put", "delete", "clear"}
           /\ op'[p] \in {"put", "delete"} => \A q \in Procs : op[q] # "clear"
<1>1. LocalType
  BY TypeParts DEF IInv
<1>2. PICK o, k, v, first : Call(p, o, k, v, first) /\ first \in {"first", "bucket"}
  BY DEF CallOp
<1>3. /\ op'[p] = o /\ pc'[p] = first /\ pc[p] = "idle"
  BY <1>1, <1>2 DEF Call, Goto, LocalType
<1>4. mixed' = (mixed \/ \E q \in Procs :
                   \/ o = "clear" /\ op[q] \in {"put", "delete", "clear"}
                   \/ o \in {"put", "delete"} /\ op[q] = "clear")
  BY <1>2 DEF Call
<1> QED
  BY <1>2, <1>3, <1>4

LEMMA ClearAlone ==
    ASSUME IInv, Places, NEW p \in Procs, Clear(p), Alone(p), ~mixed, op[p] = "clear",
           op'[p] = "clear"
    PROVE  /\ \A x \in Linked' : Passed(p, x)' \/ pc'[p] = "clearBuckets" => deleted'[x]
           /\ pc'[p] = "clearBuckets" => count' = 0
<1>1. /\ LocalType /\ Control(p) /\ deleted \in [Nodes -> BOOLEAN] /\ Linked \subseteq Nodes
      /\ Ordered
  BY TypeParts, Numbers DEF IInv, Places, SharedType
<1> USE <1>1 DEF LocalType, Goto, Advance, sharedVars, nodeVars, localVars
<1>2. UNCHANGED <<next, nkey, size>> /\ Linked' = Linked
  BY DEF Clear, ClearFirst, ClearMark, ClearNext, ClearCount, ClearBucket, Linked
<1>3. CASE ClearFirst(p)
  <2>1. pc'[p] = "clear" /\ curr'[p] = next[Head]
    BY <1>3 DEF ClearFirst
  <2> QED
    BY <1>2, <2>1, NonePassed
<1>4. CASE ClearMark(p)
  <2>1. /\ pc[p] = "clear" /\ pc'[p] = "clearNext" /\ curr' = curr /\ curr[p] \in Linked
        /\ deleted' = [deleted EXCEPT ![curr[p]] = TRUE]
    BY <1>4 DEF ClearMark, Control
  <2> QED
    BY <1>2, <2>1, HerePassed DEF Alone
<1>5. CASE ClearNext(p)
  <2>1. /\ pc[p] = "clearNext" /\ pc'[p] = "clear" /\ curr'[p] = next[curr[p]] /\ curr[p] \in Linked
        /\ deleted' = deleted
    BY <1>5 DEF ClearNext, Control
  <2> QED
    BY <1>2, <2>1, NextPassed DEF Alone
<1>6. CASE ClearCount(p)
  BY <1>2, <1>6 DEF ClearCount, Alone, Passed
<1>7. CASE ClearBucket(p)
  <2>1. pc[p] = "clearBuckets" /\ UNCHANGED <<deleted, count>>
    BY <1>7 DEF ClearBucket
  <2> QED
    BY <1>2, <2>1 DEF Alone
<1> QED
  BY <1>3, <1>4, <1>5, <1>6, <1>7 DEF Clear

\* An operation is worked on by its own steps.
LEMMA WhoClears ==
    ASSUME IInv, Places, NEW p \in Procs, Work(p), op[p] = "clear"
    PROVE  Clear(p)
<1>1. Control(p)
  BY DEF Places
<1> QED
  BY <1>1 DEF Work, Find, Put, PutFound, PutUpdate, PutRevive, PutRevalue, PutReadHead,
     PutReadCurr, PutLink, PutCountRevived, PutCountNew, PutSetBucket, Return, Finding, PutSteps,
     Delete, DelMiss, DelFound, DelMark, DelUncount, ReturnAnswer, Get, GetStart, GetNext,
     GetMiss, GetFound, GetValue, ReturnGet, RangeAll, RangeFirst, RangeVisit, RangeNext, RangeEnd,
     Goto, Control, Fits

LEMMA AloneStep ==
    ASSUME IInv, Places, NEW p \in Procs, CallOp(p) \/ Work(p), \A q \in Procs : Alone(q),
           NEW q \in Procs
    PROVE  Alone(q)'
<1>1. OthersStay(p)
  BY StepStays
<1>2. SUFFICES ASSUME ~mixed', op'[q] = "clear"
               PROVE  /\ \A r \in Procs \ {q} : op'[r] \notin {"put", "delete", "clear"}
                      /\ \A x \in Linked' :
                            Passed(q, x)' \/ pc'[q] = "clearBuckets" => deleted'[x]
                      /\ pc'[q] = "clearBuckets" => count' = 0
  BY DEF Alone
<1>3. ~mixed
  BY <1>2, CallMixes, WorkStays
<1>4. CASE q # p
  <2>1. op[q] = "clear" /\ pc'[q] = pc[q] /\ curr'[q] = curr[q]
    BY <1>1, <1>2, <1>4 DEF OthersStay
  <2>2. op[p] \notin {"put", "delete", "clear"} /\ op'[p] \notin {"put", "delete", "clear"}
    BY <1>2, <1>3, <1>4, <2>1, CallMixes, WorkStays DEF Alone
  <2>3. UNCHANGED <<nkey, size, deleted, count>>
    BY <2>2, ReadersChangeNothing
  <2>4. \A r \in Procs \ {q} : op'[r] \notin {"put", "delete", "clear"}
    BY <1>1, <1>3, <2>1, <2>2 DEF OthersStay, Alone
  <2> QED
    BY <1>3, <2>1, <2>3, <2>4 DEF Alone, Linked, Passed, Before
<1>5. CASE q = p /\ CallOp(p)
  BY <1>1, <1>2, <1>5, CallMixes DEF Passed, OthersStay
<1>6. CASE q = p /\ Work(p)
  <2>1. op[p] = "clear"
    BY <1>2, <1>6, WorkStays
  <2>2. Clear(p)
    BY <1>6, <2>1, WhoClears
  <2>3. \A r \in Procs \ {p} : op'[r] \notin {"put", "delete", "clear"}
    BY <1>1, <1>3, <2>1 DEF OthersStay, Alone
  <2> QED
    BY <1>2, <1>3, <1>6, <2>1, <2>2, <2>3, ClearAlone
<1> QED
  BY <1>4, <1>5, <1>6
-----------------------------------------------------------------------------
\* A finite set that an element may join or leave.
LEMMA OneChanges ==
    ASSUME NEW A, IsFiniteSet(A), NEW B, NEW e, \A x : x # e => (x \in A <=> x \in B)
    PROVE  /\ Cardinality(A) \in Nat /\ Cardinality(B) \in Nat
           /\ (e \in A <=> e \in B) => Cardinality(B) = Cardinality(A)
           /\ e \in B /\ e \notin A => Cardinality(B) = Cardinality(A) + 1
           /\ e \in A /\ e \notin B => Cardinality(B) = Cardinality(A) - 1
<1>1. CASE e \in A <=> e \in B
  <2>1. A = B
    BY <1>1
  <2> QED
    BY <2>1, FS_CardinalityType
<1>2. CASE e \in B /\ e \notin A
  <2>1. B = A \cup {e}
    BY <1>2
  <2> QED
    BY <1>2, <2>1, FS_AddElement, FS_CardinalityType
<1>3. CASE e \in A /\ e \notin B
  <2>1. B = A \ {e}
    BY <1>3
  <2> QED
    BY <1>3, <2>1, FS_RemoveElement, FS_CardinalityType
<1> QED
  BY <1>1, <1>2, <1>3

LEMMA Finite ==
    ASSUME IInv
    PROVE  IsFiniteSet(Live) /\ IsFiniteSet(Uncounted) /\ IsFiniteSet(Overcounted)
<1>1. IsFiniteSet(Linked)
  <2>1. size \in Int
    BY TypeParts, Constants DEF IInv, SharedType
  <2> QED
    BY <2>1, FS_Interval DEF Linked
<1>2. Live \subseteq Linked /\ Uncounted \subseteq Procs /\ Overcounted \subseteq Procs
  BY DEF Live, Uncounted, Overcounted
<1>3. IsFiniteSet(Procs)
  BY HashMapAssumption DEF HashMapAssumption
<1> QED
  BY <1>1, <1>2, <1>3, FS_Subset

\* What a step adds to the operations that have not counted yet.
Tally(A, p) == IF p \in A THEN 1 ELSE 0

LEMMA Tallies ==
    ASSUME IInv, NEW p \in Procs, OthersStay(p)
    PROVE  /\ Cardinality(Uncounted) \in Nat /\ Cardinality(Overcounted) \in Nat
           /\ Cardinality(Uncounted)' =
                 Cardinality(Uncounted) + Tally(Uncounted', p) - Tally(Uncounted, p)
           /\ Cardinality(Overcounted)' =
                 Cardinality(Overcounted) + Tally(Overcounted', p) - Tally(Overcounted, p)
<1>1. \A x : x # p => /\ x \in Uncounted <=> x \in Uncounted'
                      /\ x \in Overcounted <=> x \in Overcounted'
  BY DEF OthersStay, Uncounted, Overcounted
<1>2. IsFiniteSet(Uncounted) /\ IsFiniteSet(Overcounted)
  BY Finite
<1>3. /\ Cardinality(Uncounted) \in Nat
      /\ Cardinality(Uncounted') =
            Cardinality(Uncounted) + Tally(Uncounted', p) - Tally(Uncounted, p)
  BY <1>1, <1>2, OneChanges DEF Tally
<1>4. /\ Cardinality(Overcounted) \in Nat
      /\ Cardinality(Overcounted') =
            Cardinality(Overcounted) + Tally(Overcounted', p) - Tally(Overcounted, p)
  BY <1>1, <1>2, OneChanges DEF Tally
<1> QED
  BY <1>3, <1>4

\* A step changes the counter as it changes the nodes that are live and the
\* operations that have not counted yet.
Balanced(p) ==
    count' - count + Tally(Uncounted', p) - Tally(Uncounted, p)
        = Cardinality(Live)' - Cardinality(Live) + Tally(Overcounted', p) - Tally(Overcounted, p)

LEMMA SameIsBalanced ==
    ASSUME IInv, NEW p \in Procs, UNCHANGED <<nkey, size, deleted, count>>,
           p \in Uncounted <=> p \in Uncounted', p \in Overcounted <=> p \in Overcounted'
    PROVE  Balanced(p)
<1>1. count \in Int
  BY TypeParts DEF IInv, SharedType
<1>2. Live' = Live /\ Cardinality(Live) \in Nat
  BY Finite, FS_CardinalityType DEF Live, Linked
<1>3. Cardinality(Live)' = Cardinality(Live)
  BY <1>2
<1> QED
  BY <1>1, <1>2, <1>3 DEF Balanced, Tally

LEMMA PutBalances ==
    ASSUME IInv, Places, NEW p \in Procs, Put(p)
    PROVE  Balanced(p)
<1>1. /\ LocalType /\ SharedType /\ Control(p) /\ Fresh /\ count \in Int
      /\ Linked \subseteq Nodes /\ (size < MaxNodes => size + 1 \in Nodes /\ size + 1 \notin Linked)
  BY TypeParts, Numbers DEF IInv, Places, SharedType
<1> USE <1>1 DEF LocalType, SharedType, Goto, Quiet, sharedVars, nodeVars
<1>2. CASE PutFound(p) \/ PutUpdate(p) \/ PutReadHead(p) \/ PutReadCurr(p) \/ PutSetBucket(p)
  <2>1. /\ UNCHANGED <<nkey, size, deleted, count>>
        /\ pc[p] \in {"find", "update", "setBucket"}
        /\ pc'[p] \in {"revive", "update", "idle", "link"}
    BY <1>2 DEF PutFound, PutUpdate, PutReadHead, PutReadCurr, PutSetBucket, Return
  <2> QED
    BY <2>1, SameIsBalanced DEF Uncounted, Overcounted
<1>3. CASE PutRevalue(p) \/ ((PutRevive(p) \/ PutLink(p)) /\ pc'[p] = "first")
  <2>1. /\ UNCHANGED <<nkey, size, deleted, count>>
        /\ \/ pc[p] = "revalue" /\ pc'[p] = "countRevived"
           \/ pc[p] \in {"revive", "link"} /\ pc'[p] = "first"
    BY <1>3 DEF PutRevalue, PutRevive, PutLink, LinkNode
  <2> QED
    BY <2>1, SameIsBalanced DEF Uncounted, Overcounted
<1>4. CASE PutRevive(p) /\ pc'[p] # "first"
  <2>1. /\ pc[p] = "revive" /\ pc'[p] = "revalue" /\ UNCHANGED <<nkey, size, count>>
        /\ curr[p] \in Linked /\ deleted[curr[p]]
        /\ deleted' = [deleted EXCEPT ![curr[p]] = FALSE]
    BY <1>4 DEF PutRevive, Control
  <2>2. curr[p] \in Live' /\ curr[p] \notin Live
        /\ \A x : x # curr[p] => (x \in Live <=> x \in Live')
    BY <2>1 DEF Live, Linked
  <2>3. Cardinality(Live)' = Cardinality(Live) + 1 /\ Cardinality(Live) \in Nat
    BY <2>2, OneChanges, Finite
  <2> QED
    BY <2>1, <2>3 DEF Balanced, Tally, Uncounted, Overcounted
<1>5. CASE PutLink(p) /\ pc'[p] # "first"
  <2>1. /\ pc[p] = "link" /\ pc'[p] = "countNew" /\ UNCHANGED <<deleted, count>>
        /\ size' = size + 1 /\ size < MaxNodes
    BY <1>5 DEF PutLink, LinkNode
  <2>2. Linked' = Linked \cup {size + 1} /\ ~deleted[size + 1]
    BY <2>1, Constants DEF Linked, Fresh
  <2>3. size + 1 \in Live' /\ size + 1 \notin Live
        /\ \A x : x # size + 1 => (x \in Live <=> x \in Live')
    BY <2>1, <2>2 DEF Live
  <2>4. Cardinality(Live)' = Cardinality(Live) + 1 /\ Cardinality(Live) \in Nat
    BY <2>3, OneChanges, Finite
  <2> QED
    BY <2>1, <2>4 DEF Balanced, Tally, Uncounted, Overcounted
<1>6. CASE PutCountRevived(p) \/ PutCountNew(p)
  <2>1. /\ pc[p] \in {"countRevived", "countNew"} /\ pc'[p] \in {"idle", "setBucket"}
        /\ UNCHANGED <<nkey, size, deleted>> /\ count' = count + 1
    BY <1>6 DEF PutCountRevived, PutCountNew, Return
  <2>2. Live' = Live /\ Cardinality(Live) \in Nat
    BY <2>1, Finite, FS_CardinalityType DEF Live, Linked
  <2>3. Cardinality(Live)' = Cardinality(Live)
    BY <2>2
  <2> QED
    BY <2>1, <2>2, <2>3 DEF Balanced, Tally, Uncounted, Overcounted
<1> QED
  BY <1>2, <1>3, <1>4, <1>5, <1>6 DEF Put

LEMMA DeleteBalances ==
    ASSUME IInv, Places, NEW p \in Procs, Delete(p)
    PROVE  Balanced(p)
<1>1. /\ LocalType /\ SharedType /\ Control(p) /\ count \in Int /\ Linked \subseteq Nodes
  BY TypeParts, Numbers DEF IInv, Places, SharedType
<1> USE <1>1 DEF LocalType, SharedType, Goto, Quiet, sharedVars, nodeVars
<1>2. CASE DelMiss(p) \/ DelFound(p) \/ (DelMark(p) /\ pc'[p] = "first")
  <2>1. /\ UNCHANGED <<nkey, size, deleted, count>>
        /\ pc[p] \in {"find", "delMark"} /\ pc'[p] \in {"idle", "delMark", "first"}
    BY <1>2 DEF DelMiss, DelFound, DelMark, ReturnAnswer, Return
  <2> QED
    BY <2>1, SameIsBalanced DEF Uncounted, Overcounted
<1>3. CASE DelMark(p) /\ pc'[p] # "first"
  <2>1. /\ pc[p] = "delMark" /\ pc'[p] = "uncount" /\ UNCHANGED <<nkey, size, count>>
        /\ curr[p] \in Linked /\ ~deleted[curr[p]]
        /\ deleted' = [deleted EXCEPT ![curr[p]] = TRUE]
    BY <1>3 DEF DelMark, Control
  <2>2. curr[p] \notin Live' /\ curr[p] \in Live
        /\ \A x : x # curr[p] => (x \in Live <=> x \in Live')
    BY <2>1 DEF Live, Linked
  <2>3. Cardinality(Live)' = Cardinality(Live) - 1 /\ Cardinality(Live) \in Nat
    BY <2>2, OneChanges, Finite
  <2> QED
    BY <2>1, <2>3 DEF Balanced, Tally, Uncounted, Overcounted
<1>4. CASE DelUncount(p)
  <2>1. /\ pc[p] = "uncount" /\ pc'[p] = "idle"
        /\ UNCHANGED <<nkey, size, deleted>> /\ count' = count - 1
    BY <1>4 DEF DelUncount, Return
  <2>2. Live' = Live /\ Cardinality(Live) \in Nat
    BY <2>1, Finite, FS_CardinalityType DEF Live, Linked
  <2>3. Cardinality(Live)' = Cardinality(Live)
    BY <2>2
  <2> QED
    BY <2>1, <2>2, <2>3 DEF Balanced, Tally, Uncounted, Overcounted
<1> QED
  BY <1>2, <1>3, <1>4 DEF Delete

LEMMA StepBalances ==
    ASSUME IInv, Places, NEW p \in Procs, CallOp(p) \/ Work(p), op[p] # "clear"
    PROVE  Balanced(p)
<1>1. CASE CallOp(p) \/ op[p] \notin {"put", "delete"}
  BY <1>1, ReadersChangeNothing, SameIsBalanced
<1>2. CASE Find(p)
  <2>1. /\ UNCHANGED <<nkey, size, deleted, count>>
        /\ pc[p] \in {"first", "find"} /\ pc'[p] = "find"
    BY <1>2, TypeParts DEF Find, FindFirst, FindNext, Goto, sharedVars, IInv, LocalType
  <2> QED
    BY <2>1, SameIsBalanced DEF Uncounted, Overcounted
<1>3. CASE Put(p)
  BY <1>3, PutBalances
<1>4. CASE Delete(p)
  BY <1>4, DeleteBalances
<1>5. CASE (Get(p) \/ RangeAll(p) \/ Clear(p)) /\ op[p] \in {"put", "delete"}
  <2>1. Control(p)
    BY DEF Places
  <2> QED
    BY <1>5, <2>1 DEF Get, GetStart, GetNext, GetMiss, GetFound, GetValue, ReturnGet, Return,
       RangeAll, RangeFirst, RangeVisit, RangeNext, RangeEnd, ReturnAnswer,
       Clear, ClearFirst, ClearMark, ClearNext, ClearCount, ClearBucket, Goto, Control, Fits,
       PutSteps
<1> QED
  BY <1>1, <1>2, <1>3, <1>4, <1>5 DEF Work

LEMMA CountStep ==
    ASSUME IInv, Places, IInv', NEW p \in Procs, CallOp(p) \/ Work(p), CountInv
    PROVE  CountExact'
<1>1. OthersStay(p) /\ LocalType /\ Control(p)
  BY StepStays, TypeParts DEF IInv, Places
<1>2. SUFFICES ASSUME ~mixed', \A q \in Procs : op'[q] # "clear"
               PROVE  count' + Cardinality(Uncounted)'
                      = Cardinality(Live)' + Cardinality(Overcounted)'
  BY DEF CountExact
<1>3. ~mixed
  BY <1>2, CallMixes, WorkStays
<1>4. CASE op[p] = "clear"
  <2>1. Clear(p)
    BY <1>1, <1>4, WhoClears DEF CallOp, Call, Goto, Control, Fits
  <2>2. pc[p] = "clearBuckets" /\ pc'[p] = "idle" /\ UNCHANGED <<nkey, size, deleted, count>>
    BY <1>1, <1>2, <1>4, <2>1 DEF Clear, ClearFirst, ClearMark, ClearNext, ClearCount, ClearBucket,
       Within, opVars, Return, Goto, LocalType, nodeVars
  <2>3. count = 0 /\ \A x \in Linked : deleted[x]
    BY <1>3, <1>4, <2>2 DEF CountInv, Alone
  <2>4. \A q \in Procs : q \notin Uncounted' \cup Overcounted'
    <3>1. ASSUME NEW q \in Procs, q # p PROVE q \notin Uncounted' \cup Overcounted'
      <4>1. op[q] \notin {"put", "delete"} /\ Control(q) /\ pc'[q] = pc[q]
        BY <1>1, <1>3, <1>4, <3>1 DEF CountInv, Alone, Places, OthersStay
      <4> QED
        BY <4>1 DEF Control, Fits, PutSteps, Uncounted, Overcounted
    <3> QED
      BY <2>2, <3>1 DEF Uncounted, Overcounted
  <2>5. Uncounted' = {} /\ Overcounted' = {} /\ Live' = {}
    BY <2>2, <2>3, <2>4 DEF Uncounted, Overcounted, Live, Linked
  <2> QED
    BY <2>2, <2>3, <2>5, FS_EmptySet
<1>5. CASE op[p] # "clear"
  <2>1. \A q \in Procs : op[q] # "clear"
    BY <1>1, <1>2, <1>5 DEF OthersStay
  <2>2. count + Cardinality(Uncounted) = Cardinality(Live) + Cardinality(Overcounted)
    BY <1>3, <2>1 DEF CountInv, CountExact
  <2>3. count \in Int /\ count' \in Int /\ Cardinality(Live) \in Nat /\ Cardinality(Live)' \in Nat
    <3>1. count \in Int /\ count' \in Int /\ size' \in Int
      BY TypeParts, Constants DEF IInv, TypeOK, SharedType
    <3>2. IsFiniteSet(Linked') /\ Live' \subseteq Linked'
      BY <3>1, FS_Interval DEF Linked, Live
    <3>3. IsFiniteSet(Live) /\ IsFiniteSet(Live')
      BY <3>2, Finite, FS_Subset
    <3>4. Cardinality(Live) \in Nat /\ Cardinality(Live') \in Nat
      BY <3>3, FS_CardinalityType
    <3> QED
      BY <3>1, <3>4
  <2> QED
    BY <1>1, <1>5, <2>2, <2>3, StepBalances, Tallies DEF Balanced, Tally
<1> QED
  BY <1>4, <1>5

\* CountExact: wherever goroutines stop, the counter is right but for those that have
\* not counted yet, as long as no Clear has overlapped an operation that counts.
THEOREM CountStaysExact == Spec => []CountExact
<1>1. Init => CountInv
  <2> SUFFICES ASSUME Init PROVE CountInv
    OBVIOUS
  <2>1. Uncounted = {} /\ Overcounted = {} /\ Live = {}
    BY DEF Init, Uncounted, Overcounted, Live, Linked
  <2> QED
    BY <2>1, FS_EmptySet DEF Init, CountInv, CountExact, Alone
<1>2. IInv /\ Places /\ IInv' /\ CountInv /\ [Next]_vars => CountInv'
  <2> SUFFICES ASSUME IInv, Places, IInv', CountInv, [Next]_vars PROVE CountInv'
    OBVIOUS
  <2>1. CASE UNCHANGED vars
    <3>1. UNCHANGED <<mixed, op, pc, curr, nkey, size, deleted, count>>
      BY <2>1 DEF vars, sharedVars, opVars, localVars
    <3>2. Uncounted' = Uncounted /\ Overcounted' = Overcounted /\ Live' = Live
      BY <3>1 DEF Uncounted, Overcounted, Live, Linked
    <3>3. CountExact'
      BY <3>1, <3>2 DEF CountInv, CountExact
    <3>4. \A p \in Procs : Alone(p)'
      BY <3>1 DEF CountInv, Alone, Linked, Passed, Before
    <3> QED
      BY <3>3, <3>4 DEF CountInv
  <2>2. ASSUME NEW p \in Procs, CallOp(p) \/ Work(p) PROVE CountInv'
    <3>1. \A q \in Procs : Alone(q)'
      BY <2>2, AloneStep DEF CountInv
    <3> QED
      BY <2>2, <3>1, CountStep DEF CountInv
  <2> QED
    BY <2>1, <2>2 DEF Next
<1>3. CountInv => CountExact
  BY DEF CountInv
<1> QED
  BY <1>1, <1>2, <1>3, Invariance, PlacesInvariance, PTL DEF Spec
=============================================================================
