---------------------------- MODULE MempoolProofs ----------------------------
(***************************************************************************)
(* Proofs about the pool: for any transactions, limits and times what the  *)
(* map holds is in the heap, GetPending answers with as many live entries  *)
(* as it should, the highest in order as long as priorities stay what they *)
(* are, and an Add throws out nothing but what is lowest.                  *)
(*                                                                         *)
(* They rest on what container/heap does to an array of any length, and so *)
(* on induction, stated for sets of numbers (Induction).                   *)
(***************************************************************************)
EXTENDS Mempool, TLAPS, FiniteSetTheorems, SequenceTheorems

-----------------------------------------------------------------------------
(* Induction on natural numbers.                                           *)

\* A set with 0 and the successor of each of its numbers has all of them.
LEMMA Induction ==
    ASSUME NEW S, 0 \in S, \A m \in Nat : m \in S => m + 1 \in S
    PROVE  Nat \subseteq S
<1> SUFFICES ASSUME NEW n \in Nat, n \notin S PROVE FALSE
  OBVIOUS
<1> DEFINE T == {i \in 0 .. n : i \notin S}
           f == [i \in T |-> i - 1]
<1>1. \A i \in T : i > 0 /\ i - 1 \in T
  <2> SUFFICES ASSUME NEW i \in T PROVE i > 0 /\ i - 1 \in T
    OBVIOUS
  <2>1. i # 0
    OBVIOUS
  <2>2. i - 1 \in Nat /\ (i - 1) + 1 = i
    BY <2>1
  <2> QED
    BY <2>1, <2>2
<1>2. f \in Injection(T, T)
  BY <1>1 DEF Injection, IsInjective
<1>3. IsFiniteSet(T)
  <2>1. IsFiniteSet(0 .. n)
    BY FS_Interval
  <2> QED
    BY <2>1, FS_Subset, T \in SUBSET (0 .. n)
<1>4. n \in T /\ \A i \in T : f[i] # n
  OBVIOUS
<1> HIDE DEF T, f
<1>5. f \in Surjection(T, T)
  BY <1>2, <1>3, FS_Injection
<1> QED
  BY <1>4, <1>5 DEF Surjection

\* A set of numbers that is not empty has a least one.
LEMMA LeastExists ==
    ASSUME NEW S \in SUBSET Nat, S # {}
    PROVE  \E x \in S : \A y \in S : x <= y
<1> SUFFICES ASSUME \A x \in S : \E y \in S : y < x PROVE FALSE
  OBVIOUS
<1> DEFINE L == {m \in Nat : \A x \in S : x > m}
<1>1. 0 \in L
  OBVIOUS
<1>2. \A m \in Nat : m \in L => m + 1 \in L
  <2> SUFFICES ASSUME NEW m \in L, NEW x \in S PROVE x > m + 1
    OBVIOUS
  <2>1. PICK y \in S : y < x
    OBVIOUS
  <2> QED
    BY <2>1
<1> HIDE DEF L
<1>3. Nat \subseteq L
  BY <1>1, <1>2, Induction
<1>4. PICK x \in S : TRUE
  OBVIOUS
<1>5. x \in L
  BY <1>3
<1> QED
  BY <1>5 DEF L

LEMMA MinFacts ==
    ASSUME NEW S \in SUBSET Nat, S # {}
    PROVE  Min(S) \in S /\ \A y \in S : Min(S) <= y
BY LeastExists DEF Min

-----------------------------------------------------------------------------
(* The paths of elements that sink or rise: a step leads on where go says  *)
(* so, and always to a smaller height.                                     *)

IsPaths(f, D, go, step) == f = [k \in D |-> IF go[k] THEN {k} \cup f[step[k]] ELSE {k}]

Descends(D, go, step, height) ==
    /\ go \in [D -> BOOLEAN] /\ height \in [D -> Nat]
    /\ \A k \in D : go[k] => step[k] \in D /\ height[step[k]] < height[k]

LEMMA PathsExist ==
    ASSUME NEW D, NEW go, NEW step, NEW height, Descends(D, go, step, height),
           NEW n \in Nat, \A k \in D : height[k] < n
    PROVE  \E f : IsPaths(f, D, go, step)
<1> DEFINE Low(m) == {k \in D : height[k] < m}
           Paths(m, f) == f = [k \in Low(m) |-> IF go[k] THEN {k} \cup f[step[k]] ELSE {k}]
           S == {m \in Nat : \E f : Paths(m, f)}
<1>1. 0 \in S
  <2>1. Low(0) = {}
    BY DEF Descends
  <2>2. Paths(0, [k \in {} |-> {}])
    BY <2>1
  <2> QED
    BY <2>2
<1>2. ASSUME NEW m \in Nat, m \in S PROVE m + 1 \in S
  <2>1. PICK f : Paths(m, f)
    BY <1>2
  <2> DEFINE g == [k \in Low(m + 1) |->
                      IF k \in Low(m) THEN f[k]
                      ELSE IF go[k] THEN {k} \cup f[step[k]] ELSE {k}]
  <2>2. \A k \in Low(m + 1) : go[k] => step[k] \in Low(m)
    BY DEF Descends
  <2>3. Low(m) \subseteq Low(m + 1)
    BY DEF Descends
  <2>4. \A k \in Low(m + 1) : g[k] = IF go[k] THEN {k} \cup f[step[k]] ELSE {k}
    BY <2>1
  <2>5. \A k \in Low(m) : g[k] = f[k]
    BY <2>3
  <2>6. \A k \in Low(m + 1) : g[k] = IF go[k] THEN {k} \cup g[step[k]] ELSE {k}
    BY <2>2, <2>4, <2>5
  <2>7. Paths(m + 1, g)
    <3> HIDE DEF Low
    <3>1. DOMAIN g = Low(m + 1) /\ g = [k \in DOMAIN g |-> g[k]]
      OBVIOUS
    <3> HIDE DEF g
    <3>2. [k \in Low(m + 1) |-> g[k]]
             = [k \in Low(m + 1) |-> IF go[k] THEN {k} \cup g[step[k]] ELSE {k}]
      BY <2>6
    <3> QED
      BY <3>1, <3>2
  <2> HIDE DEF g, Paths
  <2> QED
    BY <2>7
<1> HIDE DEF S
<1>3. Nat \subseteq S
  BY <1>1, <1>2, Induction
<1>4. n \in S
  BY <1>3
<1>5. Low(n) = D
  OBVIOUS
<1> QED
  BY <1>4, <1>5 DEF S, IsPaths

\* What is on the path from k: the steps from one to the next, and no end but one.
IsPath(P, k, D, go, step, height) ==
    /\ k \in P /\ P \subseteq D
    /\ \A x \in P : height[x] <= height[k]
    /\ \A x \in P : go[x] => step[x] \in P
    /\ \A x \in P : ~go[x] => \A y \in P \ {x} : height[x] < height[y]
    /\ \A x \in P \ {k} : \E c \in P : go[c] /\ step[c] = x

LEMMA PathsArePaths ==
    ASSUME NEW D, NEW go, NEW step, NEW height, Descends(D, go, step, height),
           NEW f, IsPaths(f, D, go, step)
    PROVE  \A k \in D : IsPath(f[k], k, D, go, step, height)
<1> DEFINE S == {m \in Nat : \A k \in D : height[k] < m => IsPath(f[k], k, D, go, step, height)}
<1>1. 0 \in S
  BY DEF Descends
<1>2. ASSUME NEW m \in Nat, m \in S PROVE m + 1 \in S
  <2> SUFFICES ASSUME NEW k \in D, height[k] < m + 1
               PROVE  IsPath(f[k], k, D, go, step, height)
    OBVIOUS
  <2>1. CASE ~go[k]
    <3>1. f[k] = {k}
      BY <2>1 DEF IsPaths
    <3> QED
      BY <2>1, <3>1 DEF IsPath, Descends
  <2>2. CASE go[k]
    <3> DEFINE P == f[step[k]]
    <3>1. f[k] = {k} \cup P
      BY <2>2 DEF IsPaths
    <3>2. step[k] \in D /\ height[step[k]] < height[k] /\ height[step[k]] < m
      BY <2>2 DEF Descends
    <3>3. IsPath(P, step[k], D, go, step, height)
      BY <1>2, <3>2
    <3>4. \A x \in P : height[x] < height[k]
      BY <3>2, <3>3 DEF IsPath, Descends
    <3> HIDE DEF P
    <3> QED
      BY <2>2, <3>1, <3>2, <3>3, <3>4 DEF IsPath, Descends
  <2> QED
    BY <2>1, <2>2
<1> HIDE DEF S
<1>3. Nat \subseteq S
  BY <1>1, <1>2, Induction
<1> QED
  <2> TAKE k \in D
  <2>1. height[k] + 1 \in Nat /\ height[k] < height[k] + 1
    BY DEF Descends
  <2> QED
    BY <1>3, <2>1 DEF S
-----------------------------------------------------------------------------
(* Sinking and rising.                                                     *)

SinkGo(rank, h, i, n) ==
    [k \in 1 .. n |-> 2 * k <= n /\ rank[h[Preferred(rank, h, k, n)]] > rank[h[i]]]
SinkStep(rank, h, n) == [k \in 1 .. n |-> Preferred(rank, h, k, n)]

LEMMA SinksUnfold ==
    ASSUME NEW rank, NEW h, NEW i, NEW n \in Nat
    PROVE  /\ IsPaths(Sinks(rank, h, i, n), 1 .. n, SinkGo(rank, h, i, n), SinkStep(rank, h, n))
           /\ Descends(1 .. n, SinkGo(rank, h, i, n), SinkStep(rank, h, n), [k \in 1 .. n |-> n - k])
<1> DEFINE go == SinkGo(rank, h, i, n)
           step == SinkStep(rank, h, n)
           height == [k \in 1 .. n |-> n - k]
<1>1. Descends(1 .. n, go, step, height)
  <2>1. go \in [1 .. n -> BOOLEAN]
    BY Zenon DEF SinkGo
  <2>2. height \in [1 .. n -> Nat]
    OBVIOUS
  <2>3. \A k \in 1 .. n : go[k] => 2 * k <= n /\ step[k] \in {2 * k, 2 * k + 1}
                                   /\ (step[k] = 2 * k + 1 => 2 * k < n)
    <3>1. \A k \in 1 .. n : (go[k] => 2 * k <= n) /\ step[k] = Preferred(rank, h, k, n)
      BY Zenon DEF SinkGo, SinkStep
    <3>2. \A k \in 1 .. n : \/ Preferred(rank, h, k, n) = 2 * k
                            \/ Preferred(rank, h, k, n) = 2 * k + 1 /\ 2 * k < n
      BY Zenon DEF Preferred
    <3> HIDE DEF go, step
    <3> QED
      BY <3>1, <3>2
  <2>4. \A k \in 1 .. n : go[k] => step[k] \in 1 .. n /\ height[step[k]] < height[k]
    <3> HIDE DEF go, step
    <3> QED
      BY <2>3
  <2> QED
    BY <2>1, <2>2, <2>4, Zenon DEF Descends
<1>2. PICK f : IsPaths(f, 1 .. n, go, step)
  <2>1. \A k \in 1 .. n : height[k] < n
    OBVIOUS
  <2> HIDE DEF go, step, height
  <2> QED
    BY <1>1, <2>1, PathsExist
<1> DEFINE U(g) == g = [k \in 1 .. n |->
                IF 2 * k <= n /\ rank[h[Preferred(rank, h, k, n)]] > rank[h[i]]
                THEN {k} \cup g[Preferred(rank, h, k, n)] ELSE {k}]
<1>3. \A g : IsPaths(g, 1 .. n, go, step) <=> U(g)
  <2> TAKE g
  <2>1. \A k \in 1 .. n : (IF go[k] THEN {k} \cup g[step[k]] ELSE {k})
          = IF 2 * k <= n /\ rank[h[Preferred(rank, h, k, n)]] > rank[h[i]]
            THEN {k} \cup g[Preferred(rank, h, k, n)] ELSE {k}
    BY DEF SinkGo, SinkStep
  <2> HIDE DEF go, step
  <2>2. [k \in 1 .. n |-> IF go[k] THEN {k} \cup g[step[k]] ELSE {k}]
          = [k \in 1 .. n |-> IF 2 * k <= n /\ rank[h[Preferred(rank, h, k, n)]] > rank[h[i]]
                THEN {k} \cup g[Preferred(rank, h, k, n)] ELSE {k}]
    BY <2>1
  <2> QED
    BY <2>2 DEF IsPaths
<1>4. U(Sinks(rank, h, i, n))
  <2>1. U(f)
    BY <1>2, <1>3
  <2>2. Sinks(rank, h, i, n) = CHOOSE g : U(g)
    BY Zenon DEF Sinks
  <2> HIDE DEF U
  <2> QED
    BY <2>1, <2>2, Zenon
<1> QED
  BY <1>1, <1>3, <1>4

RiseGo(rank, h, j) == [k \in 1 .. j |-> k > 1 /\ rank[h[j]] > rank[h[k \div 2]]]
RiseStep(j) == [k \in 1 .. j |-> k \div 2]

LEMMA RisesUnfold ==
    ASSUME NEW rank, NEW h, NEW j \in Nat
    PROVE  /\ IsPaths(Rises(rank, h, j), 1 .. j, RiseGo(rank, h, j), RiseStep(j))
           /\ Descends(1 .. j, RiseGo(rank, h, j), RiseStep(j), [k \in 1 .. j |-> k])
<1> DEFINE go == RiseGo(rank, h, j)
           step == RiseStep(j)
           height == [k \in 1 .. j |-> k]
<1>1. Descends(1 .. j, go, step, height)
  <2>1. \A k \in 1 .. j : k > 1 => k \div 2 \in 1 .. j /\ k \div 2 < k
    OBVIOUS
  <2>2. go \in [1 .. j -> BOOLEAN]
    BY Zenon DEF RiseGo
  <2>3. height \in [1 .. j -> Nat]
    OBVIOUS
  <2>4. \A k \in 1 .. j : go[k] => step[k] \in 1 .. j /\ height[step[k]] < height[k]
    BY <2>1 DEF RiseGo, RiseStep
  <2> QED
    BY <2>2, <2>3, <2>4, Zenon DEF Descends
<1>2. PICK f : IsPaths(f, 1 .. j, go, step)
  <2>1. j + 1 \in Nat /\ \A k \in 1 .. j : height[k] < j + 1
    OBVIOUS
  <2> HIDE DEF go, step, height
  <2> QED
    BY <1>1, <2>1, PathsExist
<1> DEFINE U(g) == g = [k \in 1 .. j |->
                IF k > 1 /\ rank[h[j]] > rank[h[k \div 2]]
                THEN {k} \cup g[k \div 2] ELSE {k}]
<1>3. \A g : IsPaths(g, 1 .. j, go, step) <=> U(g)
  <2> TAKE g
  <2>1. \A k \in 1 .. j : (IF go[k] THEN {k} \cup g[step[k]] ELSE {k})
          = IF k > 1 /\ rank[h[j]] > rank[h[k \div 2]] THEN {k} \cup g[k \div 2] ELSE {k}
    BY DEF RiseGo, RiseStep
  <2> HIDE DEF go, step
  <2>2. [k \in 1 .. j |-> IF go[k] THEN {k} \cup g[step[k]] ELSE {k}]
          = [k \in 1 .. j |-> IF k > 1 /\ rank[h[j]] > rank[h[k \div 2]]
                THEN {k} \cup g[k \div 2] ELSE {k}]
    BY <2>1
  <2> QED
    BY <2>2 DEF IsPaths
<1>4. U(Rises(rank, h, j))
  <2>1. U(f)
    BY <1>2, <1>3
  <2>2. Rises(rank, h, j) = CHOOSE g : U(g)
    BY Zenon DEF Rises
  <2> HIDE DEF U
  <2> QED
    BY <2>1, <2>2, Zenon
<1> QED
  BY <1>1, <1>3, <1>4

\* A path ends, at its least height.
LEMMA PathsEnd ==
    ASSUME NEW D, NEW go, NEW step, NEW height, Descends(D, go, step, height),
           NEW P, NEW k \in D, IsPath(P, k, D, go, step, height)
    PROVE  \E e \in P : /\ ~go[e] /\ \A x \in P \ {e} : height[e] < height[x]
                        /\ \A x \in P \ {e} : go[x]
<1>1. {height[x] : x \in P} \in SUBSET Nat /\ {height[x] : x \in P} # {}
  BY DEF IsPath, Descends
<1>2. PICK e \in P : \A x \in P : height[e] <= height[x]
  <2> DEFINE S == {height[x] : x \in P}
  <2>1. S \in SUBSET Nat /\ S # {}
    BY <1>1
  <2> HIDE DEF S
  <2>2. PICK y \in S : \A z \in S : y <= z
    BY <2>1, LeastExists
  <2> QED
    BY <2>2 DEF S
<1>3. ~go[e]
  BY <1>2 DEF IsPath, Descends
<1>4. \A x \in P \ {e} : height[e] < height[x]
  BY <1>3 DEF IsPath
<1>5. \A x \in P \ {e} : go[x]
  <2> SUFFICES ASSUME NEW x \in P \ {e}, ~go[x] PROVE FALSE
    OBVIOUS
  <2>1. height[x] < height[e] /\ height[e] < height[x]
    BY <1>4 DEF IsPath
  <2> QED
    BY <2>1, <1>2 DEF IsPath, Descends
<1> QED
  BY <1>3, <1>4, <1>5

\* How an element sinks from i to end along P.
Sank(rank, h, i, n, P, end) ==
    /\ i \in P /\ end \in P /\ P \subseteq i .. n
    /\ \A x \in P : x <= end
    /\ \A x \in P \ {end} :
          2 * x <= n /\ Preferred(rank, h, x, n) \in P
          /\ rank[h[Preferred(rank, h, x, n)]] > rank[h[i]]
    /\ ~(2 * end <= n /\ rank[h[Preferred(rank, h, end, n)]] > rank[h[i]])
    /\ \A x \in P \ {i} : \E c \in P \ {end} : Preferred(rank, h, c, n) = x

\* The slice when it has.
After(rank, h, i, n, P, end) ==
    [k \in DOMAIN h |-> IF k = end THEN h[i]
                        ELSE IF k \in P THEN h[Preferred(rank, h, k, n)] ELSE h[k]]

LEMMA DownSinks ==
    ASSUME NEW rank, NEW h, NEW n \in Nat, NEW i \in 1 .. n
    PROVE  \E P, end :
              /\ Sank(rank, h, i, n, P, end)
              /\ HeapDown(rank, h, i, n) = After(rank, h, i, n, P, end)
<1> DEFINE go == SinkGo(rank, h, i, n)
           step == SinkStep(rank, h, n)
           height == [k \in 1 .. n |-> n - k]
           P == Sinks(rank, h, i, n)[i]
<1>1. Descends(1 .. n, go, step, height) /\ IsPath(P, i, 1 .. n, go, step, height)
  BY SinksUnfold, PathsArePaths
<1>2. PICK end \in P : /\ ~go[end] /\ \A x \in P \ {end} : height[end] < height[x]
                       /\ \A x \in P \ {end} : go[x]
  BY <1>1, PathsEnd
<1>3. P \subseteq i .. n /\ i \in P
  <2>1. i \in P /\ P \subseteq 1 .. n /\ \A x \in P : height[x] <= height[i]
    BY <1>1 DEF IsPath
  <2>2. \A x \in 1 .. n : height[x] <= height[i] => x >= i
    OBVIOUS
  <2> HIDE DEF P, height
  <2> QED
    BY <2>1, <2>2
<1>4. \A x \in P : x <= end
  <2>1. \A x \in 1 .. n : height[x] = n - x
    OBVIOUS
  <2> HIDE DEF P, go, step, height
  <2>2. SUFFICES ASSUME NEW x \in P \ {end} PROVE x <= end
    BY <1>3
  <2>3. x \in 1 .. n /\ end \in 1 .. n /\ height[end] < height[x]
    BY <1>2, <1>3
  <2> QED
    BY <2>1, <2>3
<1>5. \A k \in 1 .. n :
        /\ go[k] = (2 * k <= n /\ rank[h[Preferred(rank, h, k, n)]] > rank[h[i]])
        /\ step[k] = Preferred(rank, h, k, n)
  BY DEF SinkGo, SinkStep
<1>6. Max(P) = end
  <2>1. \A x \in P : (\A y \in P : x >= y) <=> x = end
    <3> HIDE DEF P
    <3> QED
      BY <1>2, <1>3, <1>4
  <2> HIDE DEF P
  <2> QED
    BY <2>1, <1>2, Zenon DEF Max
<1>7. Sank(rank, h, i, n, P, end)
  <2> HIDE DEF P, go, step, height
  <2>1. \A x \in P \ {end} : go[x] /\ step[x] \in P
    BY <1>1, <1>2 DEF IsPath
  <2>2. \A x \in P \ {i} : \E c \in P \ {end} : step[c] = x
    BY <1>1, <1>2 DEF IsPath
  <2>3. \A x \in P : x \in 1 .. n
    BY <1>3
  <2>4. \A x \in P \ {end} :
          2 * x <= n /\ Preferred(rank, h, x, n) \in P
          /\ rank[h[Preferred(rank, h, x, n)]] > rank[h[i]]
    BY <2>1, <2>3, <1>5, Zenon
  <2>5. ~(2 * end <= n /\ rank[h[Preferred(rank, h, end, n)]] > rank[h[i]])
    BY <1>2, <1>5, <2>3, Zenon
  <2>6. \A x \in P \ {i} : \E c \in P \ {end} : Preferred(rank, h, c, n) = x
    BY <2>2, <2>3, <1>5, Zenon
  <2> QED
    BY <1>2, <1>3, <1>4, <2>4, <2>5, <2>6, Zenon DEF Sank
<1>8. HeapDown(rank, h, i, n) = After(rank, h, i, n, P, end)
  BY <1>6, Zenon DEF HeapDown, After
<1> QED
  BY <1>7, <1>8, Zenon

\* How an element rises from j to end along P.
Rose(rank, h, j, P, end) ==
    /\ j \in P /\ end \in P /\ P \subseteq 1 .. j
    /\ \A x \in P : x >= end
    /\ \A x \in P \ {end} : x > 1 /\ x \div 2 \in P
    /\ \A x \in P \ {j} : \E c \in P \ {end} : c \div 2 = x

\* The slice when it has.
Above(h, j, P, end) ==
    [k \in DOMAIN h |-> IF k = end THEN h[j]
                        ELSE IF k \in P THEN h[k \div 2] ELSE h[k]]

LEMMA UpRises ==
    ASSUME NEW rank, NEW h, NEW j \in Nat \ {0}
    PROVE  \E P, end :
              /\ Rose(rank, h, j, P, end)
              /\ HeapUp(rank, h, j) = Above(h, j, P, end)
<1> DEFINE go == RiseGo(rank, h, j)
           step == RiseStep(j)
           height == [k \in 1 .. j |-> k]
           P == Rises(rank, h, j)[j]
<1>1. Descends(1 .. j, go, step, height) /\ IsPath(P, j, 1 .. j, go, step, height)
  BY RisesUnfold, PathsArePaths
<1>2. PICK end \in P : /\ ~go[end] /\ \A x \in P \ {end} : height[end] < height[x]
                       /\ \A x \in P \ {end} : go[x]
  BY <1>1, PathsEnd
<1>3. P \subseteq 1 .. j /\ j \in P
  BY <1>1 DEF IsPath
<1>4. \A x \in P : x >= end
  <2>1. \A x \in 1 .. j : height[x] = x
    OBVIOUS
  <2> HIDE DEF P, go, step, height
  <2>2. SUFFICES ASSUME NEW x \in P \ {end} PROVE x >= end
    BY <1>3
  <2>3. x \in 1 .. j /\ end \in 1 .. j /\ height[end] < height[x]
    BY <1>2, <1>3
  <2> QED
    BY <2>1, <2>3
<1>5. \A k \in 1 .. j : (go[k] => k > 1) /\ step[k] = k \div 2
  BY DEF RiseGo, RiseStep
<1>6. Min(P) = end
  <2>1. \A x \in P : (\A y \in P : x =< y) <=> x = end
    <3> HIDE DEF P
    <3> QED
      BY <1>2, <1>3, <1>4
  <2> HIDE DEF P
  <2> QED
    BY <2>1, <1>2, Zenon DEF Min
<1>7. Rose(rank, h, j, P, end)
  <2> HIDE DEF P, go, step, height
  <2>1. \A x \in P \ {end} : go[x] /\ step[x] \in P
    BY <1>1, <1>2 DEF IsPath
  <2>2. \A x \in P \ {j} : \E c \in P \ {end} : step[c] = x
    BY <1>1, <1>2 DEF IsPath
  <2> QED
    BY <1>2, <1>3, <1>4, <1>5, <2>1, <2>2 DEF Rose
<1>8. HeapUp(rank, h, j) = Above(h, j, P, end)
  BY <1>6, Zenon DEF HeapUp, Above
<1> QED
  BY <1>7, <1>8, Zenon

-----------------------------------------------------------------------------
(* What the operations of the heap keep.                                   *)

LEMMA PreferredChild ==
    ASSUME NEW rank, NEW h, NEW n \in Nat, NEW k \in Nat \ {0}, 2 * k <= n
    PROVE  /\ Preferred(rank, h, k, n) \in k + 1 .. n
           /\ Preferred(rank, h, k, n) \div 2 = k
<1>1. \/ Preferred(rank, h, k, n) = 2 * k
      \/ Preferred(rank, h, k, n) = 2 * k + 1 /\ 2 * k < n
  BY Zenon DEF Preferred
<1>2. (2 * k) \div 2 = k /\ (2 * k + 1) \div 2 = k
  OBVIOUS
<1> QED
  BY <1>1, <1>2

\* r has the elements of h, and differs from it among the first m at most.
Shuffled(h, r, m) ==
    /\ Len(r) = Len(h)
    /\ \A k \in 1 .. m : (\E x \in 1 .. m : r[x] = h[k]) /\ (\E x \in 1 .. m : h[x] = r[k])
    /\ \A k \in DOMAIN h : k > m => r[k] = h[k]

LEMMA DownShuffles ==
    ASSUME NEW rank, NEW T, NEW h \in Seq(T), NEW n \in 1 .. Len(h), NEW i \in 1 .. n
    PROVE  HeapDown(rank, h, i, n) \in Seq(T) /\ Shuffled(h, HeapDown(rank, h, i, n), n)
<1> DEFINE r == HeapDown(rank, h, i, n)
<1>1. PICK P, end :
         /\ Sank(rank, h, i, n, P, end)
         /\ r = After(rank, h, i, n, P, end)
  <2>1. n \in Nat
    OBVIOUS
  <2> QED
    BY <2>1, DownSinks, Zenon
<1> HIDE DEF r
<1>2. \A k \in P \ {end} : /\ Preferred(rank, h, k, n) \in P
                           /\ Preferred(rank, h, k, n) \in k + 1 .. n
                           /\ k = Preferred(rank, h, k, n) \div 2
  <2> TAKE k \in P \ {end}
  <2>1. k \in Nat \ {0} /\ 2 * k <= n /\ Preferred(rank, h, k, n) \in P
    BY <1>1 DEF Sank
  <2> QED
    BY <2>1, PreferredChild
<1>3. \A k \in DOMAIN h : r[k] = IF k = end THEN h[i]
                                 ELSE IF k \in P THEN h[Preferred(rank, h, k, n)] ELSE h[k]
  BY <1>1, Zenon DEF After
<1>4. P \subseteq 1 .. n /\ end \in 1 .. n /\ i \in P /\ end \in P
  BY <1>1 DEF Sank
<1>5. DOMAIN r = 1 .. Len(h) /\ r = [k \in 1 .. Len(h) |-> r[k]]
  BY <1>1 DEF After
<1>6. \A k \in 1 .. n : \E x \in 1 .. n : h[x] = r[k]
  <2> TAKE k \in 1 .. n
  <2>1. CASE k = end
    BY <2>1, <1>3
  <2>2. CASE k \in P \ {end}
    <3>1. Preferred(rank, h, k, n) \in 1 .. n
      BY <2>2, <1>2, <1>4
    <3> QED
      BY <2>2, <3>1, <1>3
  <2>3. CASE k \notin P
    BY <2>3, <1>3, <1>4
  <2> QED
    BY <2>1, <2>2, <2>3
<1>7. \A k \in 1 .. n : \E x \in 1 .. n : r[x] = h[k]
  <2> TAKE k \in 1 .. n
  <2>1. CASE k = i
    BY <2>1, <1>3, <1>4
  <2>2. CASE k \in P \ {i}
    <3>1. PICK c \in P \ {end} : Preferred(rank, h, c, n) = k
      BY <2>2, <1>1 DEF Sank
    <3>2. c \in 1 .. n /\ c \in DOMAIN h
      BY <1>4
    <3>3. r[c] = h[k]
      BY <3>1, <3>2, <1>3
    <3> QED
      BY <3>2, <3>3
  <2>3. CASE k \notin P
    BY <2>3, <1>3, <1>4
  <2> QED
    BY <2>1, <2>2, <2>3
<1>8. \A k \in DOMAIN h : k > n => r[k] = h[k]
  BY <1>3, <1>4
<1>9. \A k \in 1 .. Len(h) : r[k] \in T
  <2> SUFFICES ASSUME NEW k \in 1 .. Len(h) PROVE r[k] \in T
    OBVIOUS
  <2>1. CASE k > n
    BY <1>8, <2>1
  <2>2. CASE k \in 1 .. n
    <3>1. PICK x \in 1 .. n : h[x] = r[k]
      BY <1>6, <2>2
    <3> QED
      BY <3>1
  <2> QED
    BY <2>1, <2>2
<1>10. r \in Seq(T) /\ Len(r) = Len(h)
  <2>1. Len(h) \in Nat
    OBVIOUS
  <2> QED
    BY <1>5, <1>9, <2>1
<1> QED
  BY <1>6, <1>7, <1>8, <1>10 DEF Shuffled, r

LEMMA UpShuffles ==
    ASSUME NEW rank, NEW T, NEW h \in Seq(T), NEW j \in 1 .. Len(h)
    PROVE  HeapUp(rank, h, j) \in Seq(T) /\ Shuffled(h, HeapUp(rank, h, j), j)
<1> DEFINE r == HeapUp(rank, h, j)
<1>1. PICK P, end :
         /\ Rose(rank, h, j, P, end)
         /\ r = Above(h, j, P, end)
  <2>1. j \in Nat \ {0}
    OBVIOUS
  <2> QED
    BY <2>1, UpRises, Zenon
<1> HIDE DEF r
<1>2. \A k \in P \ {end} : k \div 2 \in P
  BY <1>1 DEF Rose
<1>3. \A k \in DOMAIN h : r[k] = IF k = end THEN h[j]
                                 ELSE IF k \in P THEN h[k \div 2] ELSE h[k]
  BY <1>1, Zenon DEF Above
<1>4. P \subseteq 1 .. j /\ end \in 1 .. j /\ j \in P /\ end \in P
  BY <1>1 DEF Rose
<1>5. DOMAIN r = 1 .. Len(h) /\ r = [k \in 1 .. Len(h) |-> r[k]]
  BY <1>1 DEF Above
<1>6. \A k \in 1 .. j : \E x \in 1 .. j : h[x] = r[k]
  <2> TAKE k \in 1 .. j
  <2>1. CASE k = end
    BY <2>1, <1>3
  <2>2. CASE k \in P \ {end}
    <3>1. k \div 2 \in 1 .. j
      BY <2>2, <1>2, <1>4
    <3> QED
      BY <2>2, <3>1, <1>3
  <2>3. CASE k \notin P
    BY <2>3, <1>3, <1>4
  <2> QED
    BY <2>1, <2>2, <2>3
<1>7. \A k \in 1 .. j : \E x \in 1 .. j : r[x] = h[k]
  <2> TAKE k \in 1 .. j
  <2>1. CASE k = j
    BY <2>1, <1>3, <1>4
  <2>2. CASE k \in P \ {j}
    <3>1. PICK c \in P \ {end} : c \div 2 = k
      BY <2>2, <1>1 DEF Rose
    <3>2. c \in 1 .. j /\ c \in DOMAIN h
      BY <1>4
    <3>3. r[c] = h[k]
      BY <3>1, <3>2, <1>3
    <3> QED
      BY <3>2, <3>3
  <2>3. CASE k \notin P
    BY <2>3, <1>3, <1>4
  <2> QED
    BY <2>1, <2>2, <2>3
<1>8. \A k \in DOMAIN h : k > j => r[k] = h[k]
  BY <1>3, <1>4
<1>9. \A k \in 1 .. Len(h) : r[k] \in T
  <2> SUFFICES ASSUME NEW k \in 1 .. Len(h) PROVE r[k] \in T
    OBVIOUS
  <2>1. CASE k > j
    BY <1>8, <2>1
  <2>2. CASE k \in 1 .. j
    <3>1. PICK x \in 1 .. j : h[x] = r[k]
      BY <1>6, <2>2
    <3> QED
      BY <3>1
  <2> QED
    BY <2>1, <2>2
<1>10. r \in Seq(T) /\ Len(r) = Len(h)
  <2>1. Len(h) \in Nat
    OBVIOUS
  <2> QED
    BY <1>5, <1>9, <2>1
<1> QED
  BY <1>6, <1>7, <1>8, <1>10 DEF Shuffled, r

LEMMA FrontFacts ==
    ASSUME NEW T, NEW h \in Seq(T), Len(h) > 0
    PROVE  /\ Front(h) \in Seq(T) /\ Len(Front(h)) = Len(h) - 1
           /\ \A k \in 1 .. Len(h) - 1 : Front(h)[k] = h[k]
<1>1. \A k \in 1 .. Len(h) - 1 : h[k] \in T
  OBVIOUS
<1>2. Len(h) - 1 \in Int /\ Len(h) \in Nat
  OBVIOUS
<1>3. /\ SubSeq(h, 1, Len(h) - 1) \in Seq(T)
      /\ Len(SubSeq(h, 1, Len(h) - 1)) = IF 1 <= Len(h) - 1 THEN (Len(h) - 1) - 1 + 1 ELSE 0
      /\ \A k \in 1 .. (Len(h) - 1) - 1 + 1 : SubSeq(h, 1, Len(h) - 1)[k] = h[1 + k - 1]
  BY <1>1, <1>2, SubSeqProperties
<1> DEFINE f == SubSeq(h, 1, Len(h) - 1)
           n == Len(h)
<1>4. f = Front(h)
  BY DEF Front
<1>5. /\ f \in Seq(T) /\ Len(f) = IF 1 <= n - 1 THEN (n - 1) - 1 + 1 ELSE 0
      /\ \A k \in 1 .. (n - 1) - 1 + 1 : f[k] = h[1 + k - 1]
  BY <1>3
<1>6. n \in Nat \ {0}
  OBVIOUS
<1> HIDE DEF f, n
<1>7. Len(f) = n - 1 /\ \A k \in 1 .. n - 1 : f[k] = h[k]
  <2>1. (n - 1) - 1 + 1 = n - 1 /\ \A k \in 1 .. n - 1 : 1 + k - 1 = k
    BY <1>6
  <2>2. Len(f) = n - 1
    BY <1>5, <1>6
  <2>3. \A k \in 1 .. n - 1 : f[k] = h[1 + k - 1]
    BY <1>5, <2>1
  <2> QED
    BY <2>1, <2>2, <2>3
<1> QED
  BY <1>4, <1>5, <1>7 DEF n

LEMMA PushKeeps ==
    ASSUME NEW rank, NEW h \in Seq(Txs), NEW x \in Txs
    PROVE  /\ HeapPush(rank, h, x) \in Seq(Txs) /\ Len(HeapPush(rank, h, x)) = Len(h) + 1
           /\ \A k \in 1 .. Len(h) : \E y \in 1 .. Len(h) + 1 : HeapPush(rank, h, x)[y] = h[k]
           /\ \E y \in 1 .. Len(h) + 1 : HeapPush(rank, h, x)[y] = x
<1> DEFINE a == Append(h, x)
           j == Len(h) + 1
<1>1. /\ a \in Seq(Txs) /\ Len(a) = j /\ a[j] = x
      /\ \A k \in 1 .. Len(h) : a[k] = h[k]
  BY AppendProperties
<1>2. j \in 1 .. j
  OBVIOUS
<1> HIDE DEF a
<1>3. HeapUp(rank, a, j) \in Seq(Txs) /\ Shuffled(a, HeapUp(rank, a, j), j)
  BY <1>1, <1>2, UpShuffles
<1>4. HeapPush(rank, h, x) = HeapUp(rank, a, j)
  BY DEF HeapPush, a
<1> DEFINE r == HeapUp(rank, a, j)
<1>5. /\ Len(r) = j /\ \A k \in 1 .. j : \E y \in 1 .. j : r[y] = a[k]
  BY <1>1, <1>3, Zenon DEF Shuffled
<1>6. j \in 1 .. j /\ \A k \in 1 .. Len(h) : k \in 1 .. j
  OBVIOUS
<1> HIDE DEF r, j
<1>7. \A k \in 1 .. Len(h) : \E y \in 1 .. j : r[y] = h[k]
  BY <1>1, <1>5, <1>6, Zenon
<1>8. \E y \in 1 .. j : r[y] = x
  BY <1>1, <1>5, <1>6, Zenon
<1> QED
  BY <1>3, <1>4, <1>5, <1>7, <1>8 DEF r, j

LEMMA ShuffledWiden ==
    ASSUME NEW h, NEW r, NEW m \in Nat, NEW n \in Nat, m <= n, DOMAIN h = 1 .. n + 1,
           Shuffled(h, r, m)
    PROVE  Shuffled(h, r, n)
<1>1. \A k \in 1 .. n : (k <= m \/ k > m) /\ k \in DOMAIN h
  OBVIOUS
<1>2. \A k \in 1 .. n : (\E x \in 1 .. n : r[x] = h[k]) /\ (\E x \in 1 .. n : h[x] = r[k])
  <2> TAKE k \in 1 .. n
  <2>1. CASE k <= m
    <3>1. k \in 1 .. m /\ 1 .. m \subseteq 1 .. n
      BY <2>1
    <3> QED
      BY <3>1, Zenon DEF Shuffled
  <2>2. CASE k > m
    <3>1. r[k] = h[k]
      BY <2>2, <1>1, Zenon DEF Shuffled
    <3> QED
      BY <3>1
  <2> QED
    BY <2>1, <2>2, <1>1
<1>3. \A k \in DOMAIN h : k > n => k > m
  OBVIOUS
<1> QED
  BY <1>2, <1>3, Zenon DEF Shuffled

\* r is h without its element i, in another order.
Leaves(h, i, r) ==
    /\ Len(r) = Len(h) - 1
    /\ \A k \in DOMAIN h \ {i} : \E y \in 1 .. Len(h) - 1 : r[y] = h[k]
    /\ \A y \in 1 .. Len(h) - 1 : \E k \in DOMAIN h \ {i} : r[y] = h[k]

LEMMA RemoveKeeps ==
    ASSUME NEW rank, NEW T, NEW h \in Seq(T), NEW i \in 1 .. Len(h)
    PROVE  HeapRemove(rank, h, i) \in Seq(T) /\ Leaves(h, i, HeapRemove(rank, h, i))
<1> DEFINE n == Len(h)
           moved == ReplaceAt(h, i, h[n])
           sunk == HeapDown(rank, moved, i, n - 1)
           r == HeapRemove(rank, h, i)
<1>1. n \in Nat \ {0} /\ DOMAIN h = 1 .. n
  OBVIOUS
<1>2. r = Front(IF i = n THEN h ELSE IF sunk # moved THEN sunk ELSE HeapUp(rank, moved, i))
  BY Zenon DEF HeapRemove
<1>3. CASE i = n
  <2>1. r = Front(h)
    BY <1>2, <1>3, Zenon
  <2>2. /\ r \in Seq(T) /\ Len(r) = n - 1
        /\ \A k \in 1 .. n - 1 : r[k] = h[k]
    <3>1. Len(h) > 0
      BY <1>1
    <3> QED
      BY <2>1, <3>1, FrontFacts, Zenon
  <2>3. DOMAIN h \ {i} = 1 .. n - 1
    BY <1>1, <1>3
  <2> HIDE DEF r, n
  <2> QED
    BY <2>2, <2>3, Zenon DEF Leaves, r, n
<1>4. CASE i # n
  <2>1. /\ moved \in Seq(T) /\ Len(moved) = n
        /\ \A k \in 1 .. n : moved[k] = IF k = i THEN h[n] ELSE h[k]
    BY <1>1, ExceptSeq DEF ReplaceAt
  <2> HIDE DEF moved
  <2>2. n - 1 \in 1 .. Len(moved) /\ i \in 1 .. n - 1 /\ i \in 1 .. Len(moved)
    <3>1. Len(moved) = n
      BY <2>1
    <3>2. i \in 1 .. n
      OBVIOUS
    <3> HIDE DEF n
    <3> QED
      BY <1>1, <1>4, <3>1, <3>2
  <2>3. sunk \in Seq(T) /\ Shuffled(moved, sunk, n - 1)
    BY <2>1, <2>2, DownShuffles
  <2>4. HeapUp(rank, moved, i) \in Seq(T) /\ Shuffled(moved, HeapUp(rank, moved, i), n - 1)
    <3>1. HeapUp(rank, moved, i) \in Seq(T) /\ Shuffled(moved, HeapUp(rank, moved, i), i)
      BY <2>1, <2>2, UpShuffles
    <3>2. /\ n - 1 \in Nat /\ i \in Nat /\ i <= n - 1 /\ (n - 1) + 1 = n
          /\ DOMAIN moved = 1 .. n
      BY <1>1, <2>1, <2>2
    <3> QED
      BY <3>1, <3>2, ShuffledWiden, Zenon
  <2>5. PICK s : s \in Seq(T) /\ Shuffled(moved, s, n - 1) /\ r = Front(s)
    BY <1>2, <1>4, <2>3, <2>4, Zenon
  <2> HIDE DEF r, sunk
  <2>6. Len(s) = n
    BY <2>1, <2>5, Zenon DEF Shuffled
  <2>7. r \in Seq(T) /\ Len(r) = n - 1 /\ \A k \in 1 .. n - 1 : r[k] = s[k]
    <3>1. Len(s) > 0
      BY <1>1, <2>6
    <3> QED
      BY <2>5, <2>6, <3>1, FrontFacts, Zenon
  <2>8. \A k \in DOMAIN h \ {i} : \E y \in 1 .. n - 1 : r[y] = h[k]
    <3> TAKE k \in DOMAIN h \ {i}
    <3>1. PICK m \in 1 .. n - 1 : moved[m] = h[k]
      <4>1. CASE k = n
        BY <4>1, <2>1, <2>2
      <4>2. CASE k # n
        BY <4>2, <1>1, <2>1
      <4> QED
        BY <4>1, <4>2
    <3>2. PICK y \in 1 .. n - 1 : s[y] = moved[m]
      BY <2>5 DEF Shuffled
    <3> QED
      BY <3>1, <3>2, <2>7
  <2>9. \A y \in 1 .. n - 1 : \E k \in DOMAIN h \ {i} : r[y] = h[k]
    <3> TAKE y \in 1 .. n - 1
    <3>1. PICK m \in 1 .. n - 1 : moved[m] = s[y]
      BY <2>5 DEF Shuffled
    <3>2. r[y] = moved[m]
      BY <3>1, <2>7
    <3>3. CASE m = i
      BY <3>2, <3>3, <2>1, <1>1, <1>4
    <3>4. CASE m # i
      BY <3>2, <3>4, <2>1, <1>1
    <3> QED
      BY <3>3, <3>4
  <2> QED
    BY <2>7, <2>8, <2>9 DEF Leaves, r
<1> QED
  BY <1>3, <1>4

LEMMA OrderedUnfold ==
    ASSUME NEW rank, NEW h, Len(h) \in Nat
    PROVE  /\ Ordered(rank, h)[Len(h) + 1] = h
           /\ \A k \in 1 .. Len(h) :
                 Ordered(rank, h)[k] = IF 2 * k > Len(h) THEN h
                                       ELSE HeapDown(rank, Ordered(rank, h)[k + 1], k, Len(h))
<1> DEFINE n == Len(h)
           F(f, k) == IF 2 * k > n THEN h ELSE HeapDown(rank, f[k + 1], k, n)
           Upper(m) == {k \in 1 .. n + 1 : k >= n + 1 - m}
           S == {m \in Nat : \E f : f = [k \in Upper(m) |-> F(f, k)]}
<1>1. 0 \in S
  <2> DEFINE f == [k \in Upper(0) |-> h]
  <2>1. \A k \in Upper(0) : F(f, k) = h
    OBVIOUS
  <2> HIDE DEF F
  <2>2. f = [k \in Upper(0) |-> F(f, k)]
    BY <2>1
  <2> QED
    BY <2>2
<1>2. ASSUME NEW m \in Nat, m \in S PROVE m + 1 \in S
  <2>1. PICK f : f = [k \in Upper(m) |-> F(f, k)]
    BY <1>2
  <2> DEFINE g == [k \in Upper(m + 1) |-> IF k \in Upper(m) THEN f[k] ELSE F(f, k)]
  <2>2. \A k \in Upper(m + 1) : 2 * k > n \/ k + 1 \in Upper(m)
    OBVIOUS
  <2>3. Upper(m) \subseteq Upper(m + 1)
    OBVIOUS
  <2> HIDE DEF Upper
  <2>4. \A k \in Upper(m) : g[k] = f[k] /\ f[k] = F(f, k)
    <3>1. \A k \in Upper(m) : g[k] = f[k]
      BY <2>3
    <3> HIDE DEF g, F
    <3> QED
      BY <3>1, <2>1
  <2>5. \A k \in Upper(m + 1) : g[k] = F(f, k)
    <3>1. \A k \in Upper(m + 1) : k \notin Upper(m) => g[k] = F(f, k)
      BY Zenon
    <3> HIDE DEF g, F
    <3> QED
      BY <3>1, <2>4
  <2>6. \A k \in Upper(m + 1) : F(g, k) = F(f, k)
    <3> HIDE DEF g
    <3> QED
      BY <2>2, <2>4, Zenon
  <2>7. g = [k \in Upper(m + 1) |-> F(g, k)]
    <3>1. DOMAIN g = Upper(m + 1) /\ g = [k \in DOMAIN g |-> g[k]]
      BY Zenon
    <3> HIDE DEF g, F
    <3>2. [k \in Upper(m + 1) |-> g[k]] = [k \in Upper(m + 1) |-> F(g, k)]
      BY <2>5, <2>6
    <3> QED
      BY <3>1, <3>2
  <2> HIDE DEF g, F
  <2> QED
    BY <2>7
<1> HIDE DEF S
<1>3. Nat \subseteq S
  BY <1>1, <1>2, Induction
<1>4. n \in S /\ Upper(n) = 1 .. n + 1
  <2>1. n \in S
    BY <1>3
  <2> HIDE DEF F
  <2> QED
    BY <2>1
<1>5. \E f : f = [k \in 1 .. n + 1 |-> F(f, k)]
  <2> HIDE DEF F, Upper
  <2> QED
    BY <1>4 DEF S
<1>6. Ordered(rank, h) = CHOOSE f : f = [k \in 1 .. n + 1 |-> F(f, k)]
  BY Zenon DEF Ordered
<1> DEFINE o == Ordered(rank, h)
<1>7. o = [k \in 1 .. n + 1 |-> F(o, k)]
  <2> HIDE DEF F
  <2> QED
    BY <1>5, <1>6, Zenon
<1> HIDE DEF o
<1>8. \A k \in 1 .. n + 1 : o[k] = F(o, k)
  <2> HIDE DEF F
  <2> QED
    BY <1>7
<1>9. 2 * (n + 1) > n /\ n + 1 \in 1 .. n + 1 /\ \A k \in 1 .. n : k \in 1 .. n + 1
  OBVIOUS
<1> QED
  BY <1>8, <1>9, Zenon DEF o

LEMMA InitShuffles ==
    ASSUME NEW rank, NEW T, NEW h \in Seq(T)
    PROVE  /\ \A k \in 1 .. Len(h) + 1 :
                 Ordered(rank, h)[k] \in Seq(T) /\ Shuffled(h, Ordered(rank, h)[k], Len(h))
           /\ HeapInit(rank, h) \in Seq(T) /\ Shuffled(h, HeapInit(rank, h), Len(h))
<1> DEFINE n == Len(h)
           o == Ordered(rank, h)
           S == {m \in Nat : m <= n => /\ o[n + 1 - m] \in Seq(T)
                                       /\ Shuffled(h, o[n + 1 - m], n)}
<1>1. n \in Nat
  OBVIOUS
<1>2. Shuffled(h, h, n)
  BY DEF Shuffled
<1>3. /\ o[n + 1] = h
      /\ \A k \in 1 .. n : o[k] = IF 2 * k > n THEN h ELSE HeapDown(rank, o[k + 1], k, n)
  BY <1>1, OrderedUnfold, Zenon
<1>4. 0 \in S
  <2>1. n + 1 - 0 = n + 1
    BY <1>1
  <2> QED
    BY <1>2, <1>3, <2>1, Zenon
<1> HIDE DEF n, o
<1>5. ASSUME NEW m \in Nat, m \in S PROVE m + 1 \in S
  <2> SUFFICES ASSUME m + 1 <= n
               PROVE  o[n + 1 - (m + 1)] \in Seq(T) /\ Shuffled(h, o[n + 1 - (m + 1)], n)
    OBVIOUS
  <2> DEFINE k == n - m
  <2>1. k \in 1 .. n /\ n + 1 - (m + 1) = k /\ n + 1 - m = k + 1 /\ m <= n
    BY <1>1
  <2>2. o[k + 1] \in Seq(T) /\ Shuffled(h, o[k + 1], n)
    BY <1>5, <2>1
  <2> HIDE DEF k
  <2>3. CASE 2 * k > n
    BY <2>1, <2>3, <1>2, <1>3 DEF n
  <2>4. CASE ~(2 * k > n)
    <3> DEFINE p == o[k + 1]
               d == HeapDown(rank, p, k, n)
    <3>1. o[k] = d
      BY <1>3, <2>1, <2>4, Zenon
    <3>2. Len(p) = n
      BY <2>2 DEF Shuffled, n
    <3>3. n \in 1 .. Len(p)
      BY <3>2, <2>1, <1>1
    <3> HIDE DEF p
    <3>4. d \in Seq(T) /\ Shuffled(p, d, n)
      BY <2>2, <3>3, <2>1, DownShuffles DEF p
    <3> HIDE DEF d
    <3>5. Shuffled(h, p, n)
      BY <2>2 DEF p
    <3>6. \A x \in DOMAIN h : ~(x > n)
      BY <1>1 DEF n
    <3>7. \A x \in 1 .. n : (\E y \in 1 .. n : d[y] = h[x]) /\ (\E y \in 1 .. n : h[y] = d[x])
      <4> TAKE x \in 1 .. n
      <4>1. PICK y \in 1 .. n : p[y] = h[x]
        BY <3>5, Zenon DEF Shuffled
      <4>2. PICK z \in 1 .. n : p[z] = d[x]
        BY <3>4, Zenon DEF Shuffled
      <4>3. \E v \in 1 .. n : d[v] = p[y]
        BY <3>4, Zenon DEF Shuffled
      <4>4. \E v \in 1 .. n : h[v] = p[z]
        BY <3>5, Zenon DEF Shuffled
      <4> QED
        BY <4>1, <4>2, <4>3, <4>4, Zenon
    <3>8. Len(d) = Len(h)
      BY <3>4, <3>5, Zenon DEF Shuffled
    <3>9. Shuffled(h, d, n)
      BY <3>6, <3>7, <3>8, Zenon DEF Shuffled
    <3> QED
      BY <3>1, <3>4, <3>9, <2>1
  <2> QED
    BY <2>3, <2>4
<1> HIDE DEF S
<1>6. Nat \subseteq S
  BY <1>4, <1>5, Induction
<1>7. ASSUME NEW k \in 1 .. n + 1 PROVE o[k] \in Seq(T) /\ Shuffled(h, o[k], n)
  <2>1. n + 1 - k \in Nat /\ n + 1 - k <= n /\ n + 1 - (n + 1 - k) = k
    BY <1>1
  <2>2. n + 1 - k \in S
    BY <1>6, <2>1
  <2> QED
    BY <2>1, <2>2 DEF S
<1>8. 1 \in 1 .. n + 1
  BY <1>1
<1> QED
  BY <1>7, <1>8, Zenon DEF HeapInit, n, o

-----------------------------------------------------------------------------
(* What Pop returns, call after call.                                      *)

LEMMA PopsUnfold ==
    ASSUME NEW h, Len(h) \in Nat
    PROVE  /\ Pops(h)[0] = [popped |-> <<>>, heap |-> h]
           /\ \A k \in 1 .. Len(h) :
                 Pops(h)[k] = [popped |-> Append(Pops(h)[k - 1].popped, Pops(h)[k - 1].heap[1]),
                               heap |-> HeapPop(Priority, Pops(h)[k - 1].heap)]
<1> DEFINE n == Len(h)
           F(f, k) == IF k = 0 THEN [popped |-> <<>>, heap |-> h]
                      ELSE [popped |-> Append(f[k - 1].popped, f[k - 1].heap[1]),
                            heap |-> HeapPop(Priority, f[k - 1].heap)]
           S == {m \in Nat : \E f : f = [k \in 0 .. m |-> F(f, k)]}
<1>1. 0 \in S
  <2> DEFINE f == [k \in 0 .. 0 |-> [popped |-> <<>>, heap |-> h]]
  <2>1. \A k \in 0 .. 0 : F(f, k) = [popped |-> <<>>, heap |-> h]
    <3>1. \A k \in 0 .. 0 : k = 0
      OBVIOUS
    <3> HIDE DEF f
    <3> QED
      BY <3>1, Zenon
  <2> HIDE DEF F
  <2>2. f = [k \in 0 .. 0 |-> F(f, k)]
    BY <2>1
  <2> QED
    BY <2>2
<1>2. ASSUME NEW m \in Nat, m \in S PROVE m + 1 \in S
  <2>1. PICK f : f = [k \in 0 .. m |-> F(f, k)]
    BY <1>2
  <2> DEFINE g == [k \in 0 .. m + 1 |-> IF k \in 0 .. m THEN f[k] ELSE F(f, k)]
  <2>2. \A k \in 0 .. m + 1 : k = 0 \/ k - 1 \in 0 .. m
    OBVIOUS
  <2>3. 0 .. m \subseteq 0 .. m + 1
    OBVIOUS
  <2>4. \A k \in 0 .. m : g[k] = f[k] /\ f[k] = F(f, k)
    <3>1. \A k \in 0 .. m : g[k] = f[k]
      BY <2>3
    <3> HIDE DEF g, F
    <3> QED
      BY <3>1, <2>1
  <2>5. \A k \in 0 .. m + 1 : g[k] = F(f, k)
    <3>1. \A k \in 0 .. m + 1 : k \notin 0 .. m => g[k] = F(f, k)
      BY Zenon
    <3> HIDE DEF g, F
    <3> QED
      BY <3>1, <2>4
  <2>6. \A k \in 0 .. m + 1 : F(g, k) = F(f, k)
    <3> HIDE DEF g
    <3> QED
      BY <2>2, <2>4, Zenon
  <2>7. g = [k \in 0 .. m + 1 |-> F(g, k)]
    <3>1. DOMAIN g = 0 .. m + 1 /\ g = [k \in DOMAIN g |-> g[k]]
      BY Zenon
    <3> HIDE DEF g, F
    <3>2. [k \in 0 .. m + 1 |-> g[k]] = [k \in 0 .. m + 1 |-> F(g, k)]
      BY <2>5, <2>6
    <3> QED
      BY <3>1, <3>2
  <2> HIDE DEF g, F
  <2> QED
    BY <2>7
<1> HIDE DEF S
<1>3. Nat \subseteq S
  BY <1>1, <1>2, Induction
<1>4. \E f : f = [k \in 0 .. n |-> F(f, k)]
  <2>1. n \in S
    BY <1>3
  <2> HIDE DEF F
  <2> QED
    BY <2>1 DEF S
<1> DEFINE o == Pops(h)
<1>5. o = CHOOSE f : f = [k \in 0 .. n |-> F(f, k)]
  BY Zenon DEF Pops
<1>6. o = [k \in 0 .. n |-> F(o, k)]
  <2> HIDE DEF F, o
  <2> QED
    BY <1>4, <1>5, Zenon
<1> HIDE DEF o
<1>7. \A k \in 0 .. n : o[k] = F(o, k)
  <2> HIDE DEF F
  <2> QED
    BY <1>6
<1>8. 0 \in 0 .. n /\ \A k \in 1 .. n : k \in 0 .. n /\ k # 0
  OBVIOUS
<1> QED
  BY <1>7, <1>8, Zenon DEF o

LEMMA PopKeeps ==
    ASSUME NEW rank, NEW T, NEW h \in Seq(T), Len(h) > 0
    PROVE  HeapPop(rank, h) \in Seq(T) /\ Leaves(h, 1, HeapPop(rank, h))
<1>1. 1 \in 1 .. Len(h)
  OBVIOUS
<1> QED
  BY <1>1, RemoveKeeps, Zenon DEF HeapPop

\* What k calls have returned and left behind of h.
PopsSplit(h, T, k) ==
    LET s == Pops(h)[k]
    IN  /\ s.popped \in Seq(T) /\ Len(s.popped) = k
        /\ s.heap \in Seq(T) /\ Len(s.heap) = Len(h) - k
        /\ \A x \in 1 .. k : s.popped[x] = Pops(h)[x - 1].heap[1]
        /\ \A x \in 1 .. Len(h) : \/ \E y \in 1 .. k : s.popped[y] = h[x]
                                  \/ \E y \in 1 .. Len(h) - k : s.heap[y] = h[x]

LEMMA PopsSplits ==
    ASSUME NEW T, NEW h \in Seq(T)
    PROVE  \A k \in 0 .. Len(h) : PopsSplit(h, T, k)
<1> DEFINE n == Len(h)
           S == {m \in Nat : m <= n => PopsSplit(h, T, m)}
<1>1. n \in Nat
  OBVIOUS
<1>2. /\ Pops(h)[0] = [popped |-> <<>>, heap |-> h]
      /\ \A k \in 1 .. n :
            Pops(h)[k] = [popped |-> Append(Pops(h)[k - 1].popped, Pops(h)[k - 1].heap[1]),
                          heap |-> HeapPop(Priority, Pops(h)[k - 1].heap)]
  BY <1>1, PopsUnfold, Zenon
<1>3. 0 \in S
  <2>1. Pops(h)[0].popped = <<>> /\ Pops(h)[0].heap = h
    BY <1>2
  <2>2. <<>> \in Seq(T) /\ Len(<<>>) = 0 /\ Len(h) = Len(h) - 0 /\ 1 .. 0 = {}
    BY <1>1
  <2>3. \A x \in 1 .. Len(h) : \E y \in 1 .. Len(h) - 0 : h[y] = h[x]
    BY <1>1
  <2> QED
    BY <2>1, <2>2, <2>3, Zenon DEF PopsSplit
<1>4. ASSUME NEW m \in Nat, m \in S PROVE m + 1 \in S
  <2> SUFFICES ASSUME m + 1 <= n PROVE PopsSplit(h, T, m + 1)
    OBVIOUS
  <2> DEFINE p == Pops(h)[m].popped
             q == Pops(h)[m].heap
             pp == Pops(h)[m + 1].popped
             qq == Pops(h)[m + 1].heap
  <2>1. PopsSplit(h, T, m)
    BY <1>1, <1>4
  <2>2. m + 1 \in 1 .. n /\ (m + 1) - 1 = m
    BY <1>1
  <2>3. pp = Append(p, q[1]) /\ qq = HeapPop(Priority, q)
    <3>1. Pops(h)[m + 1] = [popped |-> Append(p, q[1]), heap |-> HeapPop(Priority, q)]
      BY <1>2, <2>2
    <3> HIDE DEF p, q
    <3> QED
      BY <3>1
  <2>4. /\ p \in Seq(T) /\ Len(p) = m /\ q \in Seq(T) /\ Len(q) = n - m
        /\ \A x \in 1 .. m : p[x] = Pops(h)[x - 1].heap[1]
        /\ \A x \in 1 .. n : \/ \E y \in 1 .. m : p[y] = h[x]
                             \/ \E y \in 1 .. n - m : q[y] = h[x]
    BY <2>1, Zenon DEF PopsSplit
  <2>5. q[1] = Pops(h)[(m + 1) - 1].heap[1]
    BY <2>2
  <2> HIDE DEF p, q, pp, qq, n
  <2>6. Len(q) > 0 /\ q[1] \in T /\ Len(q) - 1 = n - (m + 1) /\ DOMAIN q = 1 .. n - m
    BY <2>2, <2>4, <1>1
  <2>7. /\ pp \in Seq(T) /\ Len(pp) = m + 1 /\ pp[m + 1] = q[1]
        /\ \A x \in 1 .. m : pp[x] = p[x]
    <3>1. /\ Append(p, q[1]) \in Seq(T) /\ Len(Append(p, q[1])) = Len(p) + 1
          /\ Append(p, q[1])[Len(p) + 1] = q[1]
          /\ \A x \in 1 .. Len(p) : Append(p, q[1])[x] = p[x]
      BY <2>4, <2>6, AppendProperties
    <3>2. Len(p) = m
      BY <2>4
    <3> QED
      BY <2>3, <3>1, <3>2, Zenon
  <2>8. qq \in Seq(T) /\ Leaves(q, 1, qq)
    BY <2>3, <2>4, <2>6, PopKeeps
  <2>9. Len(qq) = n - (m + 1) /\ \A y \in 1 .. n - m : y = 1 \/ \E z \in 1 .. n - (m + 1) : qq[z] = q[y]
    BY <2>6, <2>8, Zenon DEF Leaves
  <2>10. \A x \in 1 .. m + 1 : pp[x] = Pops(h)[x - 1].heap[1]
    <3>1. \A x \in 1 .. m + 1 : x \in 1 .. m \/ x = m + 1
      OBVIOUS
    <3> QED
      BY <3>1, <2>4, <2>5, <2>7, Zenon
  <2>11. \A x \in 1 .. n : \/ \E y \in 1 .. m + 1 : pp[y] = h[x]
                           \/ \E y \in 1 .. n - (m + 1) : qq[y] = h[x]
    <3>1. m + 1 \in 1 .. m + 1 /\ \A y \in 1 .. m : y \in 1 .. m + 1
      OBVIOUS
    <3> TAKE x \in 1 .. n
    <3>2. CASE \E y \in 1 .. m : p[y] = h[x]
      BY <3>1, <3>2, <2>7, Zenon
    <3>3. CASE \E y \in 1 .. n - m : q[y] = h[x]
      BY <3>1, <3>3, <2>7, <2>9, Zenon
    <3> QED
      BY <3>2, <3>3, <2>4, Zenon
  <2> QED
    BY <2>7, <2>8, <2>9, <2>10, <2>11, Zenon DEF PopsSplit, pp, qq, n
<1> HIDE DEF S
<1>5. Nat \subseteq S
  BY <1>3, <1>4, Induction
<1> QED
  <2> TAKE k \in 0 .. n
  <2>1. k \in S /\ k <= n
    BY <1>1, <1>5
  <2> QED
    BY <2>1 DEF S

-----------------------------------------------------------------------------
(* The map and what is live.                                               *)

\* A map as the pool's: every transaction under its own hash.
MapOK(m) ==
    /\ m \in [Hashes -> Txs \cup {NoTx}]
    /\ \A hash \in Hashes : m[hash] # NoTx => HashOf[m[hash]] = hash

LiveOf(m) == {m[hash] : hash \in {x \in Hashes : m[x] # NoTx}}

LEMMA LiveFacts ==
    ASSUME NEW m, MapOK(m)
    PROVE  \A t : t \in LiveOf(m) <=> t \in Txs /\ m[HashOf[t]] = t
<1> TAKE t
<1>1. ASSUME t \in LiveOf(m) PROVE t \in Txs /\ m[HashOf[t]] = t
  <2>1. PICK hash \in Hashes : m[hash] # NoTx /\ t = m[hash]
    BY <1>1 DEF LiveOf
  <2> QED
    BY <2>1 DEF MapOK
<1>2. ASSUME t \in Txs, m[HashOf[t]] = t PROVE t \in LiveOf(m)
  <2>1. HashOf[t] \in Hashes /\ t # NoTx
    BY <1>2, MempoolAssumption
  <2> QED
    BY <1>2, <2>1 DEF LiveOf
<1> QED
  BY <1>1, <1>2

LEMMA WithoutFacts ==
    ASSUME MapOK(txs), NEW H
    PROVE  /\ MapOK(Without(H))
           /\ \A t : t \in LiveOf(Without(H)) <=> t \in LiveOf(txs) /\ HashOf[t] \notin H
<1>1. MapOK(Without(H))
  BY DEF MapOK, Without
<1>2. \A t : t \in LiveOf(Without(H)) <=> t \in Txs /\ Without(H)[HashOf[t]] = t
  BY <1>1, LiveFacts
<1>3. \A t : t \in LiveOf(txs) <=> t \in Txs /\ txs[HashOf[t]] = t
  BY LiveFacts
<1>4. \A t \in Txs : Without(H)[HashOf[t]] = t <=> txs[HashOf[t]] = t /\ HashOf[t] \notin H
  BY MempoolAssumption DEF Without
<1>5. \A t : t \in LiveOf(Without(H)) <=> t \in LiveOf(txs) /\ HashOf[t] \notin H
  <2> TAKE t
  <2>1. CASE t \in Txs
    BY <1>2, <1>3, <1>4, <2>1, Zenon
  <2>2. CASE t \notin Txs
    BY <1>2, <1>3, <2>2, Zenon
  <2> QED
    BY <2>1, <2>2
<1> QED
  BY <1>1, <1>5

LEMMA PutFacts ==
    ASSUME NEW m, MapOK(m), NEW tx \in Txs
    PROVE  /\ MapOK([m EXCEPT ![HashOf[tx]] = tx])
           /\ \A t \in LiveOf([m EXCEPT ![HashOf[tx]] = tx]) :
                 t = tx \/ (t \in LiveOf(m) /\ HashOf[t] # HashOf[tx])
<1> DEFINE n == [m EXCEPT ![HashOf[tx]] = tx]
<1>1. HashOf[tx] \in Hashes
  BY MempoolAssumption
<1>2. MapOK(n)
  BY <1>1 DEF MapOK
<1>3. \A t : t \in LiveOf(n) <=> t \in Txs /\ n[HashOf[t]] = t
  BY <1>2, LiveFacts
<1>4. \A t : t \in LiveOf(m) <=> t \in Txs /\ m[HashOf[t]] = t
  BY LiveFacts
<1>5. \A t \in Txs : HashOf[t] \in Hashes /\
         n[HashOf[t]] = IF HashOf[t] = HashOf[tx] THEN tx ELSE m[HashOf[t]]
  BY <1>1, MempoolAssumption DEF MapOK
<1> HIDE DEF n
<1>6. \A t \in LiveOf(n) : t = tx \/ (t \in LiveOf(m) /\ HashOf[t] # HashOf[tx])
  BY <1>3, <1>4, <1>5
<1> QED
  BY <1>2, <1>6 DEF n

\* Every enumeration of a set of transactions has all of them.
LEMMA RebuildFacts ==
    ASSUME NEW m, MapOK(m), NEW rank, NEW s \in SetToSeqs({m[hash] : hash \in Hashes} \ {NoTx})
    PROVE  HeapInit(rank, s) \in Seq(Txs) /\ LiveOf(m) \subseteq ToSet(HeapInit(rank, s))
<1> DEFINE M == {m[hash] : hash \in Hashes} \ {NoTx}
           n == Cardinality(M)
<1>1. M \subseteq Txs /\ LiveOf(m) = M
  BY DEF MapOK, LiveOf
<1> HIDE DEF M
<1>2. IsFiniteSet(M) /\ n \in Nat
  BY <1>1, MempoolAssumption, FS_Subset, FS_CardinalityType
<1>3. s \in [1 .. n -> M] /\ \A i, j \in 1 .. n : i # j => s[i] # s[j]
  BY DEF SetToSeqs, M
<1> HIDE DEF n
<1>4. s \in Injection(1 .. n, M)
  BY <1>3 DEF Injection, IsInjective
<1>5. Cardinality(1 .. n) = n
  BY <1>2, FS_Interval
<1>6. \A x \in M : \E i \in 1 .. n : s[i] = x
  BY <1>2, <1>4, <1>5, FS_Injection DEF Surjection, n
<1>7. s \in Seq(Txs) /\ Len(s) = n
  BY <1>1, <1>2, <1>3
<1> DEFINE r == HeapInit(rank, s)
<1>8. r \in Seq(Txs) /\ Shuffled(s, r, n)
  BY <1>7, InitShuffles
<1> HIDE DEF r
<1>9. \A i \in 1 .. n : \E x \in 1 .. n : r[x] = s[i]
  BY <1>8 DEF Shuffled
<1>10. DOMAIN r = 1 .. n
  BY <1>7, <1>8 DEF Shuffled
<1>11. M \subseteq ToSet(r)
  BY <1>6, <1>9, <1>10 DEF ToSet
<1> QED
  BY <1>1, <1>8, <1>11 DEF r

-----------------------------------------------------------------------------
(* What the map holds is in the heap.                                      *)

PoolInv == PoolTypeOK /\ Live \subseteq ToSet(pending)

LEMMA PriorityIsNat ==
    ASSUME PoolTypeOK PROVE Priority \in [Txs -> Nat]
<1> SUFFICES ASSUME NEW tx \in Txs
             PROVE  (PriceOf[tx] + (now - receivedAt[tx]) \div PerSecond) % UintLimit \in Nat
  BY DEF Priority
<1>1. PriceOf[tx] \in Int /\ PerSecond \in Nat \ {0} /\ UintLimit \in Nat \ {0}
  BY MempoolAssumption
<1>2. now \in Int /\ receivedAt[tx] \in Int
  <2>1. now \in 0 .. MaxTime /\ receivedAt[tx] \in 0 .. now
    BY DEF PoolTypeOK
  <2> QED
    BY <2>1, MempoolAssumption
<1> DEFINE waited == now - receivedAt[tx]
<1>3. waited \in Int
  BY <1>2
<1> HIDE DEF waited
<1>4. waited \div PerSecond \in Int
  BY <1>1, <1>3
<1> DEFINE bonus == waited \div PerSecond
<1> HIDE DEF bonus
<1>5. (PriceOf[tx] + bonus) % UintLimit \in Nat
  BY <1>1, <1>4 DEF bonus
<1> QED
  BY <1>5 DEF bonus, waited

LEMMA LowestFacts ==
    ASSUME PoolTypeOK, pending # <<>>
    PROVE  /\ LowestIdx \in 1 .. Len(pending)
           /\ \A j \in 1 .. Len(pending) : Priority[pending[LowestIdx]] <= Priority[pending[j]]
<1> DEFINE n == Len(pending)
           I == {i \in DOMAIN pending :
                   \A j \in DOMAIN pending : Priority[pending[i]] <= Priority[pending[j]]}
           V == {Priority[pending[i]] : i \in 1 .. n}
<1>1. pending \in Seq(Txs) /\ n \in Nat \ {0} /\ DOMAIN pending = 1 .. n
  BY DEF PoolTypeOK
<1>2. V \in SUBSET Nat /\ V # {}
  <2>1. \A i \in 1 .. n : pending[i] \in Txs
    BY <1>1
  <2>2. 1 \in 1 .. n
    BY <1>1
  <2> HIDE DEF n
  <2> QED
    BY <2>1, <2>2, PriorityIsNat
<1>3. PICK v \in V : \A w \in V : v <= w
  <2> HIDE DEF V
  <2> QED
    BY <1>2, LeastExists
<1>4. PICK i \in 1 .. n : v = Priority[pending[i]]
  BY <1>3
<1>5. i \in I
  BY <1>1, <1>3, <1>4
<1>6. I \in SUBSET Nat
  BY <1>1
<1>7. LowestIdx \in I
  <2>1. LowestIdx = Min(I)
    BY Zenon DEF LowestIdx
  <2> HIDE DEF I
  <2> QED
    BY <1>5, <1>6, <2>1, MinFacts
<1> QED
  BY <1>1, <1>7

\* What a step that removes nothing from the heap has to leave as it is.
LEMMA AddInsertKeeps ==
    ASSUME PoolInv, NEW p \in Procs, AddInsert(p) PROVE PoolInv'
<1> DEFINE tx == adding[p]
<1>1. tx \in Txs /\ MapOK(txs) /\ pending \in Seq(Txs)
  BY DEF PoolInv, PoolTypeOK, AddInsert, AddReturn, MapOK, Has
<1>2. txs' = [txs EXCEPT ![HashOf[tx]] = tx] /\ pending' = HeapPush(Priority, pending, tx)
  BY DEF AddInsert
<1> HIDE DEF tx
<1>3. MapOK(txs') /\ \A t \in LiveOf(txs') : t = tx \/ t \in LiveOf(txs)
  BY <1>1, <1>2, PutFacts
<1>4. /\ pending' \in Seq(Txs) /\ Len(pending') = Len(pending) + 1
      /\ \A k \in 1 .. Len(pending) : \E y \in 1 .. Len(pending) + 1 : pending'[y] = pending[k]
      /\ \E y \in 1 .. Len(pending) + 1 : pending'[y] = tx
  BY <1>1, <1>2, PushKeeps
<1>5. LiveOf(txs) \subseteq ToSet(pending)
  BY DEF PoolInv, LiveOf, Live, Has
<1>6. LiveOf(txs') \subseteq ToSet(pending')
  <2> SUFFICES ASSUME NEW t \in LiveOf(txs') PROVE \E y \in 1 .. Len(pending) + 1 : pending'[y] = t
    BY <1>4 DEF ToSet
  <2>1. CASE t = tx
    BY <2>1, <1>4
  <2>2. CASE t \in LiveOf(txs)
    <3>1. PICK k \in 1 .. Len(pending) : pending[k] = t
      BY <2>2, <1>1, <1>5 DEF ToSet
    <3> QED
      BY <3>1, <1>4
  <2> QED
    BY <2>1, <2>2, <1>3
<1>7. PoolTypeOK'
  BY <1>3, <1>4 DEF PoolTypeOK, PoolInv, MapOK, Has, AddInsert, AddReturn
<1> QED
  BY <1>6, <1>7 DEF PoolInv, LiveOf, Live, Has

LEMMA AddReplacingKeeps ==
    ASSUME PoolInv, NEW p \in Procs, AddReplacing(p) PROVE PoolInv'
<1> DEFINE tx == adding[p]
           lowest == pending[LowestIdx]
           m == Without({HashOf[lowest]})
           rest == HeapRemove(Priority, pending, LowestIdx)
           n == Len(pending)
<1>1. tx \in Txs /\ MapOK(txs) /\ pending \in Seq(Txs) /\ pending # <<>> /\ PoolTypeOK
  BY DEF PoolInv, PoolTypeOK, AddReplacing, AddReturn, MapOK, Has, BeatsLowest
<1>2. txs' = [m EXCEPT ![HashOf[tx]] = tx] /\ pending' = HeapPush(Priority, rest, tx)
  BY Zenon DEF AddReplacing
<1>3. LowestIdx \in 1 .. n
  BY <1>1, LowestFacts
<1>4. rest \in Seq(Txs) /\ Leaves(pending, LowestIdx, rest)
  BY <1>1, <1>3, RemoveKeeps
<1>5. MapOK(m) /\ \A t : t \in LiveOf(m) <=> t \in LiveOf(txs) /\ HashOf[t] # HashOf[lowest]
  BY <1>1, WithoutFacts
<1> HIDE DEF tx, m, rest
<1>6. MapOK(txs') /\ \A t \in LiveOf(txs') : t = tx \/ t \in LiveOf(m)
  BY <1>1, <1>2, <1>5, PutFacts
<1>7. /\ pending' \in Seq(Txs) /\ Len(pending') = Len(rest) + 1
      /\ \A k \in 1 .. Len(rest) : \E y \in 1 .. Len(rest) + 1 : pending'[y] = rest[k]
      /\ \E y \in 1 .. Len(rest) + 1 : pending'[y] = tx
  <2> DEFINE u == HeapPush(Priority, rest, tx)
  <2>1. rest \in Seq(Txs) /\ tx \in Txs
    BY <1>1, <1>4
  <2>2. /\ u \in Seq(Txs) /\ Len(u) = Len(rest) + 1
        /\ \A k \in 1 .. Len(rest) : \E y \in 1 .. Len(rest) + 1 : u[y] = rest[k]
        /\ \E y \in 1 .. Len(rest) + 1 : u[y] = tx
    BY <2>1, PushKeeps
  <2> HIDE DEF u
  <2>3. pending' = u
    BY <1>2 DEF u
  <2> QED
    BY <2>2, <2>3
<1>8. LiveOf(txs) \subseteq ToSet(pending)
  BY DEF PoolInv, LiveOf, Live, Has
<1>9. LiveOf(txs') \subseteq ToSet(pending')
  <2> SUFFICES ASSUME NEW t \in LiveOf(txs') PROVE \E y \in 1 .. Len(rest) + 1 : pending'[y] = t
    BY <1>7 DEF ToSet
  <2>1. CASE t = tx
    BY <2>1, <1>7
  <2>2. CASE t \in LiveOf(m)
    <3>1. t \in LiveOf(txs) /\ HashOf[t] # HashOf[lowest]
      BY <2>2, <1>5
    <3>2. PICK k \in DOMAIN pending : pending[k] = t
      BY <3>1, <1>8 DEF ToSet
    <3>3. k # LowestIdx
      BY <3>1, <3>2
    <3>4. PICK y \in 1 .. n - 1 : rest[y] = t
      BY <3>2, <3>3, <1>4 DEF Leaves
    <3>5. y \in 1 .. Len(rest)
      BY <1>4 DEF Leaves
    <3> QED
      BY <3>4, <3>5, <1>7
  <2> QED
    BY <2>1, <2>2, <1>6
<1>10. PoolTypeOK'
  BY <1>6, <1>7 DEF PoolTypeOK, PoolInv, MapOK, Has, AddReplacing, AddReturn
<1> QED
  BY <1>9, <1>10 DEF PoolInv, LiveOf, Live, Has

LEMMA RebuildKeeps ==
    ASSUME PoolInv, NEW H, txs' = Without(H), RebuildHeap(txs'),
           UNCHANGED <<receivedAt, adding, now, loop, stopCh>>
    PROVE  PoolInv'
<1>1. MapOK(txs')
  BY WithoutFacts DEF PoolInv, PoolTypeOK, MapOK, Has
<1>2. PICK s \in SetToSeqs({txs'[hash] : hash \in Hashes} \ {NoTx}) :
           pending' = HeapInit(Priority, s)
  BY Zenon DEF RebuildHeap
<1>3. pending' \in Seq(Txs) /\ LiveOf(txs') \subseteq ToSet(pending')
  BY <1>1, <1>2, RebuildFacts, Zenon
<1>4. PoolTypeOK'
  BY <1>1, <1>3 DEF PoolTypeOK, PoolInv, MapOK, Has
<1> QED
  BY <1>3, <1>4 DEF PoolInv, LiveOf, Live, Has

LEMMA LazyRemovalKeeps ==
    ASSUME PoolInv, NEW H, txs' = Without(H),
           UNCHANGED <<pending, receivedAt, adding, now, loop, stopCh>>
    PROVE  PoolInv'
<1>1. MapOK(txs') /\ \A t \in LiveOf(txs') : t \in LiveOf(txs)
  BY WithoutFacts DEF PoolInv, PoolTypeOK, MapOK, Has
<1>2. LiveOf(txs') \subseteq ToSet(pending')
  BY <1>1 DEF PoolInv, LiveOf, Live, Has
<1>3. PoolTypeOK'
  BY <1>1 DEF PoolTypeOK, PoolInv, MapOK, Has
<1> QED
  BY <1>2, <1>3 DEF PoolInv, LiveOf, Live, Has

\* Which of the entries that Pop returns is the first that is live.
LEMMA FoundFacts ==
    ASSUME PoolTypeOK
    PROVE  LET found == SelectInSeq(Drained(pending), IsLive)
           IN  /\ found \in 0 .. Len(pending)
               /\ found > 0 => IsLive(Drained(pending)[found])
               /\ \A x \in 1 .. Len(pending) :
                     IsLive(Drained(pending)[x]) => found > 0 /\ found <= x
<1> DEFINE d == Drained(pending)
           I == {i \in 1 .. Len(d) : IsLive(d[i])}
           found == SelectInSeq(d, IsLive)
<1>1. pending \in Seq(Txs) /\ Len(pending) \in Nat
  BY DEF PoolTypeOK
<1>2. Len(d) = Len(pending)
  <2>1. Len(pending) \in 0 .. Len(pending)
    BY <1>1
  <2> QED
    BY <1>1, <2>1, PopsSplits DEF PopsSplit, Drained
<1>3. found = IF I # {} THEN Min(I) ELSE 0
  BY Zenon DEF SelectInSeq
<1> HIDE DEF d, found
<1>4. I \in SUBSET Nat /\ \A x \in I : x > 0
  BY <1>1, <1>2
<1>5. \A x \in 1 .. Len(pending) : IsLive(d[x]) => x \in I
  BY <1>2
<1>6. \A x \in I : IsLive(d[x]) /\ x \in 1 .. Len(pending)
  BY <1>2
<1> HIDE DEF I
<1>7. CASE I = {}
  BY <1>1, <1>3, <1>5, <1>7 DEF d, found
<1>8. CASE I # {}
  <2>1. found \in I /\ \A y \in I : found <= y
    BY <1>3, <1>4, <1>8, MinFacts
  <2>2. found > 0 /\ found \in 0 .. Len(pending) /\ IsLive(d[found])
    BY <1>1, <1>4, <1>6, <2>1
  <2>3. \A x \in 1 .. Len(pending) : IsLive(d[x]) => found > 0 /\ found <= x
    BY <1>5, <2>1, <2>2, Zenon
  <2> QED
    BY <2>2, <2>3, Zenon DEF d, found
<1> QED
  BY <1>7, <1>8, Zenon

LEMMA PopHighestKeeps ==
    ASSUME PoolInv, PopHighestPriority PROVE PoolInv'
<1> DEFINE d == Drained(pending)
           n == Len(pending)
           found == SelectInSeq(d, IsLive)
<1>1. pending \in Seq(Txs) /\ n \in Nat /\ DOMAIN pending = 1 .. n /\ MapOK(txs) /\ PoolTypeOK
  BY DEF PoolInv, PoolTypeOK, MapOK, Has
<1>2. /\ found \in 0 .. n /\ (found > 0 => IsLive(d[found]))
      /\ \A x \in 1 .. n : IsLive(d[x]) => found > 0 /\ found <= x
  BY <1>1, FoundFacts, Zenon
<1>3. \A k \in 0 .. n : PopsSplit(pending, Txs, k)
  BY <1>1, PopsSplits
<1>4. d = Pops(pending)[n].popped
  BY DEF Drained
<1>5. \A k \in 0 .. n : \A x \in 1 .. k : Pops(pending)[k].popped[x] = d[x]
  <2> TAKE k \in 0 .. n
  <2> TAKE x \in 1 .. k
  <2>1. x \in 1 .. n /\ n \in 0 .. n
    BY <1>1
  <2>2. Pops(pending)[k].popped[x] = Pops(pending)[x - 1].heap[1]
    BY <1>3, Zenon DEF PopsSplit
  <2>3. d[x] = Pops(pending)[x - 1].heap[1]
    <3>1. PopsSplit(pending, Txs, n)
      BY <1>3, <2>1
    <3>2. Pops(pending)[n].popped[x] = Pops(pending)[x - 1].heap[1]
      BY <2>1, <3>1, Zenon DEF PopsSplit
    <3> HIDE DEF d, n
    <3> QED
      BY <1>4, <3>2
  <2> QED
    BY <2>2, <2>3
<1>6. \A t \in LiveOf(txs) : (\E k \in 1 .. n : pending[k] = t) /\ t \in Txs /\ IsLive(t)
  <2>1. LiveOf(txs) \subseteq ToSet(pending)
    BY DEF PoolInv, LiveOf, Live, Has
  <2>2. \A t \in LiveOf(txs) : t \in Txs /\ txs[HashOf[t]] = t
    BY <1>1, LiveFacts
  <2> QED
    BY <2>1, <2>2, <1>1, MempoolAssumption DEF ToSet, IsLive, Has
<1> HIDE DEF d, n, found
<1>7. CASE found = 0
  <2>1. pending' = <<>> /\ txs' = txs
    BY <1>7, Zenon DEF PopHighestPriority, found, d
  <2>2. LiveOf(txs) = {}
    <3> SUFFICES ASSUME NEW t \in LiveOf(txs) PROVE FALSE
      OBVIOUS
    <3>1. PICK k \in 1 .. n : pending[k] = t
      BY <1>6
    <3>2. n \in 0 .. n /\ n - n = 0 /\ 1 .. 0 = {}
      BY <1>1
    <3>3. \E y \in 1 .. n : d[y] = t
      <4>1. PopsSplit(pending, Txs, n)
        BY <1>3, <3>2
      <4>2. \/ \E y \in 1 .. n : Pops(pending)[n].popped[y] = pending[k]
            \/ \E y \in 1 .. n - n : Pops(pending)[n].heap[y] = pending[k]
        BY <4>1, Zenon DEF PopsSplit, n
      <4> QED
        BY <1>4, <3>1, <3>2, <4>2
    <3>4. PICK y \in 1 .. n : d[y] = t
      BY <3>3
    <3>5. found > 0
      BY <1>2, <1>6, <3>4, Zenon
    <3> QED
      BY <1>7, <3>5
  <2>3. pending' \in Seq(Txs)
    BY <2>1
  <2>4. PoolTypeOK'
    BY <1>1, <2>1, <2>3 DEF PoolTypeOK, Has, PopHighestPriority
  <2>5. LiveOf(txs') \subseteq ToSet(pending')
    BY <2>1, <2>2
  <2> QED
    BY <2>4, <2>5 DEF PoolInv, LiveOf, Live, Has
<1>8. CASE found # 0
  <2> DEFINE top == d[found]
             q == Pops(pending)[found].heap
             p == Pops(pending)[found].popped
  <2>1. pending' = q /\ txs' = Without({HashOf[top]})
    BY <1>8, Zenon DEF PopHighestPriority, found, d
  <2>2. found \in 1 .. n
    BY <1>1, <1>2, <1>8
  <2>3. /\ q \in Seq(Txs) /\ Len(q) = n - found
        /\ \A x \in 1 .. found : p[x] = d[x]
        /\ \A x \in 1 .. n : \/ \E y \in 1 .. found : p[y] = pending[x]
                             \/ \E y \in 1 .. n - found : q[y] = pending[x]
    <3>1. found \in 0 .. n
      BY <1>2
    <3> QED
      BY <1>3, <1>5, <3>1, Zenon DEF PopsSplit, n
  <2> HIDE DEF q, p
  <2>4. MapOK(txs') /\ \A t : t \in LiveOf(txs') <=> t \in LiveOf(txs) /\ HashOf[t] # HashOf[top]
    BY <1>1, <2>1, WithoutFacts
  <2>5. ASSUME NEW t \in LiveOf(txs') PROVE \E y \in 1 .. n - found : q[y] = t
    <3>1. t \in LiveOf(txs) /\ HashOf[t] # HashOf[top]
      BY <2>4
    <3>2. PICK x \in 1 .. n : pending[x] = t
      BY <1>6, <3>1
    <3>3. ASSUME NEW y \in 1 .. found, p[y] = t PROVE FALSE
      <4>1. d[y] = t /\ IsLive(d[y])
        <5>1. p[y] = d[y] /\ p[y] = t /\ IsLive(t)
          BY <1>6, <2>3, <3>1, <3>3
        <5>2. d[y] = t
          BY <5>1
        <5> HIDE DEF top, q, p
        <5> QED
          BY <5>1, <5>2 DEF IsLive, Has
      <4>2. y \in 1 .. n
        BY <1>1, <2>2
      <4>3. found <= y
        BY <1>2, <4>1, <4>2
      <4>4. y = found
        BY <2>2, <4>3
      <4> QED
        BY <3>1, <4>1, <4>4
    <3> QED
      BY <2>3, <3>2, <3>3, Zenon
  <2>6. DOMAIN q = 1 .. n - found
    BY <2>3
  <2>7. LiveOf(txs') \subseteq ToSet(pending')
    BY <2>1, <2>5, <2>6 DEF ToSet
  <2>8. PoolTypeOK'
    BY <1>1, <2>1, <2>3, <2>4 DEF PoolTypeOK, Has, MapOK, PopHighestPriority
  <2> QED
    BY <2>7, <2>8 DEF PoolInv, LiveOf, Live, Has
<1> QED
  BY <1>7, <1>8

LEMMA OtherAddsKeep ==
    ASSUME PoolInv, NEW p \in Procs, AddReceive(p) \/ AddDuplicate(p) \/ AddFull(p)
    PROVE  PoolInv'
<1>1. txs' = txs /\ pending' = pending /\ UNCHANGED <<now, loop, stopCh>>
  BY DEF AddReceive, AddDuplicate, AddFull, AddReturn
<1>2. adding' \in [Procs -> Txs \cup {NoTx}] /\ receivedAt' \in [Txs -> 0 .. now]
  <2>1. now \in 0 .. now
    BY MempoolAssumption DEF PoolInv, PoolTypeOK
  <2> QED
    BY <2>1 DEF PoolInv, PoolTypeOK, AddReceive, AddDuplicate, AddFull, AddReturn
<1> QED
  BY <1>1, <1>2 DEF PoolInv, PoolTypeOK, Live, Has

LEMMA PoolInvInit == Init => PoolInv
<1> SUFFICES ASSUME Init PROVE PoolInv
  OBVIOUS
<1>1. PoolTypeOK
  <2>1. MaxTime \in Nat /\ 0 \in 0 .. MaxTime /\ 0 \in 0 .. 0
    BY MempoolAssumption
  <2>2. /\ txs \in [Hashes -> Txs \cup {NoTx}] /\ \A hash \in Hashes : ~Has(hash)
        /\ pending \in Seq(Txs) /\ adding \in [Procs -> Txs \cup {NoTx}]
        /\ receivedAt \in [Txs -> 0 .. now]
    BY <2>1 DEF Init, Has
  <2> QED
    BY <2>1, <2>2 DEF Init, PoolTypeOK
<1>2. Live = {}
  BY DEF Init, Live, Has
<1> QED
  BY <1>1, <1>2 DEF PoolInv

LEMMA SelectionKeepsPool ==
    ASSUME GetPending \/ \E l \in Limits : GetPendingBegin(l)
    PROVE  UNCHANGED <<pool, now>>
BY DEF GetPending, InitNext, PopSwap, DownNext, LessReads, ChildChosen, ParentChosen, InitSunk,
       PopSunk, GetPendingEnough, GetPendingReturn, GetPendingBegin, GetPendingLock

LEMMA PoolInvStep == PoolInv /\ [Next]_vars => PoolInv'
<1> SUFFICES ASSUME PoolInv, [Next]_vars PROVE PoolInv'
  OBVIOUS
<1>1. ASSUME NEW p \in Procs, Add(p) PROVE PoolInv'
  BY <1>1, AddInsertKeeps, AddReplacingKeeps, OtherAddsKeep DEF Add
<1>2. ASSUME NEW hash \in Hashes, RemoveTx(hash) PROVE PoolInv'
  BY <1>2, LazyRemovalKeeps DEF RemoveTx
<1>3. ASSUME NEW hashes \in SUBSET Hashes, RemoveBatch(hashes) PROVE PoolInv'
  <2>1. /\ txs' = Without(hashes) /\ (RebuildHeap(txs') \/ UNCHANGED pending)
        /\ UNCHANGED <<receivedAt, adding, now, loop, stopCh>>
    BY <1>3, Zenon DEF RemoveBatch
  <2> QED
    BY <2>1, LazyRemovalKeeps, RebuildKeeps
<1>4. CASE PopHighestPriority
  BY <1>4, PopHighestKeeps
<1>5. CASE RemoveExpired
  <2>1. /\ \E H : txs' = Without(H)
        /\ RebuildHeap(txs') /\ UNCHANGED <<receivedAt, adding, now, loop, stopCh>>
    BY <1>5, Zenon DEF RemoveExpired
  <2> QED
    BY <2>1, RebuildKeeps
<1>6. CASE Start \/ Stop \/ EndLoop \/ UNCHANGED <<pool, now>>
  <2>1. UNCHANGED <<txs, pending, receivedAt, adding, now>>
    BY <1>6 DEF Start, Stop, EndLoop, pool
  <2>2. loop' \in {"none", "running", "ended"} /\ stopCh' \in BOOLEAN
    <3>1. loop' \in {loop, "running", "ended"} /\ (stopCh' = stopCh \/ stopCh' = TRUE)
      BY <1>6, Zenon DEF Start, Stop, EndLoop, pool
    <3>2. loop \in {"none", "running", "ended"} /\ stopCh \in BOOLEAN
      BY DEF PoolInv, PoolTypeOK
    <3> QED
      BY <3>1, <3>2
  <2> QED
    BY <2>1, <2>2 DEF PoolInv, PoolTypeOK, Live, Has
<1>7. CASE Tick
  <2>1. now' \in 0 .. MaxTime /\ 0 .. now \subseteq 0 .. now'
    BY <1>7, MempoolAssumption DEF Tick, PoolInv, PoolTypeOK
  <2> QED
    BY <1>7, <2>1 DEF Tick, pool, PoolInv, PoolTypeOK, Live, Has
<1>8. CASE GetPending \/ (\E l \in Limits : GetPendingBegin(l)) \/ UNCHANGED vars
  BY <1>6, <1>8, SelectionKeepsPool DEF vars
<1> QED
  BY <1>1, <1>2, <1>3, <1>4, <1>5, <1>6, <1>7, <1>8 DEF Next

LEMMA PoolInvariance == Spec => []PoolInv
<1> QED
  BY PoolInvInit, PoolInvStep, PTL DEF Spec

\* What an Add throws out of a full pool had an entry of lower priority than
\* the newcomer, and no higher than that of anything in the pool.
THEOREM EvictionsAreJust == Spec => EvictionJust
<1>1. PoolInv /\ [Next]_vars =>
        [\A p \in Procs : AddReplacing(p) =>
          \A hash \in {h \in Hashes : Has(h) /\ txs'[h] = NoTx} :
              \E e \in ToSet(pending) :
                  /\ HashOf[e] = hash
                  /\ Priority[e] < Priority[adding[p]]
                  /\ \A tx \in Live : Priority[e] <= Priority[tx]]_vars
  <2> SUFFICES ASSUME PoolInv, NEW p \in Procs, AddReplacing(p),
                      NEW hash \in Hashes, Has(hash), txs'[hash] = NoTx
               PROVE  \E e \in ToSet(pending) :
                         /\ HashOf[e] = hash
                         /\ Priority[e] < Priority[adding[p]]
                         /\ \A tx \in Live : Priority[e] <= Priority[tx]
    OBVIOUS
  <2> DEFINE tx == adding[p]
             e == pending[LowestIdx]
             n == Len(pending)
  <2>1. /\ PoolTypeOK /\ tx \in Txs /\ pending \in Seq(Txs) /\ pending # <<>>
        /\ Priority[tx] > Priority[Last(pending)]
    BY DEF PoolInv, PoolTypeOK, AddReplacing, AddReturn, BeatsLowest
  <2>2. LowestIdx \in 1 .. n /\ \A j \in 1 .. n : Priority[e] <= Priority[pending[j]]
    BY <2>1, LowestFacts
  <2>3. n \in 1 .. n /\ Last(pending) = pending[n] /\ DOMAIN pending = 1 .. n
    BY <2>1 DEF Last
  <2>4. HashOf[e] = hash
    <3>1. txs' = [Without({HashOf[e]}) EXCEPT ![HashOf[tx]] = tx]
      BY Zenon DEF AddReplacing
    <3>2. HashOf[tx] # hash
      BY <2>1, <3>1, MempoolAssumption DEF Without
    <3>3. Without({HashOf[e]})[hash] = NoTx
      BY <3>1, <3>2 DEF Without
    <3> QED
      BY <3>3 DEF Without, Has
  <2>5. e \in Txs /\ e \in ToSet(pending)
    BY <2>1, <2>2, <2>3 DEF ToSet
  <2>6. Priority[e] < Priority[tx]
    <3>1. /\ Priority[e] \in Nat /\ Priority[tx] \in Nat /\ Priority[pending[n]] \in Nat
          /\ Priority[e] <= Priority[pending[n]] /\ Priority[tx] > Priority[pending[n]]
      BY <2>1, <2>2, <2>3, <2>5, PriorityIsNat
    <3> QED
      BY <3>1
  <2>7. \A t \in Live : Priority[e] <= Priority[t]
    BY <2>2, <2>3 DEF PoolInv, ToSet
  <2> QED
    BY <2>4, <2>5, <2>6, <2>7
<1> QED
  BY <1>1, PoolInvariance, PTL DEF Spec, EvictionJust

-----------------------------------------------------------------------------
(* The order of a heap.                                                    *)

\* No element from m on, among the first n, is below one of its children.
HeapFrom(rank, h, m, n) ==
    \A k \in m .. n : \A c \in {2 * k, 2 * k + 1} : c <= n => rank[h[k]] >= rank[h[c]]

LEMMA RootIsMax ==
    ASSUME NEW rank \in [Txs -> Int], NEW h \in Seq(Txs), HeapFrom(rank, h, 1, Len(h))
    PROVE  \A x \in 1 .. Len(h) : rank[h[1]] >= rank[h[x]]
<1> DEFINE n == Len(h)
           Above1 == {x \in 1 .. n : ~(rank[h[1]] >= rank[h[x]])}
<1> SUFFICES ASSUME Above1 # {} PROVE FALSE
  OBVIOUS
<1>1. n \in Nat /\ \A x \in 1 .. n : rank[h[x]] \in Int
  OBVIOUS
<1>2. Above1 \in SUBSET Nat
  BY <1>1
<1> HIDE DEF n
<1>3. PICK x \in Above1 : \A y \in Above1 : x <= y
  <2> HIDE DEF Above1
  <2> QED
    BY <1>2, LeastExists
<1>4. x # 1
  BY <1>1, <1>3
<1> DEFINE k == x \div 2
<1>5. x \in 1 .. n /\ x > 1 /\ 1 \in 1 .. n
  BY <1>1, <1>3, <1>4
<1>6. k \in 1 .. n /\ k < x /\ x \in {2 * k, 2 * k + 1} /\ x <= n
  <2>1. x = 2 * (x \div 2) \/ x = 2 * (x \div 2) + 1
    BY <1>5
  <2> QED
    BY <1>1, <1>5, <2>1
<1> HIDE DEF k
<1>7. rank[h[k]] >= rank[h[x]]
  BY <1>6, Zenon DEF HeapFrom, n
<1>8. k \notin Above1
  BY <1>1, <1>3, <1>6
<1>9. rank[h[1]] >= rank[h[k]]
  BY <1>6, <1>8
<1> QED
  BY <1>1, <1>3, <1>5, <1>6, <1>7, <1>9

-----------------------------------------------------------------------------
(* The transactions of the map.                                            *)

\* As many hashes are taken as there are transactions in the map.
LEMMA SizeFacts ==
    ASSUME PoolTypeOK
    PROVE  IsFiniteSet(Live) /\ Cardinality(Live) = Size /\ Size \in Nat /\ Live \subseteq Txs
<1> DEFINE H == {hash \in Hashes : Has(hash)}
           f == [t \in Live |-> HashOf[t]]
<1>1. Live \subseteq Txs
  BY DEF Live, PoolTypeOK, Has
<1>2. IsFiniteSet(Live) /\ Cardinality(Live) \in Nat
  BY <1>1, MempoolAssumption, FS_Subset, FS_CardinalityType
<1>3. \A t \in Live : HashOf[t] \in H /\ txs[HashOf[t]] = t
  BY DEF Live, PoolTypeOK, Has
<1>4. \A hash \in H : txs[hash] \in Live /\ HashOf[txs[hash]] = hash
  BY DEF Live, PoolTypeOK, Has
<1> HIDE DEF H
<1>5. f \in Bijection(Live, H)
  <2>1. f \in [Live -> H]
    BY <1>3
  <2>2. \A a, b \in Live : f[a] = f[b] => a = b
    BY <1>3
  <2>3. \A hash \in H : \E t \in Live : f[t] = hash
    BY <1>4
  <2> QED
    BY <2>1, <2>2, <2>3 DEF Bijection, Injection, Surjection, IsInjective
<1>6. Cardinality(H) = Cardinality(Live)
  <2>1. ExistsBijection(Live, H)
    BY <1>5 DEF ExistsBijection
  <2> QED
    BY <1>2, <2>1, FS_Bijection
<1> QED
  BY <1>1, <1>2, <1>6 DEF Size, H

-----------------------------------------------------------------------------
(* The invariant of a call of GetPending.                                  *)

Sinking == stage \in {"down", "children", "parent", "sunk"}

\* The element from which on heapCopy is a heap, but for the one that sinks.
From == IF start > 0 THEN start ELSE 1

\* What a call has at each of its steps.
ControlOK ==
    /\ stage = "idle" => result = <<>> /\ seen = Unread /\ steady /\ settled = 0
    /\ stage \in {"loop", "done"} => start = 0 /\ Len(result) <= limit
    /\ stage = "init" \/ start > 0 => result = <<>> /\ 2 * start <= Len(heapCopy)
    /\ Sinking => at \in From .. Len(heapCopy)
    /\ Sinking /\ start > 0 => within = Len(heapCopy)
    /\ Sinking /\ start = 0 => within = Len(heapCopy) - 1 /\ Len(result) < limit
    /\ stage = "children" => 2 * at < within /\ child = 2 * at
    /\ stage = "parent" => child \in {2 * at, 2 * at + 1} /\ child <= within
    /\ seen # Unread => stage \in {"children", "parent"}
    /\ stage = "done" => Len(result) = limit \/ heapCopy = <<>>
    /\ settled <= Len(result) /\ (steady => settled = Len(result))

\* The entries of the heap are in the copy, at f, or in the answer, at g, each
\* once, and only those that are not live have been left out.
Places(f, g) ==
    /\ f \in [1 .. Len(heapCopy) -> 1 .. Len(pending)]
    /\ g \in [1 .. Len(result) -> 1 .. Len(pending)]
    /\ \A x \in 1 .. Len(heapCopy) : heapCopy[x] = pending[f[x]]
    /\ \A y \in 1 .. Len(result) : result[y] = pending[g[y]]
    /\ \A x, y \in 1 .. Len(heapCopy) : f[x] = f[y] => x = y
    /\ \A x, y \in 1 .. Len(result) : g[x] = g[y] => x = y
    /\ \A x \in 1 .. Len(heapCopy), y \in 1 .. Len(result) : f[x] # g[y]
    /\ \A e \in 1 .. Len(pending) :
          IsLive(pending[e]) => \/ \E x \in 1 .. Len(heapCopy) : f[x] = e
                                \/ \E y \in 1 .. Len(result) : g[y] = e

EntriesOK ==
    stage # "idle" => /\ \A y \in 1 .. Len(result) : IsLive(result[y])
                      /\ \E f, g : Places(f, g)

\* The same as HeapFrom, but element i may still have to sink.
HeapBut(rank, h, m, n, i) ==
    /\ \A k \in m .. n : k # i => \A c \in {2 * k, 2 * k + 1} : c <= n => rank[h[k]] >= rank[h[c]]
    /\ i \div 2 >= m => \A c \in {2 * i, 2 * i + 1} : c <= n => rank[h[i \div 2]] >= rank[h[c]]

\* While no changed priority was met the copy becomes a heap and stays one.
OrderOK ==
    steady =>
        /\ stage = "init" => HeapFrom(known, heapCopy, start + 1, Len(heapCopy))
        /\ stage = "loop" => HeapFrom(known, heapCopy, 1, Len(heapCopy))
        /\ stage \in {"down", "children", "parent"} => HeapBut(known, heapCopy, From, within, at)
        /\ stage = "sunk" => HeapFrom(known, heapCopy, From, within)
        /\ stage = "children" /\ seen # Unread => seen = known[heapCopy[2 * at + 1]]
        /\ stage = "parent" =>
              /\ seen # Unread => seen = known[heapCopy[child]]
              /\ \A c \in {2 * at, 2 * at + 1} :
                    c <= within => known[heapCopy[child]] >= known[heapCopy[c]]
        /\ Sinking /\ start = 0 =>
              \A k \in 1 .. within : known[heapCopy[Len(heapCopy)]] >= known[heapCopy[k]]

\* What was chosen then is in order, and nothing is higher that is still to come.
ResultsOK ==
    \A x \in 1 .. settled :
        /\ \A y \in x .. Len(result) : known[result[x]] >= known[result[y]]
        /\ \A k \in 1 .. Len(heapCopy) : known[result[x]] >= known[heapCopy[k]]

SelectionInv == SelectionTypeOK /\ ControlOK /\ EntriesOK /\ OrderOK /\ ResultsOK

-----------------------------------------------------------------------------
(* What GetPending does to its copy.                                       *)

LEMMA SwapFacts ==
    ASSUME NEW h \in Seq(Txs), NEW i \in 1 .. Len(h), NEW j \in 1 .. Len(h)
    PROVE  /\ SwapAt(h, i, j) \in Seq(Txs) /\ Len(SwapAt(h, i, j)) = Len(h)
           /\ \A k \in 1 .. Len(h) : SwapAt(h, i, j)[k] =
                 IF k = j THEN h[i] ELSE IF k = i THEN h[j] ELSE h[k]
<1> DEFINE g == [h EXCEPT ![i] = h[j]]
<1>1. h[i] \in Txs /\ h[j] \in Txs
  OBVIOUS
<1>2. g \in Seq(Txs) /\ Len(g) = Len(h) /\ \A k \in 1 .. Len(h) : g[k] = IF k = i THEN h[j] ELSE h[k]
  BY <1>1, ExceptSeq
<1> HIDE DEF g
<1>3. /\ [g EXCEPT ![j] = h[i]] \in Seq(Txs) /\ Len([g EXCEPT ![j] = h[i]]) = Len(g)
      /\ \A k \in 1 .. Len(g) : [g EXCEPT ![j] = h[i]][k] = IF k = j THEN h[i] ELSE g[k]
  BY <1>1, <1>2, ExceptSeq
<1>4. SwapAt(h, i, j) = [g EXCEPT ![j] = h[i]]
  BY DEF SwapAt, g
<1> QED
  BY <1>2, <1>3, <1>4

\* The element that sinks changes places with its preferred child.
LEMMA SwapHeaps ==
    ASSUME NEW rank \in [Txs -> Int], NEW h \in Seq(Txs), NEW n \in 0 .. Len(h),
           NEW m \in Nat \ {0}, NEW i \in Nat, i >= m, NEW p \in {2 * i, 2 * i + 1}, p <= n,
           HeapBut(rank, h, m, n, i), rank[h[p]] > rank[h[i]],
           \A c \in {2 * i, 2 * i + 1} : c <= n => rank[h[p]] >= rank[h[c]]
    PROVE  HeapBut(rank, SwapAt(h, i, p), m, n, p)
<1> DEFINE r == SwapAt(h, i, p)
<1>1. /\ n \in Nat /\ n <= Len(h) /\ i \in 1 .. n /\ p \in 1 .. n /\ p > i /\ p \div 2 = i
      /\ i \in 1 .. Len(h) /\ p \in 1 .. Len(h)
  OBVIOUS
<1>2. \A k \in 1 .. n : r[k] = IF k = p THEN h[i] ELSE IF k = i THEN h[p] ELSE h[k]
  <2>1. \A k \in 1 .. Len(h) : r[k] = IF k = p THEN h[i] ELSE IF k = i THEN h[p] ELSE h[k]
    <3>1. i \in 1 .. Len(h) /\ p \in 1 .. Len(h)
      BY <1>1
    <3>2. ASSUME NEW j \in 1 .. Len(h), j = p
          PROVE  \A k \in 1 .. Len(h) : SwapAt(h, i, j)[k] =
                    IF k = j THEN h[i] ELSE IF k = i THEN h[j] ELSE h[k]
      BY <3>1, SwapFacts
    <3> QED
      BY <3>1, <3>2
  <2> HIDE DEF r
  <2>2. \A k \in 1 .. n : k \in 1 .. Len(h)
    BY <1>1
  <2> QED
    BY <2>1, <2>2
<1>3. \A k \in 1 .. n : rank[h[k]] \in Int
  BY <1>1
<1> HIDE DEF r
<1>4. ASSUME NEW k \in m .. n, k # p, NEW c \in {2 * k, 2 * k + 1}, c <= n
      PROVE  rank[r[k]] >= rank[r[c]]
  <2>1. k \in 1 .. n /\ c \in 1 .. n /\ c > k /\ c \div 2 = k
    BY <1>1, <1>4
  <2>2. CASE k = i
    <3>1. r[k] = h[p] /\ c # i
      BY <1>1, <1>2, <2>1, <2>2
    <3>2. CASE c = p
      BY <1>1, <1>2, <1>3, <2>1, <3>1, <3>2
    <3>3. CASE c # p
      <4>1. r[c] = h[c]
        BY <1>2, <2>1, <3>1, <3>3
      <4> QED
        BY <1>4, <2>2, <3>1, <4>1
    <3> QED
      BY <3>2, <3>3
  <2>3. CASE k # i
    <3>1. r[k] = h[k]
      BY <1>2, <1>4, <2>1, <2>3
    <3>2. rank[h[k]] >= rank[h[c]]
      BY <1>4, <2>3 DEF HeapBut
    <3>3. CASE c = i
      <4>1. i \div 2 = k /\ r[c] = h[p]
        BY <1>1, <1>2, <2>1, <3>3
      <4>2. i \div 2 >= m
        BY <1>4, <4>1
      <4>3. rank[h[i \div 2]] >= rank[h[p]]
        BY <4>2 DEF HeapBut
      <4> QED
        BY <3>1, <4>1, <4>3
    <3>4. CASE c # i
      <4>1. c # p
        BY <1>1, <2>1, <2>3
      <4>2. r[c] = h[c]
        BY <1>2, <2>1, <3>4, <4>1
      <4> QED
        BY <3>1, <3>2, <4>2
    <3> QED
      BY <3>3, <3>4
  <2> QED
    BY <2>2, <2>3
<1>5. ASSUME NEW c \in {2 * p, 2 * p + 1}, c <= n
      PROVE  rank[r[p \div 2]] >= rank[r[c]]
  <2>1. c \in 1 .. n /\ c > p /\ c # i /\ p # i
    BY <1>1, <1>5
  <2>2. r[i] = h[p] /\ r[c] = h[c]
    BY <1>1, <1>2, <2>1
  <2>3. p \in m .. n
    BY <1>1
  <2>4. rank[h[p]] >= rank[h[c]]
    BY <1>5, <2>1, <2>3 DEF HeapBut
  <2> QED
    BY <1>1, <2>2, <2>4
<1> QED
  BY <1>4, <1>5 DEF HeapBut, r

\* It has sunk when neither child goes before it.
LEMMA SunkHeaps ==
    ASSUME NEW rank, NEW h, NEW m \in Nat, NEW n \in Int, NEW i, HeapBut(rank, h, m, n, i),
           \A c \in {2 * i, 2 * i + 1} : c <= n => rank[h[i]] >= rank[h[c]]
    PROVE  HeapFrom(rank, h, m, n)
BY DEF HeapBut, HeapFrom

LEMMA RaisedHeaps ==
    ASSUME NEW rank, NEW h, NEW n \in Nat, NEW m \in Nat \ {0}, HeapFrom(rank, h, m + 1, n)
    PROVE  HeapBut(rank, h, m, n, m)
<1>1. ~(m \div 2 >= m)
  OBVIOUS
<1>2. \A k \in m .. n : k # m => k \in m + 1 .. n
  OBVIOUS
<1> QED
  BY <1>1, <1>2 DEF HeapBut, HeapFrom

\* The root changes places with the last element.
LEMMA RootLeaves ==
    ASSUME NEW rank \in [Txs -> Int], NEW h \in Seq(Txs), h # <<>>,
           HeapFrom(rank, h, 1, Len(h))
    PROVE  LET r == SwapAt(h, 1, Len(h))
               n == Len(h) - 1
           IN  /\ HeapBut(rank, r, 1, n, 1)
               /\ \A k \in 1 .. n : rank[r[Len(h)]] >= rank[r[k]]
<1> DEFINE r == SwapAt(h, 1, Len(h))
           n == Len(h) - 1
<1>1. n \in Nat /\ Len(h) = n + 1 /\ 1 \in 1 .. Len(h) /\ Len(h) \in 1 .. Len(h)
  OBVIOUS
<1>2. \A k \in 1 .. Len(h) : r[k] = IF k = Len(h) THEN h[1] ELSE IF k = 1 THEN h[Len(h)] ELSE h[k]
  BY <1>1, SwapFacts
<1> HIDE DEF r
<1>3. \A k \in 1 .. Len(h) : rank[h[1]] >= rank[h[k]]
  BY RootIsMax, Zenon
<1>4. ASSUME NEW k \in 1 .. n PROVE rank[r[Len(h)]] >= rank[r[k]]
  <2>1. k \in 1 .. Len(h) /\ k # Len(h)
    <3> HIDE DEF n
    <3> QED
      BY <1>1, <1>4
  <2>2. r[Len(h)] = h[1] /\ r[k] \in {h[Len(h)], h[k]}
    BY <1>1, <1>2, <2>1
  <2> QED
    BY <1>1, <1>3, <2>1, <2>2
<1>5. ASSUME NEW k \in 1 .. n, k # 1, NEW c \in {2 * k, 2 * k + 1}, c <= n
      PROVE  rank[r[k]] >= rank[r[c]]
  <2>0. c = 2 * k \/ c = 2 * k + 1
    BY <1>5
  <2>1. k \in 1 .. Len(h) /\ c \in 1 .. Len(h) /\ k # Len(h) /\ c # Len(h) /\ c # 1 /\ c <= Len(h)
    <3> HIDE DEF n
    <3> QED
      BY <1>1, <1>5, <2>0
  <2>2. r[k] = h[k] /\ r[c] = h[c]
    BY <1>2, <1>5, <2>1
  <2> QED
    BY <2>1, <2>2 DEF HeapFrom
<1>6. ~(1 \div 2 >= 1)
  OBVIOUS
<1>7. HeapBut(rank, r, 1, n, 1)
  BY <1>5, <1>6 DEF HeapBut
<1> QED
  BY <1>4, <1>7 DEF r

-----------------------------------------------------------------------------
(* What its steps keep.                                                    *)

LEMMA EntriesSame ==
    ASSUME EntriesOK, stage # "idle", UNCHANGED <<txs, pending, heapCopy, result>>
    PROVE  EntriesOK'
BY DEF EntriesOK, Places, IsLive, Has

LEMMA ResultsSame ==
    ASSUME ResultsOK, UNCHANGED <<heapCopy, result, known, settled>>
    PROVE  ResultsOK'
BY DEF ResultsOK

LEMMA KnownFacts ==
    ASSUME SelectionTypeOK, stage # "idle"
    PROVE  /\ heapCopy \in Seq(Txs) /\ result \in Seq(Txs) /\ known \in [Txs -> Int]
           /\ \A k \in 1 .. Len(heapCopy) : known[heapCopy[k]] \in Nat
           /\ \A y \in 1 .. Len(result) : known[result[y]] \in Nat
BY DEF SelectionTypeOK

\* Entries of the copy change places.
LEMMA SwapKeeps ==
    ASSUME SelectionTypeOK, stage # "idle", EntriesOK, ResultsOK,
           NEW i \in 1 .. Len(heapCopy), NEW j \in 1 .. Len(heapCopy),
           heapCopy' = SwapAt(heapCopy, i, j),
           UNCHANGED <<txs, pending, result, known, settled>>
    PROVE  EntriesOK' /\ ResultsOK'
<1> DEFINE n == Len(heapCopy)
           to == [x \in 1 .. n |-> IF x = j THEN i ELSE IF x = i THEN j ELSE x]
<1>1. /\ Len(heapCopy') = n
      /\ \A x \in 1 .. n : heapCopy'[x] = heapCopy[to[x]]
  <2>1. heapCopy \in Seq(Txs)
    BY DEF SelectionTypeOK
  <2>2. /\ Len(SwapAt(heapCopy, i, j)) = n
        /\ \A x \in 1 .. n : SwapAt(heapCopy, i, j)[x] =
              IF x = j THEN heapCopy[i] ELSE IF x = i THEN heapCopy[j] ELSE heapCopy[x]
    BY <2>1, SwapFacts
  <2> QED
    BY <2>2
<1>2. /\ to \in [1 .. n -> 1 .. n] /\ \A x \in 1 .. n : to[to[x]] = x
  OBVIOUS
<1> HIDE DEF to
<1>3. EntriesOK'
  <2>1. PICK f, g : Places(f, g)
    BY DEF EntriesOK
  <2>0. PICK s : s = [x \in 1 .. n |-> f[to[x]]]
    OBVIOUS
  <2>2. /\ f \in [1 .. n -> 1 .. Len(pending)]
        /\ \A x \in 1 .. n : heapCopy[x] = pending[f[x]]
        /\ \A x, y \in 1 .. n : f[x] = f[y] => x = y
        /\ \A x \in 1 .. n, y \in 1 .. Len(result) : f[x] # g[y]
    BY <2>1 DEF Places
  <2>3. /\ s \in [1 .. n -> 1 .. Len(pending)]
        /\ \A x \in 1 .. n : heapCopy'[x] = pending[s[x]]
        /\ \A x \in 1 .. n, y \in 1 .. Len(result) : s[x] # g[y]
    BY <1>1, <1>2, <2>0, <2>2
  <2>4. \A x, y \in 1 .. n : s[x] = s[y] => x = y
    <3> SUFFICES ASSUME NEW x \in 1 .. n, NEW y \in 1 .. n, s[x] = s[y] PROVE x = y
      OBVIOUS
    <3>1. to[x] = to[y]
      BY <1>2, <2>0, <2>2
    <3> QED
      BY <1>2, <3>1
  <2>5. \A x \in 1 .. n : s[to[x]] = f[x] /\ to[x] \in 1 .. n
    BY <1>2, <2>0
  <2>6. \A e \in 1 .. Len(pending) :
            IsLive(pending[e]) => \/ \E x \in 1 .. n : s[x] = e
                                  \/ \E y \in 1 .. Len(result) : g[y] = e
    BY <2>1, <2>5 DEF Places
  <2>7. /\ g \in [1 .. Len(result) -> 1 .. Len(pending)]
        /\ \A y \in 1 .. Len(result) : result[y] = pending[g[y]]
        /\ \A x, y \in 1 .. Len(result) : g[x] = g[y] => x = y
    BY <2>1 DEF Places
  <2>8. UNCHANGED <<pending, result>> /\ Len(heapCopy') = n
    BY <1>1
  <2>9. \A e \in 1 .. Len(pending') :
            IsLive(pending[e])' => \/ \E x \in 1 .. Len(heapCopy') : s[x] = e
                                   \/ \E y \in 1 .. Len(result') : g[y] = e
    BY <2>6, <2>8 DEF IsLive, Has
  <2>10. Places(s, g)'
    BY <2>3, <2>4, <2>7, <2>8, <2>9 DEF Places
  <2> QED
    BY <2>10 DEF EntriesOK, IsLive, Has
<1>4. ResultsOK'
  <2>1. \A x \in 1 .. settled : \A k \in 1 .. n : known[result[x]] >= known[heapCopy'[k]]
    BY <1>1, <1>2 DEF ResultsOK
  <2> QED
    BY <1>1, <2>1 DEF ResultsOK
<1> QED
  BY <1>3, <1>4

\* A reading of a priority does not change how much of the answer is settled.
LEMMA ReadsKeeps ==
    ASSUME ControlOK, SelectionTypeOK, NEW k, Reads(k), UNCHANGED result
    PROVE  /\ settled' = settled /\ steady' \in BOOLEAN
           /\ settled' <= Len(result') /\ (steady' => settled' = Len(result'))
           /\ steady' => steady /\ Priority[heapCopy[k]] = known[heapCopy[k]]
<1>1. Len(result) \in Nat /\ settled \in Nat
  BY DEF SelectionTypeOK
<1> QED
  BY <1>1 DEF Reads, ControlOK, SelectionTypeOK

-----------------------------------------------------------------------------
(* GetPending, step by step.                                               *)

LEMMA BeginKeeps ==
    ASSUME PoolInv, SelectionInv, NEW l \in Limits, GetPendingBegin(l)
    PROVE  SelectionInv'
<1> USE DEF GetPendingBegin, GetPendingLock, Goes
<1> DEFINE n == Len(pending)
<1>1. /\ pending \in Seq(Txs) /\ n \in Nat /\ n \div 2 \in Nat /\ 2 * (n \div 2) <= n
      /\ Priority \in [Txs -> Nat] /\ UNCHANGED <<txs, pending>>
  BY PriorityIsNat DEF PoolInv, PoolTypeOK, pool
<1>2. Limit(l) \in 0 .. Size /\ Size' = Size
  <2>1. Size \in Nat /\ l \in Int
    BY SizeFacts, MempoolAssumption DEF PoolInv
  <2> QED
    BY <1>1, <2>1 DEF Limit, Size, Has
<1>3. /\ result = <<>> /\ seen = Unread /\ steady /\ settled = 0
      /\ UNCHANGED <<result, within, at, child, seen, steady, settled>>
  BY DEF SelectionInv, ControlOK
<1>4. SelectionTypeOK'
  BY <1>1, <1>2, <1>3 DEF SelectionInv, SelectionTypeOK
<1>5. ControlOK'
  BY <1>1, <1>3 DEF ControlOK, Sinking
<1>6. EntriesOK'
  <2>1. Places([x \in 1 .. n |-> x], <<>>)'
    <3>1. heapCopy' = pending /\ pending' = pending /\ Len(result') = 0
      BY <1>1, <1>3
    <3> QED
      BY <1>1, <3>1 DEF Places
  <2> QED
    BY <1>3, <2>1 DEF EntriesOK
<1>7. OrderOK'
  <2>1. HeapFrom(Priority, pending, n \div 2 + 1, n)
    <3>1. \A k \in n \div 2 + 1 .. n : 2 * k > n
      BY <1>1
    <3> QED
      BY <1>1, <3>1 DEF HeapFrom
  <2> QED
    BY <2>1 DEF OrderOK, Sinking
<1>8. ResultsOK'
  BY <1>3 DEF ResultsOK
<1> QED
  BY <1>4, <1>5, <1>6, <1>7, <1>8 DEF SelectionInv

\* What no step of GetPending touches.
LEMMA SelectionFrame ==
    ASSUME GetPending
    PROVE  UNCHANGED <<txs, pending>> /\ Size' = Size /\ stage # "idle"
<1>1. UNCHANGED <<txs, pending>>
  BY SelectionKeepsPool DEF pool
<1>2. stage # "idle"
  BY DEF GetPending, InitNext, PopSwap, DownNext, LessReads, ChildChosen, ParentChosen, InitSunk,
         PopSunk, GetPendingEnough, GetPendingReturn, Goes
<1> QED
  BY <1>1, <1>2 DEF Size, Has

LEMMA InitNextKeeps ==
    ASSUME SelectionInv, InitNext PROVE SelectionInv'
<1> USE DEF InitNext
<1>1. UNCHANGED <<txs, pending, limit, heapCopy, result, start, child, seen, known, steady, settled>>
      /\ Size' = Size /\ stage = "init"
  BY SelectionFrame DEF GetPending
<1>2. SelectionTypeOK /\ ControlOK /\ heapCopy \in Seq(Txs) /\ Len(heapCopy) \in Nat /\ start \in Nat
      /\ limit \in Nat
  BY <1>1 DEF SelectionInv, SelectionTypeOK
<1>3. result = <<>> /\ 2 * start <= Len(heapCopy) /\ seen = Unread
  BY <1>1, <1>2 DEF ControlOK
<1>4. SelectionTypeOK'
  BY <1>1, <1>2 DEF SelectionTypeOK
<1>5. ControlOK'
  BY <1>1, <1>2, <1>3 DEF ControlOK, Sinking, From
<1>6. OrderOK'
  <2> SUFFICES ASSUME steady' PROVE OrderOK'
    BY DEF OrderOK
  <2>1. HeapFrom(known, heapCopy, start + 1, Len(heapCopy))
    BY <1>1 DEF SelectionInv, OrderOK
  <2>2. CASE start = 0
    BY <1>1, <2>1, <2>2 DEF OrderOK, Sinking
  <2>3. CASE start # 0
    <3>1. start \in Nat \ {0} /\ stage' = "down" /\ within' = Len(heapCopy) /\ at' = start
      BY <1>2, <2>3
    <3>2. HeapBut(known, heapCopy, start, Len(heapCopy), start)
      BY <1>2, <2>1, <3>1, RaisedHeaps
    <3> QED
      BY <1>1, <3>1, <3>2 DEF OrderOK, From, Sinking
  <2> QED
    BY <2>2, <2>3
<1> QED
  BY <1>1, <1>4, <1>5, <1>6, EntriesSame, ResultsSame DEF SelectionInv

LEMMA PopSwapKeeps ==
    ASSUME SelectionInv, PopSwap PROVE SelectionInv'
<1> USE DEF PopSwap, Goes
<1> DEFINE n == Len(heapCopy)
<1>1. UNCHANGED <<txs, pending, limit, result, start, child, seen, known, steady, settled>>
      /\ Size' = Size /\ stage = "loop" /\ stage' = "down"
  BY SelectionFrame DEF GetPending
<1>2. SelectionTypeOK /\ ControlOK /\ heapCopy \in Seq(Txs) /\ n \in Nat
      /\ known \in [Txs -> Int] /\ heapCopy # <<>>
  BY <1>1, KnownFacts DEF SelectionInv, SelectionTypeOK
<1>3. /\ 1 \in 1 .. n /\ n \in 1 .. n /\ heapCopy' = SwapAt(heapCopy, 1, n)
      /\ within' = n - 1 /\ at' = 1
  BY <1>2
<1>4. heapCopy' \in Seq(Txs) /\ Len(heapCopy') = n
  BY <1>2, <1>3, SwapFacts
<1>5. start = 0 /\ seen = Unread
  BY <1>1, <1>2 DEF ControlOK
<1>6. SelectionTypeOK'
  BY <1>1, <1>2, <1>3, <1>4 DEF SelectionTypeOK
<1>7. ControlOK'
  BY <1>1, <1>2, <1>3, <1>4, <1>5 DEF ControlOK, Sinking, From
<1>8. OrderOK'
  <2> SUFFICES ASSUME steady' PROVE OrderOK'
    BY DEF OrderOK
  <2>1. HeapFrom(known, heapCopy, 1, n)
    BY <1>1 DEF SelectionInv, OrderOK
  <2>2. /\ HeapBut(known, heapCopy', 1, n - 1, 1)
        /\ \A k \in 1 .. n - 1 : known[heapCopy'[n]] >= known[heapCopy'[k]]
    BY <1>2, <1>3, <2>1, RootLeaves
  <2> QED
    BY <1>1, <1>3, <1>4, <1>5, <2>2 DEF OrderOK, From, Sinking
<1>9. EntriesOK' /\ ResultsOK'
  BY <1>1, <1>2, <1>3, SwapKeeps DEF SelectionInv
<1> QED
  BY <1>6, <1>7, <1>8, <1>9 DEF SelectionInv

LEMMA DownNextKeeps ==
    ASSUME SelectionInv, DownNext PROVE SelectionInv'
<1> USE DEF DownNext
<1>1. UNCHANGED <<txs, pending, limit, heapCopy, result, start, within, at, seen, known, steady, settled>>
      /\ Size' = Size /\ stage = "down"
  BY SelectionFrame DEF GetPending
<1>2. /\ SelectionTypeOK /\ ControlOK /\ Len(heapCopy) \in Nat /\ at \in Nat /\ within \in Nat
      /\ \A k \in 1 .. Len(heapCopy) : known[heapCopy[k]] \in Nat
  BY <1>1, KnownFacts DEF SelectionInv, SelectionTypeOK
<1>3. seen = Unread /\ at \in 1 .. Len(heapCopy) /\ within <= Len(heapCopy)
  BY <1>1, <1>2 DEF ControlOK, Sinking, From, SelectionTypeOK
<1>4. SelectionTypeOK'
  BY <1>1, <1>2 DEF SelectionTypeOK
<1>5. ControlOK'
  BY <1>1, <1>2, <1>3 DEF ControlOK, Sinking, From
<1>6. OrderOK'
  <2> SUFFICES ASSUME steady' PROVE OrderOK'
    BY DEF OrderOK
  <2>1. /\ HeapBut(known, heapCopy, From, within, at)
        /\ start = 0 => \A k \in 1 .. within : known[heapCopy[Len(heapCopy)]] >= known[heapCopy[k]]
    BY <1>1 DEF SelectionInv, OrderOK, Sinking
  <2>2. From' = From /\ From \in Nat
    BY <1>1, <1>2 DEF From, SelectionTypeOK
  <2>3. CASE 2 * at > within
    <3>1. HeapFrom(known, heapCopy, From, within)
      <4>1. \A ch \in {2 * at, 2 * at + 1} : ~(ch <= within)
        BY <1>2, <2>3
      <4> QED
        BY <1>2, <2>1, <2>2, <4>1, SunkHeaps
    <3> QED
      BY <1>1, <2>1, <2>2, <2>3, <3>1 DEF OrderOK, Sinking
  <2>4. CASE ~(2 * at > within)
    <3>1. child' = 2 * at /\ stage' \in {"children", "parent"} /\ (stage' = "parent" => 2 * at = within)
      BY <1>2, <2>4
    <3>2. stage' = "parent" => \A ch \in {2 * at, 2 * at + 1} :
                                  ch <= within => known[heapCopy[2 * at]] >= known[heapCopy[ch]]
      <4> SUFFICES ASSUME 2 * at = within, NEW ch \in {2 * at, 2 * at + 1}, ch <= within
                   PROVE  known[heapCopy[2 * at]] >= known[heapCopy[ch]]
        BY <3>1
      <4>1. ch = 2 * at /\ ch \in 1 .. Len(heapCopy)
        BY <1>2, <1>3
      <4> QED
        BY <1>2, <4>1
    <3> QED
      BY <1>1, <1>3, <2>1, <2>2, <3>1, <3>2 DEF OrderOK, Sinking
  <2> QED
    BY <2>3, <2>4
<1> QED
  BY <1>1, <1>4, <1>5, <1>6, EntriesSame, ResultsSame DEF SelectionInv

LEMMA LessReadsKeeps ==
    ASSUME PoolInv, SelectionInv, LessReads PROVE SelectionInv'
<1> DEFINE k == IF stage = "children" THEN 2 * at + 1 ELSE child
<1>1. /\ UNCHANGED <<txs, pending, stage, limit, heapCopy, result, start, within, at, child, known>>
      /\ Size' = Size /\ stage \in {"children", "parent"}
      /\ seen' = Priority[heapCopy[k]] /\ Reads(k)
  BY SelectionFrame DEF GetPending, LessReads
<1>2. SelectionTypeOK /\ ControlOK /\ OrderOK /\ Len(heapCopy) \in Nat /\ at \in Nat /\ within \in Nat /\ child \in Nat
  BY <1>1 DEF SelectionInv, SelectionTypeOK
<1>3. within <= Len(heapCopy) /\ at \in 1 .. Len(heapCopy) /\ k \in 1 .. Len(heapCopy)
  BY <1>1, <1>2 DEF ControlOK, Sinking, From, SelectionTypeOK
<1>4. Priority[heapCopy[k]] \in Nat
  <2>1. heapCopy[k] \in Txs
    BY <1>2, <1>3 DEF SelectionTypeOK
  <2> QED
    BY <2>1, PriorityIsNat DEF PoolInv
<1>5. /\ settled' = settled /\ steady' \in BOOLEAN
      /\ settled' <= Len(result') /\ (steady' => settled' = Len(result'))
      /\ steady' => steady /\ seen' = known[heapCopy[k]]
  BY <1>1, <1>2, ReadsKeeps
<1>6. SelectionTypeOK'
  BY <1>1, <1>2, <1>4, <1>5 DEF SelectionTypeOK
<1>7. ControlOK'
  BY <1>1, <1>2, <1>5 DEF ControlOK, Sinking, From
<1>8. OrderOK'
  BY <1>1, <1>2, <1>5 DEF OrderOK, Sinking, From
<1> QED
  BY <1>1, <1>5, <1>6, <1>7, <1>8, EntriesSame, ResultsSame DEF SelectionInv

LEMMA ChildChosenKeeps ==
    ASSUME PoolInv, SelectionInv, ChildChosen PROVE SelectionInv'
<1>1. /\ UNCHANGED <<txs, pending, limit, heapCopy, result, start, within, at, known>>
      /\ Size' = Size /\ stage = "children" /\ stage' = "parent"
      /\ seen # Unread /\ seen' = Unread /\ Reads(2 * at)
      /\ child' = IF seen > Priority[heapCopy[2 * at]] THEN 2 * at + 1 ELSE 2 * at
  BY SelectionFrame DEF GetPending, ChildChosen, Goes
<1>2. /\ SelectionTypeOK /\ ControlOK /\ OrderOK /\ Len(heapCopy) \in Nat /\ at \in Nat /\ within \in Nat
      /\ \A x \in 1 .. Len(heapCopy) : known[heapCopy[x]] \in Nat
  BY <1>1, KnownFacts DEF SelectionInv, SelectionTypeOK
<1>3. within <= Len(heapCopy) /\ at \in 1 .. Len(heapCopy) /\ 2 * at < within
  BY <1>1, <1>2 DEF ControlOK, Sinking, From, SelectionTypeOK
<1>4. /\ settled' = settled /\ steady' \in BOOLEAN
      /\ settled' <= Len(result') /\ (steady' => settled' = Len(result'))
      /\ steady' => steady /\ Priority[heapCopy[2 * at]] = known[heapCopy[2 * at]]
  BY <1>1, <1>2, ReadsKeeps
<1>5. child' \in Nat /\ child' \in {2 * at, 2 * at + 1} /\ child' <= within
  BY <1>1, <1>2, <1>3
<1>6. SelectionTypeOK'
  BY <1>1, <1>2, <1>4, <1>5 DEF SelectionTypeOK
<1>7. ControlOK'
  BY <1>1, <1>2, <1>4, <1>5 DEF ControlOK, Sinking, From
<1>8. steady' => \A ch \in {2 * at, 2 * at + 1} :
                    ch <= within => known[heapCopy[child']] >= known[heapCopy[ch]]
  <2> SUFFICES ASSUME steady' PROVE known[heapCopy[child']] >= known[heapCopy[2 * at]] /\
                                    known[heapCopy[child']] >= known[heapCopy[2 * at + 1]]
    OBVIOUS
  <2>1. /\ seen = known[heapCopy[2 * at + 1]] /\ Priority[heapCopy[2 * at]] = known[heapCopy[2 * at]]
    BY <1>1, <1>2, <1>4 DEF OrderOK
  <2>2. known[heapCopy[2 * at]] \in Nat /\ known[heapCopy[2 * at + 1]] \in Nat
    BY <1>2, <1>3
  <2> QED
    BY <1>1, <2>1, <2>2
<1>9. OrderOK'
  BY <1>1, <1>2, <1>4, <1>8 DEF OrderOK, Sinking, From
<1> QED
  BY <1>1, <1>4, <1>6, <1>7, <1>9, EntriesSame, ResultsSame DEF SelectionInv

LEMMA ParentChosenKeeps ==
    ASSUME PoolInv, SelectionInv, ParentChosen PROVE SelectionInv'
<1> DEFINE n == Len(heapCopy)
           sinks == seen > Priority[heapCopy[at]]
<1>1. /\ UNCHANGED <<txs, pending, limit, result, start, within, child, known>>
      /\ Size' = Size /\ stage = "parent"
      /\ seen # Unread /\ seen' = Unread /\ Reads(at)
      /\ sinks => stage' = "down" /\ heapCopy' = SwapAt(heapCopy, at, child) /\ at' = child
      /\ ~sinks => stage' = "sunk" /\ UNCHANGED <<heapCopy, at>>
  BY SelectionFrame DEF GetPending, ParentChosen
<1>2. /\ SelectionTypeOK /\ ControlOK /\ OrderOK /\ n \in Nat /\ within \in Nat
      /\ heapCopy \in Seq(Txs) /\ known \in [Txs -> Int] /\ From \in Nat \ {0} /\ From' = From
      /\ \A x \in 1 .. n : known[heapCopy[x]] \in Nat
  BY <1>1, KnownFacts DEF SelectionInv, SelectionTypeOK, From
<1>3. /\ within \in 0 .. n /\ at \in Nat /\ at \in 1 .. n /\ at >= From /\ child \in 1 .. n
      /\ child \in {2 * at, 2 * at + 1} /\ child <= within /\ child >= From
  <2>1. /\ at \in From .. n /\ child \in {2 * at, 2 * at + 1} /\ child <= within
        /\ within <= n
    BY <1>1, <1>2 DEF ControlOK, Sinking, SelectionTypeOK
  <2> QED
    BY <1>2, <2>1
<1>4. /\ settled' = settled /\ steady' \in BOOLEAN
      /\ settled' <= Len(result') /\ (steady' => settled' = Len(result'))
      /\ steady' => steady /\ Priority[heapCopy[at]] = known[heapCopy[at]]
  BY <1>1, <1>2, ReadsKeeps
<1>5. /\ steady' => HeapBut(known, heapCopy, From, within, at)
      /\ steady' => seen = known[heapCopy[child]]
      /\ steady' => \A ch \in {2 * at, 2 * at + 1} :
                       ch <= within => known[heapCopy[child]] >= known[heapCopy[ch]]
      /\ steady' => (start = 0 => \A k \in 1 .. within : known[heapCopy[n]] >= known[heapCopy[k]])
  BY <1>1, <1>2, <1>4 DEF OrderOK, Sinking
<1>6. CASE ~sinks
  <2>1. UNCHANGED <<heapCopy, at>> /\ stage' = "sunk"
    BY <1>1, <1>6
  <2>2. SelectionTypeOK'
    BY <1>1, <1>2, <1>4, <2>1 DEF SelectionTypeOK
  <2>3. ControlOK'
    BY <1>1, <1>2, <1>4, <2>1 DEF ControlOK, Sinking, From
  <2>4. OrderOK'
    <3> SUFFICES ASSUME steady' PROVE HeapFrom(known, heapCopy, From, within)
      BY <1>1, <1>2, <1>5, <2>1 DEF OrderOK, Sinking
    <3>1. known[heapCopy[at]] >= known[heapCopy[child]]
      <4>1. ~(known[heapCopy[child]] > known[heapCopy[at]])
        BY <1>4, <1>5, <1>6
      <4> QED
        BY <1>2, <1>3, <4>1
    <3>2. \A ch \in {2 * at, 2 * at + 1} : ch <= within => known[heapCopy[at]] >= known[heapCopy[ch]]
      <4> SUFFICES ASSUME NEW ch \in {2 * at, 2 * at + 1}, ch <= within
                   PROVE  known[heapCopy[at]] >= known[heapCopy[ch]]
        OBVIOUS
      <4>1. ch \in 1 .. n
        BY <1>2, <1>3
      <4>2. known[heapCopy[child]] >= known[heapCopy[ch]]
        BY <1>5
      <4> QED
        BY <1>2, <1>3, <3>1, <4>1, <4>2
    <3>3. HeapBut(known, heapCopy, From, within, at) /\ From \in Nat /\ within \in Int
      BY <1>2, <1>5
    <3> QED
      BY <3>2, <3>3, SunkHeaps, Zenon
  <2> QED
    BY <1>1, <1>4, <2>1, <2>2, <2>3, <2>4, EntriesSame, ResultsSame DEF SelectionInv
<1>7. CASE sinks
  <2>1. heapCopy' = SwapAt(heapCopy, at, child) /\ at' = child /\ stage' = "down"
    BY <1>1, <1>7
  <2>2. /\ heapCopy' \in Seq(Txs) /\ Len(heapCopy') = n
        /\ \A k \in 1 .. n : heapCopy'[k] =
              IF k = child THEN heapCopy[at] ELSE IF k = at THEN heapCopy[child] ELSE heapCopy[k]
    <3>1. /\ SwapAt(heapCopy, at, child) \in Seq(Txs) /\ Len(SwapAt(heapCopy, at, child)) = n
          /\ \A k \in 1 .. n : SwapAt(heapCopy, at, child)[k] =
                IF k = child THEN heapCopy[at] ELSE IF k = at THEN heapCopy[child] ELSE heapCopy[k]
      BY <1>2, <1>3, SwapFacts
    <3> QED
      BY <2>1, <3>1
  <2>3. SelectionTypeOK'
    BY <1>1, <1>2, <1>3, <1>4, <2>1, <2>2 DEF SelectionTypeOK
  <2>4. ControlOK'
    <3>1. child \in From' .. Len(heapCopy')
      BY <1>2, <1>3, <2>2
    <3> QED
      BY <1>1, <1>2, <1>4, <2>1, <2>2, <3>1 DEF ControlOK, Sinking
  <2>5. OrderOK'
    <3> SUFFICES ASSUME steady' PROVE OrderOK'
      BY DEF OrderOK
    <3>1. known[heapCopy[child]] > known[heapCopy[at]]
      BY <1>4, <1>5, <1>7
    <3>2. HeapBut(known, heapCopy', From, within, child)
      BY <1>2, <1>3, <1>5, <2>1, <3>1, SwapHeaps
    <3>3. start = 0 => \A k \in 1 .. within : known[heapCopy'[n]] >= known[heapCopy'[k]]
      <4> SUFFICES ASSUME start = 0, NEW k \in 1 .. within
                   PROVE  known[heapCopy'[n]] >= known[heapCopy'[k]]
        OBVIOUS
      <4>1. within = n - 1
        BY <1>1, <1>2 DEF ControlOK, Sinking
      <4>2. n \in 1 .. n /\ n # child /\ n # at /\ k \in 1 .. n /\ at \in 1 .. within /\ child \in 1 .. within
        BY <1>2, <1>3, <4>1
      <4>3. heapCopy'[n] = heapCopy[n] /\ heapCopy'[k] \in {heapCopy[at], heapCopy[child], heapCopy[k]}
        BY <2>2, <4>2
      <4> QED
        BY <1>5, <4>2, <4>3
    <3> QED
      BY <1>1, <1>2, <2>1, <2>2, <3>2, <3>3 DEF OrderOK, Sinking
  <2>6. EntriesOK' /\ ResultsOK'
    BY <1>1, <1>2, <1>3, <1>4, <2>1, SwapKeeps DEF SelectionInv
  <2> QED
    BY <2>3, <2>4, <2>5, <2>6 DEF SelectionInv
<1> QED
  BY <1>6, <1>7

LEMMA InitSunkKeeps ==
    ASSUME SelectionInv, InitSunk PROVE SelectionInv'
<1>1. /\ UNCHANGED <<txs, pending, limit, heapCopy, result, within, at, child, seen, known, steady, settled>>
      /\ Size' = Size /\ stage = "sunk" /\ stage' = "init" /\ start > 0 /\ start' = start - 1
  BY SelectionFrame DEF GetPending, InitSunk, Goes
<1>2. SelectionTypeOK /\ ControlOK /\ Len(heapCopy) \in Nat /\ start \in Nat
  BY <1>1 DEF SelectionInv, SelectionTypeOK
<1>3. SelectionTypeOK'
  BY <1>1, <1>2 DEF SelectionTypeOK
<1>4. ControlOK'
  BY <1>1, <1>2 DEF ControlOK, Sinking
<1>5. OrderOK'
  <2>1. steady => HeapFrom(known, heapCopy, start, Len(heapCopy))
    BY <1>1, <1>2 DEF SelectionInv, OrderOK, ControlOK, From, Sinking
  <2>2. start' + 1 = start
    BY <1>1, <1>2
  <2> QED
    BY <1>1, <2>1, <2>2 DEF OrderOK, Sinking
<1> QED
  BY <1>1, <1>3, <1>4, <1>5, EntriesSame, ResultsSame DEF SelectionInv

LEMMA EnoughKeeps ==
    ASSUME SelectionInv, GetPendingEnough PROVE SelectionInv'
<1>1. /\ UNCHANGED <<txs, pending, limit, heapCopy, result, start, within, at, child, seen, known, steady, settled>>
      /\ Size' = Size /\ stage = "loop" /\ stage' = "done"
      /\ Len(result) >= limit \/ heapCopy = <<>>
  BY SelectionFrame DEF GetPending, GetPendingEnough, Goes, sinking
<1>2. SelectionTypeOK /\ ControlOK /\ Len(result) \in Nat /\ limit \in Int
  BY <1>1, SizeFacts DEF SelectionInv, SelectionTypeOK
<1>3. SelectionTypeOK'
  BY <1>1, <1>2 DEF SelectionTypeOK
<1>4. ControlOK'
  BY <1>1, <1>2 DEF ControlOK, Sinking
<1>5. OrderOK'
  BY <1>1 DEF OrderOK, Sinking
<1> QED
  BY <1>1, <1>3, <1>4, <1>5, EntriesSame, ResultsSame DEF SelectionInv

LEMMA ReturnKeeps ==
    ASSUME SelectionInv, GetPendingReturn PROVE SelectionInv'
<1> USE DEF GetPendingReturn, Goes
<1>1. SelectionTypeOK'
  BY DEF SelectionTypeOK
<1>2. ControlOK'
  BY DEF ControlOK, Sinking
<1>3. EntriesOK' /\ OrderOK' /\ ResultsOK'
  BY DEF EntriesOK, OrderOK, ResultsOK, Sinking
<1> QED
  BY <1>1, <1>2, <1>3 DEF SelectionInv

LEMMA PopSunkKeeps ==
    ASSUME SelectionInv, PopSunk PROVE SelectionInv'
<1> DEFINE n == Len(heapCopy)
           m == Len(result)
           tx == Last(heapCopy)
<1>1. /\ UNCHANGED <<txs, pending, limit, start, within, at, child, seen, known, steady>>
      /\ Size' = Size /\ stage = "sunk" /\ stage' = "loop" /\ start = 0
      /\ heapCopy' = Front(heapCopy)
      /\ result' = IF IsLive(tx) THEN Append(result, tx) ELSE result
      /\ settled' = IF steady THEN Len(result') ELSE settled
  BY SelectionFrame DEF GetPending, PopSunk, Goes, sinking
<1>2. /\ SelectionTypeOK /\ ControlOK /\ heapCopy \in Seq(Txs) /\ result \in Seq(Txs)
      /\ n \in Nat /\ m \in Nat /\ settled \in Nat
      /\ \A k \in 1 .. n : known[heapCopy[k]] \in Nat
  BY <1>1, KnownFacts DEF SelectionInv, SelectionTypeOK
<1>3. /\ n \in 1 .. n /\ within = n - 1 /\ m < limit /\ limit \in Nat /\ seen = Unread
      /\ settled <= m /\ (steady => settled = m)
  <2>1. at \in 1 .. n /\ within = n - 1 /\ m < limit /\ seen = Unread
    BY <1>1, <1>2 DEF ControlOK, Sinking, From
  <2>2. limit \in Nat
    BY <1>1 DEF SelectionInv, SelectionTypeOK
  <2> QED
    BY <1>2, <2>1, <2>2 DEF ControlOK
<1>4. /\ heapCopy' \in Seq(Txs) /\ Len(heapCopy') = n - 1
      /\ \A k \in 1 .. n - 1 : heapCopy'[k] = heapCopy[k]
  BY <1>1, <1>2, <1>3, FrontFacts
<1>5. tx = heapCopy[n] /\ tx \in Txs
  BY <1>2, <1>3 DEF Last
<1>6. /\ result' \in Seq(Txs)
      /\ \A y \in 1 .. m : result'[y] = result[y]
      /\ IsLive(tx) => Len(result') = m + 1 /\ result'[m + 1] = tx
      /\ ~IsLive(tx) => Len(result') = m
  <2>1. /\ Append(result, tx) \in Seq(Txs) /\ Len(Append(result, tx)) = m + 1
        /\ \A y \in 1 .. m : Append(result, tx)[y] = result[y]
        /\ Append(result, tx)[m + 1] = tx
    BY <1>2, <1>5
  <2> HIDE DEF tx
  <2> QED
    BY <1>1, <1>2, <2>1
<1> HIDE DEF tx
<1>7. /\ Len(result') \in Nat /\ m <= Len(result') /\ Len(result') <= m + 1
      /\ settled' <= Len(result') /\ (steady => settled' = Len(result')) /\ (~steady => settled' = settled)
      /\ settled' \in Nat
  BY <1>1, <1>2, <1>3, <1>6
<1>8. SelectionTypeOK'
  BY <1>1, <1>2, <1>4, <1>6, <1>7 DEF SelectionTypeOK
<1>9. ControlOK'
  <2>1. Len(result') <= limit
    BY <1>3, <1>2, <1>7
  <2> QED
    BY <1>1, <1>2, <1>3, <1>7, <2>1 DEF ControlOK, Sinking
<1>10. EntriesOK'
  <2>1. PICK f, g : Places(f, g)
    BY <1>1 DEF SelectionInv, EntriesOK
  <2>2. ASSUME NEW y \in 1 .. Len(result') PROVE IsLive(result'[y])
    <3>1. \A z \in 1 .. m : IsLive(result[z])
      BY <1>1 DEF SelectionInv, EntriesOK
    <3>2. CASE y \in 1 .. m
      BY <1>6, <3>1, <3>2
    <3>3. CASE y \notin 1 .. m
      <4>1. y = m + 1 /\ IsLive(tx)
        BY <1>2, <1>6, <3>3
      <4> QED
        BY <1>6, <4>1
    <3> QED
      BY <3>2, <3>3
  <2>3. PICK s : s = [x \in 1 .. n - 1 |-> f[x]]
    OBVIOUS
  <2>4. /\ f \in [1 .. n -> 1 .. Len(pending)]
        /\ \A x \in 1 .. n : heapCopy[x] = pending[f[x]]
        /\ \A x, y \in 1 .. n : f[x] = f[y] => x = y
        /\ \A x \in 1 .. n, y \in 1 .. m : f[x] # g[y]
    BY <2>1 DEF Places
  <2>5. /\ g \in [1 .. m -> 1 .. Len(pending)]
        /\ \A y \in 1 .. m : result[y] = pending[g[y]]
        /\ \A x, y \in 1 .. m : g[x] = g[y] => x = y
    BY <2>1 DEF Places
  <2>6. \A e \in 1 .. Len(pending) :
            IsLive(pending[e]) => \/ \E x \in 1 .. n : f[x] = e
                                  \/ \E y \in 1 .. m : g[y] = e
    BY <2>1 DEF Places
  <2>7. \A x \in 1 .. n - 1 : x \in 1 .. n /\ x # n /\ s[x] = f[x]
    BY <1>2, <2>3
  <2>8. /\ s \in [1 .. n - 1 -> 1 .. Len(pending)]
        /\ \A x \in 1 .. n - 1 : heapCopy'[x] = pending[s[x]]
        /\ \A x, y \in 1 .. n - 1 : s[x] = s[y] => x = y
        /\ \A x \in 1 .. n - 1, y \in 1 .. m : s[x] # g[y]
        /\ \A x \in 1 .. n - 1 : s[x] # f[n]
    BY <1>3, <1>4, <2>3, <2>4, <2>7
  <2>9. \A x \in 1 .. n : x = n \/ x \in 1 .. n - 1
    BY <1>2
  <2>10. PICK r : r = IF IsLive(tx) THEN [y \in 1 .. m + 1 |-> IF y = m + 1 THEN f[n] ELSE g[y]] ELSE g
    OBVIOUS
  <2>11. /\ r \in [1 .. Len(result') -> 1 .. Len(pending)]
         /\ \A y \in 1 .. m : r[y] = g[y] /\ y # m + 1 /\ y \in 1 .. Len(result')
         /\ IsLive(tx) => r[m + 1] = f[n] /\ m + 1 \in 1 .. Len(result')
         /\ \A y \in 1 .. Len(result') : y \in 1 .. m \/ (y = m + 1 /\ IsLive(tx))
    <3>1. \A y \in 1 .. m + 1 : y \in 1 .. m \/ y = m + 1
      BY <1>2
    <3>2. \A y \in 1 .. m : y # m + 1 /\ y \in 1 .. m + 1
      BY <1>2
    <3>3. CASE IsLive(tx)
      BY <1>2, <1>3, <1>6, <2>4, <2>5, <2>10, <3>1, <3>2, <3>3
    <3>4. CASE ~IsLive(tx)
      BY <1>2, <1>6, <2>5, <2>10, <3>2, <3>4
    <3> QED
      BY <3>3, <3>4
  <2>12. /\ \A y \in 1 .. Len(result') : result'[y] = pending[r[y]]
         /\ \A x, y \in 1 .. Len(result') : r[x] = r[y] => x = y
         /\ \A x \in 1 .. n - 1, y \in 1 .. Len(result') : s[x] # r[y]
    <3>1. tx = pending[f[n]] /\ \A y \in 1 .. m : f[n] # g[y]
      BY <1>3, <1>5, <2>4
    <3> QED
      BY <1>6, <2>5, <2>8, <2>11, <3>1
  <2>13. \A e \in 1 .. Len(pending') :
            IsLive(pending[e])' => \/ \E x \in 1 .. n - 1 : s[x] = e
                                   \/ \E y \in 1 .. Len(result') : r[y] = e
    <3> SUFFICES ASSUME NEW e \in 1 .. Len(pending), IsLive(pending[e])
                 PROVE  \/ \E x \in 1 .. n - 1 : s[x] = e
                        \/ \E y \in 1 .. Len(result') : r[y] = e
      BY <1>1 DEF IsLive, Has
    <3>1. CASE \E y \in 1 .. m : g[y] = e
      BY <2>11, <3>1
    <3>2. CASE \E x \in 1 .. n - 1 : f[x] = e
      BY <2>7, <3>2
    <3>3. CASE f[n] = e
      <4>1. IsLive(tx)
        BY <1>3, <1>5, <2>4, <3>3
      <4> QED
        BY <2>11, <3>3, <4>1
    <3> QED
      BY <2>6, <2>9, <3>1, <3>2, <3>3
  <2>14. Len(heapCopy') = n - 1 /\ UNCHANGED pending
    BY <1>1, <1>4
  <2>15. Places(s, r)'
    BY <2>8, <2>11, <2>12, <2>13, <2>14 DEF Places
  <2> QED
    BY <1>1, <2>2, <2>15 DEF EntriesOK, IsLive, Has
<1>11. OrderOK'
  <2> SUFFICES ASSUME steady PROVE HeapFrom(known, heapCopy', 1, n - 1)
    BY <1>1, <1>4 DEF OrderOK, Sinking
  <2>1. HeapFrom(known, heapCopy, 1, n - 1)
    BY <1>1, <1>3 DEF SelectionInv, OrderOK, From
  <2>2. \A k \in 1 .. n - 1 : \A ch \in {2 * k, 2 * k + 1} :
            ch <= n - 1 => ch \in 1 .. n - 1
    BY <1>2
  <2> QED
    BY <1>4, <2>1, <2>2 DEF HeapFrom
<1>12. ResultsOK'
  <2>1. ASSUME NEW x \in 1 .. settled
        PROVE  /\ x \in 1 .. m
               /\ \A y \in x .. m : known[result[x]] >= known[result[y]]
               /\ \A k \in 1 .. n : known[result[x]] >= known[heapCopy[k]]
    BY <1>2, <1>3 DEF SelectionInv, ResultsOK
  <2>2. ASSUME NEW x \in 1 .. settled
        PROVE  /\ \A y \in x .. Len(result') : known[result'[x]] >= known[result'[y]]
               /\ \A k \in 1 .. n - 1 : known[result'[x]] >= known[heapCopy'[k]]
    <3>1. result'[x] = result[x]
      BY <1>6, <2>1
    <3>2. ASSUME NEW y \in x .. Len(result') PROVE known[result'[x]] >= known[result'[y]]
      <4>1. CASE y \in 1 .. m
        <5>1. y \in x .. m /\ result'[y] = result[y]
          BY <1>6, <4>1
        <5> QED
          BY <2>1, <3>1, <5>1
      <4>2. CASE y \notin 1 .. m
        <5>1. IsLive(tx) /\ y = m + 1
          BY <1>2, <1>6, <2>1, <4>2
        <5>2. result'[y] = heapCopy[n]
          BY <1>5, <1>6, <5>1
        <5> QED
          BY <1>3, <2>1, <3>1, <5>2
      <4> QED
        BY <4>1, <4>2
    <3>3. ASSUME NEW k \in 1 .. n - 1 PROVE known[result'[x]] >= known[heapCopy'[k]]
      <4>1. k \in 1 .. n
        BY <1>2
      <4> QED
        BY <1>4, <2>1, <3>1, <4>1
    <3> QED
      BY <3>2, <3>3
  <2>3. ASSUME NEW x \in 1 .. settled', x \notin 1 .. settled
        PROVE  /\ \A y \in x .. Len(result') : known[result'[x]] >= known[result'[y]]
               /\ \A k \in 1 .. n - 1 : known[result'[x]] >= known[heapCopy'[k]]
    <3>1. steady /\ IsLive(tx) /\ x = m + 1 /\ Len(result') = m + 1
      BY <1>2, <1>3, <1>6, <1>7, <2>3
    <3>2. result'[x] = heapCopy[n] /\ known[heapCopy[n]] \in Nat
      BY <1>2, <1>3, <1>5, <1>6, <3>1
    <3>3. \A y \in x .. Len(result') : y = x
      BY <1>2, <3>1
    <3>4. \A k \in 1 .. n - 1 : known[heapCopy[n]] >= known[heapCopy[k]]
      BY <1>1, <1>3, <3>1 DEF SelectionInv, OrderOK, Sinking
    <3>5. \A k \in 1 .. n - 1 : known[result'[x]] >= known[heapCopy'[k]]
      BY <1>4, <3>2, <3>4
    <3> QED
      BY <3>2, <3>3, <3>5
  <2>4. ASSUME NEW x \in 1 .. settled'
        PROVE  /\ \A y \in x .. Len(result') : known[result'[x]] >= known[result'[y]]
               /\ \A k \in 1 .. n - 1 : known[result'[x]] >= known[heapCopy'[k]]
    BY <2>2, <2>3
  <2> QED
    BY <1>1, <1>4, <2>4 DEF ResultsOK
<1> QED
  BY <1>8, <1>9, <1>10, <1>11, <1>12 DEF SelectionInv

\* What is not a step of GetPending leaves the copy alone, and the pool as long
\* as the lock is held.
LEMMA OtherStepsFrame ==
    ASSUME [Next]_vars, ~GetPending, ~(\E l \in Limits : GetPendingBegin(l))
    PROVE  UNCHANGED selection /\ (stage # "idle" => UNCHANGED <<txs, pending>>)
<1>1. CASE \E p \in Procs : Add(p)
  BY <1>1 DEF Add, AddReceive, AddDuplicate, AddFull, AddReplacing, AddInsert, AddReturn
<1>2. CASE \E hash \in Hashes : RemoveTx(hash)
  BY <1>2 DEF RemoveTx
<1>3. CASE (\E hashes \in SUBSET Hashes : RemoveBatch(hashes)) \/ PopHighestPriority \/ RemoveExpired
  BY <1>3 DEF RemoveBatch, PopHighestPriority, RemoveExpired
<1>4. CASE Start \/ Stop \/ EndLoop \/ Tick \/ UNCHANGED vars
  BY <1>4 DEF Start, Stop, EndLoop, Tick, vars, pool
<1> QED
  BY <1>1, <1>2, <1>3, <1>4 DEF Next

LEMMA SelectionInvInit == Init => SelectionInv
<1> SUFFICES ASSUME Init PROVE SelectionInv
  OBVIOUS
<1> USE DEF Init
<1>1. SelectionTypeOK
  BY DEF SelectionTypeOK
<1>2. ControlOK
  BY DEF ControlOK, Sinking
<1>3. EntriesOK /\ OrderOK /\ ResultsOK
  BY DEF EntriesOK, OrderOK, ResultsOK, Sinking
<1> QED
  BY <1>1, <1>2, <1>3 DEF SelectionInv

LEMMA SelectionInvStep == PoolInv /\ SelectionInv /\ [Next]_vars => SelectionInv'
<1> SUFFICES ASSUME PoolInv, SelectionInv, [Next]_vars PROVE SelectionInv'
  OBVIOUS
<1>1. CASE \E l \in Limits : GetPendingBegin(l)
  BY <1>1, BeginKeeps
<1>2. CASE GetPending
  BY <1>2, InitNextKeeps, PopSwapKeeps, DownNextKeeps, LessReadsKeeps, ChildChosenKeeps,
     ParentChosenKeeps, InitSunkKeeps, PopSunkKeeps, EnoughKeeps, ReturnKeeps DEF GetPending
<1>3. CASE UNCHANGED selection /\ (stage # "idle" => UNCHANGED <<txs, pending>>)
  <2>1. /\ UNCHANGED <<stage, limit, heapCopy, result, start, within, at, child, seen, known, steady, settled>>
        /\ (stage # "idle" => UNCHANGED <<txs, pending>>)
    BY <1>3 DEF selection, sinking
  <2>2. SelectionTypeOK'
    BY <2>1 DEF SelectionInv, SelectionTypeOK, Size, Has
  <2>3. ControlOK'
    BY <2>1 DEF SelectionInv, ControlOK, Sinking, From
  <2>4. EntriesOK'
    <3>1. CASE stage = "idle"
      BY <2>1, <3>1 DEF EntriesOK
    <3>2. CASE stage # "idle"
      BY <2>1, <3>2, EntriesSame DEF SelectionInv
    <3> QED
      BY <3>1, <3>2
  <2>5. OrderOK'
    BY <2>1 DEF SelectionInv, OrderOK, Sinking, From
  <2> QED
    BY <2>1, <2>2, <2>3, <2>4, <2>5, ResultsSame DEF SelectionInv
<1> QED
  BY <1>1, <1>2, <1>3, OtherStepsFrame

LEMMA SelectionInvariance == Spec => []SelectionInv
<1> QED
  BY SelectionInvInit, SelectionInvStep, PoolInvariance, PTL DEF Spec

-----------------------------------------------------------------------------
(* The answer.                                                             *)

\* What is in an answer is a set of as many elements at most, and of no fewer if
\* none is in it twice.
LEMMA AnswerSize ==
    ASSUME NEW r \in Seq(Txs)
    PROVE  /\ ToSet(r) = {r[y] : y \in 1 .. Len(r)}
           /\ IsFiniteSet(ToSet(r)) /\ Cardinality(ToSet(r)) \in Nat
           /\ Cardinality(ToSet(r)) <= Len(r)
           /\ (\A x, y \in 1 .. Len(r) : r[x] = r[y] => x = y) => Cardinality(ToSet(r)) = Len(r)
<1> DEFINE I == 1 .. Len(r)
           f == [y \in I |-> r[y]]
<1>1. DOMAIN r = I /\ Len(r) \in Nat
  OBVIOUS
<1>2. ToSet(r) = {r[y] : y \in I}
  BY <1>1 DEF ToSet
<1>3. IsFiniteSet(I) /\ Cardinality(I) = Len(r)
  BY <1>1, FS_Interval
<1> HIDE DEF I
<1>4. f \in Surjection(I, ToSet(r))
  <2>1. f \in [I -> ToSet(r)] /\ \A t \in ToSet(r) : \E y \in I : f[y] = t
    BY <1>2
  <2> HIDE DEF f
  <2> QED
    BY <2>1 DEF Surjection
<1>5. /\ IsFiniteSet(ToSet(r)) /\ Cardinality(ToSet(r)) <= Len(r)
      /\ Cardinality(ToSet(r)) = Len(r) <=> f \in Injection(I, ToSet(r))
  <2> HIDE DEF f
  <2> QED
    BY <1>3, <1>4, FS_Surjection
<1>6. (\A x, y \in I : r[x] = r[y] => x = y) => f \in Injection(I, ToSet(r))
  <2>1. f \in [I -> ToSet(r)]
    BY <1>4 DEF Surjection
  <2> QED
    BY <2>1 DEF Injection, IsInjective
<1> HIDE DEF f
<1> QED
  BY <1>2, <1>5, <1>6, FS_CardinalityType DEF I

LEMMA AnswersAreSound == PoolInv /\ SelectionInv => PendingSelected
<1> SUFFICES ASSUME PoolInv, SelectionInv, stage = "done"
             PROVE  /\ Len(result) = limit
                    /\ \A i \in DOMAIN result : IsLive(result[i])
                    /\ \E entry \in Injection(DOMAIN result, DOMAIN pending) :
                          \A i \in DOMAIN result : result[i] = pending[entry[i]]
                    /\ Unambiguous => /\ IsInjective(result) /\ ToSet(result) \subseteq Live
                                      /\ limit = Size => ToSet(result) = Live
                    /\ \A i \in 1 .. settled :
                          /\ \A j \in i .. Len(result) : known[result[i]] >= known[result[j]]
                          /\ \A tx \in Live : tx \in ToSet(SubSeq(result, 1, i))
                                                 \/ known[result[i]] >= known[tx]
  BY DEF PendingSelected
<1> DEFINE m == Len(result)
           n == Len(heapCopy)
           N == Len(pending)
<1>1. /\ heapCopy \in Seq(Txs) /\ result \in Seq(Txs) /\ m \in Nat /\ n \in Nat /\ N \in Nat
      /\ limit \in 0 .. Size /\ DOMAIN result = 1 .. m /\ DOMAIN pending = 1 .. N /\ settled \in Nat
  BY DEF SelectionInv, SelectionTypeOK, PoolInv, PoolTypeOK
<1>2. IsFiniteSet(Live) /\ Cardinality(Live) = Size /\ Size \in Nat /\ Live \subseteq Txs
  BY SizeFacts DEF PoolInv
<1>3. m <= limit /\ (m = limit \/ heapCopy = <<>>) /\ settled <= m
  BY DEF SelectionInv, ControlOK
<1>4. PICK f, g : Places(f, g)
  BY DEF SelectionInv, EntriesOK
<1>5. /\ g \in [1 .. m -> 1 .. N]
      /\ \A y \in 1 .. m : result[y] = pending[g[y]]
      /\ \A x, y \in 1 .. m : g[x] = g[y] => x = y
  BY <1>4 DEF Places
<1>6. \A y \in 1 .. m : IsLive(result[y])
  BY DEF SelectionInv, EntriesOK
<1>7. ASSUME NEW tx \in Live
      PROVE  /\ IsLive(tx) /\ txs[HashOf[tx]] = tx
             /\ \E e \in 1 .. N : pending[e] = tx
             /\ \/ \E x \in 1 .. n : heapCopy[x] = tx
                \/ \E y \in 1 .. m : result[y] = tx
  <2>1. txs[HashOf[tx]] = tx /\ IsLive(tx)
    BY DEF PoolInv, PoolTypeOK, Live, Has, IsLive
  <2>2. PICK e \in 1 .. N : pending[e] = tx
    BY <1>1 DEF PoolInv, ToSet
  <2>3. \/ \E x \in 1 .. n : f[x] = e
        \/ \E y \in 1 .. m : g[y] = e
    BY <1>4, <2>1, <2>2 DEF Places
  <2>4. \A x \in 1 .. n : heapCopy[x] = pending[f[x]]
    BY <1>4 DEF Places
  <2> QED
    BY <1>5, <2>1, <2>2, <2>3, <2>4
<1>8. m = limit
  <2> SUFFICES ASSUME m # limit PROVE FALSE
    OBVIOUS
  <2>0. m < limit
    <3> HIDE DEF m
    <3> QED
      BY <1>1, <1>2, <1>3
  <2>1. n = 0
    BY <1>3
  <2>2. ASSUME NEW tx \in Live PROVE tx \in ToSet(result)
    <3>1. ~(\E x \in 1 .. n : heapCopy[x] = tx)
      BY <2>1
    <3>2. PICK y \in 1 .. m : result[y] = tx
      BY <1>7, <3>1
    <3>3. y \in DOMAIN result
      BY <1>1
    <3> QED
      BY <3>2, <3>3 DEF ToSet
  <2>3. /\ IsFiniteSet(ToSet(result)) /\ Cardinality(ToSet(result)) \in Nat
        /\ Cardinality(ToSet(result)) <= m
    BY <1>1, AnswerSize
  <2>4. Cardinality(Live) <= Cardinality(ToSet(result))
    BY <2>2, <2>3, FS_Subset
  <2> HIDE DEF m
  <2> QED
    BY <1>1, <1>2, <2>0, <2>3, <2>4
<1>9. g \in Injection(1 .. m, 1 .. N)
  BY <1>5 DEF Injection, IsInjective
<1>10. ASSUME Unambiguous
       PROVE  /\ IsInjective(result) /\ ToSet(result) \subseteq Live
              /\ limit = Size => ToSet(result) = Live
  <2>1. ASSUME NEW x \in 1 .. m, NEW y \in 1 .. m, result[x] = result[y] PROVE x = y
    <3>1. g[x] \in 1 .. N /\ g[y] \in 1 .. N /\ pending[g[x]] = pending[g[y]] /\ IsLive(pending[g[x]])
      BY <1>5, <1>6, <2>1
    <3>2. g[x] = g[y]
      BY <1>1, <1>10, <3>1 DEF Unambiguous
    <3> QED
      BY <1>5, <3>2
  <2>2. ASSUME NEW y \in 1 .. m PROVE result[y] \in Live
    <3> DEFINE tx == txs[HashOf[result[y]]]
    <3>1. tx \in Live /\ HashOf[tx] = HashOf[result[y]]
      <4>1. HashOf[result[y]] \in Hashes /\ tx # NoTx
        BY <1>1, <1>6, MempoolAssumption DEF IsLive, Has
      <4> QED
        BY <4>1 DEF PoolInv, PoolTypeOK, Live, Has
    <3> HIDE DEF tx
    <3>2. PICK e \in 1 .. N : pending[e] = tx
      BY <1>7, <3>1
    <3>3. IsLive(pending[g[y]]) /\ g[y] \in 1 .. N /\ HashOf[pending[e]] = HashOf[pending[g[y]]]
      BY <1>5, <1>6, <3>1, <3>2
    <3>4. g[y] = e
      BY <1>1, <1>10, <3>2, <3>3 DEF Unambiguous
    <3> QED
      BY <1>5, <3>1, <3>2, <3>4
  <2>3. ToSet(result) = {result[y] : y \in 1 .. m} /\ Cardinality(ToSet(result)) = m
    BY <1>1, <2>1, AnswerSize
  <2>4. ToSet(result) \subseteq Live
    BY <2>2, <2>3
  <2>5. limit = Size => ToSet(result) = Live
    BY <1>2, <1>8, <2>3, <2>4, FS_Subset
  <2>6. IsInjective(result)
    BY <1>1, <2>1 DEF IsInjective
  <2> QED
    BY <2>4, <2>5, <2>6
<1>11. ASSUME NEW i \in 1 .. settled
       PROVE  /\ \A j \in i .. m : known[result[i]] >= known[result[j]]
              /\ \A tx \in Live : tx \in ToSet(SubSeq(result, 1, i))
                                     \/ known[result[i]] >= known[tx]
  <2>1. /\ \A j \in i .. m : known[result[i]] >= known[result[j]]
        /\ \A k \in 1 .. n : known[result[i]] >= known[heapCopy[k]]
    BY DEF SelectionInv, ResultsOK
  <2>2. ASSUME NEW tx \in Live
        PROVE  tx \in ToSet(SubSeq(result, 1, i)) \/ known[result[i]] >= known[tx]
    <3>1. CASE \E x \in 1 .. n : heapCopy[x] = tx
      BY <2>1, <3>1
    <3>2. CASE \E y \in 1 .. m : result[y] = tx
      <4>1. PICK y \in 1 .. m : result[y] = tx
        BY <3>2
      <4>2. CASE y > i
        <5>1. y \in i .. m
          BY <1>1, <4>2
        <5> QED
          BY <2>1, <4>1, <5>1
      <4>3. CASE y <= i
        <5>1. i \in 1 .. m /\ y \in 1 .. i
          <6> HIDE DEF m
          <6> QED
            BY <1>1, <1>3, <4>3
        <5>2. DOMAIN SubSeq(result, 1, i) = 1 .. i /\ SubSeq(result, 1, i)[y] = tx
          BY <1>1, <4>1, <5>1
        <5> QED
          BY <5>1, <5>2 DEF ToSet
      <4> QED
        BY <1>1, <4>2, <4>3
    <3> QED
      BY <1>7, <3>1, <3>2
  <2> QED
    BY <2>1, <2>2
<1> QED
  BY <1>1, <1>5, <1>6, <1>8, <1>9, <1>10, <1>11

\* Whatever transactions, limits and times, and however receive times are
\* written and the clock goes on while GetPending compares: it answers with as
\* many entries of the heap as asked for, or as the pool has transactions, and
\* none of a hash that has left; where no hash of the pool is in two entries,
\* with different transactions of the pool, all of it if asked for all; and
\* what it chose before a comparison met a changed priority are the highest of
\* the pool, in order.
THEOREM PendingIsSound == Spec => []PendingSelected
<1> QED
  BY PoolInvariance, SelectionInvariance, AnswersAreSound, PTL

\* Whatever transactions, limits and times: through any sequence of adds,
\* replacements, lazy removals, pops and rebuilds every transaction of the map
\* is in the heap under its own pointer.
THEOREM LiveStaysInHeap == Spec => []LiveInHeap
<1>1. PoolInv /\ SelectionInv => LiveInHeap
  BY DEF PoolInv, SelectionInv, LiveInHeap, TypeOK
<1> QED
  BY <1>1, PoolInvariance, SelectionInvariance, PTL

=============================================================================
