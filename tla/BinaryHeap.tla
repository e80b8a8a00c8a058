----------------------------- MODULE BinaryHeap -----------------------------
(***************************************************************************)
(* container/heap of the Go library, as pkg/mempool/mempool.go uses it: a   *)
(* slice h whose root is h[1] and where k's children are 2k and 2k + 1.    *)
(* rank gives the priority of every element at the time of the call;       *)
(* txHeap.Less (mempool.go:591) puts the highest rank first.               *)
(***************************************************************************)
EXTENDS Integers, SequencesExt

SwapAt(h, i, j) == [h EXCEPT ![i] = h[j], ![j] = h[i]]

\* The child of k that goes first, among the first n elements.
Preferred(rank, h, k, n) ==
    IF 2 * k < n /\ rank[h[2 * k + 1]] > rank[h[2 * k]] THEN 2 * k + 1 ELSE 2 * k

\* Where element i comes by if it sinks from k.
Sinks(rank, h, i, n) ==
    LET sinks[k \in 1 .. n] ==
            IF 2 * k <= n /\ rank[h[Preferred(rank, h, k, n)]] > rank[h[i]]
            THEN {k} \cup sinks[Preferred(rank, h, k, n)] ELSE {k}
    IN  sinks

\* Element i sinks below every preferred child that goes before it.
HeapDown(rank, h, i, n) ==
    LET path == Sinks(rank, h, i, n)[i]
        end == Max(path)
    IN  [k \in DOMAIN h |-> IF k = end THEN h[i]
                            ELSE IF k \in path THEN h[Preferred(rank, h, k, n)]
                            ELSE h[k]]

\* Where element j comes by if it rises from k.
Rises(rank, h, j) ==
    LET rises[k \in 1 .. j] ==
            IF k > 1 /\ rank[h[j]] > rank[h[k \div 2]]
            THEN {k} \cup rises[k \div 2] ELSE {k}
    IN  rises

\* Element j rises above every ancestor that goes after it.
HeapUp(rank, h, j) ==
    LET path == Rises(rank, h, j)[j]
        end == Min(path)
    IN  [k \in DOMAIN h |-> IF k = end THEN h[j]
                            ELSE IF k \in path THEN h[k \div 2]
                            ELSE h[k]]

\* The slice when the elements from k on have sunk, the last of them first.
Ordered(rank, h) ==
    LET ordered[k \in 1 .. Len(h) + 1] ==
            IF 2 * k > Len(h) THEN h ELSE HeapDown(rank, ordered[k + 1], k, Len(h))
    IN  ordered

HeapInit(rank, h) == Ordered(rank, h)[1]

HeapPush(rank, h, x) == HeapUp(rank, Append(h, x), Len(h) + 1)

\* Element i is replaced by the last one, which sinks or, if it does not, rises.
HeapRemove(rank, h, i) ==
    LET n == Len(h)
        moved == ReplaceAt(h, i, h[n])
        sunk == HeapDown(rank, moved, i, n - 1)
    IN  Front(IF i = n THEN h
              ELSE IF sunk # moved THEN sunk ELSE HeapUp(rank, moved, i))

\* The heap without its root, which is h[1].
HeapPop(rank, h) == HeapRemove(rank, h, 1)
=============================================================================
