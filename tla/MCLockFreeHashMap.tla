------------------------- MODULE MCLockFreeHashMap -------------------------
(* Two goroutines and two keys that share one bucket, with different        *)
(* hashes.                                                                  *)
EXTENDS LockFreeHashMap, TLC

CONSTANTS k1, k2, v1, v2, v3
MCPuts == {<<k1, v1>>, <<k1, v2>>, <<k2, v3>>}
MCHash == k1 :> 1 @@ k2 :> 3

\* Goroutines do the same, and values are only stored and compared.
MCSymmetry == Permutations(Procs) \cup Permutations({v1, v2})
=============================================================================
