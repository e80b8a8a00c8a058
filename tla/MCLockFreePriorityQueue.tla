---------------------- MODULE MCLockFreePriorityQueue ----------------------
(* Two goroutines, three nodes, two levels and two priorities.              *)
EXTENDS LockFreePriorityQueue, TLC

MCSymmetry == Permutations(Procs)

\* Once Clear has been called, states with more nodes are checked and not
\* followed further: three nodes, or two if the Clear has overlapped another
\* operation.
MCBound == clears = 0 \/ size <= IF mixed THEN 1 ELSE 2
=============================================================================
