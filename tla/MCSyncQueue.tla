---------------------------- MODULE MCSyncQueue ----------------------------
(* A small instance of SyncQueue; goroutines and values are interchangeable. *)
EXTENDS SyncQueue, TLC

MCSymmetry == Permutations(Procs) \cup Permutations(Values)
=============================================================================
