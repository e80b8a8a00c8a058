-------------------------- MODULE MCLockFreeQueue --------------------------
(* A small instance of LockFreeQueue: the goroutine that keeps running has   *)
(* to finish while two others may stop anywhere.                             *)
EXTENDS LockFreeQueue
=============================================================================
