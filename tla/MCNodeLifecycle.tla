-------------------------- MODULE MCNodeLifecycle --------------------------
(* A small instance of NodeLifecycle: i is accepted and s dialled, by Start  *)
(* or after a Peers message, and both are connections of one remote.         *)
EXTENDS NodeLifecycle, TLC

CONSTANTS i, s, id1

MCConns == {i, s}
MCInbound == {i}
MCSeeds == {s}
MCIDs == {id1}
MCIDOf == i :> id1 @@ s :> id1
=============================================================================
