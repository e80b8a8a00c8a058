---------------------------- MODULE MCDiscovery ----------------------------
(* A seed, and an address that others tell of and that is dialled.         *)
EXTENDS Discovery

CONSTANTS s, a1, self

MCAddrs == {s, a1, self}
MCSeeds == {s}
MCHeard == {a1, self}
MCDialled == {a1}
=============================================================================
