---------------------------- MODULE MCHandshake ----------------------------
(* Nodes a and b dial each other, and a dials its own address.  Each of   *)
(* them may be restarted once; b then has a later version.                 *)
EXTENDS Handshake

CONSTANTS a, b

MCConns == {"ab", "ba", "aa"}
MCFrom == [x \in MCConns |-> IF x = "ba" THEN b ELSE a]
MCTo == [x \in MCConns |-> IF x = "ab" THEN b ELSE a]
MCVersionOf == [i \in Identities |-> IF i = <<b, 1>> THEN 2 ELSE 1]
=============================================================================
