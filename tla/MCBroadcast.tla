---------------------------- MODULE MCBroadcast ----------------------------
(* Three nodes, all connected; the link of n1 and n2 may break.            *)
EXTENDS Broadcast

CONSTANTS n1, n2, n3, m1

MCNodes == {n1, n2, n3}
MCMsgs == {m1}
MCLinks == {{n1, n2}, {n2, n3}, {n1, n3}}
MCFragile == {{n1, n2}}
MCPublishers == {n1}
MCCleaners == {n1}
=============================================================================
