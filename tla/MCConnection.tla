---------------------------- MODULE MCConnection ----------------------------
(* Three messages; the longest does not fit in the buffer of two parts.     *)
EXTENDS Connection

CONSTANTS m1, m2, m3

MCSizeOf == [m \in Messages |-> IF m = m1 THEN 3 ELSE 1]
=============================================================================
