----------------------------- MODULE MCMempool -----------------------------
(* Small instances of Mempool: a and a2 are the same transaction decoded   *)
(* twice, and the prices differ by what a second of waiting adds.          *)
EXTENDS Mempool, TLC

CONSTANTS a, a2, b, c, ha, hb, hc

MCTxs == {a, a2, b, c}
MCHashes == {ha, hb, hc}
MCHashOf == a :> ha @@ a2 :> ha @@ b :> hb @@ c :> hc
MCPriceOf == a :> 1 @@ a2 :> 1 @@ b :> 2 @@ c :> 3
=============================================================================
