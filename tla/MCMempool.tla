----------------------------- MODULE MCMempool -----------------------------
(***************************************************************************)
(* An instance of Mempool: u pays least, x spends a coin of u and the coin *)
(* of w and pays most, y spends a coin that u makes.                       *)
(***************************************************************************)
EXTENDS Mempool, TLC

PoolTxs    == {"u", "w", "x", "y"}
PoolCoins  == {"c1", "c2", "c3"}
PoolInputs == ("u" :> {"c1"}) @@ ("w" :> {"c2"}) @@ ("x" :> {"c1", "c2"}) @@ ("y" :> {"c3"})
PoolMakes  == [t \in PoolTxs |-> IF t = "u" THEN {"c3"} ELSE {}]
PoolId     == [t \in PoolTxs |-> t]
PoolRate   == ("u" :> 1) @@ ("w" :> 2) @@ ("x" :> 3) @@ ("y" :> 2)
=============================================================================
