----------------------------- MODULE MCFunding -----------------------------
(***************************************************************************)
(* An instance of FundingAgent: the wallet can sign f1 or f2, which share  *)
(* no coin, and g1 is f1 with another signature.                           *)
(***************************************************************************)
EXTENDS FundingAgent, TLC

FundTxs    == {"f1", "f2", "g1"}
FundInputs == ("f1" :> {"c1"}) @@ ("g1" :> {"c1"}) @@ ("f2" :> {"c2"})
FundMakes  == [t \in FundTxs |-> {}]
FundId     == [t \in FundTxs |-> IF t = "g1" THEN "f1" ELSE t]
FundRate   == [t \in FundTxs |-> 1]
FundCoins  == {"c1", "c2"}
Fundings   == {"f1", "f2"}

Reorder == Permutations(Threads)
=============================================================================
