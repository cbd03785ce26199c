---------------------------- MODULE SwapOutcome ----------------------------
(***************************************************************************)
(* What the record of a swap promises: each leg is spent once, by a claim  *)
(* or a refund, and then, once, the outcome of the swap is said.           *)
(***************************************************************************)
CONSTANT Legs
VARIABLES fate, said

vars == <<fate, said>>

Word ==
    CASE \A l \in Legs : fate[l] = "claim"  -> "SETTLED"
      [] \A l \in Legs : fate[l] = "refund" -> "REFUNDED"
      [] OTHER -> "RESOLVED_MIXED"

Init == fate = [l \in Legs |-> "none"] /\ said = {}

Spend(l) ==
    /\ fate[l] = "none"
    /\ \E k \in {"claim", "refund"} : fate' = [fate EXCEPT ![l] = k]
    /\ UNCHANGED said

Say ==
    /\ said = {} /\ \A l \in Legs : fate[l] # "none"
    /\ said' = {Word}
    /\ UNCHANGED fate

Next == Say \/ \E l \in Legs : Spend(l)

Spec == Init /\ [][Next]_vars
=============================================================================
