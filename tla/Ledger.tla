------------------------------- MODULE Ledger -------------------------------
(***************************************************************************)
(* What block acceptance promises, whatever its batches, journals, crashes *)
(* and restarts: one committed tip that is only ever extended by a valid   *)
(* child or replaced, in one step, by the tip of a valid branch with       *)
(* strictly more work that forks within the supported depth.               *)
(***************************************************************************)
EXTENDS BlockTree

CONSTANT MaxForkDepth       \* MAX_SIDE_FORK_DEPTH

VARIABLE committed

LedgerInit == committed = Genesis

Extend(b) ==
    /\ b \in NonGenesis /\ Parent[b] = committed
    /\ b \in Valid
    /\ committed' = b

\* A valid branch with more work that forks within the supported depth.
Outweighs(b) ==
    /\ Work[b] > Work[committed]
    /\ ValidChain(b)
    /\ Height[committed] - Height[ForkOf(committed, b)] <= MaxForkDepth

Switch(b) == b \in Blocks /\ Outweighs(b) /\ committed' = b

LedgerNext == \E b \in Blocks : Extend(b) \/ Switch(b)

LedgerSpec == LedgerInit /\ [][LedgerNext]_committed
=============================================================================
