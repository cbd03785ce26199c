---------------------------- MODULE ReorgExecutor ----------------------------
(***************************************************************************)
(* The activation of a side tip with strictly more work: the plan and its  *)
(* preflight, the PREPARED marker, the disconnection of the old branch one *)
(* block per batch, the promotion of the candidate branch in two batches   *)
(* per block, the demotion of the old branch and the end of the marker.    *)
(* A failure before the first disconnection abandons the plan; a later one *)
(* halts the node and leaves the marker for the next start.                *)
(***************************************************************************)
EXTENDS BlockIntake

CONSTANT AutoReorg      \* productionAutomaticReorgGateEnabled

ASSUME GateAssumption == AutoReorg \in BOOLEAN

----------------------------------------------------------------------------
(* Where the submission thread goes on *)

\* The activation is over and nothing failed.  During startup the selected
\* side tip must have become the tip, or the node refuses to run.
Settle(t) ==
    /\ pc' = IF boot /\ t # plan.cand THEN "Fatal" ELSE "Idle"
    /\ boot' = FALSE
    /\ halted' = halted

\* Mutant: the thread never leaves the operation that failed.
Halt_Stuck ==
    /\ pc' = pc
    /\ boot' = FALSE
    /\ halted' = TRUE

\* Fail-stop: submissions are refused until a restart.
Halt ==
    /\ pc' = IF boot THEN "Fatal" ELSE "Idle"
    /\ boot' = FALSE
    /\ halted' = TRUE

----------------------------------------------------------------------------
(* Planning *)

\* Mutant: equal work is enough.
PlanExists_Tie(c) ==
    /\ c \in Indexed /\ Work[c] >= Work[tip]
    /\ tip \notin Anc[c]
    /\ Cardinality(Leaving(tip, c)) <= MaxForkDepth
    /\ Cardinality(Joining(tip, c)) <= MaxBranch
    /\ Joining(tip, c) \subseteq SideBlocks

\* buildReorgPlanLocked, candidate c against the tip.
PlanExists(c) ==
    /\ c \in Indexed /\ Work[c] > Work[tip]
    /\ tip \notin Anc[c]
    /\ Cardinality(Leaving(tip, c)) <= MaxForkDepth
    /\ Cardinality(Joining(tip, c)) <= MaxBranch
    /\ Joining(tip, c) \subseteq SideBlocks

\* verifyReorgDurabilityPreflight: the redo and undo sources are in the store.
PlanDurable(c) ==
    /\ Leaving(tip, c) \subseteq dBlock \cap dUndo
    /\ \A b \in Joining(tip, c) : b \in dBlock /\ dSide[b] = side[b]

\* Side blocks that hang on the branch the node would leave.
Blockers(c) == {b \in SideBlocks : (Anc[b] \ {b}) \cap Leaving(tip, c) # {}}

\* What holds once the preflight has validated the whole branch in the sandbox.
PreflightPasses(c) ==
    /\ PlanExists(c) /\ PlanDurable(c)
    /\ \A b \in Blockers(c) : Work[b] < Work[c]
    /\ Joining(tip, c) \subseteq Valid

\* maybeActivate: the gate is off or c has no more work than the tip.
SkipActivation ==
    /\ pc = "Activate"
    /\ ~AutoReorg \/ Work[plan.cand] <= Work[tip]
    /\ Settle(tip)
    /\ UNCHANGED <<store, tip, side, cnt, stopping, plan, budget>>

\* The preparation is refused: by the preflight, by the validation budget of
\* the source (never at startup, where the budgets are full), because a marker
\* exists, or because the purge of the blockers or the marker cannot be written.
\* The side block stays.
DeferActivation ==
    /\ pc = "Activate" /\ AutoReorg /\ Work[plan.cand] > Work[tip]
    /\ \/ /\ ~boot \/ ~PreflightPasses(plan.cand) \/ dReorg # NoReorg
          /\ WriteOK
       \/ WriteFails
    /\ Settle(tip)
    /\ UNCHANGED <<store, tip, side, cnt, stopping, plan>>

\* Lower-work side blocks on the branch to leave are deleted in one batch, and
\* the preflight starts over.
ClearBlockers ==
    /\ pc = "Activate" /\ AutoReorg
    /\ PreflightPasses(plan.cand) /\ Blockers(plan.cand) # {}
    /\ dReorg = NoReorg
    /\ DropSides(Blockers(plan.cand))
    /\ UNCHANGED <<dState, dTip, dHeight, dUndo, dPending, dReorg, tip, halted,
                   stopping, boot, pc, plan, budget>>

\* persistPreparedReorgMarker; the plan is fixed from here on.
Prepare ==
    /\ pc = "Activate" /\ AutoReorg
    /\ PreflightPasses(plan.cand) /\ Blockers(plan.cand) = {}
    /\ dReorg = NoReorg
    /\ plan' = [plan EXCEPT !.orig = tip]
    /\ dReorg' = [NoReorg EXCEPT !.phase = "PREPARED", !.orig = tip,
                                 !.cand = plan.cand, !.tip = tip]
    /\ pc' = "Prepared"
    /\ UNCHANGED <<dState, dTip, dHeight, dBlock, dSide, dUndo, dPending, memory,
                   budget>>

----------------------------------------------------------------------------
(* Reservation and abandonment *)

\* The side pool as it will be once the plan is complete stays in its limits.
Reserved ==
    LET old == Leaving(plan.orig, plan.cand)
        new == Joining(plan.orig, plan.cand)
        final(p) == cnt.kids[p] + Cardinality({b \in old : Parent[b] = p})
                                - Cardinality({b \in new : Parent[b] = p})
    IN  /\ cnt.total - Cardinality(new) + Cardinality(old) <= MaxSideBlocks
        /\ \A b \in old \cup new : final(Parent[b]) \in 0..MaxSideChildren
        /\ \A o \in Sources : cnt.of[o] >= Cardinality({b \in new : side[b] = o})
        /\ \A b \in old : dSide[b] = NoSource
        /\ \A b \in new : dSide[b] = side[b]

\* executePreparedReorg repeats the preflight, then reserves the final pool.
BeginExecution ==
    /\ pc = "Prepared"
    /\ pc' = IF /\ dReorg.phase = "PREPARED" /\ dReorg.cand = plan.cand
                /\ tip = dReorg.orig /\ PreflightPasses(plan.cand)
                /\ Blockers(plan.cand) = {} /\ Reserved
               THEN "Disconnect" ELSE "Abandon"
    /\ UNCHANGED <<store, memory, plan, budget>>

\* Nothing has moved: the exact PREPARED marker is cleared, or the node stops.
Abandon ==
    /\ pc = "Abandon"
    /\ \/ dReorg' = NoReorg /\ WriteOK /\ Settle(tip)
       \/ dReorg' = dReorg /\ WriteFails /\ Halt
    /\ UNCHANGED <<dState, dTip, dHeight, dBlock, dSide, dUndo, dPending, tip, side,
                   cnt, stopping, plan>>

----------------------------------------------------------------------------
(* Disconnecting the old branch: rollbackBlock *)

\* The side children of the tip that do not forbid its disconnection.
CanRollback(allowed) ==
    /\ tip # Genesis
    /\ {c \in SideBlocks : Parent[c] = tip} \subseteq allowed
    /\ Probe(tip) = "post"

\* The mapping once the tip is gone.
HeightsBelow == [dHeight EXCEPT ![Height[tip]] = NoBlock,
                                ![Height[Parent[tip]]] = Parent[tip]]

\* One batch: the pre-images, the parent as the tip, the old tip as a local
\* side block, and the progress of the marker.
RollbackBatch ==
    /\ dState' = Parent[tip]
    /\ dTip' = Parent[tip]
    /\ dHeight' = HeightsBelow
    /\ dSide' = [dSide EXCEPT ![tip] = Local]
    /\ dReorg' = Progress(dReorg, "DISCONNECT_COMMITTED", dReorg.dd + 1, 0, Parent[tip])
    /\ tip' = Parent[tip]
    /\ UNCHANGED <<dBlock, dUndo, dPending>>

\* The uninterrupted executor leaves the side pool in memory as it is.
DisconnectTip ==
    /\ pc = "Disconnect"
    /\ CanRollback({})
    /\ RollbackBatch
    /\ pc' = IF Parent[tip] \in Anc[plan.cand] THEN "Promote" ELSE "Disconnect"
    /\ UNCHANGED <<side, cnt, halted, stopping, boot, plan, budget>>

DisconnectFails ==
    /\ pc = "Disconnect"
    /\ \/ ~CanRollback({}) /\ WriteOK
       \/ CanRollback({}) /\ WriteFails
    /\ \/ dReorg.phase = "PREPARED" /\ pc' = "Abandon" /\ UNCHANGED <<boot, halted>>
       \/ dReorg.phase # "PREPARED" /\ Halt
    /\ UNCHANGED <<store, tip, side, cnt, stopping, plan>>

----------------------------------------------------------------------------
(* Promoting the candidate branch *)

\* The next block of the chain of c above the tip.
NextOf(c) == CHOOSE b \in Anc[c] \ {Genesis} : Parent[b] = tip

CanPromote(b) == side[b] # NoSource /\ dSide[b] = side[b] /\ Applicable(b)

\* Mutant: the state batch forgets the side record.
SidesWithout_Keeps(b) == dSide

\* The side records without b's.
SidesWithout(b) == [dSide EXCEPT ![b] = NoSource]

\* connectTipBlock with a promoted side block: the state batch also deletes the
\* sideblock: record; the block leaves the side pool in memory.
PromoteBatch(b) ==
    /\ dState' = b
    /\ dUndo' = dUndo \cup {b}
    /\ dBlock' = dBlock \cup {b}
    /\ dSide' = SidesWithout(b)
    /\ side' = [side EXCEPT ![b] = NoSource]
    /\ cnt' = CountOut(cnt, b, side[b])
    /\ tip' = b
    /\ UNCHANGED <<dTip, dHeight, dPending, dReorg>>

PromoteNext ==
    /\ pc = "Promote"
    /\ CanPromote(NextOf(plan.cand))
    /\ PromoteBatch(NextOf(plan.cand))
    /\ pc' = "PromoteSave"
    /\ UNCHANGED <<halted, stopping, boot, plan, budget>>

\* The state batch fails: the accounting of the block is restored.
PromoteFails ==
    /\ pc = "Promote"
    /\ \/ ~CanPromote(NextOf(plan.cand)) /\ WriteOK
       \/ CanPromote(NextOf(plan.cand)) /\ WriteFails
    /\ Halt
    /\ UNCHANGED <<store, tip, side, cnt, stopping, plan>>

\* Mutant: the tip is published without the marker.
PublishPromoted_TipOnly == PublishTip /\ dReorg' = dReorg

\* The tip and the marker are published in one batch.
PublishPromoted ==
    /\ PublishTip
    /\ dReorg' = Progress(dReorg, "CONNECT_PUBLISHED", dReorg.dd, dReorg.cd + 1, tip)

SavePromoted ==
    /\ pc = "PromoteSave"
    /\ \/ CanPublish(TRUE) /\ PublishPromoted /\ WriteOK
       \/ CanPublish(TRUE) /\ WriteFails /\ UNCHANGED <<dTip, dHeight, dPending, dReorg>>
       \/ ~CanPublish(TRUE) /\ UNCHANGED <<dTip, dHeight, dPending, dReorg, budget>>
    /\ pc' = "PromoteVerify"
    /\ UNCHANGED <<dState, dBlock, dSide, dUndo, memory, plan>>

\* verifyDurableActiveTipMetadata and verifyDurableReorgMarkerPayload.
Promoted == /\ dTip = tip /\ dHeight[Height[tip]] = tip
            /\ dReorg.phase = "CONNECT_PUBLISHED" /\ dReorg.tip = tip

\* Mutant: the first promotion is taken for the last.
AfterPromotion_Early == "Finish"

AfterPromotion == IF tip = plan.cand THEN "Finish" ELSE "Promote"

VerifyPromoted ==
    /\ pc = "PromoteVerify"
    /\ \/ Promoted /\ pc' = AfterPromotion /\ UNCHANGED <<boot, halted>>
       \/ ~Promoted /\ Halt
    /\ UNCHANGED <<store, tip, side, cnt, stopping, plan, budget>>

----------------------------------------------------------------------------
(* Demoting the old branch and clearing the marker *)

\* The side map with the blocks vs as local side blocks.
WithLocal(vs) == [b \in Blocks |-> IF b \in vs THEN Local ELSE side[b]]

FinishReorg ==
    /\ pc = "Finish"
    /\ LET old  == Leaving(plan.orig, plan.cand)
           pool == Plus(cnt, CountersOf(Only(WithLocal(old), old)))
           demotes == /\ old \cap Indexed = {}
                      /\ \A b \in old : dSide[b] = Local
                      /\ pool.total <= MaxSideBlocks
                      /\ \A b \in old : pool.kids[Parent[b]] <= MaxSideChildren
       IN  \/ /\ demotes
              /\ side' = WithLocal(old)
              /\ cnt' = pool
              /\ \/ dReorg' = NoReorg /\ WriteOK /\ Settle(tip)
                 \/ dReorg' = dReorg /\ WriteFails /\ Halt
           \/ ~demotes /\ Halt /\ UNCHANGED <<side, cnt, dReorg, budget>>
    /\ UNCHANGED <<dState, dTip, dHeight, dBlock, dSide, dUndo, dPending, tip,
                   stopping, plan>>

ExecutorNext ==
    \/ SkipActivation \/ DeferActivation \/ ClearBlockers \/ Prepare
    \/ BeginExecution \/ Abandon
    \/ DisconnectTip \/ DisconnectFails
    \/ PromoteNext \/ PromoteFails \/ SavePromoted \/ VerifyPromoted
    \/ FinishReorg
==============================================================================
