----------------------------- MODULE BlockIntake -----------------------------
(***************************************************************************)
(* submitBlock and what it owns: the direct connection of a block to the   *)
(* tip (two batches: the state with its journal and the pending record,    *)
(* then the published tip), the admission of a side block with work-aware  *)
(* eviction, the maintenance that follows a connection, and the saves the  *)
(* sync thread makes on its own.                                           *)
(***************************************************************************)
EXTENDS ChainState

CONSTANTS
    MaxStalePrunes,     \* MAX_RUNTIME_SIDE_PRUNES_PER_PASS
    MaxUndoDeletes,     \* ACTIVE_UNDO_PRUNE_MAX_DELETES
    SyncSaves           \* whether the sync thread saves meanwhile

ASSUME MaintenanceAssumption ==
    MaxStalePrunes \in Nat /\ MaxUndoDeletes \in Nat /\ SyncSaves \in BOOLEAN

\* The submission thread takes the next block.
Accepting == pc = "Idle" /\ ~halted /\ ~stopping

----------------------------------------------------------------------------
(* Publishing the tip: saveChainStateWithLockHeld *)

\* A pending record must name the tip or its next child; only without a marker.
PendingAgrees(withMarker) ==
    dPending # NoBlock =>
      /\ ~withMarker
      /\ tip = dPending \/ tip = Parent[dPending]

CanPublish(withMarker) == ~halted /\ ~stopping /\ PendingAgrees(withMarker)

\* The batch: tip metadata, height mapping, the end of the pending record.
PublishTip ==
    /\ dTip' = tip
    /\ dHeight' = SetHeight(tip)
    /\ dPending' = IF tip = dPending THEN NoBlock ELSE dPending

----------------------------------------------------------------------------
(* Direct connection *)

Extends(b) == b \in NonGenesis /\ Parent[b] = tip

\* Mutant: the block is applied without stateful validation.
Applicable_Unvalidated(b) == Extends(b) /\ ReadyToApply(b)

\* b extends the tip, its journal does not say it was applied already, and
\* validateBlock accepts it.
Applicable(b) == Extends(b) /\ ReadyToApply(b) /\ b \in Valid

\* connectTipBlock and applyBlock: validation, then one batch of the state, the
\* journal, the block and the pending record; the memory follows under mtx.
\* A batch that fails leaves everything as it was.
ConnectTip(b) ==
    /\ Accepting
    /\ b \notin Indexed /\ Applicable(b)
    /\ dState' = b
    /\ dUndo' = dUndo \cup {b}
    /\ dBlock' = dBlock \cup {b}
    /\ dPending' = b
    /\ tip' = b
    /\ pc' = "ConnectSave"
    /\ UNCHANGED <<dTip, dHeight, dSide, dReorg, side, cnt, halted, stopping, boot,
                   plan, budget>>

\* The save that follows under the same lock; it may be refused or fail.
SaveConnected ==
    /\ pc = "ConnectSave"
    /\ \/ CanPublish(FALSE) /\ PublishTip /\ WriteOK
       \/ CanPublish(FALSE) /\ WriteFails /\ UNCHANGED <<dTip, dHeight, dPending>>
       \/ ~CanPublish(FALSE) /\ UNCHANGED <<dTip, dHeight, dPending, budget>>
    /\ pc' = "ConnectVerify"
    /\ UNCHANGED <<dState, dBlock, dSide, dUndo, dReorg, memory, plan>>

\* Mutant: the durable tip is not read back.
Published_NotRead == TRUE

\* What the postcondition reads back: the tip is durable, nothing is pending.
Published == dPending = NoBlock /\ dTip = tip /\ dHeight[Height[tip]] = tip

\* Published, or the node fail-stops.
VerifyConnected ==
    /\ pc = "ConnectVerify"
    /\ pc' = IF Published THEN "Tidy" ELSE "Idle"
    /\ halted' = ~Published
    /\ UNCHANGED <<store, tip, side, cnt, stopping, boot, plan, budget>>

----------------------------------------------------------------------------
(* Side-block admission *)

\* The pool once the side block v is evicted.
CntWithout(v) == CountOut(cnt, v, side[v])

\* A side leaf the work-aware replacement may evict for b.
Evictable(v, b, s) ==
    /\ v \in SideBlocks \ {Parent[b]}
    /\ cnt.kids[v] = 0
    /\ ~(s \in Peers /\ side[v] = Local)
    /\ Work[v] < Work[b]
    /\ Fits(CntWithout(v), b, s)

\* The victim has the least work, then the least hash.
IsVictim(v, b, s) ==
    /\ Evictable(v, b, s)
    /\ \A w \in {x \in Blocks : Evictable(x, b, s)} \ {v} :
         Work[v] < Work[w] \/ (Work[v] = Work[w] /\ Rank[v] < Rank[w])

\* What indexSideChainBlock asks of b before it looks at the limits.
SideAdmissible(b) ==
    /\ Accepting
    /\ b \in NonGenesis \ Indexed
    /\ Parent[b] \in Indexed /\ Parent[b] # tip
    /\ SidePolicy(tip, b)

AdmitSide(b, s) ==
    /\ SideAdmissible(b)
    /\ Fits(cnt, b, s)
    /\ dBlock' = dBlock \cup {b}
    /\ dSide' = [dSide EXCEPT ![b] = s]
    /\ side' = [side EXCEPT ![b] = s]
    /\ cnt' = CountIn(cnt, b, s)
    /\ plan' = [plan EXCEPT !.cand = b]
    /\ pc' = "Activate"
    /\ UNCHANGED <<dState, dTip, dHeight, dUndo, dPending, dReorg, tip, halted,
                   stopping, boot, budget>>

\* tryWorkAwareSideReplacement: the victim leaves and b enters in one batch.
ReplaceSide(b, s) ==
    /\ SideAdmissible(b)
    /\ ~Fits(cnt, b, s)
    /\ dReorg = NoReorg
    /\ \E v \in Blocks :
         /\ IsVictim(v, b, s)
         /\ dBlock' = (dBlock \ {v}) \cup {b}
         /\ dSide' = [dSide EXCEPT ![v] = NoSource, ![b] = s]
         /\ side' = [side EXCEPT ![v] = NoSource, ![b] = s]
         /\ cnt' = CountIn(CntWithout(v), b, s)
    /\ plan' = [plan EXCEPT !.cand = b]
    /\ pc' = "Activate"
    /\ UNCHANGED <<dState, dTip, dHeight, dUndo, dPending, dReorg, tip, halted,
                   stopping, boot, budget>>

----------------------------------------------------------------------------
(* Maintenance after a direct connection *)

\* Mutant: the blocks are deleted, their side records are not.
DeleteSides_KeepsRecords(vs) ==
    /\ dBlock' = dBlock \ vs
    /\ dSide' = dSide

\* The batch that deletes the side blocks vs.
DeleteSides(vs) ==
    /\ dBlock' = dBlock \ vs
    /\ dSide' = Only(dSide, Blocks \ vs)

\* Removing the blocks vs from the side pool, in the store and in memory.
DropSides(vs) ==
    /\ DeleteSides(vs)
    /\ side' = Only(side, Blocks \ vs)
    /\ cnt' = Minus(cnt, CountersOf(Only(side, vs)))

\* Side leaves whose fork is out of reach of a reorg.
StaleLeaves ==
    {b \in SideBlocks : /\ cnt.kids[b] = 0
                        /\ Height[tip] - Height[ForkOf(tip, Parent[b])] > MaxForkDepth}

\* The pass takes the highest first, then the least hash.
PruneBefore(b, c) == \/ Height[b] > Height[c]
                     \/ Height[b] = Height[c] /\ Rank[b] < Rank[c]

\* pruneRuntimeStaleSideBlocks; a failed delete is only logged.
PruneStale ==
    /\ pc = "Tidy"
    /\ LET stale == IF dReorg = NoReorg THEN StaleLeaves ELSE {}
       IN  \/ /\ DropSides({b \in stale :
                    Cardinality({c \in stale : PruneBefore(c, b)}) < MaxStalePrunes})
              /\ WriteOK
           \/ /\ stale # {} /\ WriteFails
              /\ UNCHANGED <<dBlock, dSide, side, cnt>>
    /\ pc' = "TidyUndo"
    /\ UNCHANGED <<dState, dTip, dHeight, dUndo, dPending, dReorg, tip, halted,
                   stopping, boot, plan>>

\* Mutant: the horizon is one block too close.
ExpiredUndo_OneEarly == {b \in dUndo \cap Anc[tip] : Height[tip] - Height[b] >= UndoRetention}

\* Active journals below the retention horizon.
ExpiredUndo ==
    {b \in dUndo \cap Anc[tip] : Height[tip] - Height[b] > UndoRetention}

\* pruneActiveUndoJournals walks up from a cursor it keeps in memory, at most
\* MaxUndoDeletes journals a call; how far the cursor has come is abstracted:
\* the call deletes some of the lowest expired journals, perhaps none.
PruneUndo ==
    /\ pc = "TidyUndo"
    /\ \E n \in 0..MaxUndoDeletes :
         LET expired == IF dReorg = NoReorg THEN ExpiredUndo ELSE {}
         IN  dUndo' = dUndo \ {b \in expired :
                Cardinality({c \in expired : Height[c] < Height[b]}) < n}
    /\ pc' = "Idle"
    /\ UNCHANGED <<dState, dTip, dHeight, dBlock, dSide, dPending, dReorg, memory,
                   plan, budget>>

----------------------------------------------------------------------------
(* Saves of the sync thread *)

\* saveChainState takes mtx only: it may run between any two steps of the
\* submission thread that do not hold mtx throughout.
SaveFromSync ==
    /\ SyncSaves /\ ~boot /\ pc \notin {"Down", "Fatal", "ConnectSave", "PromoteSave"}
    /\ CanPublish(FALSE)
    /\ PublishTip
    /\ UNCHANGED <<dState, dBlock, dSide, dUndo, dReorg, memory, pc, plan, budget>>

IntakeNext ==
    \/ \E b \in Blocks : ConnectTip(b)
    \/ SaveConnected \/ VerifyConnected
    \/ \E b \in Blocks, s \in Sources : AdmitSide(b, s) \/ ReplaceSide(b, s)
    \/ PruneStale \/ PruneUndo
    \/ SaveFromSync
==============================================================================
