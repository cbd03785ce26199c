--------------------------- MODULE StartupRecovery ---------------------------
(***************************************************************************)
(* The start of a node: the active chain and the side index are rebuilt    *)
(* from the store, a direct connection whose tip was not published is      *)
(* published, an interrupted reorg is classified and finished forward one  *)
(* block at a time, and a side tip with strictly more work is activated,   *)
(* all before the node has peers.  Whatever the start refuses is fatal.    *)
(***************************************************************************)
EXTENDS ReorgExecutor

CONSTANT Gates      \* the values TRU_ENABLE_08B4C2_RECOVERY may have at a start

ASSUME GatesAssumption == Gates \subseteq BOOLEAN

\* A failed start leaves the process to the operator.
Refuse == pc' = "Fatal"

----------------------------------------------------------------------------
(* Rebuilding the memory *)

\* The mapped blocks in the store, up to the published height, are the chain of
\* t: heights missing at its end shorten it, anything else is inconsistent.
Loads(t) ==
    LET found == {h \in 1..Height[dTip] : dHeight[h] \in dBlock}
    IN  found = 1..Height[t] /\ \A h \in found : dHeight[h] = BlockAt(t, h)

\* The side index as the side records own define it for active tip t.
Rebuild(t, own) ==
    /\ side' = Only(own, Reloaded(t, own, dBlock))
    /\ cnt' = CountersOf(side')

\* Mutant: the purge takes no notice of the marker.
Purged_Always(kept) == OwnedIn(dSide) \ kept

\* The records the reload does not keep are purged, unless a marker says they
\* may be evidence.
Purged(kept) == IF dReorg = NoReorg THEN OwnedIn(dSide) \ kept ELSE {}

\* reloadBlocks and reloadSideChainIndexLocked; a purge that fails is skipped.
Boot ==
    /\ pc = "Down"
    /\ IF \E t \in Blocks : Loads(t)
         THEN \E t \in Blocks :
                /\ Loads(t) /\ tip' = t /\ Rebuild(t, dSide)
                /\ LET purged == Purged(Reloaded(t, dSide, dBlock))
                   IN  \E deleted \in {purged, {}} :
                         /\ IF deleted = purged THEN WriteOK ELSE WriteFails
                         /\ dSide' = Only(dSide, Blocks \ deleted)
                         /\ dBlock' = dBlock \ (deleted \ Anc[t])
                /\ pc' = "BootPending"
         ELSE Refuse /\ UNCHANGED <<tip, side, cnt, dSide, dBlock, budget>>
    /\ halted' = FALSE /\ stopping' = FALSE /\ boot' = TRUE
    /\ plan' = NoPlan
    /\ UNCHANGED <<dState, dTip, dHeight, dUndo, dPending, dReorg>>

----------------------------------------------------------------------------
(* Publishing a pending direct connection *)

PublishesPending ==
    /\ dReorg = NoReorg
    /\ dPending \in NonGenesis /\ Parent[dPending] = dTip
    /\ dHeight[Height[dPending]] = NoBlock
    /\ dPending \in dBlock /\ dPending \notin Indexed
    /\ Probe(dPending) = "post"

\* recoverDirectConnectPendingAtStartup: the state is there, only the tip is
\* published, in one batch with the end of the pending record.
RecoverPending ==
    /\ pc = "BootPending"
    /\ \/ /\ dPending = NoBlock
          /\ pc' = "BootReorg"
          /\ UNCHANGED <<store, tip, budget>>
       \/ /\ PublishesPending
          /\ tip' = dPending /\ dTip' = dPending
          /\ dHeight' = SetHeight(dPending) /\ dPending' = NoBlock
          /\ WriteOK
          /\ pc' = "BootReorg"
          /\ UNCHANGED <<dState, dBlock, dSide, dUndo, dReorg>>
       \/ /\ dPending # NoBlock
          /\ \/ ~PublishesPending /\ WriteOK
             \/ PublishesPending /\ WriteFails
          /\ Refuse
          /\ UNCHANGED <<store, tip>>
    /\ UNCHANGED <<side, cnt, halted, stopping, boot, plan>>

----------------------------------------------------------------------------
(* Classifying an interrupted reorg *)

OldBranch == Leaving(dReorg.orig, dReorg.cand)
NewBranch == Joining(dReorg.orig, dReorg.cand)
ForkPoint == ForkOf(dReorg.orig, dReorg.cand)

\* The blocks the marker's progress says were disconnected and connected.
Disconnected == {b \in OldBranch : Height[b] > Height[dReorg.orig] - dReorg.dd}
Connected    == {b \in NewBranch : Height[b] <= Height[ForkPoint] + dReorg.cd}

\* The tip the progress implies.
MarkedTip == IF dReorg.cd > 0 THEN BlockAt(dReorg.cand, Height[ForkPoint] + dReorg.cd)
                              ELSE BlockAt(dReorg.orig, Height[dReorg.orig] - dReorg.dd)

\* What the reader of the marker asks before the classification.
MarkerShape ==
    /\ dReorg.dd \in 1..Cardinality(OldBranch)
    /\ dReorg.cd \in 0..Cardinality(NewBranch)
    /\ dReorg.phase = "CONNECT_PUBLISHED" <=> dReorg.cd > 0
    /\ dReorg.cd > 0 => dReorg.dd = Cardinality(OldBranch)
    /\ dReorg.tip = MarkedTip
    /\ dReorg.tip = dTip /\ dTip = tip
    /\ dHeight[Height[tip]] = tip

Demoted(b) == side[b] = Local /\ dSide[b] = Local

\* Mutant: the window between the two batches of a promotion is overlooked.
Gap_Overlooked == FALSE

\* The state of the next candidate is committed, its publication is not: its
\* side record is gone.
Gap ==
    /\ dReorg.dd = Cardinality(OldBranch) /\ dReorg.cd < Cardinality(NewBranch)
    /\ dSide[NextOf(dReorg.cand)] = NoSource

GapAuthentic ==
    LET next == NextOf(dReorg.cand)
    IN  /\ OldBranch \cup NewBranch \subseteq dBlock
        /\ \A b \in OldBranch : Demoted(b)
        /\ \A c \in NewBranch \ Connected : dHeight[Height[c]] = NoBlock
        /\ next \notin Indexed /\ Probe(next) = "post"
        /\ \A c \in NewBranch \ (Connected \cup {next}) :
             dSide[c] # NoSource /\ side[c] \in {NoSource, dSide[c]}

\* Every block of the two branches is where the progress says it is.
PrefixAuthentic ==
    /\ {dReorg.orig, dReorg.cand} \subseteq Indexed
    /\ OldBranch \cup NewBranch \subseteq dBlock
    /\ \A b \in Disconnected : b \notin Anc[tip] /\ Demoted(b)
    /\ \A b \in OldBranch \ Disconnected :
         b \in Anc[tip] /\ side[b] = NoSource /\ dSide[b] = NoSource /\ b \in dUndo
    /\ \A c \in Connected : c \in Anc[tip] /\ side[c] = NoSource /\ dSide[c] = NoSource
    /\ \A c \in NewBranch \ Connected :
         c \notin Anc[tip] /\ side[c] # NoSource /\ dSide[c] = side[c]

\* classifyReorgExecutionRecoveryState: the step the recovery takes next.
Verdict ==
    CASE ~MarkerShape -> "reject"
      [] MarkerShape /\ Gap -> IF GapAuthentic THEN "publish" ELSE "reject"
      [] MarkerShape /\ ~Gap /\ ~PrefixAuthentic -> "reject"
      [] OTHER ->
           IF dReorg.dd < Cardinality(OldBranch) THEN "disconnect"
           ELSE IF dReorg.cd < Cardinality(NewBranch) THEN "connect" ELSE "finalize"

----------------------------------------------------------------------------
(* Finishing it forward *)

\* recoverPreparedReorgMarkerAtStartup: an E2 marker is classified and, behind
\* its gate, recovered; a PREPARED marker is abandoned.
RecoverMarker ==
    /\ pc = "BootReorg"
    /\ \/ /\ dReorg = NoReorg /\ pc' = "Reconcile" /\ UNCHANGED <<dReorg, budget>>
       \/ /\ dReorg.phase = "PREPARED"
          /\ \/ dReorg' = NoReorg /\ WriteOK /\ pc' = "Reconcile"
             \/ dReorg' = dReorg /\ WriteFails /\ Refuse
       \/ /\ Moving(dReorg)
          /\ \E gate \in Gates :
               IF gate /\ Verdict # "reject" THEN pc' = "Recover" ELSE Refuse
          /\ UNCHANGED <<dReorg, budget>>
    /\ UNCHANGED <<dState, dTip, dHeight, dBlock, dSide, dUndo, dPending, memory, plan>>

\* The side children a recovered disconnection may have: what was demoted.
RecoverDisconnect ==
    /\ pc = "Recover" /\ Verdict = "disconnect"
    /\ CanRollback(Disconnected)
    /\ RollbackBatch
    /\ Rebuild(Parent[tip], [dSide EXCEPT ![tip] = Local])
    /\ UNCHANGED <<halted, stopping, boot, pc, plan, budget>>

RecoverConnect ==
    /\ pc = "Recover" /\ Verdict = "connect"
    /\ CanPromote(NextOf(dReorg.cand))
    /\ PromoteBatch(NextOf(dReorg.cand))
    /\ pc' = "RecoverSave"
    /\ UNCHANGED <<halted, stopping, boot, plan, budget>>

RecoverSave ==
    /\ pc = "RecoverSave"
    /\ CanPublish(TRUE) /\ PublishPromoted
    /\ Rebuild(tip, dSide)
    /\ pc' = "Recover"
    /\ UNCHANGED <<dState, dBlock, dSide, dUndo, tip, halted, stopping, boot, plan,
                   budget>>

\* The state is proved by the journal: it is published, never applied again.
RecoverPublish ==
    /\ pc = "Recover" /\ Verdict = "publish"
    /\ LET next == NextOf(dReorg.cand)
       IN  /\ tip' = next /\ dTip' = next /\ dHeight' = SetHeight(next)
           /\ dReorg' = Progress(dReorg, "CONNECT_PUBLISHED", dReorg.dd,
                                 dReorg.cd + 1, next)
           /\ Rebuild(next, dSide)
    /\ UNCHANGED <<dState, dBlock, dSide, dUndo, dPending, halted, stopping, boot,
                   pc, plan, budget>>

RecoverFinalize ==
    /\ pc = "Recover" /\ Verdict = "finalize"
    /\ Rebuild(tip, dSide)
    /\ dReorg' = NoReorg
    /\ pc' = "Reconcile"
    /\ UNCHANGED <<dState, dTip, dHeight, dBlock, dSide, dUndo, dPending, tip,
                   halted, stopping, boot, plan, budget>>

\* A step that is refused, or whose write fails, ends the start.
RecoverFails ==
    /\ \/ /\ pc = "Recover"
          /\ \/ Verdict = "reject"
             \/ Verdict = "disconnect" /\ ~CanRollback(Disconnected)
             \/ Verdict = "connect" /\ ~CanPromote(NextOf(dReorg.cand))
          /\ WriteOK
       \/ pc = "RecoverSave" /\ ~CanPublish(TRUE) /\ WriteOK
       \/ pc \in {"Recover", "RecoverSave"} /\ WriteFails
    /\ Refuse
    /\ UNCHANGED <<store, memory, plan>>

----------------------------------------------------------------------------
(* Reconciling with the side pool *)

\* Mutant: branches are compared by height.
Winners_ByHeight ==
    {b \in SideBlocks : /\ cnt.kids[b] = 0 /\ Height[b] > Height[tip]
                        /\ \A c \in SideBlocks : cnt.kids[c] = 0 => Height[c] <= Height[b]}

\* The side leaves with the most work, if that is more than the tip's.
Winners ==
    {b \in SideBlocks : /\ cnt.kids[b] = 0 /\ Work[b] > Work[tip]
                        /\ \A c \in SideBlocks : cnt.kids[c] = 0 => Work[c] <= Work[b]}

\* reconcileWinningSideTipAtStartup: one winner is activated, a tie is not.
Reconcile ==
    /\ pc = "Reconcile"
    /\ LET consistent == /\ dReorg = NoReorg
                         /\ \A b \in SideBlocks : dSide[b] = side[b] /\ b \in dBlock
       IN  CASE AutoReorg /\ ~consistent -> Refuse /\ UNCHANGED <<boot, plan>>
             [] AutoReorg /\ consistent /\ Cardinality(Winners) = 1 ->
                  /\ pc' = "Activate"
                  /\ \E b \in Winners : plan' = [plan EXCEPT !.cand = b]
                  /\ UNCHANGED boot
             [] OTHER -> pc' = "Idle" /\ boot' = FALSE /\ UNCHANGED plan
    /\ UNCHANGED <<store, tip, side, cnt, halted, stopping, budget>>

RecoveryNext ==
    \/ Boot \/ RecoverPending \/ RecoverMarker
    \/ RecoverDisconnect \/ RecoverConnect \/ RecoverSave \/ RecoverPublish
    \/ RecoverFinalize \/ RecoverFails
    \/ Reconcile
==============================================================================
