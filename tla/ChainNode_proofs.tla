-------------------------- MODULE ChainNode_proofs --------------------------
(***************************************************************************)
(* Theorems about ChainNode for every tree of blocks, every policy and any *)
(* number of crashes and failed writes.  The tree and the policy enter     *)
(* through the named assumptions of BlockTree and ChainState only.         *)
(***************************************************************************)
EXTENDS ChainNode, FiniteSetTheorems, TLAPS

----------------------------------------------------------------------------
(* Shapes of the helpers *)

\* The genesis block is never a side block.
SideMaps == {s \in [Blocks -> Sources \cup {NoSource}] : s[Genesis] = NoSource}

\* A set of blocks has a natural cardinality.
LEMMA CardinalityOfBlocks ==
    ASSUME NEW S \in SUBSET Blocks
    PROVE  Cardinality(S) \in Nat
BY FS_Subset, FS_CardinalityType, TreeTyping DEF TreeTyping

\* The block at a height is a block or none.
LEMMA BlockAtType ==
    ASSUME NEW b \in Blocks, NEW h
    PROVE  BlockAt(b, h) \in Blocks \cup {NoBlock}
BY TreeTyping DEF TreeTyping, BlockAt

\* Restricting an ownership map gives an ownership map.
LEMMA OnlyType ==
    ASSUME NEW own \in SideMaps, NEW kept
    PROVE  Only(own, kept) \in SideMaps
BY TreeTyping DEF TreeTyping, Only, SideMaps

\* Changing the owner of a block gives an ownership map.
LEMMA OwnerType ==
    ASSUME NEW own \in SideMaps, NEW b \in NonGenesis, NEW o \in Sources \cup {NoSource}
    PROVE  [own EXCEPT ![b] = o] \in SideMaps
<1>1. own \in [Blocks -> Sources \cup {NoSource}] /\ own[Genesis] = NoSource
  BY DEF SideMaps
<1>2. [own EXCEPT ![b] = o] \in [Blocks -> Sources \cup {NoSource}]
  BY <1>1
<1>3. [own EXCEPT ![b] = o][Genesis] = NoSource
  BY <1>1, TreeTyping DEF TreeTyping, NonGenesis
<1> QED
  BY <1>2, <1>3 DEF SideMaps

\* The counters of an ownership map are counters.
LEMMA CountersOfType ==
    ASSUME NEW s \in SideMaps
    PROVE  CountersOf(s) \in Counters
<1>1. \A P \in SUBSET Blocks : Cardinality(P) \in Int
  BY CardinalityOfBlocks
<1>2. OwnedIn(s) \in SUBSET Blocks
  BY DEF OwnedIn
<1> QED
  BY <1>1, <1>2 DEF CountersOf, Counters, OwnedIn

\* Counting a block in or out gives counters.
LEMMA CountInType ==
    ASSUME NEW c \in Counters, NEW b \in NonGenesis, NEW s \in Sources
    PROVE  CountIn(c, b, s) \in Counters
<1> DEFINE p == Parent[b]
           total == c.total + 1
           kids == [c.kids EXCEPT ![p] = c.kids[p] + 1]
           of == [c.of EXCEPT ![s] = c.of[s] + 1]
           row == [c.kidsOf[s] EXCEPT ![p] = c.kidsOf[s][p] + 1]
           kidsOf == [c.kidsOf EXCEPT ![s] = row]
<1>1. p \in Blocks
  BY TreeTyping DEF TreeTyping
<1>2. total \in Int /\ kids \in [Blocks -> Int] /\ of \in [Sources -> Int]
  BY <1>1 DEF Counters
<1>3. c.kidsOf[s] \in [Blocks -> Int] /\ c.kidsOf \in [Sources -> [Blocks -> Int]]
  BY DEF Counters
<1>4. row \in [Blocks -> Int]
  BY <1>1, <1>3
<1>5. kidsOf \in [Sources -> [Blocks -> Int]]
  BY <1>3, <1>4
<1>6. CountIn(c, b, s) = [c EXCEPT !.total = total, !.kids = kids, !.of = of, !.kidsOf = kidsOf]
  BY DEF CountIn, Counters
<1> HIDE DEF total, kids, of, kidsOf
<1> QED
  BY <1>2, <1>5, <1>6 DEF Counters

\* The same when it leaves.
LEMMA CountOutType ==
    ASSUME NEW c \in Counters, NEW b \in NonGenesis, NEW s \in Sources
    PROVE  CountOut(c, b, s) \in Counters
<1> DEFINE p == Parent[b]
           total == c.total - 1
           kids == [c.kids EXCEPT ![p] = c.kids[p] - 1]
           of == [c.of EXCEPT ![s] = c.of[s] - 1]
           row == [c.kidsOf[s] EXCEPT ![p] = c.kidsOf[s][p] - 1]
           kidsOf == [c.kidsOf EXCEPT ![s] = row]
<1>1. p \in Blocks
  BY TreeTyping DEF TreeTyping
<1>2. total \in Int /\ kids \in [Blocks -> Int] /\ of \in [Sources -> Int]
  BY <1>1 DEF Counters
<1>3. c.kidsOf[s] \in [Blocks -> Int] /\ c.kidsOf \in [Sources -> [Blocks -> Int]]
  BY DEF Counters
<1>4. row \in [Blocks -> Int]
  BY <1>1, <1>3
<1>5. kidsOf \in [Sources -> [Blocks -> Int]]
  BY <1>3, <1>4
<1>6. CountOut(c, b, s) = [c EXCEPT !.total = total, !.kids = kids, !.of = of, !.kidsOf = kidsOf]
  BY DEF CountOut, Counters
<1> HIDE DEF total, kids, of, kidsOf
<1> QED
  BY <1>2, <1>5, <1>6 DEF Counters

\* Counters are added and subtracted pointwise.
LEMMA PlusType ==
    ASSUME NEW c \in Counters, NEW d \in Counters
    PROVE  Plus(c, d) \in Counters
BY DEF Plus, Counters

LEMMA MinusType ==
    ASSUME NEW c \in Counters, NEW d \in Counters
    PROVE  Minus(c, d) \in Counters
BY DEF Minus, Counters

\* The marker with its progress is a marker.
LEMMA ProgressType ==
    ASSUME NEW m \in Marker, NEW t \in Blocks, NEW dd \in Nat, NEW cd \in Nat,
           NEW phase \in {"DISCONNECT_COMMITTED", "CONNECT_PUBLISHED"}
    PROVE  Progress(m, phase, dd, cd, t) \in Marker
BY DEF Progress, Marker

----------------------------------------------------------------------------
(* Type correctness *)

\* TypeOK, and the genesis block stays out of the side pool.
TypeInv == TypeOK /\ side \in SideMaps /\ dSide \in SideMaps

\* The values an empty memory starts with.
LEMMA EmptyTypes ==
    NoSides \in SideMaps /\ NoReorg \in Marker /\ NoPlan \in Plans /\ Genesis \in Blocks
BY TreeTyping DEF TreeTyping, NoSides, SideMaps, NoReorg, Marker, NoPlan, Plans

LEMMA InitTypes == Init => TypeInv
<1> SUFFICES ASSUME Init PROVE TypeInv
  OBVIOUS
<1>1. side \in SideMaps /\ dSide \in SideMaps /\ cnt \in Counters
  BY EmptyTypes, CountersOfType DEF Init
<1>2. dHeight \in [Heights -> Blocks \cup {NoBlock}]
  BY EmptyTypes DEF Init
<1>3. pc \in Steps
  BY DEF Init, Steps
<1>4. budget \in [crashes : 0..MaxCrashes, faults : 0..MaxFaults]
  BY PolicyAssumption DEF Init, PolicyAssumption
<1>5. dState \in Blocks /\ dTip \in Blocks /\ dPending \in Blocks \cup {NoBlock}
      /\ dBlock \in SUBSET Blocks /\ dUndo \in SUBSET Blocks /\ tip \in Blocks
  BY EmptyTypes DEF Init
<1> QED
  BY <1>1, <1>2, <1>3, <1>4, <1>5, EmptyTypes DEF TypeInv, TypeOK, Init, SideMaps

\* A write that fails or succeeds keeps the budget in its bounds.
LEMMA BudgetType ==
    ASSUME TypeInv, WriteOK \/ WriteFails
    PROVE  budget' \in [crashes : 0..MaxCrashes, faults : 0..MaxFaults]
BY PolicyAssumption DEF PolicyAssumption, TypeInv, TypeOK, WriteOK, WriteFails

\* Publishing the tip writes blocks.
LEMMA PublishTipType ==
    ASSUME TypeInv, PublishTip
    PROVE  /\ dTip' \in Blocks
           /\ dHeight' \in [Heights -> Blocks \cup {NoBlock}]
           /\ dPending' \in Blocks \cup {NoBlock}
BY DEF TypeInv, TypeOK, PublishTip, SetHeight

\* A rebuilt side index is a side index.
LEMMA RebuildType ==
    ASSUME NEW t, NEW own \in SideMaps, Rebuild(t, own)
    PROVE  side' \in SideMaps /\ cnt' \in Counters
BY OnlyType, CountersOfType DEF Rebuild

\* Deleting side blocks leaves a side index.
LEMMA DropSidesType ==
    ASSUME TypeInv, NEW vs \in SUBSET Blocks, DropSides(vs)
    PROVE  /\ dBlock' \in SUBSET Blocks
           /\ dSide' \in SideMaps /\ side' \in SideMaps
           /\ cnt' \in Counters
<1>2. dBlock' \in SUBSET Blocks
  BY DEF DropSides, DeleteSides, TypeInv, TypeOK
<1>3. dSide' \in SideMaps /\ side' \in SideMaps
  BY OnlyType DEF DropSides, DeleteSides, TypeInv
<1>4. cnt' \in Counters
  BY OnlyType, CountersOfType, MinusType DEF DropSides, TypeInv, TypeOK
<1> QED
  BY <1>2, <1>3, <1>4

\* Disconnecting the tip is typed.
LEMMA RollbackBatchType ==
    ASSUME TypeInv, tip # Genesis, RollbackBatch
    PROVE  /\ dState' \in Blocks /\ dTip' \in Blocks /\ tip' \in Blocks
           /\ tip' = Parent[tip]
           /\ dHeight' \in [Heights -> Blocks \cup {NoBlock}]
           /\ dSide' \in SideMaps
           /\ dReorg' \in Marker
           /\ UNCHANGED <<dBlock, dUndo, dPending>>
<1>1. Parent[tip] \in Blocks
  BY TreeTyping DEF TreeTyping, TypeInv, TypeOK, NonGenesis
<1>2. dHeight' \in [Heights -> Blocks \cup {NoBlock}]
  <2>1. dHeight \in [Heights -> Blocks \cup {NoBlock}]
    BY DEF TypeInv, TypeOK
  <2>2. HeightsBelow \in [Heights -> Blocks \cup {NoBlock}]
    BY <1>1, <2>1 DEF HeightsBelow
  <2> QED
    BY <2>2 DEF RollbackBatch
<1>3. dSide' \in SideMaps
  BY OwnerType DEF RollbackBatch, TypeInv, TypeOK, Sources, NonGenesis
<1>4. dReorg.dd + 1 \in Nat /\ dReorg \in Marker
  BY DEF TypeInv, TypeOK, Marker
<1>5. dReorg' \in Marker
  BY <1>1, <1>4, ProgressType DEF RollbackBatch
<1> QED
  BY <1>1, <1>2, <1>3, <1>5 DEF RollbackBatch

\* Promoting a block is typed.
LEMMA PromoteBatchType ==
    ASSUME TypeInv, NEW b, CanPromote(b), PromoteBatch(b)
    PROVE  /\ dState' \in Blocks /\ tip' \in Blocks
           /\ dUndo' \in SUBSET Blocks /\ dBlock' \in SUBSET Blocks
           /\ dSide' \in SideMaps /\ side' \in SideMaps
           /\ cnt' \in Counters
           /\ UNCHANGED <<dTip, dHeight, dPending, dReorg>>
<1>1. b \in NonGenesis /\ b \in Blocks
  BY DEF CanPromote, Applicable, Extends, NonGenesis
<1>2. side[b] \in Sources
  BY <1>1 DEF CanPromote, TypeInv, TypeOK
<1>3. cnt' \in Counters
  BY <1>1, <1>2, CountOutType DEF PromoteBatch, TypeInv, TypeOK
<1>4. dSide' \in SideMaps /\ side' \in SideMaps
  BY <1>1, OwnerType DEF PromoteBatch, SidesWithout, TypeInv
<1>5. dUndo' \in SUBSET Blocks /\ dBlock' \in SUBSET Blocks
  BY <1>1 DEF PromoteBatch, TypeInv, TypeOK
<1> QED
  BY <1>1, <1>3, <1>4, <1>5 DEF PromoteBatch

\* A step of the submission path keeps the types.
LEMMA IntakeTypes ==
    ASSUME TypeInv, IntakeNext
    PROVE  TypeInv'
<1> USE DEF TypeInv, TypeOK, SideMaps
<1>1. ASSUME NEW b \in Blocks, ConnectTip(b) PROVE TypeInv'
  BY <1>1 DEF ConnectTip, Steps
<1>2. CASE SaveConnected
  BY <1>2, PublishTipType, BudgetType DEF SaveConnected, memory, Steps
<1>3. CASE VerifyConnected
  BY <1>3 DEF VerifyConnected, store, Steps
<1>4. ASSUME NEW b \in Blocks, NEW s \in Sources, AdmitSide(b, s) PROVE TypeInv'
  <2>1. b \in NonGenesis
    BY <1>4 DEF AdmitSide, SideAdmissible
  <2>2. dSide' \in SideMaps /\ side' \in SideMaps /\ cnt' \in Counters
    BY <1>4, <2>1, OwnerType, CountInType DEF AdmitSide
  <2>3. plan' \in Plans
    BY <1>4 DEF AdmitSide, Plans
  <2> QED
    BY <1>4, <2>2, <2>3 DEF AdmitSide, Steps
<1>5. ASSUME NEW b \in Blocks, NEW s \in Sources, ReplaceSide(b, s) PROVE TypeInv'
  <2>1. b \in NonGenesis
    BY <1>5 DEF ReplaceSide, SideAdmissible
  <2>2. PICK v \in Blocks :
          /\ IsVictim(v, b, s)
          /\ dBlock' = (dBlock \ {v}) \cup {b}
          /\ dSide' = [dSide EXCEPT ![v] = NoSource, ![b] = s]
          /\ side' = [side EXCEPT ![v] = NoSource, ![b] = s]
          /\ cnt' = CountIn(CntWithout(v), b, s)
    BY <1>5 DEF ReplaceSide
  <2>3. v \in NonGenesis /\ side[v] \in Sources
    BY <2>2 DEF IsVictim, Evictable, SideBlocks, OwnedIn, NonGenesis
  <2>4. /\ [dSide EXCEPT ![v] = NoSource] \in SideMaps
        /\ [side EXCEPT ![v] = NoSource] \in SideMaps
    BY <2>3, OwnerType
  <2>5. dSide' \in SideMaps /\ side' \in SideMaps
    BY <2>1, <2>2, <2>4, OwnerType
  <2>6. cnt' \in Counters
    BY <2>1, <2>2, <2>3, CountInType, CountOutType DEF CntWithout
  <2>7. plan' \in Plans
    BY <1>5 DEF ReplaceSide, Plans
  <2> QED
    BY <1>5, <2>2, <2>5, <2>6, <2>7 DEF ReplaceSide, Steps
<1>6. CASE PruneStale
  <2>1. /\ dBlock' \in SUBSET Blocks /\ dSide' \in SideMaps /\ side' \in SideMaps
        /\ cnt' \in Counters
    BY <1>6, DropSidesType DEF PruneStale, StaleLeaves, SideBlocks, OwnedIn
  <2>2. budget' \in [crashes : 0..MaxCrashes, faults : 0..MaxFaults]
    BY <1>6, BudgetType DEF PruneStale
  <2> QED
    BY <1>6, <2>1, <2>2 DEF PruneStale, Steps
<1>7. CASE PruneUndo
  BY <1>7 DEF PruneUndo, memory, Steps
<1>8. CASE SaveFromSync
  BY <1>8, PublishTipType DEF SaveFromSync, memory
<1> QED
  BY <1>1, <1>2, <1>3, <1>4, <1>5, <1>6, <1>7, <1>8 DEF IntakeNext

\* Ending an activation, one way or the other.
LEMMA SettleType ==
    ASSUME TypeInv, NEW t, Settle(t) \/ Halt
    PROVE  pc' \in Steps /\ boot' \in BOOLEAN /\ halted' \in BOOLEAN
BY DEF TypeInv, TypeOK, Settle, Halt, Steps

\* A step of the reorg executor keeps the types.
LEMMA ExecutorTypes ==
    ASSUME TypeInv, ExecutorNext
    PROVE  TypeInv'
<1> USE DEF TypeInv, TypeOK, SideMaps
<1>1. CASE SkipActivation
  BY <1>1, SettleType DEF SkipActivation, store
<1>2. CASE DeferActivation
  BY <1>2, SettleType, BudgetType DEF DeferActivation, store
<1>3. CASE ClearBlockers
  BY <1>3, DropSidesType DEF ClearBlockers, Blockers, SideBlocks, OwnedIn
<1>4. CASE Prepare
  <2>1. plan' \in Plans
    BY <1>4 DEF Prepare, Plans
  <2>2. dReorg' \in Marker
    BY <1>4, EmptyTypes DEF Prepare, Plans, Marker
  <2> QED
    BY <1>4, <2>1, <2>2 DEF Prepare, memory, Steps
<1>5. CASE BeginExecution
  BY <1>5 DEF BeginExecution, store, memory, Steps
<1>6. CASE Abandon
  <2>1. pc' \in Steps /\ boot' \in BOOLEAN /\ halted' \in BOOLEAN
    BY <1>6, SettleType DEF Abandon
  <2>2. dReorg' \in Marker
    BY <1>6, EmptyTypes DEF Abandon
  <2>3. budget' \in [crashes : 0..MaxCrashes, faults : 0..MaxFaults]
    BY <1>6, BudgetType DEF Abandon
  <2> QED
    BY <1>6, <2>1, <2>2, <2>3 DEF Abandon
<1>7. CASE DisconnectTip
  BY <1>7, RollbackBatchType DEF DisconnectTip, CanRollback, Steps
<1>8. CASE DisconnectFails
  <2>1. pc' \in Steps /\ boot' \in BOOLEAN /\ halted' \in BOOLEAN
    BY <1>8, SettleType DEF DisconnectFails, Steps
  <2>2. budget' \in [crashes : 0..MaxCrashes, faults : 0..MaxFaults]
    BY <1>8, BudgetType DEF DisconnectFails
  <2> QED
    BY <1>8, <2>1, <2>2 DEF DisconnectFails, store
<1>9. CASE PromoteNext
  BY <1>9, PromoteBatchType DEF PromoteNext, Steps
<1>10. CASE PromoteFails
  BY <1>10, SettleType, BudgetType DEF PromoteFails, store
<1>11. CASE SavePromoted
  <2>1. CASE CanPublish(TRUE) /\ PublishPromoted /\ WriteOK
    <3>1. dReorg' \in Marker
      <4>1. dReorg.dd \in Nat /\ dReorg.cd + 1 \in Nat
        BY DEF Marker
      <4> QED
        BY <2>1, <4>1, ProgressType DEF PublishPromoted
    <3> QED
      BY <1>11, <2>1, <3>1, PublishTipType, BudgetType
      DEF SavePromoted, PublishPromoted, memory, Steps
  <2>2. CASE UNCHANGED <<dTip, dHeight, dPending, dReorg>> /\ (WriteFails \/ WriteOK)
    BY <1>11, <2>2, BudgetType DEF SavePromoted, memory, Steps
  <2> QED
    BY <1>11, <2>1, <2>2 DEF SavePromoted, WriteOK
<1>12. CASE VerifyPromoted
  BY <1>12, SettleType DEF VerifyPromoted, AfterPromotion, store, Steps
<1>13. CASE FinishReorg
  <2> DEFINE old == Leaving(plan.orig, plan.cand)
             added == CountersOf(Only(WithLocal(old), old))
  <2>1. plan.orig \in Blocks /\ plan.cand \in Blocks
    BY DEF Plans
  <2>2. Genesis \notin old
    BY <2>1, TreeClosure DEF Leaving
  <2>3. WithLocal(old) \in SideMaps
    <3>1. WithLocal(old) \in [Blocks -> Sources \cup {NoSource}]
      BY DEF WithLocal, Sources
    <3>2. WithLocal(old)[Genesis] = NoSource
      BY <2>2, EmptyTypes DEF WithLocal
    <3> QED
      BY <3>1, <3>2
  <2>4. Plus(cnt, added) \in Counters
    BY <2>3, OnlyType, CountersOfType, PlusType
  <2>5. side' \in SideMaps /\ cnt' \in Counters
    BY <1>13, <2>3, <2>4 DEF FinishReorg
  <2>6. pc' \in Steps /\ boot' \in BOOLEAN /\ halted' \in BOOLEAN
    BY <1>13, SettleType DEF FinishReorg
  <2>7. dReorg' \in Marker
    BY <1>13, EmptyTypes DEF FinishReorg
  <2>8. budget' \in [crashes : 0..MaxCrashes, faults : 0..MaxFaults]
    BY <1>13, BudgetType DEF FinishReorg
  <2> QED
    BY <1>13, <2>5, <2>6, <2>7, <2>8 DEF FinishReorg
<1> QED
  BY <1>1, <1>2, <1>3, <1>4, <1>5, <1>6, <1>7, <1>8, <1>9, <1>10, <1>11, <1>12, <1>13
  DEF ExecutorNext

\* A step of the start keeps the types.
LEMMA RecoveryTypes ==
    ASSUME TypeInv, RecoveryNext
    PROVE  TypeInv'
<1> USE DEF TypeInv, TypeOK, SideMaps
<1>1. CASE Boot
  <2>1. CASE \E t \in Blocks : Loads(t)
    <3>1. PICK t \in Blocks :
            /\ tip' = t /\ Rebuild(t, dSide) /\ pc' = "BootPending"
            /\ \E deleted :
                 /\ WriteOK \/ WriteFails
                 /\ dSide' = Only(dSide, Blocks \ deleted)
                 /\ dBlock' = dBlock \ (deleted \ Anc[t])
      BY <1>1, <2>1 DEF Boot
    <3>2. side' \in SideMaps /\ cnt' \in Counters
      BY <3>1, RebuildType
    <3>3. dSide' \in SideMaps /\ dBlock' \in SUBSET Blocks
      BY <3>1, OnlyType
    <3>4. budget' \in [crashes : 0..MaxCrashes, faults : 0..MaxFaults]
      BY <3>1, BudgetType DEF WriteOK
    <3> QED
      BY <1>1, <3>1, <3>2, <3>3, <3>4, EmptyTypes DEF Boot, Steps
  <2>2. CASE ~\E t \in Blocks : Loads(t)
    BY <1>1, <2>2, EmptyTypes DEF Boot, Refuse, Steps
  <2> QED
    BY <2>1, <2>2
<1>2. CASE RecoverPending
  <2>1. ASSUME UNCHANGED <<store, tip>> PROVE TypeInv'
    <3>1. budget' \in [crashes : 0..MaxCrashes, faults : 0..MaxFaults]
      BY <1>2, BudgetType DEF RecoverPending, WriteOK
    <3> QED
      BY <1>2, <2>1, <3>1 DEF RecoverPending, store, Refuse, Steps
  <2>2. CASE PublishesPending /\ tip' = dPending /\ dTip' = dPending
    <3>1. dPending \in Blocks
      BY <2>2 DEF PublishesPending, NonGenesis
    <3>2. SetHeight(dPending) \in [Heights -> Blocks \cup {NoBlock}]
      BY <3>1 DEF SetHeight
    <3>3. \/ UNCHANGED <<store, tip>>
          \/ /\ dHeight' = SetHeight(dPending) /\ dPending' = NoBlock
             /\ pc' = "BootReorg"
             /\ UNCHANGED <<dState, dBlock, dSide, dUndo, dReorg, budget>>
      BY <1>2, <2>2 DEF RecoverPending, WriteOK
    <3>4. UNCHANGED <<side, cnt, halted, stopping, boot, plan>>
      BY <1>2 DEF RecoverPending
    <3> QED
      BY <2>1, <2>2, <3>1, <3>2, <3>3, <3>4 DEF Steps
  <2> QED
    BY <1>2, <2>1, <2>2 DEF RecoverPending
<1>3. CASE RecoverMarker
  <2>1. dReorg' \in Marker
    BY <1>3, EmptyTypes DEF RecoverMarker
  <2>2. budget' \in [crashes : 0..MaxCrashes, faults : 0..MaxFaults]
    BY <1>3, BudgetType DEF RecoverMarker, WriteOK
  <2>3. pc' \in Steps
    BY <1>3 DEF RecoverMarker, Refuse, Steps
  <2> QED
    BY <1>3, <2>1, <2>2, <2>3 DEF RecoverMarker, memory
<1>4. CASE RecoverDisconnect
  <2>1. tip \in NonGenesis
    BY <1>4 DEF RecoverDisconnect, CanRollback, NonGenesis
  <2>2. [dSide EXCEPT ![tip] = Local] \in SideMaps
    BY <2>1, OwnerType DEF Sources
  <2>3. side' \in SideMaps /\ cnt' \in Counters
    BY <1>4, <2>2, RebuildType DEF RecoverDisconnect
  <2> QED
    BY <1>4, <2>3, RollbackBatchType DEF RecoverDisconnect, CanRollback
<1>5. CASE RecoverConnect
  BY <1>5, PromoteBatchType DEF RecoverConnect, Steps
<1>6. CASE RecoverSave
  <2>1. dReorg.dd \in Nat /\ dReorg.cd + 1 \in Nat
    BY DEF Marker
  <2>2. dReorg' \in Marker
    BY <1>6, <2>1, ProgressType DEF RecoverSave, PublishPromoted
  <2>3. side' \in SideMaps /\ cnt' \in Counters
    BY <1>6, RebuildType DEF RecoverSave
  <2> QED
    BY <1>6, <2>2, <2>3, PublishTipType DEF RecoverSave, PublishPromoted, Steps
<1>7. CASE RecoverPublish
  <2> DEFINE next == NextOf(dReorg.cand)
  <2>1. next \in Blocks
    BY <1>7 DEF RecoverPublish, Verdict, GapAuthentic, Probe
  <2>2. dReorg.dd \in Nat /\ dReorg.cd + 1 \in Nat
    BY DEF Marker
  <2>3. dReorg' \in Marker
    BY <1>7, <2>1, <2>2, ProgressType DEF RecoverPublish
  <2>4. side' \in SideMaps /\ cnt' \in Counters
    BY <1>7, RebuildType DEF RecoverPublish
  <2>5. dHeight' \in [Heights -> Blocks \cup {NoBlock}]
    BY <1>7, <2>1 DEF RecoverPublish, SetHeight
  <2> QED
    BY <1>7, <2>1, <2>3, <2>4, <2>5 DEF RecoverPublish
<1>8. CASE RecoverFinalize
  BY <1>8, RebuildType, EmptyTypes DEF RecoverFinalize, Steps
<1>9. CASE RecoverFails
  BY <1>9, BudgetType DEF RecoverFails, Refuse, store, memory, Steps
<1>10. CASE Reconcile
  <2>1. plan' \in Plans /\ boot' \in BOOLEAN /\ pc' \in Steps
    BY <1>10 DEF Reconcile, Winners, SideBlocks, OwnedIn, Plans, Refuse, Steps
  <2> QED
    BY <1>10, <2>1 DEF Reconcile, store
<1> QED
  BY <1>1, <1>2, <1>3, <1>4, <1>5, <1>6, <1>7, <1>8, <1>9, <1>10 DEF RecoveryNext

\* Starting and stopping keeps the types.
LEMMA LifeTypes ==
    ASSUME TypeInv, LifeNext
    PROVE  TypeInv'
<1> USE DEF TypeInv, TypeOK, SideMaps
<1>1. ASSUME Lose
      PROVE  /\ pc' \in Steps /\ tip' \in Blocks /\ side' \in SideMaps
             /\ cnt' \in Counters /\ plan' \in Plans
             /\ halted' \in BOOLEAN /\ stopping' \in BOOLEAN /\ boot' \in BOOLEAN
  BY <1>1, EmptyTypes, CountersOfType DEF Lose, Steps
<1>2. CASE Crash
  <2>1. budget' \in [crashes : 0..MaxCrashes, faults : 0..MaxFaults]
    BY <1>2, PolicyAssumption DEF PolicyAssumption, Crash
  <2> QED
    BY <1>1, <1>2, <2>1 DEF Crash, store
<1>3. CASE BeginStop
  BY <1>3 DEF BeginStop, store
<1>4. CASE Exit
  <2>1. budget' \in [crashes : 0..MaxCrashes, faults : 0..MaxFaults]
    BY <1>4, BudgetType DEF Exit
  <2>2. dTip' \in Blocks
    BY <1>4 DEF Exit
  <2>3. dHeight' \in [Heights -> Blocks \cup {NoBlock}]
    BY <1>4, BlockAtType DEF Exit
  <2> QED
    BY <1>1, <1>4, <2>1, <2>2, <2>3 DEF Exit
<1>5. CASE GiveUp
  BY <1>1, <1>5 DEF GiveUp, store
<1> QED
  BY <1>2, <1>3, <1>4, <1>5 DEF LifeNext

\* Every step keeps the types.
LEMMA StepTypes == TypeInv /\ [Next]_vars => TypeInv'
<1> SUFFICES ASSUME TypeInv, [Next]_vars PROVE TypeInv'
  OBVIOUS
<1>1. CASE UNCHANGED vars
  BY <1>1 DEF vars, store, memory, TypeInv, TypeOK
<1> QED
  BY <1>1, IntakeTypes, ExecutorTypes, RecoveryTypes, LifeTypes DEF Next

\* The store, the memory and the thread always have their types, whatever the
\* tree, the policy, the crashes and the failed writes: TypeOK of ChainNode.
THEOREM TypeCorrect == Spec => []TypeOK
<1>1. Init => TypeInv
  BY InitTypes
<1>2. TypeInv /\ [Next]_vars => TypeInv'
  BY StepTypes
<1>3. TypeInv => TypeOK
  BY DEF TypeInv
<1> QED
  BY <1>1, <1>2, <1>3, PTL DEF Spec

----------------------------------------------------------------------------
(* A halted node writes nothing *)

\* A node halts only by leaving the operation that failed.
HaltInv == halted => pc \in {"Idle", "Fatal"}

LEMMA HaltStep ==
    ASSUME HaltInv, [Next]_vars
    PROVE  HaltInv' /\ (halted => UNCHANGED store)
<1> USE DEF HaltInv, store, memory
<1>1. CASE UNCHANGED vars
  BY <1>1 DEF vars
<1>2. CASE IntakeNext
  <2>1. ASSUME NEW b \in Blocks, ConnectTip(b) PROVE HaltInv' /\ ~halted
    BY <2>1 DEF ConnectTip, Accepting
  <2>2. ASSUME NEW b \in Blocks, NEW s \in Sources, AdmitSide(b, s) \/ ReplaceSide(b, s)
        PROVE  HaltInv' /\ ~halted
    BY <2>2 DEF AdmitSide, ReplaceSide, SideAdmissible, Accepting
  <2>3. CASE SaveConnected
    BY <2>3 DEF SaveConnected
  <2>6. CASE VerifyConnected
    BY <2>6 DEF VerifyConnected
  <2>4. CASE PruneStale \/ PruneUndo
    BY <2>4 DEF PruneStale, PruneUndo
  <2>5. CASE SaveFromSync
    BY <2>5 DEF SaveFromSync, CanPublish
  <2> QED
    BY <1>2, <2>1, <2>2, <2>3, <2>4, <2>5, <2>6 DEF IntakeNext
<1>3. CASE ExecutorNext
  <2>1. ASSUME NEW t, Settle(t) \/ Halt, ~halted PROVE HaltInv'
    BY <2>1 DEF Settle, Halt
  <2>2. ~halted
    BY <1>3 DEF ExecutorNext, SkipActivation, DeferActivation, ClearBlockers, Prepare,
       BeginExecution, Abandon, DisconnectTip, DisconnectFails, PromoteNext, PromoteFails,
       SavePromoted, VerifyPromoted, FinishReorg
  <2>3. CASE SkipActivation \/ DeferActivation \/ ClearBlockers \/ Prepare
             \/ BeginExecution \/ Abandon
    BY <2>1, <2>2, <2>3 DEF SkipActivation, DeferActivation, ClearBlockers, Prepare,
       BeginExecution, Abandon
  <2>4. CASE DisconnectTip \/ DisconnectFails
    BY <2>1, <2>2, <2>4 DEF DisconnectTip, DisconnectFails
  <2>5. CASE PromoteNext \/ PromoteFails
    BY <2>1, <2>2, <2>5 DEF PromoteNext, PromoteFails
  <2>7. CASE SavePromoted
    BY <2>2, <2>7 DEF SavePromoted
  <2>8. CASE VerifyPromoted
    BY <2>1, <2>2, <2>8 DEF VerifyPromoted
  <2>6. CASE FinishReorg
    BY <2>1, <2>2, <2>6 DEF FinishReorg
  <2> QED
    BY <1>3, <2>2, <2>3, <2>4, <2>5, <2>6, <2>7, <2>8 DEF ExecutorNext
<1>4. CASE RecoveryNext
  <2>1. CASE Boot
    BY <2>1 DEF Boot
  <2>2. CASE RecoverPending \/ RecoverMarker
    BY <2>2 DEF RecoverPending, RecoverMarker
  <2>3. CASE RecoverDisconnect
    BY <2>3 DEF RecoverDisconnect
  <2>4. CASE RecoverConnect
    BY <2>4 DEF RecoverConnect
  <2>5. CASE RecoverSave
    BY <2>5 DEF RecoverSave
  <2>6. CASE RecoverPublish
    BY <2>6 DEF RecoverPublish
  <2>7. CASE RecoverFinalize
    BY <2>7 DEF RecoverFinalize
  <2>8. CASE RecoverFails
    BY <2>8 DEF RecoverFails
  <2>9. CASE Reconcile
    BY <2>9 DEF Reconcile
  <2> QED
    BY <1>4, <2>1, <2>2, <2>3, <2>4, <2>5, <2>6, <2>7, <2>8, <2>9 DEF RecoveryNext
<1>5. CASE LifeNext
  BY <1>5 DEF LifeNext, Crash, BeginStop, Exit, SavesAtExit, GiveUp, Lose
<1> QED
  BY <1>1, <1>2, <1>3, <1>4, <1>5 DEF Next

\* After a fail-stop nothing reaches the store until the process is restarted,
\* not even the final save of the shutdown: HaltedWritesNothing of ChainNode,
\* about reorgExecutionHalted_ and its guards.
THEOREM FailStopHolds == Spec => HaltedWritesNothing
<1>1. Init => HaltInv
  BY DEF Init, HaltInv
<1>2. HaltInv /\ [Next]_vars => HaltInv'
  BY HaltStep
<1>3. HaltInv /\ [Next]_vars => [halted => UNCHANGED store]_vars
  BY HaltStep
<1> QED
  BY <1>1, <1>2, <1>3, PTL DEF Spec, HaltedWritesNothing

----------------------------------------------------------------------------
(* Only validated blocks are ever confirmed *)

\* The mapping names only blocks of valid chains.
ValidIndex(index) == \A h \in Heights : index[h] = NoBlock \/ ValidChain(index[h])

\* The published tip, the tip in memory and the mapping are valid as well: a
\* start rebuilds the memory from the mapping, and a connection extends it.
ValidInv == /\ ValidChain(dState) /\ ValidChain(dTip) /\ ValidChain(tip)
            /\ ValidIndex(dHeight)

\* The chain of a valid child of a valid chain is valid.
LEMMA ValidChild ==
    ASSUME NEW b \in NonGenesis, ValidChain(Parent[b]), b \in Valid
    PROVE  ValidChain(b)
BY TreeShape DEF TreeShape, ValidChain

\* The parent of a valid chain's end is the end of a valid chain.
LEMMA ValidParent ==
    ASSUME NEW b \in NonGenesis, ValidChain(b)
    PROVE  ValidChain(Parent[b])
BY TreeShape DEF TreeShape, ValidChain

LEMMA ValidGenesis == ValidChain(Genesis)
BY TreeTyping, TreeShape DEF TreeTyping, TreeShape, ValidChain

\* Every block of a valid chain ends a valid chain.
LEMMA ValidPrefix ==
    ASSUME NEW b \in Blocks, ValidChain(b), NEW h, BlockAt(b, h) # NoBlock
    PROVE  ValidChain(BlockAt(b, h))
<1>1. BlockAt(b, h) \in Anc[b]
  BY DEF BlockAt
<1> QED
  BY <1>1, TreeClosure DEF TreeClosure, ValidChain

\* Mapping the end of a valid chain keeps the mapping valid.
LEMMA ValidSet ==
    ASSUME TypeInv, ValidIndex(dHeight), NEW b \in Blocks, ValidChain(b)
    PROVE  ValidIndex(SetHeight(b))
BY DEF TypeInv, TypeOK, ValidIndex, SetHeight, Heights

\* A rollback maps the parent, the end of a valid chain, and nothing above it.
LEMMA ValidBelow ==
    ASSUME TypeInv, ValidIndex(dHeight), ValidChain(Parent[tip])
    PROVE  ValidIndex(HeightsBelow)
<1>1. ASSUME NEW h \in Heights
      PROVE  HeightsBelow[h] \in {NoBlock, Parent[tip], dHeight[h]}
  BY <1>1 DEF TypeInv, TypeOK, HeightsBelow
<1> QED
  BY <1>1 DEF ValidIndex

\* What a start loads is a chain the mapping names.
LEMMA ValidLoaded ==
    ASSUME TypeInv, ValidIndex(dHeight), NEW t \in Blocks, Loads(t)
    PROVE  ValidChain(t)
<1>1. Height[t] \in Nat /\ Height[t] >= 1
  BY TreeTyping, TreeShape, TreeClosure DEF TreeTyping, TreeShape, TreeClosure
<1>2. t \in Anc[t]
  BY TreeTyping, TreeShape DEF TreeTyping, TreeShape, NonGenesis
<1>3. BlockAt(t, Height[t]) = t
  BY <1>2, TreeClosure DEF TreeClosure, BlockAt
<1>4. Height[t] \in 1..Height[t]
  BY <1>1
<1>5. dHeight[Height[t]] \in dBlock /\ dHeight[Height[t]] = t
  BY <1>3, <1>4 DEF Loads
<1>6. Height[t] \in Heights
  BY DEF Heights
<1> QED
  BY <1>5, <1>6, TreeTyping DEF TreeTyping, ValidIndex, TypeInv, TypeOK

LEMMA ValidStep ==
    ASSUME TypeInv, ValidInv, [Next]_vars
    PROVE  ValidInv'
<1> USE DEF ValidInv
<1>a. dTip \in Blocks /\ tip \in Blocks /\ dState \in Blocks
  BY DEF TypeInv, TypeOK
<1>0. ASSUME UNCHANGED <<dState, dTip, dHeight, tip>> PROVE ValidInv'
  BY <1>0 DEF ValidChain, ValidIndex
<1>1. ASSUME dState' = dState, tip' \in {tip, dState, Genesis},
             \/ UNCHANGED <<dTip, dHeight>>
             \/ dTip' \in {tip, dState} /\ dHeight' = SetHeight(dTip')
      PROVE  ValidInv'
  <2>1. CASE UNCHANGED <<dTip, dHeight>>
    BY <1>1, <2>1, ValidGenesis DEF ValidChain, ValidIndex
  <2>2. CASE dTip' \in {tip, dState} /\ dHeight' = SetHeight(dTip')
    <3>1. ValidIndex(SetHeight(tip)) /\ ValidIndex(SetHeight(dState))
      BY <1>a, ValidSet
    <3> QED
      BY <1>1, <2>2, <3>1, ValidGenesis DEF ValidChain, ValidIndex
  <2> QED
    BY <1>1, <2>1, <2>2
<1>2. ASSUME NEW b, Applicable(b), dState' = b, tip' = b, UNCHANGED <<dTip, dHeight>>
      PROVE  ValidInv'
  BY <1>2, ValidChild DEF Applicable, Extends, ValidChain, ValidIndex
<1>3. ASSUME tip # Genesis, RollbackBatch PROVE ValidInv'
  <2>1. ValidChain(Parent[tip])
    BY <1>3, ValidParent DEF TypeInv, TypeOK, NonGenesis
  <2>2. ValidIndex(HeightsBelow)
    BY <2>1, ValidBelow
  <2> QED
    BY <1>3, <2>1, <2>2 DEF RollbackBatch, ValidChain, ValidIndex
<1>4. CASE UNCHANGED vars
  BY <1>0, <1>4 DEF vars, store, memory
<1>5. CASE IntakeNext
  <2>1. ASSUME NEW b \in Blocks, ConnectTip(b) PROVE ValidInv'
    BY <1>2, <2>1 DEF ConnectTip
  <2>2. ASSUME NEW b \in Blocks, NEW s \in Sources, AdmitSide(b, s) \/ ReplaceSide(b, s)
        PROVE  ValidInv'
    BY <1>0, <2>2 DEF AdmitSide, ReplaceSide
  <2>3. CASE SaveConnected \/ SaveFromSync
    BY <1>1, <2>3 DEF SaveConnected, SaveFromSync, PublishTip, memory
  <2>4. CASE VerifyConnected \/ PruneStale \/ PruneUndo
    BY <1>0, <2>4 DEF VerifyConnected, PruneStale, PruneUndo, store, memory
  <2> QED
    BY <1>5, <2>1, <2>2, <2>3, <2>4 DEF IntakeNext
<1>6. CASE ExecutorNext
  <2>1. CASE DisconnectTip
    BY <1>3, <2>1 DEF DisconnectTip, CanRollback
  <2>2. CASE PromoteNext
    BY <1>2, <2>2 DEF PromoteNext, CanPromote, PromoteBatch
  <2>3. CASE SavePromoted
    BY <1>1, <2>3 DEF SavePromoted, PublishPromoted, PublishTip, memory
  <2>4. CASE SkipActivation \/ DeferActivation \/ ClearBlockers \/ Prepare
             \/ BeginExecution \/ Abandon
    BY <1>0, <2>4 DEF SkipActivation, DeferActivation, ClearBlockers, Prepare,
       BeginExecution, Abandon, store, memory
  <2>5. CASE DisconnectFails \/ PromoteFails \/ VerifyPromoted \/ FinishReorg
    BY <1>0, <2>5 DEF DisconnectFails, PromoteFails, VerifyPromoted, FinishReorg, store
  <2> QED
    BY <1>6, <2>1, <2>2, <2>3, <2>4, <2>5 DEF ExecutorNext
<1>7. CASE RecoveryNext
  <2>1. CASE Boot
    <3>1. CASE ~\E t \in Blocks : Loads(t)
      BY <1>0, <2>1, <3>1 DEF Boot
    <3>2. ASSUME NEW t \in Blocks, Loads(t), tip' = t, UNCHANGED <<dState, dTip, dHeight>>
          PROVE  ValidInv'
      BY <3>2, ValidLoaded DEF ValidChain, ValidIndex
    <3> QED
      BY <2>1, <3>1, <3>2 DEF Boot
  <2>2. CASE RecoverPending
    <3>1. PublishesPending => dPending = dState
      BY DEF PublishesPending, Probe
    <3> QED
      BY <1>0, <1>1, <2>2, <3>1 DEF RecoverPending, store
  <2>3. CASE RecoverDisconnect
    BY <1>3, <2>3 DEF RecoverDisconnect, CanRollback
  <2>4. CASE RecoverConnect
    BY <1>2, <2>4 DEF RecoverConnect, CanPromote, PromoteBatch
  <2>5. CASE RecoverSave
    BY <1>1, <2>5 DEF RecoverSave, PublishPromoted, PublishTip
  <2>6. CASE RecoverPublish
    <3>1. NextOf(dReorg.cand) = dState
      BY <2>6 DEF RecoverPublish, Verdict, GapAuthentic, Probe
    <3> QED
      BY <1>1, <2>6, <3>1 DEF RecoverPublish
  <2>7. CASE RecoverMarker \/ RecoverFinalize \/ RecoverFails \/ Reconcile
    BY <1>0, <2>7 DEF RecoverMarker, RecoverFinalize, RecoverFails, Reconcile, store, memory
  <2> QED
    BY <1>7, <2>1, <2>2, <2>3, <2>4, <2>5, <2>6, <2>7 DEF RecoveryNext
<1>8. CASE LifeNext
  <2>1. CASE Crash \/ BeginStop \/ GiveUp
    BY <1>0, <1>1, <2>1 DEF Crash, BeginStop, GiveUp, Lose, store
  <2>2. CASE Exit
    <3>1. CASE UNCHANGED <<dTip, dHeight>>
      BY <1>1, <2>2, <3>1 DEF Exit, Lose
    <3>2. CASE /\ dTip' = tip
               /\ dHeight' = [h \in Heights |->
                    IF BlockAt(tip, h) # NoBlock THEN BlockAt(tip, h) ELSE dHeight[h]]
      <4>1. \A h \in Heights : dHeight'[h] = NoBlock \/ ValidChain(dHeight'[h])
        BY <1>a, <3>2, ValidPrefix DEF ValidIndex
      <4>2. dState' = dState /\ tip' = Genesis
        BY <2>2 DEF Exit, Lose
      <4> QED
        BY <3>2, <4>1, <4>2, ValidGenesis DEF ValidChain, ValidIndex
    <3> QED
      BY <2>2, <3>1, <3>2 DEF Exit
  <2> QED
    BY <1>8, <2>1, <2>2 DEF LifeNext
<1> QED
  BY <1>4, <1>5, <1>6, <1>7, <1>8 DEF Next

\* Whatever is interrupted, resumed or reorganised, the confirmed state is only
\* ever that of blocks which passed validateBlock on their parent:
\* OnlyValidConfirmed of ChainNode.
THEOREM ConfirmedIsValid == Spec => []OnlyValidConfirmed
<1>1. Init => TypeInv /\ ValidInv
  BY InitTypes, ValidGenesis DEF Init, ValidInv, ValidIndex
<1>2. (TypeInv /\ ValidInv) /\ [Next]_vars => (TypeInv /\ ValidInv)'
  BY StepTypes, ValidStep
<1>3. ValidInv => OnlyValidConfirmed
  BY DEF ValidInv, OnlyValidConfirmed
<1> QED
  BY <1>1, <1>2, <1>3, PTL DEF Spec

=============================================================================
