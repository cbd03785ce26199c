------------------------------ MODULE ChainNode ------------------------------
(***************************************************************************)
(* The whole node as block acceptance sees it: the submission thread at    *)
(* work, the sync thread that saves, an operator who stops and restarts    *)
(* it, and crashes.  The properties say what the store and the memory owe  *)
(* each other at every moment, crashes included; Ledger says what all of   *)
(* it amounts to.                                                          *)
(***************************************************************************)
EXTENDS StartupRecovery

----------------------------------------------------------------------------
(* The life of the process *)

\* The memory is lost.
Lose ==
    /\ pc' = "Down"
    /\ tip' = Genesis /\ side' = NoSides /\ cnt' = CountersOf(NoSides)
    /\ halted' = FALSE /\ stopping' = FALSE /\ boot' = TRUE
    /\ plan' = NoPlan

Crash ==
    /\ pc # "Down"
    /\ budget.crashes < MaxCrashes
    /\ budget' = [budget EXCEPT !.crashes = @ + 1]
    /\ Lose
    /\ UNCHANGED store

\* stop(): asked for by the operator, or by a halt.
BeginStop ==
    /\ ~boot /\ ~stopping /\ pc \notin {"Down", "Fatal"}
    /\ stopping' = TRUE
    /\ UNCHANGED <<store, tip, side, cnt, halted, boot, pc, plan, budget>>

SavesAtExit == ~halted

\* The workers are joined, then saveAllBlocksSync writes the mapping and the
\* tip of the memory, unless the node is halted.
Exit ==
    /\ stopping /\ pc = "Idle"
    /\ \/ ~SavesAtExit /\ WriteOK /\ UNCHANGED <<dTip, dHeight>>
       \/ /\ SavesAtExit /\ WriteOK
          /\ dTip' = tip
          /\ dHeight' = [h \in Heights |->
               IF BlockAt(tip, h) # NoBlock THEN BlockAt(tip, h) ELSE dHeight[h]]
       \/ SavesAtExit /\ WriteFails /\ UNCHANGED <<dTip, dHeight>>
    /\ Lose
    /\ UNCHANGED <<dState, dBlock, dSide, dUndo, dPending, dReorg>>

\* The process of a refused start has gone; the operator may start another.
GiveUp ==
    /\ pc = "Fatal"
    /\ Lose
    /\ UNCHANGED <<store, budget>>

LifeNext == Crash \/ BeginStop \/ Exit \/ GiveUp

Next == IntakeNext \/ ExecutorNext \/ RecoveryNext \/ LifeNext

Spec == Init /\ [][Next]_vars

\* A process that runs gets on with the operation in hand, a halted one is
\* stopped, a stopped or refused one is started again.
Working == \/ SaveConnected \/ VerifyConnected \/ PruneStale \/ PruneUndo
           \/ ExecutorNext \/ RecoveryNext
           \/ halted /\ BeginStop
           \/ Exit \/ GiveUp

FairSpec == Spec /\ WF_vars(Working)

----------------------------------------------------------------------------
(* Types *)

\* The shape of the store, of the memory and of the thread.
TypeOK ==
    /\ dState \in Blocks /\ dTip \in Blocks
    /\ dHeight \in [Heights -> Blocks \cup {NoBlock}]
    /\ dBlock \in SUBSET Blocks /\ dUndo \in SUBSET Blocks
    /\ dSide \in [Blocks -> Sources \cup {NoSource}]
    /\ dPending \in Blocks \cup {NoBlock}
    /\ dReorg \in Marker
    /\ tip \in Blocks
    /\ side \in [Blocks -> Sources \cup {NoSource}]
    /\ cnt \in Counters
    /\ {halted, stopping, boot} \subseteq BOOLEAN
    /\ pc \in Steps /\ plan \in Plans
    /\ budget \in [crashes : 0..MaxCrashes, faults : 0..MaxFaults]

----------------------------------------------------------------------------
(* What the store owes the next start *)

\* The confirmed state stands at the published tip, or one block above it and
\* then a record says so: the pending record of a direct connection, or the
\* marker of a reorg whose next candidate no longer has a side record.  The two
\* records never coexist, and the first never outlives the publication.
StateExplained ==
    /\ \/ dState = dTip
       \/ dPending = dState /\ dState \in NonGenesis /\ Parent[dState] = dTip
       \/ /\ Moving(dReorg) /\ dState \in NonGenesis /\ Parent[dState] = dTip
          /\ dState \in NewBranch /\ dSide[dState] = NoSource
    /\ dPending # NoBlock => /\ dReorg = NoReorg
                             /\ dState = dPending /\ Parent[dPending] = dTip

\* height:N names the published chain and nothing above it.
HeightIndexExact == \A h \in Heights : dHeight[h] = BlockAt(dTip, h)

\* No block is both part of the confirmed chain and a side block, and every
\* side record has its block.
SidesApart ==
    /\ OwnedIn(dSide) \cap Anc[dState] = {}
    /\ OwnedIn(dSide) \subseteq dBlock

\* No side record the index does not know gets in the way: at rest none is of a block
\* that extends the tip, which a direct connection would not look for, and none hangs
\* on a branch the node is about to leave, where the purge of blockers misses it.
NothingStray ==
    /\ pc = "Idle" /\ ~halted =>
         \A b \in NonGenesis : Parent[b] = tip /\ dSide[b] # NoSource => b \in SideBlocks
    /\ pc = "Activate" =>
         \A b \in OwnedIn(dSide) :
           (Anc[b] \ {b}) \cap Leaving(tip, plan.cand) # {} => b \in SideBlocks

\* A reorg as deep as the policy allows always finds the blocks and journals it
\* must undo, whatever was pruned.
UndoWithinReach ==
    \A b \in Anc[dState] \ {Genesis} :
      /\ b \in dBlock
      /\ Height[dState] - Height[b] < MaxForkDepth => b \in dUndo

\* While a reorg has moved the store, nothing it needs to finish is deleted.
EvidenceKept ==
    Moving(dReorg) =>
      /\ OldBranch \cup NewBranch \subseteq dBlock
      /\ OldBranch \ Disconnected \subseteq dUndo
      /\ \A b \in Disconnected : dSide[b] = Local

\* The marker and the tip it was published with never part.
MarkerNamesTip == Moving(dReorg) => dReorg.tip = dTip

\* Only blocks that passed stateful validation are ever part of the state.
OnlyValidConfirmed == ValidChain(dState)

\* A start recognises whatever it finds and can go on from it: the records of work
\* in flight are never rejected as corrupt, and no start is refused.
NeverRefused == pc # "Fatal"

----------------------------------------------------------------------------
(* What the memory owes the store *)

\* Between two submissions a node that is not halted has nothing in flight: the
\* tip in memory is published, with its state, and the side index is durable.
IdleIsClean ==
    pc = "Idle" /\ ~halted =>
      /\ dTip = tip /\ dState = tip
      /\ dPending = NoBlock /\ dReorg = NoReorg
      /\ \A b \in SideBlocks : dSide[b] = side[b]

\* The counters that bound the side pool count it exactly.
CountersExact == cnt = CountersOf(side)

\* No sequence of admissions, evictions, reorgs and demotions takes the side
\* pool over a limit.
PoolBounded ==
    LET pool == CountersOf(side)
    IN  /\ pool.total <= MaxSideBlocks
        /\ \A b \in Blocks : pool.kids[b] <= MaxSideChildren
        /\ \A p \in Peers : /\ pool.of[p] <= MaxPerSource
                            /\ \A b \in Blocks :
                                 pool.kidsOf[p][b] <= MaxPerSourceChildren

----------------------------------------------------------------------------
(* What a step may never do *)

\* A halted node writes nothing until it is restarted.
HaltedWritesNothing == [][halted => UNCHANGED store]_vars

\* The marker of a reorg that has moved goes only when the candidate is the tip
\* and the whole old branch is a durable local side branch.
ReorgEndsComplete ==
    [][Moving(dReorg) /\ dReorg' = NoReorg =>
         /\ dTip = dReorg.cand /\ dState = dTip /\ tip = dTip
         /\ \A b \in OldBranch : dSide[b] = Local /\ side'[b] = Local]_vars

\* The node never meets its peers while a single heaviest side tip, validated
\* and within reach, beats its own.
BestBeforePeers ==
    [][boot /\ ~boot' /\ pc' = "Idle" /\ AutoReorg =>
         ~ \E b \in SideBlocks' :
             /\ Work[b] > Work[tip']
             /\ \A c \in SideBlocks' \ {b} : Work[c] < Work[b]]_vars

----------------------------------------------------------------------------
(* What it amounts to *)

\* The committed tip: while a reorg moves, it is still the original tip.
L == INSTANCE Ledger WITH committed <- IF Moving(dReorg) THEN dReorg.orig ELSE dState

\* Block acceptance implements the ledger.
LedgerImplemented == L!LedgerSpec

\* An interrupted reorg is finished.
ReorgFinishes == Moving(dReorg) ~> dReorg = NoReorg

\* A node that is told to stop, stops.
StopCompletes == stopping ~> pc = "Down"
=============================================================================
