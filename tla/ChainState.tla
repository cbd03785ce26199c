----------------------------- MODULE ChainState -----------------------------
(***************************************************************************)
(* The state block acceptance works on: the records of the LevelDB store,  *)
(* which survive a crash, the in-memory index of the running process, and  *)
(* the step the single submission thread (the owner of miningSubmitMutex)  *)
(* has reached.  A batch of the store is atomic, so an action writes all   *)
(* the records of one batch and the memory that is updated with it under   *)
(* mtx; a crash may fall between any two actions.                          *)
(***************************************************************************)
EXTENDS BlockTree

CONSTANTS
    Peers,                  \* untrusted block sources ("peer:<ip>")
    Local,                  \* SIDE_LOCAL_SOURCE
    NoSource,               \* not a side block
    Rank,                   \* the order of block hashes
    MaxForkDepth,           \* MAX_SIDE_FORK_DEPTH = MAX_REORG_DISCONNECT_BLOCKS
    MaxBranch,              \* MAX_SIDE_BRANCH_LENGTH = MAX_REORG_CONNECT_BLOCKS
    MaxSideBlocks,          \* MAX_INDEXED_SIDE_BLOCKS
    MaxSideChildren,        \* MAX_SIDE_CHILDREN_PER_PARENT
    MaxPerSource,           \* MAX_SIDE_BLOCKS_PER_UNTRUSTED_SOURCE
    MaxPerSourceChildren,   \* MAX_SIDE_CHILDREN_PER_PARENT_PER_UNTRUSTED_SOURCE
    UndoRetention,          \* UNDO_JOURNAL_RETENTION_DEPTH
    MaxFaults,              \* bound: store writes that fail
    MaxCrashes              \* bound: crashes of the process

Sources == Peers \cup {Local}

ASSUME PolicyAssumption ==
    /\ Local \notin Peers /\ NoSource \notin Sources
    /\ Rank \in [Blocks -> Nat]
    /\ \A b, c \in Blocks : Rank[b] = Rank[c] => b = c
    /\ {MaxForkDepth, MaxBranch, MaxSideBlocks, MaxSideChildren, MaxPerSource,
        MaxPerSourceChildren, UndoRetention, MaxFaults, MaxCrashes} \subseteq Nat
    /\ MaxBranch = MaxForkDepth
    /\ MaxSideBlocks >= 2 * MaxBranch /\ MaxPerSource >= MaxBranch
    /\ UndoRetention >= MaxForkDepth

VARIABLES
    \* the store
    dState,     \* the block after which the confirmed state (UTXOs, tokens,
                \* contracts, balances) stands
    dTip,       \* bestTipHash / bestTipHeight / difficulty
    dHeight,    \* height:N -> block hash
    dBlock,     \* the blocks with a block: record
    dSide,      \* sideblock: records: the source that owns the side block
    dUndo,      \* the blocks with an undo:block: (U4) journal
    dPending,   \* directconnect:pending: the child whose state is committed
    dReorg,     \* reorg:pending: the reorg marker
    \* the memory of the process
    tip,        \* bestTipHash; chain[] and heightToHash are its ancestors
    side,       \* sideBlockSource_
    cnt,        \* the side-pool counters
    halted,     \* reorgExecutionHalted_
    stopping,   \* shutdownInitiated
    boot,       \* startup: no listener, no sync thread, no miner yet
    \* the submission thread
    pc,         \* the step it has reached
    plan,       \* the reorg it is working on
    \* the environment
    budget      \* crashes and failed writes so far

store  == <<dState, dTip, dHeight, dBlock, dSide, dUndo, dPending, dReorg>>
memory == <<tip, side, cnt, halted, stopping, boot>>
vars   == <<store, memory, pc, plan, budget>>

----------------------------------------------------------------------------
(* Shapes *)

Heights == {Height[b] : b \in Blocks}

\* The marker: phase, the tips of the plan, how many blocks of it are
\* disconnected and connected, and the tip published with the marker.
Marker == [phase : {"NONE", "PREPARED", "DISCONNECT_COMMITTED", "CONNECT_PUBLISHED"},
           orig : Blocks, cand : Blocks, dd : Nat, cd : Nat, tip : Blocks]

NoReorg == [phase |-> "NONE", orig |-> Genesis, cand |-> Genesis,
            dd |-> 0, cd |-> 0, tip |-> Genesis]

\* An E2 marker: the store has started to move.
Moving(m) == m.phase \in {"DISCONNECT_COMMITTED", "CONNECT_PUBLISHED"}

Plans  == [orig : Blocks, cand : Blocks]
NoPlan == [orig |-> Genesis, cand |-> Genesis]

NoSides == [b \in Blocks |-> NoSource]

Counters == [total : Int, kids : [Blocks -> Int], of : [Sources -> Int],
             kidsOf : [Sources -> [Blocks -> Int]]]

Steps == {"Down", "Fatal", "BootPending", "BootReorg", "Recover", "RecoverSave",
          "Reconcile", "Idle", "ConnectSave", "ConnectVerify", "Tidy", "TidyUndo",
          "Activate", "Prepared", "Disconnect", "Promote", "PromoteSave",
          "PromoteVerify", "Finish", "Abandon"}

----------------------------------------------------------------------------
(* Reading the state *)

OwnedIn(s) == {b \in Blocks : s[b] # NoSource}
\* The ownership map own, restricted to the blocks of kept.
Only(own, kept) == [b \in Blocks |-> IF b \in kept THEN own[b] ELSE NoSource]

SideBlocks == OwnedIn(side)
Indexed    == Anc[tip] \cup SideBlocks         \* the keys of blockIndex

\* probeExistingUndoJournal: what b's journal proves about the live state.
Probe(b) ==
    CASE b \notin dUndo       -> "absent"
      [] dState = b           -> "post"
      [] b \in NonGenesis /\ b # dState /\ dState = Parent[b] -> "pre"
      [] OTHER                -> "invalid"

ReadyToApply(b) == Probe(b) \in {"absent", "pre"}

----------------------------------------------------------------------------
(* Side-pool counters *)

CountIn(c, b, s) ==
    [c EXCEPT !.total = @ + 1, !.kids[Parent[b]] = @ + 1,
              !.of[s] = @ + 1, !.kidsOf[s][Parent[b]] = @ + 1]

\* Mutant: the per-source count of the parent's children is forgotten.
CountOut_Partial(c, b, s) ==
    [c EXCEPT !.total = @ - 1, !.kids[Parent[b]] = @ - 1, !.of[s] = @ - 1]

CountOut(c, b, s) ==
    [c EXCEPT !.total = @ - 1, !.kids[Parent[b]] = @ - 1,
              !.of[s] = @ - 1, !.kidsOf[s][Parent[b]] = @ - 1]

\* The counters of the side map s, as a reload rebuilds them.
CountersOf(s) ==
    LET kidsIn(b) == {c \in OwnedIn(s) : c # Genesis /\ Parent[c] = b}
    IN  [total  |-> Cardinality(OwnedIn(s)),
         kids   |-> [b \in Blocks |-> Cardinality(kidsIn(b))],
         of     |-> [o \in Sources |-> Cardinality({c \in Blocks : s[c] = o})],
         kidsOf |-> [o \in Sources |->
                      [b \in Blocks |-> Cardinality({c \in kidsIn(b) : s[c] = o})]]]

\* The counters c with, and without, what d counts.
Plus(c, d) ==
    [total  |-> c.total + d.total,
     kids   |-> [b \in Blocks |-> c.kids[b] + d.kids[b]],
     of     |-> [o \in Sources |-> c.of[o] + d.of[o]],
     kidsOf |-> [o \in Sources |-> [b \in Blocks |-> c.kidsOf[o][b] + d.kidsOf[o][b]]]]

Minus(c, d) ==
    [total  |-> c.total - d.total,
     kids   |-> [b \in Blocks |-> c.kids[b] - d.kids[b]],
     of     |-> [o \in Sources |-> c.of[o] - d.of[o]],
     kidsOf |-> [o \in Sources |-> [b \in Blocks |-> c.kidsOf[o][b] - d.kidsOf[o][b]]]]

\* Mutant: a full pool takes one more.
Fits_OneMore(c, b, s) ==
    /\ c.total <= MaxSideBlocks
    /\ c.kids[Parent[b]] < MaxSideChildren
    /\ s \in Peers => /\ c.of[s] < MaxPerSource
                      /\ c.kidsOf[s][Parent[b]] < MaxPerSourceChildren

\* One more side block b of source s fits next to the blocks counted in c.
Fits(c, b, s) ==
    /\ c.total < MaxSideBlocks
    /\ c.kids[Parent[b]] < MaxSideChildren
    /\ s \in Peers => /\ c.of[s] < MaxPerSource
                      /\ c.kidsOf[s][Parent[b]] < MaxPerSourceChildren

\* Fork depth and branch length of side block b against the active tip t.
SidePolicy(t, b) ==
    LET fork == Height[ForkOf(t, Parent[b])]
    IN  /\ Height[t] - fork <= MaxForkDepth
        /\ Height[b] - fork <= MaxBranch

----------------------------------------------------------------------------
(* Rebuilding the side index from the store, active tip t *)

Before(b, c) == \/ Height[b] < Height[c]
                \/ Height[b] = Height[c] /\ Rank[b] < Rank[c]

\* The order of the walk: by height, then hash.
ReloadOrder == [n \in 1..Cardinality(Blocks) |->
    CHOOSE b \in Blocks : Cardinality({c \in Blocks : Before(c, b)}) = n - 1]

\* reloadSideChainIndexLocked walks the records own and keeps those whose
\* parent is indexed, within the policy and what the limits leave.
Reloaded(t, own, stored) ==
    LET keeps(kept, b) ==
          /\ b \in (OwnedIn(own) \cap stored) \ Anc[t]
          /\ Parent[b] \in Anc[t] \cup kept
          /\ SidePolicy(t, b)
          /\ Fits(CountersOf(Only(own, kept)), b, own[b])
        upTo[n \in 0..Cardinality(Blocks)] ==
          IF n = 0 THEN {}
          ELSE UNION {kept \cup {b \in {ReloadOrder[n]} : keeps(kept, b)} :
                        kept \in {upTo[n - 1]}}
    IN  upTo[Cardinality(Blocks)]

----------------------------------------------------------------------------
(* Writing the store *)

WriteOK    == budget' = budget
WriteFails == /\ budget.faults < MaxFaults
              /\ budget' = [budget EXCEPT !.faults = @ + 1]

SetHeight(b) == [dHeight EXCEPT ![Height[b]] = b]

\* The marker with its progress and the tip it is published with.
Progress(m, phase, dd, cd, t) ==
    [m EXCEPT !.phase = phase, !.dd = dd, !.cd = cd, !.tip = t]

----------------------------------------------------------------------------
(* A new node: the genesis block is published, the process not started. *)

Init ==
    /\ dState = Genesis /\ dTip = Genesis
    /\ dHeight = [h \in Heights |-> IF h = 1 THEN Genesis ELSE NoBlock]
    /\ dBlock = {Genesis} /\ dSide = NoSides /\ dUndo = {}
    /\ dPending = NoBlock /\ dReorg = NoReorg
    /\ tip = Genesis /\ side = NoSides /\ cnt = CountersOf(NoSides)
    /\ halted = FALSE /\ stopping = FALSE /\ boot = TRUE
    /\ pc = "Down" /\ plan = NoPlan
    /\ budget = [crashes |-> 0, faults |-> 0]
=============================================================================
