# A TLA+ development of TRU-Core

This directory models the parts of TRU-Core in which things happen at the same
time or half way: how a node takes blocks in, reorganises and survives crashes;
how it finds and fetches its peers' branches; how transactions pass through its
queue and its pool; and, around the node, how a cross-chain swap is agreed on
at the market, funded, claimed or refunded, each party with an agent that may
die at any step; and how a node makes and ends its sessions. The modules are
translated from the C++ and Python sources under `src/` (paths below are relative
to the repository); TLC checks them on small instances, TLAPS proves part of it
for every instance.

## 1. The system

TRU-Core is a proof-of-work node with a UTXO ledger, tokens and contracts,
a wallet, an RPC server and a desktop GUI, with a swap engine, an agent and a
market beside it: about 200 000 lines with its Python and JavaScript companions.

| Part | State | Operations | Correct when |
|---|---|---|---|
| Block acceptance (`blockchain.cpp`) | LevelDB records (`block:`, `height:N`, tip, `sideblock:`, `undo:block:`, `directconnect:pending`, `reorg:pending`); `blockIndex`, `chain`, side pool and its counters | `submitBlock`, `connectTipBlock`, `indexSideChainBlock`, replacement, pruning, `saveChainState` | the confirmed state always stands where the records say; pool counters and limits hold |
| Reorg executor (`blockchain.cpp`) | the plan, the marker and its progress | plan, preflight, `PREPARED`, rollback, promotion, demotion, fail-stop | all or nothing; no write after a fail-stop |
| Startup recovery (`blockchain.cpp`, `main.cpp`) | what a crash left | reload, pending publication, classification, forward recovery, reconciliation | every crash is recognised and finished |
| Sync (`syncWithPeers`, `fork_recovery_policy.h`) | sorted list, rotation, cool-downs, discovery bracket, status | choose a peer, find the ancestor, fetch, submit | the search is right, every supported branch of a peer that is served is taken in |
| Ingress and mempool (`blockchain.cpp`, `mempool.cpp`, `tx_relay_queue_v1.h`) | queue and queued txids, pool, spent coins, relay queue | enqueue, retry, admit, evict, relay, clean after a block | no two conflicting entries; whatever is queued is decided |
| Prepared funding (`wallet.cpp`) | operation, markers on the inputs, signed bytes | prepare, dry run, broadcast, release | a reserved coin is spent by the signed bytes only |
| Funding agent (`dual_funding_v1.py`, `tru_funding_reconciler_v1.py`, `reorg_funding_*_v1.py`) | journal, evidence in the swap record, overlay | one `fund_step`, scans, the watcher's look and note | one funding ever; only true evidence |
| Swap record (`tru_swap_v1_state.h`) | state and evidence, at each node | transitions | the last word is true and final |
| Exit watchers and engine (`exit_watcher_v1.py`, `tru_bsty_swap_engine.py`) | job; an engine in a process of its own | arm, tick, claim, refund, persist, finalize, disarm | one engine at most; complete means out |
| Market store (`market_store_v1.py`) | advert, reservations, relayed bundles | post, reserve, relay, barrier, bind, expire | held for one taker at a time |
| Market processes (`market_process_v1.py`, `tru_swap_agent.py`) | a durable job for each party, offer sessions | the cycle of a maker and of a taker | one swap for a deal, which both sign |
| Candidate validation budget and cache | windows, negative verdicts | consume, refill, forget | no candidate lost |
| Peer manager (`peer_manager.cpp`) | slots by address, verified endpoints, back-off, bans | acquire, release, add, claim, note a failure, ban | counts are what is held |
| P2P node and connections (`p2p.cpp`, `peer_connection.cpp`) | listed sessions, loops, readers | dial, accept, admit, retire, stop | slots come back once; nothing runs after stop; lost peers are redialled |
| UTXO set, contracts, tokens, oracle, VAH writer, wallet sessions, RPC, GUI, miners, storage, vendored code | | | |

**How they interact.** Block acceptance is the hub. Miners, the RPC and network
sessions call `submitBlock`; all submissions are serialised by
`miningSubmitMutex`. State shared with readers is under `mtx`, which is released
between the steps of a reorg. The sync thread asks sessions for blocks, submits
them, and also calls `saveChainState` itself under `mtx` only. Transactions wait
in a queue that one thread drains; admissions and the wallet's prepared
operations share the admission mutex, a connected block cleans the pool in a step
after it. The agent talks to the node by RPC, keeps its own SQLite stores, and
starts the engine as a process; the engine talks to both nodes and writes the
record at its party's node. Agents of two parties only meet at the market, over
HTTP, and in the chains.

**What is hard in it.** A block becomes durable in two batches, a reorg in two per
promoted block and one per disconnected one, so a crash has many places to fall
and the start has to tell them apart from the records alone. Counters and sets
are maintained by hand in many places. What was looked up before a validation,
a request or an engine's run is used after it. Most stores are read in one
step and written in another, and between them another thread, another
party's engine or a watcher may have written. An answer may be lost when its
request was served. `PROJECT.json` lists each hazard at its line.

## 2. The modules

    BlockTree <- ChainState <- BlockIntake <- ReorgExecutor <- StartupRecovery <- ChainNode <- MCChainNode
        ^                                                                            ^  ^------ ChainNode_proofs <- ChainStore_proofs
        '------- Ledger <----- (refinement) -----------------------------------------'
                    ^--------- ForkSync <- MCForkSync
                                  ^------- ForkSync_proofs

    Mempool <- MCMempool
       ^------ PreparedFunding <- FundingAgent <- MCFunding
       |                               ^--- FundingAgent_proofs
       '------ Mempool_proofs <-------------------'

    SwapRecord <- SwapExits <- SwapExits_proofs
                      '-(refinement)-> SwapOutcome

    PeerBook <- PeerSessions <- MCPeers
                     ^------- PeerSessions_proofs

    MarketStore <- MarketProcess <- MCMarket
                      ^  '-(refinement)-> MarketDeal
                      '---- MarketProcess_proofs

An arrow points at the module that is extended. One rule ties actions to code
everywhere: **what one lock, one LevelDB batch or one SQLite transaction makes
indivisible is one action, and anything else may come between two actions**, a
crash included.

**The chain.** *BlockTree* holds the constants: a finite tree of blocks with parents,
heights, cumulative work and the set of blocks that pass stateful validation. The
ancestors are a constant tied to `Parent` by `TreeShape`, so no operator is recursive.
*Ledger* is the abstract specification: one committed tip, extended by a valid
child or switched in one step to the tip of a valid branch with strictly more work
that forks within the supported depth. *ChainState* declares the state: in the
store `dState` (the block after which the UTXO, token and contract state stands),
`dTip`, `dHeight`, `dBlock`, `dSide`, `dUndo`, `dPending` and the marker `dReorg`; in
memory `tip`, `side`, `cnt`, `halted`, `stopping`, `boot`; `pc` and `plan` are the submission
thread. *BlockIntake* is `submitBlockInternal`: `ConnectTip`, `SaveConnected`,
`VerifyConnected` are the two batches of a direct connection and the read-back;
`AdmitSide` and `ReplaceSide` side admission and work-aware eviction; `PruneStale`
and `PruneUndo` the maintenance; `SaveFromSync` the save of the sync thread.
*ReorgExecutor* is the activation of a winning side tip: skip, defer, clear
blockers, `Prepare`, `BeginExecution`, `DisconnectTip`, `PromoteNext` / `SavePromoted` /
`VerifyPromoted`, `FinishReorg`, and every failing branch (`Abandon` before the first
disconnection, `Halt` after it). *StartupRecovery* is the start: `Boot`,
`RecoverPending`, `RecoverMarker` with the classification as `Verdict`, the four
recovery steps, `RecoverFails`, `Reconcile`. *ChainNode* adds the life of the process
(crash, operator's stop, final save, restart) and states the properties.

*ForkSync* is the sync thread against several peers, over Ledger's idea of block
acceptance: `Choose` (`Survey` asks the peers that are not cooling down, `Places` sorts
those that answer, the turn modulo the length of the list is the place taken) or
`NobodyUsable`, `Overlap` and `Compare` (block identities),
`ReadLocal` and `AskHigh` / `AskLow` / `AskMiddle` (findAncestor, the local read and
the remote answer being separate steps), `Recheck`, `Start`, `Fetch`, `Submit` /
`SubmitRejected`, `RequestFails`, and `Arrive` for blocks from elsewhere. Peers in
`Steady` keep one chain; the others may answer any block of the height asked for,
which is all the checks in `requestPeerBlock` leave them.

**Transactions.** *Mempool* is the pool with its index of spent coins, the ingress
queue with its retries and its set of txids, the relay, and the blocks that spend
and give back what the pool counts on. A transaction is what it spends and makes,
its txid and its rate; since a txid of this chain leaves the input scripts out, two
transactions may share one. `Process` is the preflight and the validation of the
head of the queue, `AdmitQueued` the recheck and the commit, both under the
admission mutex `hold`, with blocks between them; `CleanPool` follows `Connect` in a step of
its own, as it does in the code. *PreparedFunding* is the wallet's side of a swap's
funding: `PrepareFunding` (select, sign and mark the inputs in one batch), `Release`,
and a broadcast in `BroadcastBegin`, `BroadcastCommit`, `BroadcastPersist`, whose
caller may be gone before any of them. *FundingAgent* is the agent's side: request
threads that each run `fund_step` from `StepBegin` to `Close` against one journal
row, without a lock of their own; a reconciliation as one request after the other, `ScanPool`, `ReadTip`
and a `ScanBlock` for each height up to the tip that was read, while the chain moves; the watcher's
`Observe` and `Note`; callers that give up, a crash of the agent, a restart of the node. The history `been`
keeps the depths that each txid has had in the chain.

**Exits.** *SwapRecord* is the record at each node (a state and the legs with evidence of funding,
claim and refund), the transitions the node allows, the fundings that the parties' requests record
(`FundReads`, `FundSaves`), and the two contracts, of which a leg can be spent once. `shared` tells
whether the parties' agents use one node or each its own. *SwapExits* is each party's watcher
(`List`, `Look`, `Resume`, `Decide`, `Start`, `End`, with `Handle` for the handler that writes back
what was listed) and the engine it runs (`EngineReads` to `EngineFinalizes`). A transition of the
record is a read by the node and a write in another step (`Transition` and `NodeSaves`, `FundReads`
and `FundSaves`), as no lock spans them. Any number of requests may have read a record to add a
funding to it, so such a write may come at any time after; one over a record that has moved on is
noted in `overtaken`. *SwapOutcome* is what the record promises: each leg is spent once, and then
the outcome is said, once.

**The market.** *MarketStore* is one advert and its reservations; every operation of
the store is one immediate transaction: `Posts`, `Withdraws`, `Reserves`, `Writes`
(the offer, the acceptance, the finalization barrier, the final bundle, the taker's
binding and the release, told apart by `Fits` and `Filled`), and the two expiries. *MarketProcess*
is the worker of each party: it loads its job, works on the copy, saves it
before what must not be repeated with other bytes and at the end of the cycle. `Asks`
is a call over HTTP, whose answer may be lost; its request then stays in `wire` and
may be served at any time or never. The maker's cycle goes through `MakeOffer`,
`SendOffer`, `StartFinalization`, `PinFinal`, `MakerSigns`, `SendFinal`, a taker's through
`MakeAccept`, `SendAccept`, `TakerSigns`, `SendBind`. *MarketDeal* is the promise: held for one
taker at a time, nobody else's once the deal is sealed, one swap signed by the
maker and then by the taker, bound when both have.

**Peers.** *PeerBook* is PeerManager, whose methods run under one mutex: the quota
(`MayAcquire`, `Acquire`, `Release`), the book of endpoints that proved themselves (`AddPeer`,
`ReleaseVerified`, `NoteFailure`), and the claims of the redial loop. *PeerSessions* is the node
around it. A thread that makes a session, the redial loop, the accept loop or a caller of
`connectToPeer`, goes through `LooksUp`, `Connects`, `Rechecks` and `Admits`, the last under
the lock of the list; `Fails`, `Rejects` and `Refunds` are the ways an admission ends without a
reader. A session says hello, is ready once its VERSION is valid (`Handshakes`), and ends in
`Leaves` and `ReaderExits`, with the endpoint released in one step and the slot in the next.
`Retires` is the maintenance of both loops, `Stops` to `Stopped` the shutdown with its joins.

Definitions named `Name_Something` and marked "Mutant" are deliberately broken forms
of `Name`; the properties are checked to fail with each of them in its place.

## 3. What TLC checks

| Run | What it asks | Bounds |
|---|---|---|
| crash_recovery | crashes between any two batches, the sync thread saving meanwhile: the store is explained by its records, no side record the index does not know is in the way, the evidence of a reorg kept, the marker and the tip together, every start accepted, the best side tip taken before peers | 6 blocks, two branches and a fork on the first; 2 crashes |
| write_faults | a write fails or the node crashes anywhere, between two disconnections of a reorg and of its recovery too, and the heaviest block is invalid: rolled back, or halted with the evidence intact; a marker goes only when the reorg is complete; the node implements *Ledger*; a reorg is finished and a stopping node stops | 7 blocks: a trunk of three on the genesis, a heavier branch of two, a heavier block that is not valid; fork depth 3; 1 fault, 2 crashes; fair |
| side_pool | two peers and the node itself fill the pool at its limits while stale side blocks and journals are pruned: counters exact, limits kept, side and active blocks apart, every supported reorg finds its journals | 10 blocks, bushy towards the top, where the heaviest branch leaves the trunk; pool of 4, 2 children, 2 per source, 1 child per source; journals kept for 3; 1 crash, 1 failed write; recovery gate open or closed |
| convergence | the search ends at the last common block in logarithmically many probes, "recovery required" is true, "synchronized" means the peer's chain is the node's, every supported chain of a served peer is taken in, the node ends with the greatest work | 11 blocks: a taller lighter chain, a shorter heavier one, in reach from block 7 and one too deep from block 8, an erratic peer that takes the first place of the list or one behind the taller chain; fork depth 4, window 6; 1 arrival, 1 time-out, 1 deferral; fair |
| ingress | the pool consistent, the set of queued txids exact, every queued transaction decided | 4 transactions that conflict, depend on each other and pay differently; queue and pool of 2, 1 retry; 1 block, 1 reorg, 1 restart; fair |
| funding | a reserved coin goes to the signed bytes only, one funding ever, true evidence, no false word of a reorg | 2 threads, a wallet with two choices, a copy with another signature; 2 blocks, 1 release, 2 confirmations; two of: a block disconnected (both may be), a restart of the node, a crash of the agent or a give-up |
| exits | at most one engine for a watcher, complete means out, until a funding is saved over a record that has moved on the record implements *SwapOutcome* and an armed job ends | 2 parties, one node or two, any number of requests that record a funding; 1 failure (crash, failed call, failed look, or such a save); fair |
| market | the trade implements *MarketDeal*, finished processes tell the truth, a sealed deal ends | 2 takers, one of them with a browser; 1 lost answer, 1 crash; fair |
| peers | every slot comes back once, an endpoint counts the sessions on it, a shutdown ends and nothing runs after it, a known peer is dialled again and again unless a session with it runs | 1 endpoint, 2 slots, 2 session objects; 1 caller beside the two loops; 1 call, failed construction or ban; fair |
| restart_limits, funding_replay, exit_held | the three disagreements below | as above, exit_held without any failure |

**Why the bounds are enough.** In the chain every phase needs a reorg of two blocks each way: with
two there is a first, a middle and a last step for the marker's counters, and a crash has all the
gaps to fall into. A marker in `PREPARED` is abandoned at a start, so the recovery disconnects what
the executor left; write_faults disconnects three blocks, for the recovery's own loop to be cut, by
a failed write or a second crash, between two of its disconnections. A third branch block gives
blockers and eviction victims. Two crashes reach a crash during the recovery of a crash. The search
needs windows wide enough for a bracket with heights left inside it, the rotation a list whose
length and order change: three peers, one of which may stand at any place. In the pool, two entries
are enough for an eviction to free the coin that another admission, looked up earlier, spends; in
the queue, two for one to come round to. Two threads of the agent reach every pair of steps of
`fund_step`, and MinConf = 2 the difference between seen and confirmed. A scan counts a depth that
the funding never had only if both blocks go after it has read the tip, so the run needs two
disconnections; for that it gives reorganisations, restarts and failures one bound of two together
(`MaxTrouble`) and leaves retries in the queue to ingress. A swap has two parties. Two takers are
enough for a hold that ends to be followed by another; a lost answer and a crash fall on every step
in turn, though never twice in one behaviour. Two sessions are enough for two on one endpoint, of
which one ends while the other goes on; three threads contend for two slots. The run of the peers
has one endpoint and so never a full book; `BookIsExact` is proved for any (section 4). The type
invariants, the exactness of the height index and "nothing is written after a halt" are proved
(section 4), not run. Bounds that the code does not have are those named as bounds of the
exploration: crashes, faults, failures, restarts, blocks, reorgs, releases, lost answers, arrivals,
time-outs, deferrals, and the `events` of *PeerSessions*. `Threads` is symmetric in *FundingAgent*,
whose run checks no liveness; no other run uses symmetry.

**Deadlock.** The runs of the chain check it: with an operator that restarts the node
there is always a next step. The others do not, as those systems may stop: every
transaction mined and no block left, every funding recorded, every job
complete, held or disarmed, every process terminal, the P2P node stopped. What must not stop there is a
liveness property.

**Fairness.** `ChainNode!FairSpec` has one weak fairness, of `Working`: the submission thread gets
on with the operation in hand, a halted node is stopped (`requestReorgFailStopShutdown` wakes the
main thread), the exit completes, and a stopped or refused node is started again, which is a
supervisor's part and the only assumption outside the code. New blocks, the operator's stop, crashes
and faults are not fair. `ForkSync!FairSpec` has weak fairness of the thread: a loop that runs as
long as `running`, in which each request is answered or times out (`wait_for` has a deadline). That
is not enough for a peer to be chosen: the rotation goes over the places of a list that is sorted
anew every cycle. `IntakeCompletes` and `HeaviestAdopted` therefore say under which condition a peer
is `Served`: its list settles with it in it, from where on the rotation reaches it, or it is asked
again and again all the same. `MempoolSpec` has the thread that calls `processQueue` every cycle,
and whoever is under the admission mutex. `SwapExits!FairSpec` has the watch loop, the engine
(bounded waits and a watchdog), mined transactions and time. `MarketProcess!Spec` has each party's
worker, which returns to its process every cycle however often that failed; late requests, expiries
and the user are not fair. `PeerSessions!FairSpec` has both loops, every dial and admission
(connections time out, sends and waits have deadlines), a reader that was told to end, the joins of
`stop()`, and time, by which back-offs and bans run out; that a session starts, proves itself or
dies is not fair. The liveness runs of the chain take the recovery gate
(`TRU_ENABLE_08B4C2_RECOVERY`) as open; with it closed an interrupted reorg is kept, by design,
until an operator opens it.

**Disagreements between the code and what it says of itself** (`findings`):

1. *restart_limits.* A reload in the middle of a reorg applies the per-parent and pool
   limits to demoted and waiting blocks together, drops one, and the marker is then
   rejected at every start; comments in `rollbackBlock` and in the preflight say this
   is to be avoided.
2. *funding_replay.* A replay of the exact prepared bytes looks for them in the pool only;
   once they are mined it is refused, though the comment promises that it observes
   them, and the attempt stays in `BROADCASTING`.
3. *exit_held.* The watcher refunds by the wall clock, the node by the median time of its
   chain; the refusal in between holds the job for good.

**Also seen while modelling**, without a run of their own:

* If the save of a promotion fails it is only logged (`blockchain.cpp:17610`), and the sync thread can
  publish the promoted tip without the marker before the executor's verification halts the node. The
  marker then names the block below for good, and every later start is refused: crash_recovery
  with `MaxFaults = 1` ends in this. It needs a failed write after which the next one succeeds.
  `MarkerNamesTip`, `NeverRefused` and `ReorgFinishes` are therefore checked with the two one at a
  time (faults in write_faults, the sync thread in crash_recovery). `blockchain.cpp:22137` says that tip and
  marker "become durable in this SAME batch".
* A heavier side tip that fails stateful validation waits harmlessly while the node runs and
  stops every later start. `NeverRefused` is checked where every branch
  is valid.
* A heavier branch that is shorter than the one it replaces is not activated while the pool is
  full, as the demoted blocks would not fit (`blockchain.cpp:10437`). The running node goes on, and
  every later start selects the branch again, fails to activate it and is refused (`:20231`).
  Eight blocks with one heavy side block, a pool of four and a crash are enough.
* Journals are kept 8192 blocks below the tip (`blockchain.cpp:109`), twice the depth of a reorg,
  and chains compete by work. Reorgs that each go to a heavier but lower chain bring the tip down
  towards what was pruned from higher up; 4097 blocks below its greatest height a reorg within the
  policy may find "undo journal absent inside declared retention horizon" (`:9093`), and is
  deferred, or at a start refused. `UndoStaysInReach` (section 4) says up to where that cannot be.
* A start publishes a pending connection before it reconciles, so the tip can be one block higher
  than when the side blocks were admitted, and the fork of the heaviest one block deeper than a reorg
  may go. That start is refused; the next one reloads against the new tip and drops the branch.
* "Fairly inspect every eligible peer" (`blockchain.cpp:2576`) holds as long as the list does not change.
  The turn is a place in a list that is sorted by the heights reported in this cycle and has its
  length, so a peer that reports a height above or below another's as the turn requires, or a list whose length
  changes as peers cool down, can keep a third from being chosen. Without the condition `Served`
  TLC finds this for `IntakeCompletes` in convergence: the erratic peer is the one chosen every time.
* The recheck of the tip after discovery is only made when an ancestor was found, not
  when the search says "beyond the window"; `BeyondIsBeyond` leaves a tip that moved out.
* A winning branch whose activation was deferred is "already indexed" from then on; only a
  further block on it or a restart activates it. `HeaviestAdopted` has one deferral.
* `claimReconnectCandidates` goes through the verified endpoints before the configured
  ones and takes two for a round. A dozen verified endpoints that are gone for good are enough, at
  a minute's back-off each, for the configured ones not to be reached. `LostIsRedialled` has
  no measure of time and one endpoint.
* A block that answers a request is told by its height alone (`peer_connection.cpp:856`), so one that was
  asked for by its hash may end a probe of the sync at that height, and is then not submitted.
* A scan for the funding counts confirmations from a tip that it has read before the blocks
  (`tru_funding_reconciler_v1.py:339`, `:376`), so a block replaced meanwhile below that tip
  gives a depth that it has not. It takes more for the count to be believed: the scan reads every height
  up to that tip and ends in an error if one is gone, so the chain must grow to the tip again, which makes the
  count true, unless that block is replaced once more before. With three disconnections TLC finds the
  sequence for `EvidenceTrue` without its exception `torn`; with two there is none.
* With nodes of their own, the second party's watcher takes the secret only from its own
  node's record (`exit_watcher_v1.py:593`) and so does not claim in turn when the claim
  of its leg is only on the chain.
* Both parties may record the second funding (`fund_step`, `tru_swap_agent.py:1717`), and one party
  in two requests. The node reads and writes the record with no lock (`tru_swap_v1_state.h:405`,
  `:358`), so a `BOTH_FUNDED` or `ONE_SIDE_FUNDED` that is written late takes out the evidence of
  exits or of the second leg, or a last word that was said, and `REFUNDED` may be said of one leg
  while the other is open. TLC finds both in exits without the exception of `overtaken`:
  `VerdictImplemented` fails, and so does `ArmedEnds`, as a watcher waits for a leg that it does not
  see funded. What was spent, and how often an engine starts, is not affected (`CompleteIsOut`,
  `EnteredOnce`, `VerdictTrue`).
* The handler of a tick writes the listed state back (`exit_watcher_v1.py:801`), over a
  disarm that came meanwhile; and a disarmed row cannot be armed again although the
  message says to disarm "before replacing it" (`exit_watcher_v1.py:473`).
* A withdrawal asked for after the finalization barrier leaves the maker's process asking
  for it for ever; the reservation stays held, where `market_store_v1.py:295` says that
  reconciliation must finish it. A withdrawal whose answer was lost is never
  acknowledged; a taker that reserves on an advert that is gone retries for ever; an offer
  that runs out before the final bundle leaves the reservation held. `SealedEnds` names
  the first and the last as its exceptions.

## 4. What is proved

**ChainNode_proofs**, for every tree, every policy and any number of crashes and faults:

* `TypeCorrect`: `Spec => []TypeOK`. `TypeOK` alone is not inductive: the mapping of a
  new side block to its parent's counter needs the genesis never to be a side
  block, and a promoted block must be one that has a parent. `TypeInv` adds these
  (`SideMaps`, the plan's candidate), and there is one lemma per helper that builds a
  map or a counter and one per group of actions.
* `FailStopHolds`: `Spec => HaltedWritesNothing`. The strengthening is `HaltInv`: a halted
  thread has left its operation (`pc` is `Idle` or `Fatal`). Every step that writes either
  needs a `pc` inside an operation, or asks for `~halted`: the intake through
  `Accepting`, the sync thread's save through `CanPublish`, the exit through `SavesAtExit`.
* `ConfirmedIsValid`: `Spec => []OnlyValidConfirmed`. The strengthening is `ValidInv`: the
  state, the published tip, the tip in memory and every block of the height mapping end
  valid chains, since a start rebuilds the memory from the mapping (`Loads`), whatever
  tip was published, and a connection extends the tip in memory. A state goes up
  through `Applicable` (a valid child of the tip) and down to a parent; recovery
  publishes a block it never validated, and is right to because the journal proves
  it is the block the state stands at (`Probe`).

**ChainStore_proofs**, for the same, goes on to what the records say. The properties are not
inductive one by one: the state is explained because the marker is that of the plan in
hand, the marker is right because the tip is where the phase of the thread says, and a
restart finds the phase again from the marker's count alone. `NodeInv` says it together:
`StoreInv` (the state is explained, the mapping exact, and the marker's two counts are the
numbers of blocks between its tip and the original one, `MarkerCounts`), `MemoryInv` (the
chain in memory is in the store, the side pool off that chain and as durable as it is in
memory), and for every `pc` what is published, what is ahead, and in which window between
two batches (`ConnectInv`, `ReorgInv`, `StartInv`). A crash keeps `StoreInv` and forgets
the rest; the start has to earn it again, and `Verdicts` and `WhereItStopped` are the
lemmas that the classification of an interrupted reorg names the right window. From it:

* `StateIsExplained`, `HeightIndexIsExact` and `IdleNodeIsClean`, the invariants of the same
  meaning.
* `AcceptanceIsLedger`: `Spec => LedgerImplemented`. The committed tip is the marker's
  original tip while a reorg moves and the state's otherwise, so all the batches of a reorg
  are stutters and the clearing of its marker is one `Switch` (`ReorgIsSwitch`).
* `ReorgsEndComplete`: when a moving marker goes, the new branch is in and the old one
  demoted. `EndInv` adds what the last step relies on: the marker starts from the plan's
  original tip, and a start that finishes the reorg has in memory just what the reload
  kept of the side records.

* `EvidenceStays`: `Spec => []EvidenceKept`. `TrailInv` says it of every marker, also one that has
  not moved, by its tip and not by its counts: both branches are stored, and a block of the old one
  has its journal while it is below the marker's tip, and is a local side block after that. The marker
  and these records move in the same batch (`TrailDown`, `TrailUp`), and nothing is deleted as long as
  there is a marker. `DisconnectedIs` shows that the counts name the same blocks.
* `CountersAreExact`: `Spec => []CountersExact`, inductive with the types. The counters of a map
  are those of any two parts of it together (`CountersSplit`), so counting one block in or out
  is adding or subtracting the counters of that block (`CountsIn`, `CountsOut`), and the
  deletions, the promotion and the demotion of a whole branch follow.
* `PoolStaysBounded`: `Spec => []PoolBounded`. An admission looks at the limits before it counts
  (`BoundedIn`), everything else takes a part of the pool, or what a reload kept, each block of
  which was looked at too (`ReloadBounded`). The demotion of an old branch is the hard case: it
  is counted in as a whole, and the total and the children that the last step of a reorg looks
  at are all that a branch of the node's own can add to (`DemotionBounded`).

What a start finds, and what it may refuse:

* `MarkerKeepsTip`: the marker that moves names the published tip, unless a write has failed and
  the sync thread saves too; section 3 shows why not then. A batch that publishes one publishes the
  other. Between the two batches of a promotion the sync thread can publish alone only before
  the executor has looked, and without a failed write only a stop brings the executor
  there unpublished (`MarkInv`), after which nothing is saved.
* `PendingIsPublished`: a direct connection that was cut off is always published. Its block has its
  journal (`PendingJournal`), the state stands at it, and the mapping says nothing of its height.
* `InterruptedIsRecognised`: with a marker that names the tip and a reload that kept, of both
  branches, every record whose parent it indexed (`BranchesReloaded`; run restart_limits shows what
  happens otherwise) the classification never rejects, a tip to disconnect has its journal, and a
  candidate to connect is valid and recorded. `WayInv` says what the records of both branches are
  while a marker is there: a new block has its side record until its state is in with its journal,
  an old one has none until it is off.
* `StartGoesOn`: under the same two conditions a start with recovery enabled is refused, up to the activation of
  a side tip, only when a write fails. It adds that nothing hangs on the branch a reorg leaves
  (`NothingHangs`), since a recovered disconnection asks for that, and that no start is told to stop.
* `ActivationIsRefusedForAReason`: from there to the end of the start, what can keep it from the
  side tip it has chosen is a failed write or one of `Reasons`, which section 3 describes: a block
  that is not valid, a fork one block beyond reach, a tip fallen below the reach of its journals, a
  pool without room. That everything else the preflight asks for is there needs the most. Every side
  block hangs on an indexed one (`SidesHangTogether`), so the branch to join is in the pool. Nothing
  is recorded above the tip of a chain at rest (`NothingAbove`), so the candidate forks off below
  it. A reload admits no block that is further off than the policy allows, and before the
  reconciliation the tip moves by the pending connection at most (`ShortInv`). What the branch to
  leave needs is `UndoWithinReach`, and what hangs on it has less work and can be cleared, as there
  is one heaviest. What the preflight saw is still so when the execution starts (`ChosenInv`).
* `NodesStart`: `Spec => []NeverRefused` is false, and the theorem says of every step that makes it
  so why, for any number of crashes (`WhyRefused`): a write has failed, the gate of the recovery is
  closed, a reload at its limits has left out records of an interrupted reorg (run restart_limits),
  or one of the `Reasons`. It asks two things of the behaviour, `StartKnowsAll` (below) and a height
  `N` the committed tip never exceeds; the second is no restriction, it only names the greatest
  height so far.
* `StartTakesTheBest`: `Spec => BestBeforePeers`. Once the start has chosen its winner no
  side block has more work than it (`BestInv`); a leaf counts no children, by `CountersExact`, so
  the heaviest side block is the heaviest leaf.
* `HaltsForAReason`: fail-stop needs a failed write or a stop. During a reorg nothing of the pool hangs on
  the old branch, what is still to connect is in it, and the old branch fits beside the rest
  (`ExecInv`, from the reservation of `BeginExecution`), so every disconnection, promotion
  and the demotion succeed, and what is read back was published (`VerifyInv`).
* `ReorgGoesForward`: every change of a marker that moves takes one more block off, puts one more
  on once the old branch is off, or ends the reorg, crashes included. That is the variant of `ReorgFinishes`.

And the side records and journals:

* `RecordsAreKnown`: `NothingStray`, if no record is unknown to the index when the reloads of a
  start are over (`StartKnowsAll`). TLC finds this to hold in crash_recovery and write_faults; a purge that
  fails, and a reload at its limits under a marker, break it. From there on every
  batch keeps it, and what a reorg has demoted is known when it ends (`KnownInv`).
* `SidesStayApart`: `SidesApart`, if nothing is stray. A direct connection deletes no side record, so one
  of a block that extends the tip and that the index does not know would stay.
* `UndoStaysInReach`: `UndoWithinReach`, given `SidesApart` (a deleted side block must not be a
  confirmed one), as long as the state has not `Fallen`. With `N` the greatest height the committed
  tip has had, the chain of the committed tip keeps every journal down to `N - UndoRetention`
  (`Retained`), whether reorgs go up or down: the pruning never looks from higher than `N`, and a
  reorg writes the journals of what it joins (`OnTheWay`). A reorg as deep as the policy allows
  therefore finds its journals as long as the state, in the middle of a reorg too, is at most
  `UndoRetention + 1 - MaxForkDepth` below `N`, 4097 blocks in the code. Chains compete by work, so
  a heavier chain may be lower, and a series of reorgs to lower chains can pass that bound; the
  theorem says nothing of a state beyond it. Keeping journals only as deep as one reorg fails in
  side_pool.

Chains are walked by least counterexample (`LeastNumber`, `BlockInduction`), and so is the
reload of the side records, a recursive function (`ReloadedApart`): what it keeps is a
stored side block off the active chain.

**ForkSync_proofs**, for every tree, peer and window and any number of blocks that arrive
meanwhile: `SearchFindsFork`, `BeyondIsTrue` and `SyncedIsTrue`. First, about trees: every height
up to a block's is on its chain, two chains have a highest common block, and they share
exactly the heights up to it (`SharedHeights`). These go by least counterexample, since
a set of natural numbers has a least element (`LeastNat`). Then `SearchInv`: as long as the tip is the one the
search started from, what was read for a height is that tip's block there, and the height of
the last common block is in the bracket (`Closing`). A moved tip cannot come back
unnoticed before `Recheck`, because work only grows (`Moved`). `SearchHalves` is
`SearchIsLogarithmic`, for any peer: with p probes behind it the bracket's inner heights times
2^(p - 2) stay below the window (`Halved`), as a middle height leaves at most half of them. Its
hypothesis `PowersOfTwo` is the definition of `^` for the base 2, which the provers have no rule for.

**SwapExits_proofs**, for one node or two and any number of failures and of requests that record a
funding. The invariant `Inv` is types, `RecordsTrue` (a record's evidence is how the legs were
spent, and its last word what the evidence proves), `ReadingsTrue` (the same of what a request has
read), `EnginesTrue` (so is what an engine carries, and an engine past its wait has seen its spend
confirmed), `TicksTrue` (a watcher in the middle of a tick has a job, one that starts an engine
listed it as armed), `Unspent` (no engine was started for a job that is armed, or that a tick listed
as armed) and `CompleteIsOut`. None of them is inductive alone: a save is true because the engine's
copy is, a copy because the record it was read from was, and `COMPLETE` is right because the copy of
the record the tick read is. From it:

* `EngineEnteredOnce`, `CompleteMeansOut`, and `VerdictsAreTrue`: the last word of either
  record says how the legs were spent.

In the second half of the module, `RecordsImplementOutcome`, `Spec => VerdictImplemented`, the
refinement of *SwapOutcome* up to the step in which a funding is first saved over a record that has
moved on. It needs that a word once said is not overwritten by an engine that read the record
before: `VerdictInv` says that a job is only there when both legs are funded in the record
(`Underway`), that such a record has the evidence of both fundings and one exit for each party
(`RecordsWhole`), that no record has the evidence of an engine that may still write it (`NotYet`),
and that the last save of an engine is the one that writes a word (`LastSaves`). It holds until then
(`Sound`): a funding that does not overtake writes what is there or its successor (`FundShape`). A
word rests on the evidence of both parties, so an engine with its evidence still to come excludes
it. The proof then maps `Mine` to `Spend`, the save of a last word to `Say`, and everything else to
a stutter.

**MarketProcess_proofs**, for any number of takers, lost answers and crashes. Two results:
`ProcessesTellTheTruth`, `Spec => []ToldTruly`, and `ProcessesImplementDeal`,
`Spec => TradeImplemented`, the refinement of *MarketDeal*. The invariant `Inv` says
where every final bundle comes from. A row whose finalization has started stays open, so
there is one such row at most (`StoreSound`); a session only has a final bundle for such
a row, and what the maker signs is that bundle (`SignedSound`); and a final bundle in a row
(`RowsSound`), in a job or a running cycle (`JobsSound`), on the wire after its caller
gave up (`WireSound`) or signed by a taker is one the maker has signed before. A cycle
works on a row it read earlier, so `CycleSound` says which of what it read cannot have changed
since: a start and a final bundle, but not an offer, an acceptance or the status. Every
action is then one of three: a step of the store that signs nothing (`Quiet`), which
changes one row in one of five ways (`RowStep`), the maker's signature, or a taker's. The refinement maps
the five to `Hold`, `LetGo`, `Seal`, a stutter and `Bind`.

**Mempool_proofs**, for any set of transactions, any sizes and any number of
reorganisations and restarts: `PoolIsConsistent` and `QueueIsAccounted` of `MempoolSpec`.
`PoolConsistent` says of an entry that all its inputs are unspent or that one of them
was taken away, which a block or a reorganisation may change for one input and not for
another; the invariant `PoolInv` says it of each coin (`Good`: no block spends it, and who made it
is in the chain or was taken off), and of an entry that is not minable that the cleaning which
is due will take it (`Minable`). `QueueAccounted` needs that a txid leaves with the only
entry that has it (`Once`).

**FundingAgent_proofs**, for any number of request threads, strangers, crashes, releases and
reorganisations: `FundingTyped`, `ReservationsHold`, `OneFundingOnly`, `EvidenceIsTrue` and
`ReorgsAreReal`, which are all the invariants of the run `funding`. The invariant `FundInv` is
`PoolInv`, the types and seven parts. The wallet chooses once, and journal, threads and requests
only ever speak of that choice (`OneTx`); nothing is asked of the node before the journal has
crossed its barrier (`Barriered`); so whatever is in the pool, in a block, with peers or in the
ingress and has a txid of the wallet's has the journal's (`OutSound`). What is under the admission
mutex passed the gate, and no reservation is made or released meanwhile (`Gated`). A confirmation
that a thread has read is of a transaction that is in a block, or was in one that was taken off
(`Witnessed`), so one that is in no block any more was taken off, which is what the watcher says
(`ReorgSeen`). That the depth is one the chain has had (`been`) rests on two facts. Every depth up
to the present one has been there (`Deepened`); and what a scan under way has counted, and the chain
has not had, stands in a block that the scan has read and that has its height still (`Sees`,
`Standing`), so that it is that deep when the scan reads the tip's height. Taking such a block away
is what `torn` remembers. Ingress, blocks and the pool only pass on what somebody had (`Spreads`),
which one lemma shows for each group of steps. That a stranger cannot come first with a txid of the
wallet's is an assumption (`FundingAssumption`): a txid names the coins that are spent, and only the
wallet can spend them.

**PeerSessions_proofs**, for any number of threads, addresses, endpoints and sessions:

* `SlotsAreExact`: `Spec => []SlotsExact`, inductive with the types. A step moves one thread or one
  session (`OneThreadMoves`, `OneSessionMoves`), so for every set of addresses the number of
  holders changes by at most one, and the quota with it: nothing happens (`StandStill`), a slot is taken,
  given back by a thread or by a reader, or handed over at the admission (`SlotHandedOver`).
* `BookIsExact`: `Spec => []VerifiedExact`. `BookInv` adds that a session which has only said
  hello is on no endpoint, and that an endpoint outside the book with a session on it is there
  because the book is full: so its first entry starts from no session.
* `NothingRunsAfterStop`, the safety half of `StopEnds`. Every reader belongs to a session that is
  listed or that `stop()` has taken over (`StopInv`); the check under the lock in
  `Admits` is what keeps the list empty after that.

The proofs rest on the named assumptions of `BlockTree`, `ChainState`, `Mempool`,
`PreparedFunding`, `FundingAgent`, `ForkSync`, `SwapRecord`, `SwapExits`, `MarketStore`, `MarketProcess`,
`PeerBook` and `PeerSessions`, which TLC evaluates on every instance. `TreeShape` and `TreeClosure` say
that `Anc` and `Height` are those of a tree. `PolicyAssumption` repeats the two
`static_assert`s of `fork_recovery_policy.h` and adds what holds of the constants without
being asserted: the connection limit equals the disconnection limit, and journals are
retained at least that deep.

Only model-checked: liveness, and `NeverRefused` without the conditions of `NodesStart`, which crash_recovery
checks on an instance. Liveness (`ReorgFinishes`,
`StopCompletes`, `IntakeCompletes`, `HeaviestAdopted`, `Decided`, `ArmedEnds`,
`SealedEnds`, `StopEnds`, `LostIsRedialled`) is outside the prover.

## 5. What is left out

*Of the chain.* Stateful validation is the set `Valid`: what a block does to balances,
tokens and contracts is data here. The candidate validation budget and the negative
cache are one nondeterministic deferral (`DeferActivation`, `deferrals` in ForkSync).
Byte limits, checksums and versions of records, the migration of older stores and the
CR-01B repair are not modelled. The queue of blocks without a parent retries
submissions like any other. Undo pruning keeps a cursor in memory; the model lets
the call delete any number of the lowest expired journals. In ForkSync block
acceptance is atomic and the side pool never full; cool-downs and waits are time, so a peer
that cools down may be back in any later cycle; sessions do not end, and the heights of an erratic
peer are taken from a small set (`Claims`).


*Of transactions.* Byte budgets of queue and pool, the budget of each peer, priorities and
the rebuild of a broken fee index. When a busy transaction finds the queue filled by
others it is dropped; the model lets it be dropped at any retry. The journal's state `ABORTED` is left out: its
table of transitions has it (`tru_swap_agent.py:57`), but only a verification script writes it. The cap on the
span of a scan is one of its errors. `SIDE`, `CONFLICT` and not found are one
answer, `AWAY`. The operator's `Release` is possible whenever the node would allow
it, more often than the agent's route does.

*Of swaps.* The exchange of terms, the checks that a party makes of a funding before it asks for it
to be recorded (`FundReads` starts with the node's read), spends that a reorganisation takes back
after their confirmations, the rebroadcast of exits, engines that an operator starts by hand, and
failing writes of a job's row after its engine ended.

*Of the market.* Several adverts, lists and counts, rate limits, the checks of terms, times
and digests in the bundles (a bundle is the sequence of its nonces), back-off between cycles,
differences between the parties' clocks. The lookups inside a read are one action when
nothing is asked for after them. A failed read is a stutter.

*Of peers.* A node that only dials and never listens, several lives of one node
object, self endpoints, the rate of attempts (a refusal at any time), scores
below the threshold, the bound of the table of abuse, the order in which discovered endpoints are
dialled (a caller may dial any endpoint), and what a session says after its handshake: messages,
framing, budgets and block requests.

*Whole components* (in `PROJECT.json` with their reasons): UTXO set, contracts and tokens (functions
of data), VAH writer (canonical encodings around stores that append in one batch), AI oracle,
ordinary payments and the secret session of the wallet, storage wrapper, miners, RPC, GUI, hosted
helpers, vendored and generated code (`httplib.h`, protobuf, images).

## 6. What remains

Worth modelling next: block requests against time-outs and the end of a session, the funding of the
other chain's leg, the rebroadcast of reorganised exits, and the candidate budget as a bounded
window of tokens. Worth proving next: variants like `ReorgGoesForward` for the other liveness
properties, and that the reloads of a node whose limits leave room for a demoted branch keep what
`NodesStart` asks of them.
