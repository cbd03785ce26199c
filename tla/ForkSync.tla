------------------------------ MODULE ForkSync ------------------------------
(***************************************************************************)
(* The sync thread (syncWithPeers) and its logarithmic search for the last *)
(* common block (findAncestor).  Every cycle asks the peers that are not   *)
(* cooling down for their heights, sorts those that answer and takes the   *)
(* next place of that list; it compares block identities, never heights    *)
(* alone, fetches the peer's branch block by block and hands each to block *)
(* acceptance.  Meanwhile miners and other peers move the tip.  Acceptance is what Ledger promises, with the       *)
(* deferral of a winning branch that ReorgExecutor may decide.             *)
(***************************************************************************)
EXTENDS Ledger

CONSTANTS
    Peers,          \* sessions the thread may ask
    Steady,         \* peers that keep one chain and answer with its blocks;
                    \* the others may answer any block of the height asked for
    ChainOf,        \* the last block of a steady peer's chain
    Address,        \* the rank of a peer's address
    Period,         \* bound: the turn is counted modulo this multiple of every length
                    \* the list can have
    Claims,         \* bound: the heights the peers that are not steady report
    MaxBranch,      \* MAX_SIDE_BRANCH_LENGTH
    MaxMoves,       \* bound: blocks that arrive from elsewhere
    MaxFailures,    \* bound: requests to steady peers that time out, and others in a cycle
    MaxDeferrals    \* bound: winning branches whose activation is deferred

ASSUME SyncAssumption ==
    /\ Steady \subseteq Peers
    /\ ChainOf \in [Steady -> Blocks] /\ Address \in [Peers -> Nat]
    /\ IsFiniteSet(Peers) /\ Claims \subseteq Nat
    /\ Period \in Nat \ {0} /\ \A n \in 1..Cardinality(Peers) : Period % n = 0
    /\ {MaxForkDepth, MaxBranch, MaxMoves, MaxFailures, MaxDeferrals} \subseteq Nat

VARIABLES
    known,      \* the keys of blockIndex
    cooling,    \* peers whose syncRetryAt has not come
    list,       \* usablePeers: every usable peer's place in the order of the sort, from 0
    turn,       \* syncPeerRotation
    pc,         \* where the thread is
    peer,       \* bestPeer
    seen,       \* highestPeerHeight
    tip0,       \* discoveryTipHash
    at,         \* the height being compared or fetched
    mine,       \* the local hash read for it
    got,        \* the block the peer answered
    lo, hi,     \* the bracket of findAncestor; at its end lo is forkHeight
    probes,     \* AncestorResult.probes
    prev,       \* expectedPrev
    status,     \* setForkRecoveryStatus of this cycle
    budget      \* moves, failures and deferrals so far

cycle == <<peer, seen, tip0, lo, hi, probes>>
node == <<committed, known>>
rotation == <<list, turn>>
vars == <<node, cooling, rotation, pc, cycle, at, mine, got, prev, status, budget>>

----------------------------------------------------------------------------
(* Bounds of the search *)

Lesser(m, n) == IF m < n THEN m ELSE n

\* Mutant: the lowest block a reorg can still reach is left out.
Lowest_OneShort(t) ==
    IF Height[t] > MaxForkDepth THEN Height[t] - MaxForkDepth + 1 ELSE 1

\* The lowest height the search looks at, tip t.
Lowest(t) == IF Height[t] > MaxForkDepth THEN Height[t] - MaxForkDepth ELSE 1

Highest == Lesser(Height[tip0], seen)

\* Mutant: one height at a time.
Middle_Linear(l, h) == h - 1

Middle(l, h) == l + ((h - l) \div 2)

\* Blocks the peer may answer for height h: the hash is recomputed and the
\* height checked, so it is a block of that height.
Answers(h) ==
    IF peer \in Steady THEN {BlockAt(ChainOf[peer], h)} \ {NoBlock}
    ELSE {b \in Blocks : Height[b] = h}

\* The cycle ends; the next looks for a peer again.
EndWith(s) == pc' = "Choose" /\ status' = s

\* The cycle ends and the peer cools down (noteSyncFailure).
FailWith(s) == EndWith(s) /\ cooling' = cooling \cup {peer}

----------------------------------------------------------------------------
(* Choosing a peer and comparing the overlap *)

\* With heights h, x comes before y: the greater height first, ties by address.
Before(h, x, y) == h[x] > h[y] \/ (h[x] = h[y] /\ Address[x] < Address[y])

\* The places of the peers that reported the heights h.
Places(h) == [x \in DOMAIN h |-> Cardinality({y \in DOMAIN h : Before(h, y, x)})]

\* Peers whose cool-down is over, or that had none, are asked and those that answer
\* report h; the others cool down.  A steady peer that was not cooling down and is not
\* among them is late.
Survey(h) ==
    LET late == Cardinality((Steady \ cooling) \ DOMAIN h)
    IN  /\ cooling' = Peers \ DOMAIN h /\ list' = Places(h)
        /\ budget.failures + late <= MaxFailures
        /\ budget' = [budget EXCEPT !.failures = @ + late]

\* Mutant: always the peer that reports the greatest height.
Chosen_Highest(l, p) == l[p] = 0

\* The turn is a place in the list of this cycle.
Chosen(l, p) == l[p] = turn % Cardinality(DOMAIN l)

\* The heights some peers report: that of a steady one's chain, any of the others.
Surveys ==
    {[p \in some |-> IF p \in Steady THEN Height[ChainOf[p]] ELSE said[p]] :
        some \in SUBSET Peers, said \in [Peers \ Steady -> Claims]}

\* The variables of a cycle start afresh.
Choose ==
    /\ pc = "Choose"
    /\ \E h \in Surveys :
          /\ Survey(h)
          /\ \E p \in DOMAIN h : Chosen(list', p) /\ peer' = p /\ seen' = h[p]
    /\ turn' = (turn + 1) % Period
    /\ tip0' = committed
    /\ at' = Lesser(Height[committed], seen')
    /\ mine' = Genesis /\ got' = Genesis /\ prev' = Genesis
    /\ lo' = 1 /\ hi' = 1 /\ probes' = 0
    /\ pc' = "Overlap" /\ status' = "none"
    /\ UNCHANGED node

\* No peer is usable: the thread waits.
NobodyUsable ==
    /\ pc = "Choose" /\ Survey(<<>>)
    /\ UNCHANGED <<node, turn, pc, cycle, at, mine, got, prev, status>>

\* The peer's block at the overlap height.
Overlap ==
    /\ pc = "Overlap"
    /\ got' \in Answers(at)
    /\ pc' = "Compare"
    /\ UNCHANGED <<node, cooling, rotation, cycle, at, mine, prev, status, budget>>

\* Mutant: a height that matches is enough.
SameBlock_ByHeight(h, b) == Height[committed] >= h

\* The local block at height h is b.
SameBlock(h, b) == BlockAt(committed, h) = b

\* Identities are compared.  The same block and a peer that is not ahead:
\* synchronized; a peer that is ahead: its blocks are fetched; another block:
\* the last common one is searched for.
Compare ==
    /\ pc = "Compare"
    /\ CASE at > Height[committed] ->           \* getBlockHashByHeight throws
              EndWith(status) /\ UNCHANGED <<at, lo, cooling>>
         [] at <= Height[committed] /\ SameBlock(at, got) ->
              IF seen <= Height[tip0] THEN EndWith("synced") /\ UNCHANGED <<at, lo, cooling>>
              ELSE pc' = "Start" /\ lo' = Height[tip0] /\ UNCHANGED <<at, status, cooling>>
         [] OTHER ->
              IF Lowest(tip0) > Highest THEN FailWith("beyond") /\ UNCHANGED <<at, lo>>
              ELSE pc' = "ReadHigh" /\ at' = Highest /\ UNCHANGED <<lo, status, cooling>>
    /\ UNCHANGED <<node, rotation, peer, seen, tip0, hi, probes, mine, got, prev, budget>>

----------------------------------------------------------------------------
(* findAncestor *)

\* The local hash is read first, then the peer is asked; the tip may move in
\* between.
Reads == {"ReadHigh", "ReadLow", "ReadMiddle"}
AskAfter == [ReadHigh |-> "AskHigh", ReadLow |-> "AskLow", ReadMiddle |-> "AskMiddle"]

ReadLocal ==
    /\ pc \in Reads
    /\ IF at > Height[committed] THEN EndWith(status) /\ UNCHANGED mine
       ELSE pc' = AskAfter[pc] /\ mine' = BlockAt(committed, at) /\ UNCHANGED status
    /\ UNCHANGED <<node, cooling, rotation, cycle, at, got, prev, budget>>

\* Mutant: a bracket with one height left in it counts as closed.
Narrow_TooEarly(l, h) ==
    /\ lo' = l /\ hi' = h
    /\ IF h - l > 2 THEN pc' = "ReadMiddle" /\ at' = Middle(l, h)
       ELSE pc' = "Recheck" /\ at' = at

\* The bracket l..h: look in the middle, or be done.
Narrow(l, h) ==
    /\ lo' = l /\ hi' = h
    /\ IF h - l > 1 THEN pc' = "ReadMiddle" /\ at' = Middle(l, h)
       ELSE pc' = "Recheck" /\ at' = at

Ask ==
    /\ probes' = probes + 1
    /\ got' \in Answers(at)
    /\ UNCHANGED <<node, rotation, peer, seen, tip0, mine, prev, budget>>

AskHigh ==
    /\ pc = "AskHigh" /\ Ask
    /\ IF got' = mine THEN Narrow(at, at) /\ UNCHANGED <<status, cooling>>
       ELSE /\ UNCHANGED <<lo, hi>>
            /\ IF Lowest(tip0) = Highest THEN FailWith("beyond") /\ UNCHANGED at
               ELSE pc' = "ReadLow" /\ at' = Lowest(tip0) /\ UNCHANGED <<status, cooling>>

AskLow ==
    /\ pc = "AskLow" /\ Ask
    /\ IF got' = mine THEN Narrow(at, Highest) /\ UNCHANGED <<status, cooling>>
       ELSE FailWith("beyond") /\ UNCHANGED <<lo, hi, at>>

AskMiddle ==
    /\ pc = "AskMiddle" /\ Ask
    /\ IF got' = mine THEN Narrow(at, hi) ELSE Narrow(lo, at)
    /\ UNCHANGED <<status, cooling>>

\* A tip that moved during the search voids its result.
Recheck ==
    /\ pc = "Recheck"
    /\ IF committed = tip0 THEN pc' = "Start" /\ status' = "fetching"
       ELSE EndWith("retry")
    /\ UNCHANGED <<node, cooling, rotation, cycle, at, mine, got, prev, budget>>

----------------------------------------------------------------------------
(* Fetching the branch *)

Start ==
    /\ pc = "Start"
    /\ IF lo > Height[committed] THEN EndWith(status) /\ UNCHANGED <<prev, at>>
       ELSE pc' = "Fetch" /\ prev' = BlockAt(committed, lo) /\ at' = lo + 1
            /\ UNCHANGED status
    /\ UNCHANGED <<node, cooling, rotation, cycle, mine, got, budget>>

\* The next block must continue the last one.
Fetch ==
    /\ pc = "Fetch"
    /\ \/ at > seen /\ EndWith(status) /\ UNCHANGED <<got, cooling>>
       \/ /\ at <= seen
          /\ got' \in Answers(at)
          /\ IF got' \in NonGenesis /\ Parent[got'] = prev
               THEN pc' = "Submit" /\ UNCHANGED <<status, cooling>>
               ELSE FailWith(status)
    /\ UNCHANGED <<node, rotation, cycle, at, mine, prev, budget>>

\* A request that times out, or that a steady peer cannot answer.
RequestFails ==
    /\ \/ pc \in {"Overlap", "AskHigh", "AskLow", "AskMiddle"}
       \/ pc = "Fetch" /\ at <= seen
    /\ budget.failures < MaxFailures
    /\ budget' = [budget EXCEPT !.failures = @ + 1]
    /\ FailWith(IF pc \in {"Overlap", "Fetch"} THEN status ELSE "failed")
    /\ UNCHANGED <<node, rotation, cycle, at, mine, got, prev>>

----------------------------------------------------------------------------
(* Block acceptance as this thread sees it *)

\* b may be indexed as a side block.
SideFits(b) ==
    LET fork == Height[ForkOf(committed, Parent[b])]
    IN  /\ Height[committed] - fork <= MaxForkDepth
        /\ Height[b] - fork <= MaxBranch

\* submitBlockInternal takes b in: on the tip, or beside it, where it wins, is
\* deferred or waits.
Accept(b) ==
    \/ Extend(b) /\ known' = known \cup {b} /\ UNCHANGED budget
    \/ /\ Parent[b] \in known \ {committed} /\ SideFits(b)
       /\ known' = known \cup {b}
       /\ \/ Switch(b) /\ UNCHANGED budget
          \/ ~Outweighs(b) /\ UNCHANGED <<committed, budget>>
          \/ /\ Outweighs(b) /\ budget.deferrals < MaxDeferrals
             /\ budget' = [budget EXCEPT !.deferrals = @ + 1]
             /\ UNCHANGED committed

Rejected(b) ==
    \/ Parent[b] = committed /\ b \notin Valid
    \/ Parent[b] \notin known
    \/ Parent[b] # committed /\ ~SideFits(b)

\* A block that is already indexed counts as accepted.
Submit ==
    /\ pc = "Submit"
    /\ \/ got \in known /\ UNCHANGED <<node, budget>>
       \/ got \notin known /\ Accept(got)
    /\ pc' = "Fetch" /\ prev' = got /\ at' = at + 1
    /\ UNCHANGED <<cooling, rotation, cycle, mine, got, status>>

SubmitRejected ==
    /\ pc = "Submit" /\ got \notin known /\ Rejected(got)
    /\ FailWith("rejected")
    /\ UNCHANGED <<node, rotation, cycle, at, mine, got, prev, budget>>

\* A block from a miner, the RPC or another session.
Arrive(b) ==
    /\ budget.moves < MaxMoves
    /\ b \in NonGenesis \ known
    /\ \/ Extend(b)
       \/ /\ Parent[b] \in known \ {committed} /\ SideFits(b)
          /\ Switch(b) \/ (~Outweighs(b) /\ UNCHANGED committed)
    /\ known' = known \cup {b}
    /\ budget' = [budget EXCEPT !.moves = @ + 1]
    /\ UNCHANGED <<cooling, rotation, pc, cycle, at, mine, got, prev, status>>

----------------------------------------------------------------------------
(* The thread *)

Init ==
    /\ LedgerInit
    /\ known = {Genesis}
    /\ cooling = {} /\ list = <<>> /\ turn = 0
    /\ pc = "Choose" /\ peer \in Peers /\ seen = 1 /\ tip0 = Genesis
    /\ at = 1 /\ mine = Genesis /\ got = Genesis
    /\ lo = 1 /\ hi = 1 /\ probes = 0 /\ prev = Genesis
    /\ status = "none"
    /\ budget = [moves |-> 0, failures |-> 0, deferrals |-> 0]

Thread ==
    \/ Choose \/ NobodyUsable
    \/ Overlap \/ Compare \/ ReadLocal
    \/ AskHigh \/ AskLow \/ AskMiddle \/ Recheck
    \/ Start \/ Fetch \/ Submit \/ SubmitRejected

Next ==
    \/ Thread \/ RequestFails
    \/ \E b \in Blocks : Arrive(b)

Spec == Init /\ [][Next]_vars

\* The thread runs, and a request is answered or times out.
FairSpec == Spec /\ WF_vars(Thread)

----------------------------------------------------------------------------
(* Properties *)

Fork(p) == Height[ForkOf(tip0, ChainOf[p])]

\* The search against a steady peer ends at the last common block, unless the
\* tip moved.
FoundIsHighest ==
    pc = "Recheck" /\ peer \in Steady /\ committed = tip0 => lo = Fork(peer)

\* The search takes at most two probes and the logarithm of the window.
SearchIsLogarithmic == probes > 2 => 2 ^ (probes - 3) < MaxForkDepth

\* "Recovery required" is only said of a steady peer whose chain forks deeper
\* than a reorg can go, as long as the tip does not move.
BeyondIsBeyond ==
    [][status # "beyond" /\ status' = "beyond" /\ peer \in Steady /\ committed = tip0
         => Height[tip0] - Fork(peer) > MaxForkDepth]_vars

\* "Synchronized" is only said when the peer's whole chain is the node's own.
SyncedIsPrefix ==
    [][status # "synced" /\ status' = "synced" /\ peer \in Steady
         => ChainOf[peer] \in Anc[committed]]_vars

\* A steady peer's chain the policy can take in.
WithinReach(p) ==
    LET fork == Height[ForkOf(committed, ChainOf[p])]
    IN  /\ ValidChain(ChainOf[p])
        /\ Height[committed] - fork <= MaxForkDepth
        /\ Height[ChainOf[p]] - fork <= MaxBranch

\* The list settles with the peer in it, or the peer is asked again and again all the same.
\* Where neither holds the code promises nothing: a list that keeps changing can pass a
\* peer by for ever.
Served(p) ==
    \/ <>[](p \in DOMAIN list) /\ <>[][list' = list]_vars
    \/ []<>(pc = "Overlap" /\ peer = p)

\* Every served steady peer's chain within reach is taken in, however other peers
\* answer and whatever else arrives.
IntakeCompletes ==
    \A p \in Steady :
        Served(p) => <>(Anc[ChainOf[p]] \subseteq known \/ ~WithinReach(p))

\* The node ends up with at least the work of every such chain, unless it has put off a
\* switch, which nothing takes up again.
HeaviestAdopted ==
    \A p \in Steady :
        Served(p) => <>(\/ Work[committed] >= Work[ChainOf[p]] \/ ~WithinReach(p)
                        \/ budget.deferrals > 0)
=============================================================================
