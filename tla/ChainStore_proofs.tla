-------------------------- MODULE ChainStore_proofs --------------------------
(***************************************************************************)
(* Theorems about ChainNode's store and memory, for every tree, every      *)
(* policy and any number of crashes and failed writes: the state stands    *)
(* where the records say, the mapping is the published chain, a thread at  *)
(* rest has nothing in flight, a reorg keeps its evidence, only goes       *)
(* forward and ends complete, the side pool is counted exactly and stays   *)
(* in its limits, a start takes the best side tip, recognises what was cut *)
(* off, goes on from it and is refused for named reasons only, and the     *)
(* node is a Ledger.                                                       *)
(* One inductive invariant, NodeInv, carries them: the store is explained, *)
(* a marker counts what has moved, the memory is in the store, and the     *)
(* phase of the thread says what is in flight.  The others are inductive   *)
(* beside it: EndInv (the plan and the reload), TrailInv and WayInv (the   *)
(* records of the two branches of a marker), ExecInv (the pool during a    *)
(* reorg), KnownInv (what the index knows), SideClosed and NothingAbove    *)
(* (what hangs on what), ShortInv and ChosenInv (the side tip a start has  *)
(* chosen).  Chains, branches and the recursive reload of the side records *)
(* are handled by least counterexample (LeastNumber).                      *)
(***************************************************************************)
EXTENDS ChainNode_proofs, WellFoundedInduction

\* A set of natural numbers that is not empty has a least element.
LEMMA LeastNumber ==
    ASSUME NEW T, T \subseteq Nat, T # {}
    PROVE  \E n \in T : \A m \in T : n <= m
<1>1. PICK n \in T : \A m \in T : ~(<<m, n>> \in OpToRel(<, Nat))
  BY NatLessThanWellFounded, WFMin
<1>2. ASSUME NEW m \in T PROVE n <= m
  <2>1. m \in Nat /\ n \in Nat
    OBVIOUS
  <2>2. ~(m < n)
    BY <1>1, <2>1 DEF OpToRel
  <2> QED
    BY <2>1, <2>2
<1> QED
  BY <1>2

----------------------------------------------------------------------------
(* The tree *)

\* Every block is a descendant of the genesis block, at a positive height.
LEMMA Chains ==
    ASSUME NEW b \in Blocks
    PROVE  /\ Height[b] \in Nat \ {0} /\ Work[b] \in Nat
           /\ Anc[b] \in SUBSET Blocks /\ b \in Anc[b] /\ Genesis \in Anc[b]
<1>1. Height[b] \in Nat /\ Work[b] \in Nat /\ Anc[b] \in SUBSET Blocks
  BY TreeTyping
<1>2. Genesis \in Anc[b] /\ Height[Genesis] = 1 /\ Height[Genesis] <= Height[b]
  BY TreeShape, TreeClosure
<1>3. b \in Anc[b]
  BY TreeShape, TreeTyping DEF NonGenesis
<1> QED
  BY <1>1, <1>2, <1>3

\* A block, its parent and the chains that end in them.
LEMMA ParentOf ==
    ASSUME NEW b \in NonGenesis
    PROVE  /\ b \in Blocks /\ Parent[b] \in Blocks
           /\ Height[b] = Height[Parent[b]] + 1
           /\ Work[b] > Work[Parent[b]]
           /\ Anc[b] = Anc[Parent[b]] \cup {b} /\ b \notin Anc[Parent[b]]
<1>1. b \in Blocks /\ Parent[b] \in Blocks
  BY TreeTyping DEF NonGenesis
<1>2. /\ Height[b] = Height[Parent[b]] + 1 /\ Work[b] > Work[Parent[b]]
      /\ Anc[b] = Anc[Parent[b]] \cup {b}
  BY TreeShape
<1>3. b \in Anc[Parent[b]] => Height[b] <= Height[Parent[b]]
  BY <1>1, TreeClosure
<1> QED
  BY <1>1, <1>2, <1>3, Chains

\* Induction along the chains: what the genesis block has, and a block has when
\* its parent does, all blocks have.
LEMMA BlockInduction ==
    ASSUME NEW S, Genesis \in S,
           \A b \in NonGenesis : Parent[b] \in S => b \in S
    PROVE  Blocks \subseteq S
<1> DEFINE T == {Height[b] : b \in Blocks \ S}
<1>1. SUFFICES ASSUME Blocks \ S # {} PROVE FALSE
  OBVIOUS
<1>2. T \subseteq Nat /\ T # {}
  BY <1>1, Chains
<1>3. PICK n \in T : \A m \in T : n <= m
  <2> HIDE DEF T
  <2> QED
    BY <1>2, LeastNumber
<1>4. PICK b \in Blocks \ S : n = Height[b]
  BY <1>3
<1>5. b \in NonGenesis
  BY <1>4 DEF NonGenesis
<1>6. Parent[b] \in Blocks \ S
  BY <1>4, <1>5, ParentOf
<1>7. Height[Parent[b]] \in T /\ Height[b] = Height[Parent[b]] + 1
  BY <1>5, <1>6, ParentOf
<1>8. Height[b] <= Height[Parent[b]]
  BY <1>3, <1>4, <1>7
<1>9. Height[Parent[b]] \in Nat
  BY <1>6, Chains
<1> QED
  BY <1>7, <1>8, <1>9

\* No ancestor has more work.
LEMMA WorkGrows ==
    ASSUME NEW b \in Blocks, NEW a \in Anc[b]
    PROVE  Work[a] <= Work[b]
<1> DEFINE S == {c \in Blocks : \A d \in Anc[c] : Work[d] <= Work[c]}
<1>1. Genesis \in S
  BY TreeShape, TreeTyping, Chains
<1>2. ASSUME NEW c \in NonGenesis, Parent[c] \in S PROVE c \in S
  <2> SUFFICES ASSUME NEW d \in Anc[c] PROVE Work[d] <= Work[c]
    BY ParentOf
  <2>1. CASE d = c
    BY <2>1, ParentOf, Chains
  <2>2. CASE d \in Anc[Parent[c]]
    <3>1. Work[d] <= Work[Parent[c]] /\ d \in Blocks
      BY <1>2, <2>2, ParentOf, Chains
    <3> QED
      BY <3>1, ParentOf, Chains
  <2> QED
    BY <2>1, <2>2, ParentOf
<1>3. Blocks \subseteq S
  <2> HIDE DEF S
  <2> QED
    BY <1>1, <1>2, BlockInduction
<1> QED
  BY <1>3

\* Below its end, every block of a chain has a child on it, and only one.
LEMMA ChildOnChain ==
    ASSUME NEW c \in Blocks, NEW t \in Anc[c] \ {c}
    PROVE  \E b \in Anc[c] \ {Genesis} : Parent[b] = t
<1> DEFINE S == {x \in Blocks : \A y \in Anc[x] \ {x} :
                    \E b \in Anc[x] \ {Genesis} : Parent[b] = y}
<1>1. Genesis \in S
  BY TreeShape, TreeTyping
<1>2. ASSUME NEW x \in NonGenesis, Parent[x] \in S PROVE x \in S
  <2> SUFFICES ASSUME NEW y \in Anc[x] \ {x}
               PROVE  \E b \in Anc[x] \ {Genesis} : Parent[b] = y
    BY ParentOf
  <2>1. CASE y = Parent[x]
    BY <2>1, ParentOf DEF NonGenesis
  <2>2. CASE y # Parent[x]
    <3>1. y \in Anc[Parent[x]] \ {Parent[x]}
      BY <2>2, ParentOf
    <3> QED
      BY <1>2, <3>1, ParentOf
  <2> QED
    BY <2>1, <2>2
<1>3. Blocks \subseteq S
  <2> HIDE DEF S
  <2> QED
    BY <1>1, <1>2, BlockInduction
<1> QED
  BY <1>3

\* Only one child of a block is on a chain.
LEMMA OneChild ==
    ASSUME NEW c \in Blocks, NEW a \in Anc[c] \ {Genesis}, NEW b \in Anc[c] \ {Genesis},
           Parent[a] = Parent[b]
    PROVE  a = b
<1>1. a \in NonGenesis /\ b \in NonGenesis
  BY Chains DEF NonGenesis
<1>2. Height[a] = Height[b]
  BY <1>1, ParentOf
<1> QED
  BY <1>2, TreeClosure

\* The next block of a chain the tip has not reached the end of.
LEMMA NextOfIs ==
    ASSUME NEW c \in Blocks, tip \in Anc[c] \ {c}
    PROVE  /\ NextOf(c) \in NonGenesis /\ NextOf(c) \in Anc[c]
           /\ Parent[NextOf(c)] = tip
           /\ \A b \in Anc[c] \ {Genesis} : Parent[b] = tip => b = NextOf(c)
<1>1. \E b \in Anc[c] \ {Genesis} : Parent[b] = tip
  BY ChildOnChain
<1>2. NextOf(c) \in Anc[c] \ {Genesis} /\ Parent[NextOf(c)] = tip
  BY <1>1 DEF NextOf
<1> QED
  BY <1>2, OneChild, Chains DEF NonGenesis

\* The blocks of a chain by their height.
LEMMA BlockAtTop ==
    ASSUME NEW b \in Blocks
    PROVE  BlockAt(b, Height[b]) = b
BY Chains, TreeClosure DEF BlockAt

\* Above its parent's chain a chain has one block more.
LEMMA BlockAtChild ==
    ASSUME NEW b \in NonGenesis, NEW h
    PROVE  /\ h = Height[b] => BlockAt(b, h) = b /\ BlockAt(Parent[b], h) = NoBlock
           /\ h # Height[b] => BlockAt(b, h) = BlockAt(Parent[b], h)
<1>1. CASE h = Height[b]
  <2>1. ASSUME NEW c \in Anc[Parent[b]], Height[c] = h PROVE FALSE
    <3>1. c \in Blocks /\ Height[c] <= Height[Parent[b]]
      BY ParentOf, Chains, TreeClosure
    <3> QED
      BY <1>1, <2>1, <3>1, ParentOf, Chains
  <2> QED
    BY <1>1, <2>1, ParentOf, BlockAtTop DEF BlockAt
<1>2. CASE h # Height[b]
  <2>1. {c \in Anc[b] : Height[c] = h} = {c \in Anc[Parent[b]] : Height[c] = h}
    BY <1>2, ParentOf
  <2>2. \A c : c \in Anc[b] /\ Height[c] = h <=> c \in Anc[Parent[b]] /\ Height[c] = h
    BY <2>1
  <2>3. (\E c \in Anc[b] : Height[c] = h) <=> (\E c \in Anc[Parent[b]] : Height[c] = h)
    BY <2>2
  <2>4. (CHOOSE c \in Anc[b] : Height[c] = h) = (CHOOSE c \in Anc[Parent[b]] : Height[c] = h)
    BY <2>2
  <2> QED
    BY <1>2, <2>3, <2>4 DEF BlockAt
<1> QED
  BY <1>1, <1>2

\* A chain has at least as many blocks off another one as it rises above the fork.
LEMMA DepthBound ==
    ASSUME NEW a \in Blocks, NEW b \in Blocks
    PROVE  /\ Height[a] - Height[ForkOf(a, b)] <= Cardinality(Leaving(a, b))
           /\ ForkOf(a, b) \in Blocks
<1> DEFINE S == {x \in Blocks : Height[x] - Height[ForkOf(x, b)] <= Cardinality(Leaving(x, b))
                                /\ ForkOf(x, b) \in Blocks}
<1>1. ASSUME NEW x \in Blocks, x \in Anc[b] PROVE x \in S
  <2>1. x \in Anc[x] \cap Anc[b] /\ \A d \in Anc[x] \cap Anc[b] : Height[d] <= Height[x]
    BY <1>1, Chains, TreeClosure
  <2>2. /\ ForkOf(x, b) \in Anc[x]
        /\ \A d \in Anc[x] \cap Anc[b] : Height[d] <= Height[ForkOf(x, b)]
    BY <2>1 DEF ForkOf
  <2>3. ForkOf(x, b) \in Blocks /\ Height[x] <= Height[ForkOf(x, b)]
    BY <2>1, <2>2, Chains
  <2>4. Cardinality(Leaving(x, b)) \in Nat
    BY Chains, CardinalityOfBlocks DEF Leaving
  <2> QED
    BY <2>3, <2>4, Chains
<1>2. Genesis \in S
  BY <1>1, Chains, TreeTyping
<1>3. ASSUME NEW x \in NonGenesis, Parent[x] \in S PROVE x \in S
  <2>1. CASE x \in Anc[b]
    BY <1>1, <2>1, ParentOf
  <2>2. CASE x \notin Anc[b]
    <3>1. Anc[x] \cap Anc[b] = Anc[Parent[x]] \cap Anc[b]
      BY <2>2, ParentOf
    <3>2. ForkOf(x, b) = ForkOf(Parent[x], b)
      BY <3>1 DEF ForkOf
    <3>3. /\ Leaving(x, b) = Leaving(Parent[x], b) \cup {x}
          /\ x \notin Leaving(Parent[x], b)
      BY <2>2, ParentOf DEF Leaving
    <3>4. Leaving(Parent[x], b) \in SUBSET Blocks
      BY ParentOf, Chains DEF Leaving
    <3>5. IsFiniteSet(Leaving(Parent[x], b))
      BY <3>4, FS_Subset, TreeTyping
    <3>6. Cardinality(Leaving(x, b)) = Cardinality(Leaving(Parent[x], b)) + 1
      BY <3>3, <3>5, FS_AddElement
    <3>7. Cardinality(Leaving(Parent[x], b)) \in Nat
      BY <3>4, CardinalityOfBlocks
    <3>8. /\ ForkOf(Parent[x], b) \in Blocks
          /\ Height[Parent[x]] - Height[ForkOf(Parent[x], b)] <= Cardinality(Leaving(Parent[x], b))
      BY <1>3
    <3>9. Height[x] = Height[Parent[x]] + 1 /\ Height[Parent[x]] \in Nat /\ x \in Blocks
      BY ParentOf, Chains
    <3>10. Height[ForkOf(x, b)] \in Nat
      BY <3>2, <3>8, Chains
    <3>11. Height[x] - Height[ForkOf(x, b)] <= Cardinality(Leaving(x, b))
      BY <3>2, <3>6, <3>7, <3>8, <3>9, <3>10
    <3> QED
      BY <3>2, <3>8, <3>9, <3>11
  <2> QED
    BY <2>1, <2>2
<1>4. Blocks \subseteq S
  <2> HIDE DEF S
  <2> QED
    BY <1>2, <1>3, BlockInduction
<1> QED
  BY <1>4

----------------------------------------------------------------------------
(* The inductive invariant *)

\* The state stands at the tip in memory, which is the published one.
Quiet == dTip = tip /\ dState = tip /\ dPending = NoBlock

\* The state stands at the tip in memory, its parent is the published one.
Ahead == dState = tip /\ tip \in NonGenesis /\ Parent[tip] = dTip

\* The same, in the window between the two batches of a promotion.
InGap == /\ Ahead /\ dPending = NoBlock
         /\ Moving(dReorg) /\ dReorg.tip = dTip
         /\ tip \in NewBranch /\ dSide[tip] = NoSource

\* The marker belongs to a plan the policy allows, and its progress counts the
\* blocks that lie between its tip and the original one.
MarkerCounts(m) ==
    /\ Work[m.cand] > Work[m.orig]
    /\ Cardinality(Leaving(m.orig, m.cand)) <= MaxForkDepth
    /\ Anc[m.orig] \cap Anc[m.cand] \subseteq Anc[m.tip]
    /\ m.tip \in Anc[m.orig] \cup Anc[m.cand]
    /\ m.dd = Cardinality(Leaving(m.orig, m.tip))
    /\ m.cd = Cardinality(Joining(m.orig, m.tip))

\* No marker is the empty one, any other counts, a new one stands at its start.
MarkerInv ==
    /\ dReorg.phase = "NONE" => dReorg = NoReorg
    /\ dReorg.phase # "NONE" => MarkerCounts(dReorg)
    /\ dReorg.phase = "PREPARED" => dReorg.orig = dTip /\ dReorg.tip = dTip

\* The store alone: what a crash at any moment leaves.
StoreInv == HeightIndexExact /\ StateExplained /\ MarkerInv /\ Anc[dTip] \subseteq dBlock

\* The memory: its chain is in the store, its side pool apart from it and durable.
MemoryInv ==
    /\ Anc[tip] \subseteq dBlock
    /\ \A b \in Blocks : side[b] # NoSource => b \notin Anc[tip] /\ dSide[b] = side[b]

\* Where the submission thread is, and what is in flight there.
AtRest == \/ pc \in {"Tidy", "TidyUndo", "Activate", "Reconcile"}
          \/ pc = "Idle" /\ ~halted

\* A direct connection is the only thing in flight, between its two batches.
ConnectInv ==
    /\ AtRest => Quiet /\ dReorg = NoReorg
    /\ pc = "ConnectSave" => Ahead /\ dPending = tip
    /\ pc = "ConnectVerify" => Quiet \/ (Ahead /\ dPending = tip)
    /\ pc \in {"ConnectSave", "ConnectVerify"} => dReorg = NoReorg

\* The marker is that of the plan in hand, published with the tip.
Marked == dReorg.cand = plan.cand /\ dReorg.tip = tip

\* The phases of a reorg: what is published, what is ahead, and in which window.
ReorgInv ==
    /\ pc \in {"Prepared", "Abandon"} => Quiet /\ dReorg.phase = "PREPARED"
    /\ pc = "Disconnect" => /\ Quiet /\ Marked /\ dReorg.phase # "NONE"
                            /\ tip \notin Anc[plan.cand] /\ plan.cand \notin Anc[tip]
    /\ pc = "Promote" => /\ Quiet /\ Marked /\ Moving(dReorg)
                         /\ tip \in Anc[plan.cand] \ {plan.cand}
    /\ pc = "PromoteSave" => InGap /\ dReorg.cand = plan.cand
    /\ pc = "PromoteVerify" => /\ InGap \/ Quiet
                               /\ Moving(dReorg) /\ tip \in NewBranch
                               /\ dReorg.cand = plan.cand
    /\ pc = "Finish" => Quiet /\ Marked /\ Moving(dReorg) /\ tip = plan.cand

\* The phases of a start.
StartInv ==
    /\ pc \in {"BootPending", "BootReorg", "Recover", "RecoverSave", "Reconcile"} => boot
    /\ pc \in {"BootPending", "BootReorg", "Recover"} => tip = dTip
    /\ pc \in {"BootReorg", "Recover"} => dPending = NoBlock
    /\ pc = "Recover" => Moving(dReorg)
    /\ pc = "RecoverSave" => InGap

NodeInv == StoreInv /\ MemoryInv /\ ConnectInv /\ ReorgInv /\ StartInv

----------------------------------------------------------------------------
(* What the marker counts *)

\* The blocks of one chain off another one are finitely many.
LEMMA BranchFinite ==
    ASSUME NEW a \in Blocks, NEW b \in Blocks
    PROVE  /\ Leaving(a, b) \in SUBSET Blocks /\ IsFiniteSet(Leaving(a, b))
           /\ Joining(a, b) \in SUBSET Blocks /\ IsFiniteSet(Joining(a, b))
           /\ Cardinality(Leaving(a, b)) \in Nat /\ Cardinality(Joining(a, b)) \in Nat
<1>1. Leaving(a, b) \in SUBSET Blocks /\ Joining(a, b) \in SUBSET Blocks
  BY Chains DEF Leaving, Joining
<1>2. IsFiniteSet(Leaving(a, b)) /\ IsFiniteSet(Joining(a, b))
  BY <1>1, FS_Subset, TreeTyping
<1> QED
  BY <1>1, <1>2, CardinalityOfBlocks

\* The marker's fields are what they should be.
LEMMA MarkerFields ==
    ASSUME NEW m \in Marker
    PROVE  /\ m.orig \in Blocks /\ m.cand \in Blocks /\ m.tip \in Blocks
           /\ m.dd \in Nat /\ m.cd \in Nat
BY DEF Marker

\* It still counts right when the tip above the fork is disconnected.
LEMMA MarkerDown ==
    ASSUME NEW m \in Marker, MarkerCounts(m), m.tip \in NonGenesis, m.tip \notin Anc[m.cand]
    PROVE  MarkerCounts(Progress(m, "DISCONNECT_COMMITTED", m.dd + 1, 0, Parent[m.tip]))
<1> DEFINE t == m.tip
           p == Parent[t]
           n == Progress(m, "DISCONNECT_COMMITTED", m.dd + 1, 0, p)
<1>1. t \in Anc[m.orig]
  BY DEF MarkerCounts
<1>2. Anc[t] \subseteq Anc[m.orig] /\ Anc[t] = Anc[p] \cup {t} /\ t \notin Anc[p] /\ p \in Blocks
  BY <1>1, MarkerFields, ParentOf, TreeClosure
<1>3. p \in Anc[m.orig]
  BY <1>2, Chains
<1>4. Leaving(m.orig, p) = Leaving(m.orig, t) \cup {t} /\ t \notin Leaving(m.orig, t)
  BY <1>1, <1>2 DEF Leaving
<1>5. Cardinality(Leaving(m.orig, p)) = m.dd + 1
  <2>1. IsFiniteSet(Leaving(m.orig, t))
    BY MarkerFields, BranchFinite
  <2>2. Cardinality(Leaving(m.orig, t)) = m.dd
    BY DEF MarkerCounts
  <2> QED
    BY <1>4, <2>1, <2>2, FS_AddElement
<1>6. Joining(m.orig, p) = {}
  BY <1>2 DEF Joining
<1>7. Anc[m.orig] \cap Anc[m.cand] \subseteq Anc[p]
  BY <1>2 DEF MarkerCounts
<1>8. n.orig = m.orig /\ n.cand = m.cand /\ n.tip = p /\ n.dd = m.dd + 1 /\ n.cd = 0
  BY DEF Progress, Marker
<1> QED
  BY <1>3, <1>5, <1>6, <1>7, <1>8, FS_EmptySet DEF MarkerCounts

\* The next candidate above the marked tip was not on the original chain.
LEMMA NextIsNew ==
    ASSUME NEW m \in Marker, MarkerCounts(m), NEW b \in NonGenesis, Parent[b] = m.tip,
           b \in Anc[m.cand]
    PROVE  b \in Joining(m.orig, m.cand)
BY ParentOf DEF MarkerCounts, Joining

\* It still counts right when the next candidate is connected.
LEMMA MarkerUp ==
    ASSUME NEW m \in Marker, MarkerCounts(m), NEW b \in NonGenesis, Parent[b] = m.tip,
           b \in Anc[m.cand]
    PROVE  MarkerCounts(Progress(m, "CONNECT_PUBLISHED", m.dd, m.cd + 1, b))
<1> DEFINE n == Progress(m, "CONNECT_PUBLISHED", m.dd, m.cd + 1, b)
<1>1. b \notin Anc[m.orig]
  BY NextIsNew DEF Joining
<1>2. Anc[b] = Anc[m.tip] \cup {b} /\ b \notin Anc[m.tip]
  BY ParentOf
<1>3. Leaving(m.orig, b) = Leaving(m.orig, m.tip)
  BY <1>1, <1>2 DEF Leaving
<1>4. Joining(m.orig, b) = Joining(m.orig, m.tip) \cup {b} /\ b \notin Joining(m.orig, m.tip)
  BY <1>1, <1>2 DEF Joining
<1>5. Cardinality(Joining(m.orig, b)) = m.cd + 1
  <2>1. IsFiniteSet(Joining(m.orig, m.tip))
    BY MarkerFields, BranchFinite
  <2>2. Cardinality(Joining(m.orig, m.tip)) = m.cd
    BY DEF MarkerCounts
  <2> QED
    BY <1>4, <2>1, <2>2, FS_AddElement
<1>6. n.orig = m.orig /\ n.cand = m.cand /\ n.tip = b /\ n.dd = m.dd /\ n.cd = m.cd + 1
  BY DEF Progress, Marker
<1> QED
  BY <1>2, <1>3, <1>5, <1>6 DEF MarkerCounts

\* The tip is on the candidate chain once the old branch is counted out, and is
\* its end once the new branch is counted in.
LEMMA MarkerReaches ==
    ASSUME NEW m \in Marker, MarkerCounts(m)
    PROVE  /\ m.dd = Cardinality(Leaving(m.orig, m.cand)) <=> m.tip \in Anc[m.cand]
           /\ m.tip \in Anc[m.cand] =>
                (m.cd < Cardinality(Joining(m.orig, m.cand)) <=> m.tip # m.cand)
<1> DEFINE old == Leaving(m.orig, m.cand)
           new == Joining(m.orig, m.cand)
           out == Leaving(m.orig, m.tip)
           in == Joining(m.orig, m.tip)
<1>1. /\ IsFiniteSet(old) /\ IsFiniteSet(new)
      /\ Cardinality(new) \in Nat /\ Cardinality(in) \in Nat
  BY MarkerFields, BranchFinite
<1>2. m.dd = Cardinality(out) /\ m.cd = Cardinality(in)
  BY DEF MarkerCounts
<1>3. out \subseteq old
  BY DEF MarkerCounts, Leaving
<1>4. ASSUME m.dd = Cardinality(old) PROVE m.tip \in Anc[m.cand]
  <2>1. out = old
    BY <1>1, <1>2, <1>3, <1>4, FS_Subset
  <2>2. m.tip \notin out
    BY MarkerFields, Chains DEF Leaving
  <2> QED
    BY <2>1, <2>2 DEF MarkerCounts, Leaving
<1>5. ASSUME m.tip \in Anc[m.cand]
      PROVE  /\ m.dd = Cardinality(old)
             /\ m.cd < Cardinality(new) <=> m.tip # m.cand
  <2>1. Anc[m.tip] \subseteq Anc[m.cand]
    BY <1>5, MarkerFields, TreeClosure
  <2>2. out = old
    BY <2>1 DEF MarkerCounts, Leaving
  <2>3. in \subseteq new
    BY <2>1 DEF Joining
  <2>4. Cardinality(in) <= Cardinality(new) /\ (Cardinality(new) = Cardinality(in) => new = in)
    BY <1>1, <2>3, FS_Subset
  <2>5. m.tip = m.cand => in = new
    OBVIOUS
  <2>6. ASSUME m.tip # m.cand PROVE new # in
    <3>1. PICK b \in Anc[m.cand] \ {Genesis} : Parent[b] = m.tip
      BY <1>5, <2>6, ChildOnChain, MarkerFields
    <3>2. b \in NonGenesis
      BY <3>1, MarkerFields, Chains DEF NonGenesis
    <3>3. b \in new /\ b \notin Anc[m.tip]
      BY <3>1, <3>2, NextIsNew, ParentOf
    <3> QED
      BY <3>3 DEF Joining
  <2>7. m.cd < Cardinality(new) <=> m.tip # m.cand
    BY <1>1, <1>2, <2>4, <2>5, <2>6
  <2> QED
    BY <1>2, <2>2, <2>7
<1> QED
  BY <1>4, <1>5

\* The walk over the side records exists, and what it keeps has what the empty set
\* has and one more record that fits keeps.
LEMMA ReloadedKeeps ==
    ASSUME NEW t \in Blocks, NEW own, NEW stored, NEW K, {} \in K,
           \A kept \in K : \A b \in OwnedIn(own) \ Anc[t] :
             /\ Parent[b] \in Anc[t] \cup kept /\ SidePolicy(t, b)
             /\ Fits(CountersOf(Only(own, kept)), b, own[b])
             => kept \cup {b} \in K
    PROVE  Reloaded(t, own, stored) \in K
<1> DEFINE N == Cardinality(Blocks)
           keeps(kept, b) ==
             /\ b \in (OwnedIn(own) \cap stored) \ Anc[t]
             /\ Parent[b] \in Anc[t] \cup kept
             /\ SidePolicy(t, b)
             /\ Fits(CountersOf(Only(own, kept)), b, own[b])
           more(S, n) == UNION {kept \cup {b \in {ReloadOrder[n]} : keeps(kept, b)} :
                                  kept \in {S}}
           upTo[n \in 0..Cardinality(Blocks)] ==
             IF n = 0 THEN {}
             ELSE UNION {kept \cup {b \in {ReloadOrder[n]} : keeps(kept, b)} :
                           kept \in {upTo[n - 1]}}
           Walk(f, k) == \A n \in 0..k : f[n] = IF n = 0 THEN {} ELSE more(f[n - 1], n)
<1>1. N \in Nat
  BY CardinalityOfBlocks
<1>2. ASSUME NEW S \in K, NEW n PROVE more(S, n) \in K
  <2>1. CASE keeps(S, ReloadOrder[n])
    <3>1. more(S, n) = S \cup {ReloadOrder[n]}
      <4> HIDE DEF keeps
      <4> QED
        BY <2>1
    <3>2. /\ ReloadOrder[n] \in OwnedIn(own) \ Anc[t]
          /\ Parent[ReloadOrder[n]] \in Anc[t] \cup S /\ SidePolicy(t, ReloadOrder[n])
          /\ Fits(CountersOf(Only(own, S)), ReloadOrder[n], own[ReloadOrder[n]])
      BY <2>1
    <3> HIDE DEF more, keeps
    <3> QED
      BY <3>1, <3>2
  <2>2. CASE ~keeps(S, ReloadOrder[n])
    <3>1. more(S, n) = S
      <4> HIDE DEF keeps
      <4> QED
        BY <2>2
    <3> HIDE DEF more, keeps
    <3> QED
      BY <3>1
  <2> QED
    BY <2>1, <2>2
<1>3. Reloaded(t, own, stored) = upTo[N]
  BY DEF Reloaded
<1> HIDE DEF keeps, more
<1>4. \A k \in Nat : \E f \in [0..k -> K] : Walk(f, k)
  <2> DEFINE T == {k \in Nat : ~\E f \in [0..k -> K] : Walk(f, k)}
  <2>1. SUFFICES ASSUME T # {} PROVE FALSE
    OBVIOUS
  <2>2. PICK k \in T : \A m \in T : k <= m
    <3>1. T \subseteq Nat
      OBVIOUS
    <3> HIDE DEF T
    <3> QED
      BY <2>1, <3>1, LeastNumber
  <2>3. k \in Nat /\ ~\E f \in [0..k -> K] : Walk(f, k)
    BY <2>2
  <2>4. CASE k = 0
    <3>1. [n \in 0..k |-> {}] \in [0..k -> K]
      OBVIOUS
    <3>2. Walk([n \in 0..k |-> {}], k)
      BY <2>4
    <3> QED
      BY <2>3, <3>1, <3>2
  <2>5. CASE k # 0
    <3>1. k - 1 \in Nat /\ ~(k <= k - 1)
      BY <2>3, <2>5
    <3>2. k - 1 \notin T
      BY <2>2, <3>1
    <3>3. PICK g \in [0..(k - 1) -> K] : Walk(g, k - 1)
      BY <3>1, <3>2
    <3>4. g[k - 1] \in K
      BY <3>1
    <3>5. more(g[k - 1], k) \in K
      BY <1>2, <3>4
    <3> DEFINE f == [n \in 0..k |-> IF n = k THEN more(g[k - 1], k) ELSE g[n]]
    <3>6. f \in [0..k -> K]
      <4>1. ASSUME NEW n \in 0..k, n # k PROVE n \in 0..(k - 1)
        BY <2>3, <4>1
      <4> QED
        BY <3>5, <4>1
    <3>7. ASSUME NEW n \in 0..k PROVE f[n] = IF n = 0 THEN {} ELSE more(f[n - 1], n)
      <4>1. CASE n = k
        <5>1. k - 1 \in 0..k /\ k - 1 # k /\ f[k - 1] = g[k - 1]
          BY <2>3, <2>5
        <5> QED
          BY <4>1, <5>1, <2>5
      <4>2. CASE n # k
        <5>1. n \in 0..(k - 1) /\ f[n] = g[n]
          BY <2>3, <4>2
        <5>2. n # 0 => n - 1 \in 0..k /\ n - 1 # k
          BY <2>3, <4>2
        <5>3. n # 0 => f[n - 1] = g[n - 1]
          BY <5>2
        <5>4. g[n] = IF n = 0 THEN {} ELSE more(g[n - 1], n)
          BY <3>3, <5>1
        <5> HIDE DEF f
        <5> QED
          BY <5>1, <5>3, <5>4
      <4> QED
        BY <4>1, <4>2
    <3> QED
      BY <2>3, <3>6, <3>7
  <2> QED
    BY <2>4, <2>5
<1>5. PICK f \in [0..N -> K] : Walk(f, N)
  BY <1>1, <1>4
<1>6. f = [n \in 0..N |-> IF n = 0 THEN {} ELSE more(f[n - 1], n)]
  BY <1>5
<1>7. upTo = [n \in 0..N |-> IF n = 0 THEN {} ELSE more(upTo[n - 1], n)]
  BY <1>6 DEF more
<1> HIDE DEF upTo
<1>8. \A k \in 0..N : upTo[k] \in K
  <2> DEFINE T == {k \in 0..N : upTo[k] \notin K}
  <2>1. SUFFICES ASSUME T # {} PROVE FALSE
    OBVIOUS
  <2>2. PICK k \in T : \A m \in T : k <= m
    <3>1. T \subseteq Nat
      OBVIOUS
    <3> HIDE DEF T
    <3> QED
      BY <2>1, <3>1, LeastNumber
  <2>3. k \in 0..N /\ upTo[k] \notin K
    BY <2>2
  <2>4. k # 0
    BY <1>7, <2>3
  <2>5. k - 1 \in 0..N /\ ~(k <= k - 1)
    BY <1>1, <2>3, <2>4
  <2>6. upTo[k - 1] \in K
    BY <2>2, <2>5
  <2>7. upTo[k] = more(upTo[k - 1], k)
    BY <1>7, <2>3, <2>4
  <2> QED
    BY <1>2, <2>3, <2>6, <2>7
<1>9. N \in 0..N
  BY <1>1
<1> QED
  BY <1>3, <1>8, <1>9

\* What the walk keeps is a side record off the active chain.
LEMMA ReloadedApart ==
    ASSUME NEW t \in Blocks, NEW own, NEW stored
    PROVE  Reloaded(t, own, stored) \subseteq OwnedIn(own) \ Anc[t]
<1> DEFINE K == SUBSET (OwnedIn(own) \ Anc[t])
<1>1. {} \in K
  OBVIOUS
<1>2. \A kept \in K : \A b \in OwnedIn(own) \ Anc[t] : kept \cup {b} \in K
  OBVIOUS
<1> HIDE DEF K
<1>3. Reloaded(t, own, stored) \in K
  BY <1>1, <1>2, ReloadedKeeps
<1> QED
  BY <1>3 DEF K

----------------------------------------------------------------------------
(* What the steps have in common *)

\* The values of the state the proofs need.
LEMMA Typed ==
    ASSUME TypeInv
    PROVE  /\ dState \in Blocks /\ dTip \in Blocks /\ tip \in Blocks
           /\ dHeight \in [Heights -> Blocks \cup {NoBlock}]
           /\ dSide \in [Blocks -> Sources \cup {NoSource}]
           /\ side \in [Blocks -> Sources \cup {NoSource}]
           /\ dReorg \in Marker /\ plan.cand \in Blocks /\ plan.orig \in Blocks
           /\ dPending \in Blocks \cup {NoBlock}
BY DEF TypeInv, TypeOK, Plans

\* A marker in one of its phases; no marker at all.
LEMMA Phases ==
    ASSUME TypeInv, StoreInv
    PROVE  /\ dReorg = NoReorg <=> dReorg.phase = "NONE"
           /\ Moving(dReorg) <=> dReorg.phase \notin {"NONE", "PREPARED"}
           /\ dReorg.phase # "NONE" => dPending = NoBlock
BY DEF TypeInv, TypeOK, StoreInv, MarkerInv, StateExplained, NoReorg, Marker, Moving

\* The mapping after a publication, and after a rollback.
LEMMA IndexSet ==
    ASSUME TypeInv, HeightIndexExact, NEW b \in Blocks,
           b = dTip \/ (b \in NonGenesis /\ Parent[b] = dTip)
    PROVE  \A h \in Heights : SetHeight(b)[h] = BlockAt(b, h)
<1> SUFFICES ASSUME NEW h \in Heights PROVE SetHeight(b)[h] = BlockAt(b, h)
  OBVIOUS
<1>1. SetHeight(b)[h] = IF h = Height[b] THEN b ELSE dHeight[h]
  BY Typed DEF SetHeight
<1> QED
  BY <1>1, BlockAtTop, BlockAtChild DEF HeightIndexExact

\* The mapping a rollback publishes is the parent's chain.
LEMMA IndexBelow ==
    ASSUME TypeInv, HeightIndexExact, tip = dTip, tip \in NonGenesis
    PROVE  \A h \in Heights : HeightsBelow[h] = BlockAt(Parent[tip], h)
<1> SUFFICES ASSUME NEW h \in Heights PROVE HeightsBelow[h] = BlockAt(Parent[tip], h)
  OBVIOUS
<1>1. HeightsBelow[h] = IF h = Height[Parent[tip]] THEN Parent[tip]
                        ELSE IF h = Height[tip] THEN NoBlock ELSE dHeight[h]
  BY Typed DEF HeightsBelow
<1> QED
  BY <1>1, BlockAtTop, BlockAtChild, ParentOf, Chains DEF HeightIndexExact

\* A step that writes at most side blocks keeps the store explained.
LEMMA StoreKept ==
    ASSUME TypeInv, StoreInv, UNCHANGED <<dState, dTip, dHeight, dPending, dReorg>>,
           Anc[dTip] \subseteq dBlock', dSide[dState] = NoSource => dSide'[dState] = NoSource
    PROVE  StoreInv'
BY DEF StoreInv, HeightIndexExact, StateExplained, MarkerInv, MarkerCounts, OldBranch,
       NewBranch

\* A publication of the state the store holds.
LEMMA StorePublished ==
    ASSUME TypeInv, StoreInv, NEW b \in Blocks,
           b = dTip \/ (b \in NonGenesis /\ Parent[b] = dTip),
           dState' = b, dTip' = b, dHeight' = SetHeight(b), dPending' = NoBlock,
           Anc[b] \subseteq dBlock', MarkerInv'
    PROVE  StoreInv'
<1>1. HeightIndexExact'
  BY IndexSet DEF StoreInv, HeightIndexExact
<1>2. StateExplained'
  BY Chains, TreeTyping DEF StateExplained
<1> QED
  BY <1>1, <1>2 DEF StoreInv

\* A rebuilt side pool is apart from the active chain, and as durable as the
\* records it is rebuilt from.
LEMMA Rebuilt ==
    ASSUME NEW t \in Blocks, NEW own \in SideMaps, Rebuild(t, own), NEW b \in Blocks,
           side'[b] # NoSource
    PROVE  /\ b \notin Anc[t] /\ own[b] = side'[b]
           /\ b \in Reloaded(t, own, dBlock)
<1>1. side' = Only(own, Reloaded(t, own, dBlock))
  BY DEF Rebuild
<1>2. b \in Reloaded(t, own, dBlock) /\ side'[b] = own[b]
  BY <1>1 DEF Only
<1> QED
  BY <1>2, ReloadedApart

\* Deleting side blocks touches nothing of the active chain.
LEMMA Dropped ==
    ASSUME TypeInv, MemoryInv, NEW vs, vs \subseteq SideBlocks, DropSides(vs), tip' = tip
    PROVE  /\ MemoryInv'
           /\ \A b \in Blocks : dSide[b] = NoSource => dSide'[b] = NoSource
           /\ Anc[tip] \subseteq dBlock'
<1>1. \A b \in Blocks : /\ dSide'[b] = IF b \in vs THEN NoSource ELSE dSide[b]
                        /\ side'[b] = IF b \in vs THEN NoSource ELSE side[b]
  BY DEF DropSides, DeleteSides, Only
<1>2. Anc[tip] \subseteq dBlock'
  BY DEF DropSides, DeleteSides, MemoryInv, SideBlocks, OwnedIn
<1> QED
  BY <1>1, <1>2 DEF MemoryInv

\* The tip is disconnected.
LEMMA RolledBack ==
    ASSUME TypeInv, StoreInv, Anc[tip] \subseteq dBlock, Quiet, tip \in NonGenesis,
           dReorg.phase # "NONE", dReorg.tip = tip, tip \notin Anc[dReorg.cand],
           RollbackBatch
    PROVE  /\ StoreInv' /\ Quiet' /\ Moving(dReorg') /\ dReorg'.cd = 0
           /\ dReorg'.cand = dReorg.cand /\ dReorg'.orig = dReorg.orig
           /\ dReorg'.tip = Parent[tip] /\ tip' = Parent[tip]
           /\ Anc[tip'] \subseteq Anc[tip]
           /\ Anc[tip'] \subseteq dBlock'
<1>1. /\ dReorg'.phase = "DISCONNECT_COMMITTED" /\ dReorg'.cd = 0
      /\ dReorg'.cand = dReorg.cand /\ dReorg'.orig = dReorg.orig
      /\ dReorg'.tip = Parent[tip]
  BY Typed DEF RollbackBatch, Progress, Marker
<1>2. MarkerCounts(dReorg')
  BY Typed, MarkerDown DEF RollbackBatch, StoreInv, MarkerInv
<1>3. MarkerInv'
  BY <1>1, <1>2 DEF MarkerInv
<1>4. HeightIndexExact'
  BY IndexBelow DEF RollbackBatch, Quiet, StoreInv, HeightIndexExact
<1>5. Anc[tip'] \subseteq Anc[tip] /\ Anc[tip'] \subseteq dBlock' /\ tip' = Parent[tip]
  BY ParentOf DEF RollbackBatch
<1>6. Quiet'
  BY DEF Quiet, RollbackBatch
<1>7. StateExplained'
  BY <1>6, Chains, TreeTyping DEF StateExplained, Quiet
<1> QED
  BY <1>1, <1>3, <1>4, <1>5, <1>6, <1>7 DEF StoreInv, Quiet, Moving

\* The state of the next candidate is committed.
LEMMA PromotedNext ==
    ASSUME TypeInv, StoreInv, MemoryInv, tip = dTip, Moving(dReorg), dReorg.tip = tip,
           tip \in Anc[dReorg.cand] \ {dReorg.cand},
           PromoteBatch(NextOf(dReorg.cand))
    PROVE  StoreInv' /\ MemoryInv' /\ InGap' /\ UNCHANGED dReorg
<1> DEFINE b == NextOf(dReorg.cand)
<1>1. b \in NonGenesis /\ b \in Anc[dReorg.cand] /\ Parent[b] = tip
  BY Typed, MarkerFields, NextOfIs
<1>2. MarkerCounts(dReorg) /\ dPending = NoBlock /\ UNCHANGED <<dPending, dReorg, dTip, dHeight>>
  BY Phases DEF Moving, StoreInv, MarkerInv, PromoteBatch
<1>3. b \in NewBranch
  BY <1>1, <1>2, NextIsNew, Typed DEF NewBranch
<1> HIDE DEF b
<1>4. dState' = b /\ tip' = b /\ dBlock' = dBlock \cup {b} /\ NewBranch' = NewBranch
  BY <1>2 DEF PromoteBatch, b, NewBranch
<1>5. /\ \A c \in Blocks : side'[c] = IF c = b THEN NoSource ELSE side[c]
      /\ \A c \in Blocks : dSide'[c] = IF c = b THEN NoSource ELSE dSide[c]
  BY Typed DEF PromoteBatch, SidesWithout, b
<1>6. b \in Blocks
  BY <1>1, ParentOf
<1>7. InGap'
  BY <1>1, <1>2, <1>3, <1>4, <1>5, <1>6 DEF InGap, Ahead, Moving
<1>8. MemoryInv'
  BY <1>1, <1>4, <1>5, ParentOf DEF MemoryInv
<1>9. StateExplained'
  BY <1>2, <1>7 DEF InGap, Ahead, StateExplained
<1>10. HeightIndexExact' /\ MarkerInv' /\ (Anc[dTip] \subseteq dBlock)'
  BY <1>2, <1>4 DEF StoreInv, HeightIndexExact, MarkerInv, MarkerCounts
<1> QED
  BY <1>2, <1>7, <1>8, <1>9, <1>10 DEF StoreInv

\* The committed candidate is published with the marker.
LEMMA PublishedNext ==
    ASSUME TypeInv, StoreInv, InGap, Anc[tip] \subseteq dBlock', UNCHANGED dState,
           dTip' = tip, dHeight' = SetHeight(tip), dPending' = NoBlock,
           dReorg' = Progress(dReorg, "CONNECT_PUBLISHED", dReorg.dd, dReorg.cd + 1, tip)
    PROVE  /\ StoreInv' /\ Moving(dReorg')
           /\ dReorg'.cand = dReorg.cand /\ dReorg'.orig = dReorg.orig
           /\ dReorg'.tip = tip
<1>1. /\ dReorg'.phase = "CONNECT_PUBLISHED"
      /\ dReorg'.cand = dReorg.cand /\ dReorg'.orig = dReorg.orig
      /\ dReorg'.tip = tip
  BY Typed DEF Progress, Marker
<1>2. tip \in NonGenesis /\ Parent[tip] = dReorg.tip /\ tip \in Anc[dReorg.cand] /\ dState = tip
  BY DEF InGap, Ahead, NewBranch, Joining
<1>3. MarkerCounts(dReorg)
  BY DEF InGap, Moving, StoreInv, MarkerInv
<1>4. MarkerCounts(dReorg')
  BY <1>2, <1>3, Typed, MarkerUp
<1>5. MarkerInv'
  BY <1>1, <1>4 DEF MarkerInv
<1>6. StoreInv'
  BY <1>2, <1>5, Typed, StorePublished DEF InGap, Ahead
<1> QED
  BY <1>1, <1>6 DEF Moving

----------------------------------------------------------------------------
(* The steps *)

\* Between two steps that leave the state, the tips and the records of work in
\* flight alone, only the step the thread has reached matters.
PhaseInv == ConnectInv /\ ReorgInv /\ StartInv

\* A thread at rest, or gone, has nothing in flight.
LEMMA RestPhase ==
    ASSUME pc' \in {"Idle", "Tidy", "TidyUndo", "Activate", "Down", "Fatal"},
           (AtRest' => Quiet' /\ dReorg' = NoReorg)
    PROVE  PhaseInv'
BY DEF PhaseInv, ConnectInv, ReorgInv, StartInv

\* The submission path keeps the invariant.
LEMMA IntakeKeeps ==
    ASSUME TypeInv, NodeInv, IntakeNext
    PROVE  NodeInv'
<1>0. StoreInv /\ MemoryInv /\ PhaseInv
  BY DEF NodeInv, PhaseInv
<1> SUFFICES StoreInv' /\ MemoryInv' /\ PhaseInv'
  BY DEF NodeInv, PhaseInv
<1>1. ASSUME NEW b \in Blocks, ConnectTip(b) PROVE StoreInv' /\ MemoryInv' /\ PhaseInv'
  <2>1. Quiet /\ dReorg = NoReorg /\ b \in NonGenesis /\ Parent[b] = tip
    BY <1>0, <1>1 DEF ConnectTip, Accepting, PhaseInv, ConnectInv, AtRest, Applicable, Extends
  <2>2. side[b] = NoSource
    BY <1>1 DEF ConnectTip, Indexed, SideBlocks, OwnedIn
  <2>3. MemoryInv'
    BY <1>0, <1>1, <2>1, <2>2, ParentOf DEF ConnectTip, MemoryInv
  <2>4. StateExplained'
    BY <1>1, <2>1 DEF ConnectTip, StateExplained, Quiet
  <2>5. HeightIndexExact' /\ MarkerInv' /\ (Anc[dTip] \subseteq dBlock)'
    BY <1>0, <1>1 DEF ConnectTip, StoreInv, HeightIndexExact, MarkerInv, MarkerCounts
  <2>6. PhaseInv'
    BY <1>1, <2>1 DEF ConnectTip, PhaseInv, ConnectInv, ReorgInv, StartInv, AtRest, Ahead, Quiet
  <2> QED
    BY <2>3, <2>4, <2>5, <2>6 DEF StoreInv
<1>2. CASE SaveConnected
  <2>1. Ahead /\ dPending = tip /\ dReorg = NoReorg
    BY <1>0, <1>2 DEF SaveConnected, PhaseInv, ConnectInv
  <2>2. MemoryInv'
    BY <1>0, <1>2 DEF SaveConnected, memory, MemoryInv
  <2>3. CASE UNCHANGED <<dTip, dHeight, dPending>>
    <3>1. StoreInv'
      BY <1>0, <1>2, <2>3, StoreKept DEF SaveConnected, StoreInv
    <3>2. PhaseInv'
      BY <1>2, <2>1, <2>3 DEF SaveConnected, memory, PhaseInv, ConnectInv, ReorgInv, StartInv,
         AtRest, Ahead
    <3> QED
      BY <2>2, <3>1, <3>2
  <2>4. CASE PublishTip
    <3>1. /\ dState' = tip /\ dTip' = tip /\ dPending' = NoBlock /\ tip' = tip
          /\ dHeight' = SetHeight(tip) /\ dReorg' = dReorg /\ dBlock' = dBlock
          /\ pc' = "ConnectVerify"
      BY <1>2, <2>1, <2>4 DEF SaveConnected, PublishTip, Ahead, memory
    <3>2. MarkerInv'
      BY <2>1, <3>1 DEF MarkerInv, NoReorg
    <3>3. StoreInv'
      BY <1>0, <2>1, <3>1, <3>2, Typed, StorePublished DEF Ahead, MemoryInv
    <3>4. PhaseInv'
      BY <2>1, <3>1 DEF PhaseInv, ConnectInv, ReorgInv, StartInv, AtRest, Quiet
    <3> QED
      BY <2>2, <3>3, <3>4
  <2> QED
    BY <1>2, <2>3, <2>4 DEF SaveConnected
<1>3. CASE VerifyConnected
  <2>1. UNCHANGED <<store, tip, side>>
    BY <1>3 DEF VerifyConnected
  <2>2. StoreInv' /\ MemoryInv'
    BY <1>0, <2>1, StoreKept DEF store, StoreInv, MemoryInv
  <2>3. AtRest' => Quiet' /\ dReorg' = NoReorg
    BY <1>0, <1>3, <2>1 DEF VerifyConnected, store, PhaseInv, ConnectInv, AtRest, Published,
       Quiet, Ahead
  <2> QED
    BY <1>3, <2>2, <2>3, RestPhase DEF VerifyConnected
<1>4. ASSUME NEW b \in Blocks, NEW s \in Sources, AdmitSide(b, s)
      PROVE  StoreInv' /\ MemoryInv' /\ PhaseInv'
  <2>1. /\ Quiet /\ dReorg = NoReorg /\ b \notin Anc[tip]
        /\ UNCHANGED <<dState, dTip, dHeight, dPending, dReorg, tip>>
        /\ dBlock \subseteq dBlock'
    BY <1>0, <1>4 DEF AdmitSide, SideAdmissible, Accepting, PhaseInv, ConnectInv, AtRest, Indexed
  <2>2. /\ \A c \in Blocks : side'[c] = IF c = b THEN s ELSE side[c]
        /\ \A c \in Blocks : dSide'[c] = IF c = b THEN s ELSE dSide[c]
    BY <1>4, Typed DEF AdmitSide
  <2>3. b # dState
    BY <2>1, Typed, Chains DEF Quiet
  <2>4. MemoryInv'
    BY <1>0, <2>1, <2>2 DEF MemoryInv
  <2>5. StoreInv'
    BY <1>0, <2>1, <2>2, <2>3, Typed, StoreKept DEF StoreInv
  <2>6. PhaseInv'
    BY <1>4, <2>1, RestPhase DEF AdmitSide, Quiet
  <2> QED
    BY <2>4, <2>5, <2>6
<1>5. ASSUME NEW b \in Blocks, NEW s \in Sources, ReplaceSide(b, s)
      PROVE  StoreInv' /\ MemoryInv' /\ PhaseInv'
  <2>1. /\ Quiet /\ dReorg = NoReorg /\ b \notin Anc[tip]
        /\ UNCHANGED <<dState, dTip, dHeight, dPending, dReorg, tip>>
    BY <1>0, <1>5 DEF ReplaceSide, SideAdmissible, Accepting, PhaseInv, ConnectInv, AtRest,
       Indexed
  <2>2. PICK v \in Blocks :
          /\ IsVictim(v, b, s)
          /\ dBlock' = (dBlock \ {v}) \cup {b}
          /\ dSide' = [dSide EXCEPT ![v] = NoSource, ![b] = s]
          /\ side' = [side EXCEPT ![v] = NoSource, ![b] = s]
    BY <1>5 DEF ReplaceSide
  <2>3. side[v] # NoSource /\ v \notin Anc[tip]
    BY <1>0, <2>2 DEF IsVictim, Evictable, SideBlocks, OwnedIn, MemoryInv
  <2>4. /\ \A c \in Blocks : side'[c] = IF c = b THEN s ELSE IF c = v THEN NoSource ELSE side[c]
        /\ \A c \in Blocks : dSide'[c] = IF c = b THEN s ELSE IF c = v THEN NoSource ELSE dSide[c]
    BY <2>2, Typed
  <2>5. b # dState /\ Anc[tip] \subseteq dBlock'
    BY <1>0, <2>1, <2>2, <2>3, Typed, Chains DEF Quiet, MemoryInv
  <2>6. MemoryInv'
    BY <1>0, <2>1, <2>4, <2>5 DEF MemoryInv
  <2>7. StoreInv'
    BY <1>0, <2>1, <2>4, <2>5, Typed, StoreKept DEF Quiet
  <2>8. PhaseInv'
    BY <1>5, <2>1, RestPhase DEF ReplaceSide, Quiet
  <2> QED
    BY <2>6, <2>7, <2>8
<1>6. CASE PruneStale
  <2>1. /\ UNCHANGED <<dState, dTip, dHeight, dPending, dReorg, tip, halted>>
        /\ pc = "Tidy" /\ pc' = "TidyUndo"
    BY <1>6 DEF PruneStale
  <2>2. PhaseInv'
    BY <1>0, <2>1, RestPhase DEF PhaseInv, ConnectInv, AtRest, Quiet
  <2>3. CASE UNCHANGED <<dBlock, dSide, side>>
    BY <1>0, <2>1, <2>2, <2>3, StoreKept DEF StoreInv, MemoryInv
  <2>4. ASSUME NEW vs, vs \subseteq SideBlocks, DropSides(vs)
        PROVE  StoreInv' /\ MemoryInv' /\ PhaseInv'
    <3>1. MemoryInv' /\ (\A b \in Blocks : dSide[b] = NoSource => dSide'[b] = NoSource)
          /\ Anc[tip] \subseteq dBlock'
      BY <1>0, <2>1, <2>4, Dropped
    <3>2. tip = dTip
      BY <1>0, <2>1 DEF PhaseInv, ConnectInv, AtRest, Quiet
    <3>3. StoreInv'
      BY <1>0, <2>1, <3>1, <3>2, Typed, StoreKept
    <3> QED
      BY <2>2, <3>1, <3>3
  <2> QED
    BY <1>6, <2>3, <2>4 DEF PruneStale, StaleLeaves
<1>7. CASE PruneUndo
  <2>1. UNCHANGED <<dState, dTip, dHeight, dBlock, dSide, dPending, dReorg, tip, side, halted>>
        /\ pc = "TidyUndo" /\ pc' = "Idle"
    BY <1>7 DEF PruneUndo, memory
  <2>2. PhaseInv'
    BY <1>0, <2>1, RestPhase DEF PhaseInv, ConnectInv, AtRest, Quiet
  <2> QED
    BY <1>0, <2>1, <2>2, StoreKept DEF StoreInv, MemoryInv
<1>8. CASE SaveFromSync
  <2>1. /\ UNCHANGED <<dState, dBlock, dSide, dReorg, tip, side, halted, boot, pc, plan>>
        /\ dTip' = tip /\ dHeight' = SetHeight(tip) /\ ~halted /\ ~boot
        /\ dPending' = IF tip = dPending THEN NoBlock ELSE dPending
        /\ pc \notin {"Down", "Fatal", "ConnectSave", "PromoteSave"}
    BY <1>8 DEF SaveFromSync, PublishTip, CanPublish, memory
  <2>2. /\ \/ Quiet
           \/ pc = "ConnectVerify" /\ Ahead /\ dPending = tip
           \/ pc = "PromoteVerify" /\ InGap
        /\ pc \notin {"BootPending", "BootReorg", "Recover", "RecoverSave", "Reconcile"}
    BY <1>0, <2>1 DEF PhaseInv, ConnectInv, ReorgInv, StartInv, AtRest, TypeInv, TypeOK, Steps
  <2>3. dState = tip /\ (tip = dTip \/ (tip \in NonGenesis /\ Parent[tip] = dTip))
    BY <2>2 DEF Quiet, Ahead, InGap
  <2>4. dPending' = NoBlock
    BY <2>1, <2>2 DEF Quiet, InGap
  <2>5. MarkerInv'
    <3>1. dReorg.phase = "PREPARED" => dTip = tip
      BY <1>0, <2>2 DEF Quiet, InGap, Moving, PhaseInv, ConnectInv, NoReorg
    <3> QED
      BY <1>0, <2>1, <3>1 DEF StoreInv, MarkerInv, MarkerCounts
  <2>6. MemoryInv'
    BY <1>0, <2>1 DEF MemoryInv
  <2>7. StoreInv'
    BY <1>0, <2>1, <2>3, <2>4, <2>5, Typed, StorePublished DEF MemoryInv
  <2>8. Quiet'
    BY <2>1, <2>3, <2>4 DEF Quiet
  <2>9. PhaseInv'
    <3>1. AtRest' = AtRest /\ Marked' = Marked /\ NewBranch' = NewBranch
      BY <2>1 DEF AtRest, Marked, NewBranch
    <3> QED
      BY <1>0, <2>1, <2>2, <2>8, <3>1 DEF PhaseInv, ConnectInv, ReorgInv, StartInv
  <2> QED
    BY <2>6, <2>7, <2>9
<1> QED
  BY <1>1, <1>2, <1>3, <1>4, <1>5, <1>6, <1>7, <1>8 DEF IntakeNext

\* The marker is cleared while the state stands at the published tip.
LEMMA StoreCleared ==
    ASSUME TypeInv, StoreInv, dState = dTip, dReorg' = NoReorg, dPending = NoBlock,
           UNCHANGED <<dState, dTip, dHeight, dPending, dBlock>>
    PROVE  StoreInv'
<1>1. NoReorg.phase = "NONE"
  BY DEF NoReorg
<1> QED
  BY <1>1 DEF StoreInv, HeightIndexExact, StateExplained, MarkerInv

\* The reorg executor keeps the invariant.
LEMMA ExecutorKeeps ==
    ASSUME TypeInv, NodeInv, ExecutorNext
    PROVE  NodeInv'
<1>0. StoreInv /\ MemoryInv /\ PhaseInv
  BY DEF NodeInv, PhaseInv
<1> SUFFICES StoreInv' /\ MemoryInv' /\ PhaseInv'
  BY DEF NodeInv, PhaseInv
<1>a. ASSUME UNCHANGED <<store, tip, side>> PROVE StoreInv' /\ MemoryInv'
  BY <1>0, <1>a, StoreKept DEF store, StoreInv, MemoryInv
<1>b. ASSUME NEW t, Settle(t) \/ Halt
      PROVE  /\ pc' \in {"Idle", "Fatal"}
             /\ AtRest' => Settle(t)
  BY <1>b DEF Settle, Halt, AtRest
<1>c. pc = "Activate" => Quiet /\ dReorg = NoReorg
  BY <1>0 DEF PhaseInv, ConnectInv, AtRest
<1>1. CASE SkipActivation \/ DeferActivation
  <2>1. UNCHANGED <<store, tip, side>> /\ Settle(tip) /\ pc = "Activate"
    BY <1>1 DEF SkipActivation, DeferActivation
  <2>2. PhaseInv'
    BY <1>b, <1>c, <2>1, RestPhase DEF store, Quiet
  <2> QED
    BY <1>a, <2>1, <2>2
<1>2. CASE ClearBlockers
  <2>1. /\ UNCHANGED <<dState, dTip, dHeight, dPending, dReorg, tip, pc>>
        /\ DropSides(Blockers(plan.cand)) /\ pc = "Activate"
    BY <1>2 DEF ClearBlockers
  <2>2. MemoryInv' /\ (\A b \in Blocks : dSide[b] = NoSource => dSide'[b] = NoSource)
        /\ Anc[tip] \subseteq dBlock'
    <3>1. Blockers(plan.cand) \subseteq SideBlocks
      BY DEF Blockers
    <3> QED
      BY <1>0, <2>1, <3>1, Dropped
  <2>3. StoreInv'
    BY <1>0, <1>c, <2>1, <2>2, Typed, StoreKept DEF Quiet
  <2>4. PhaseInv'
    BY <1>c, <2>1, RestPhase DEF Quiet
  <2> QED
    BY <2>2, <2>3, <2>4
<1>3. CASE Prepare
  <2>1. /\ UNCHANGED <<dState, dTip, dHeight, dBlock, dSide, dPending, tip, side>>
        /\ pc' = "Prepared"
        /\ dReorg' = [NoReorg EXCEPT !.phase = "PREPARED", !.orig = tip,
                                     !.cand = plan.cand, !.tip = tip]
        /\ PlanExists(plan.cand) /\ Quiet
    BY <1>3, <1>c DEF Prepare, memory, PreflightPasses
  <2>2. /\ dReorg'.phase = "PREPARED" /\ dReorg'.orig = tip /\ dReorg'.tip = tip
        /\ dReorg'.cand = plan.cand /\ dReorg'.dd = 0 /\ dReorg'.cd = 0
    BY <2>1 DEF NoReorg
  <2>3. Leaving(tip, tip) = {} /\ Joining(tip, tip) = {}
    BY DEF Leaving, Joining
  <2>4. MarkerCounts(dReorg')
    BY <2>1, <2>2, <2>3, Typed, Chains, FS_EmptySet DEF MarkerCounts, PlanExists
  <2>5. MarkerInv'
    BY <2>1, <2>2, <2>4 DEF MarkerInv, Quiet
  <2>6. StoreInv'
    BY <1>0, <2>1, <2>5 DEF StoreInv, HeightIndexExact, StateExplained, Quiet
  <2>7. MemoryInv' /\ PhaseInv'
    BY <1>0, <2>1, <2>2 DEF MemoryInv, PhaseInv, ConnectInv, ReorgInv, StartInv, AtRest, Quiet
  <2> QED
    BY <2>6, <2>7
<1>4. CASE BeginExecution
  <2>1. UNCHANGED <<store, tip, side, plan>> /\ pc = "Prepared"
    BY <1>4 DEF BeginExecution, memory
  <2>2. Quiet /\ dReorg.phase = "PREPARED"
    BY <1>0, <2>1 DEF PhaseInv, ReorgInv
  <2>3. CASE pc' = "Abandon"
    <3>1. PhaseInv'
      BY <2>1, <2>2, <2>3 DEF store, PhaseInv, ConnectInv, ReorgInv, StartInv, AtRest, Quiet
    <3> QED
      BY <1>a, <2>1, <3>1
  <2>4. CASE pc' = "Disconnect"
    <3>1. dReorg.cand = plan.cand /\ PlanExists(plan.cand)
      BY <1>4, <2>4 DEF BeginExecution, PreflightPasses
    <3>2. dReorg.tip = tip
      BY <1>0, <2>2 DEF StoreInv, MarkerInv, Quiet
    <3>3. plan.cand \in Blocks /\ tip \in Blocks
      BY Typed
    <3>4. plan.cand \notin Anc[tip]
      BY <3>1, <3>3, WorkGrows, Chains DEF PlanExists
    <3>5. PhaseInv'
      BY <2>1, <2>2, <2>4, <3>1, <3>2, <3>4 DEF store, PhaseInv, ConnectInv, ReorgInv,
         StartInv, AtRest, Quiet, Marked, PlanExists
    <3> QED
      BY <1>a, <2>1, <3>5
  <2> QED
    BY <1>4, <2>3, <2>4 DEF BeginExecution
<1>5. CASE Abandon
  <2>1. /\ UNCHANGED <<dState, dTip, dHeight, dBlock, dSide, dPending, tip, side>>
        /\ pc = "Abandon" /\ (Settle(tip) \/ Halt)
        /\ \/ dReorg' = NoReorg
           \/ dReorg' = dReorg /\ Halt
    BY <1>5 DEF Abandon
  <2>2. Quiet
    BY <1>0, <2>1 DEF PhaseInv, ReorgInv
  <2>3. StoreInv'
    BY <1>0, <2>1, <2>2, StoreCleared, StoreKept DEF Quiet, StoreInv
  <2>4. MemoryInv'
    BY <1>0, <2>1 DEF MemoryInv
  <2>5. AtRest' => dReorg' = NoReorg
    BY <2>1 DEF AtRest, Halt
  <2>6. PhaseInv'
    BY <1>b, <2>1, <2>2, <2>5, RestPhase DEF Quiet
  <2> QED
    BY <2>3, <2>4, <2>6
<1>6. CASE DisconnectTip
  <2>1. /\ Quiet /\ Marked /\ dReorg.phase # "NONE"
        /\ tip \notin Anc[plan.cand] /\ plan.cand \notin Anc[tip]
    BY <1>0, <1>6 DEF DisconnectTip, PhaseInv, ReorgInv
  <2>2. RollbackBatch /\ tip \in NonGenesis /\ UNCHANGED <<side, plan>>
    BY <1>6, Typed DEF DisconnectTip, CanRollback, NonGenesis
  <2>3. /\ StoreInv' /\ Quiet' /\ Moving(dReorg') /\ dReorg'.cand = dReorg.cand
        /\ dReorg'.tip = tip' /\ tip' = Parent[tip]
        /\ Anc[tip'] \subseteq Anc[tip] /\ Anc[tip'] \subseteq dBlock'
    BY <1>0, <2>1, <2>2, RolledBack DEF Marked, MemoryInv
  <2>4. \A b \in Blocks : dSide'[b] = IF b = tip THEN Local ELSE dSide[b]
    BY <2>2, Typed DEF RollbackBatch
  <2>5. tip \in Anc[tip] /\ tip' \in Anc[tip]
    BY <2>2, <2>3, Typed, Chains, ParentOf
  <2>6. MemoryInv'
    BY <1>0, <2>2, <2>3, <2>4, <2>5 DEF MemoryInv
  <2>7. PhaseInv'
    <3>1. pc' = IF tip' \in Anc[plan.cand] THEN "Promote" ELSE "Disconnect"
      BY <1>6, <2>3 DEF DisconnectTip
    <3>2. plan.cand \notin Anc[tip'] /\ plan.cand # tip' /\ Marked' /\ dReorg'.phase # "NONE"
      BY <2>1, <2>2, <2>3, <2>5 DEF Marked, Moving
    <3> QED
      BY <2>2, <2>3, <3>1, <3>2 DEF PhaseInv, ConnectInv, ReorgInv, StartInv, AtRest
  <2> QED
    BY <2>3, <2>6, <2>7
<1>7. CASE DisconnectFails
  <2>1. UNCHANGED <<store, tip, side>> /\ pc = "Disconnect"
    BY <1>7 DEF DisconnectFails
  <2>2. Quiet
    BY <1>0, <2>1 DEF PhaseInv, ReorgInv
  <2>3. CASE Halt
    BY <1>a, <2>1, <2>3, RestPhase DEF Halt, AtRest
  <2>4. CASE dReorg.phase = "PREPARED" /\ pc' = "Abandon"
    <3>1. PhaseInv'
      BY <2>1, <2>2, <2>4 DEF store, PhaseInv, ConnectInv, ReorgInv, StartInv, AtRest, Quiet
    <3> QED
      BY <1>a, <2>1, <3>1
  <2> QED
    BY <1>7, <2>3, <2>4 DEF DisconnectFails
<1>8. CASE PromoteNext
  <2>1. /\ Quiet /\ Marked /\ Moving(dReorg) /\ tip \in Anc[plan.cand] \ {plan.cand}
        /\ PromoteBatch(NextOf(plan.cand)) /\ pc' = "PromoteSave" /\ plan' = plan
    BY <1>0, <1>8 DEF PromoteNext, PhaseInv, ReorgInv
  <2>2. StoreInv' /\ MemoryInv' /\ InGap' /\ dReorg' = dReorg
    BY <1>0, <2>1, PromotedNext DEF Marked, Quiet
  <2>3. PhaseInv'
    BY <2>1, <2>2 DEF Marked, PhaseInv, ConnectInv, ReorgInv, StartInv, AtRest
  <2> QED
    BY <2>2, <2>3
<1>9. CASE PromoteFails
  <2>1. UNCHANGED <<store, tip, side>> /\ Halt
    BY <1>9 DEF PromoteFails
  <2> QED
    BY <1>a, <2>1, RestPhase DEF Halt, AtRest
<1>10. CASE SavePromoted
  <2>1. /\ InGap /\ dReorg.cand = plan.cand /\ pc' = "PromoteVerify"
        /\ UNCHANGED <<dState, dBlock, dSide, tip, side, plan>>
    BY <1>0, <1>10 DEF SavePromoted, memory, PhaseInv, ReorgInv
  <2>2. MemoryInv'
    BY <1>0, <2>1 DEF MemoryInv
  <2>3. CASE UNCHANGED <<dTip, dHeight, dPending, dReorg>>
    <3>1. StoreInv'
      BY <1>0, <2>1, <2>3, StoreKept DEF StoreInv
    <3>2. InGap' /\ NewBranch' = NewBranch
      BY <2>1, <2>3 DEF InGap, Ahead, NewBranch
    <3>3. PhaseInv'
      BY <2>1, <2>3, <3>2 DEF PhaseInv, ConnectInv, ReorgInv, StartInv, AtRest, InGap
    <3> QED
      BY <2>2, <3>1, <3>3
  <2>4. CASE PublishPromoted
    <3>1. /\ dTip' = tip /\ dHeight' = SetHeight(tip) /\ dPending' = NoBlock
          /\ dReorg' = Progress(dReorg, "CONNECT_PUBLISHED", dReorg.dd, dReorg.cd + 1, tip)
      BY <2>1, <2>4 DEF PublishPromoted, PublishTip, InGap
    <3>2. /\ StoreInv' /\ Moving(dReorg')
          /\ dReorg'.cand = dReorg.cand /\ dReorg'.orig = dReorg.orig
      BY <1>0, <2>1, <3>1, PublishedNext DEF MemoryInv
    <3>3. Quiet' /\ tip' \in NewBranch'
      BY <2>1, <3>1, <3>2 DEF Quiet, InGap, Ahead, NewBranch
    <3>4. PhaseInv'
      BY <2>1, <3>2, <3>3 DEF PhaseInv, ConnectInv, ReorgInv, StartInv, AtRest
    <3> QED
      BY <2>2, <3>2, <3>4
  <2> QED
    BY <1>10, <2>3, <2>4 DEF SavePromoted
<1>11. CASE VerifyPromoted
  <2>1. /\ UNCHANGED <<store, tip, side, plan>>
        /\ InGap \/ Quiet
        /\ Moving(dReorg) /\ tip \in NewBranch /\ dReorg.cand = plan.cand
    BY <1>0, <1>11 DEF VerifyPromoted, PhaseInv, ReorgInv
  <2>2. CASE Halt
    BY <1>a, <2>1, <2>2, RestPhase DEF Halt, AtRest
  <2>3. CASE Promoted /\ pc' = AfterPromotion
    <3>1. ~Ahead
      BY <2>3, ParentOf, Typed, Chains DEF Promoted, Ahead
    <3>2. Quiet /\ Marked /\ tip \in Anc[plan.cand]
      BY <2>1, <2>3, <3>1 DEF Promoted, InGap, Marked, NewBranch, Joining
    <3>3. Quiet' /\ Marked' /\ Moving(dReorg') /\ tip' = tip /\ plan' = plan
      BY <2>1, <3>2 DEF store, Quiet, Marked
    <3>4. pc' = IF tip = plan.cand THEN "Finish" ELSE "Promote"
      BY <2>3 DEF AfterPromotion
    <3>5. PhaseInv'
      BY <3>2, <3>3, <3>4 DEF PhaseInv, ConnectInv, ReorgInv, StartInv, AtRest
    <3> QED
      BY <1>a, <2>1, <3>5
  <2> QED
    BY <1>11, <2>2, <2>3 DEF VerifyPromoted
<1>12. CASE FinishReorg
  <2> DEFINE old == Leaving(plan.orig, plan.cand)
  <2>1. /\ UNCHANGED <<dState, dTip, dHeight, dBlock, dSide, dPending, tip>>
        /\ pc = "Finish" /\ (Settle(tip) \/ Halt)
        /\ \/ dReorg' = NoReorg
           \/ dReorg' = dReorg /\ Halt
        /\ \/ side' = side
           \/ /\ old \cap Indexed = {} /\ \A b \in old : dSide[b] = Local
              /\ side' = WithLocal(old)
    BY <1>12 DEF FinishReorg
  <2>2. Quiet
    BY <1>0, <2>1 DEF PhaseInv, ReorgInv
  <2>3. StoreInv'
    BY <1>0, <2>1, <2>2, StoreCleared, StoreKept DEF Quiet, StoreInv
  <2>4. MemoryInv'
    <3>1. CASE side' = side
      BY <1>0, <2>1, <3>1 DEF MemoryInv
    <3>2. CASE /\ old \cap Indexed = {} /\ \A b \in old : dSide[b] = Local
               /\ side' = WithLocal(old)
      <4>1. \A b \in Blocks : side'[b] = IF b \in old THEN Local ELSE side[b]
        BY <3>2 DEF WithLocal
      <4>2. \A b \in old : b \notin Anc[tip] /\ dSide[b] = Local
        BY <3>2 DEF Indexed
      <4> QED
        BY <1>0, <2>1, <4>1, <4>2 DEF MemoryInv
    <3> QED
      BY <2>1, <3>1, <3>2
  <2>5. AtRest' => dReorg' = NoReorg
    BY <2>1 DEF AtRest, Halt
  <2>6. PhaseInv'
    BY <1>b, <2>1, <2>2, <2>5, RestPhase DEF Quiet
  <2> QED
    BY <2>3, <2>4, <2>6
<1> QED
  BY <1>1, <1>2, <1>3, <1>4, <1>5, <1>6, <1>7, <1>8, <1>9, <1>10, <1>11, <1>12
  DEF ExecutorNext

\* What a start loads from an exact mapping is the published chain.
LEMMA LoadedIsTip ==
    ASSUME TypeInv, StoreInv, NEW t \in Blocks, Loads(t)
    PROVE  t = dTip
<1> DEFINE found == {h \in 1..Height[dTip] : dHeight[h] \in dBlock}
<1>1. found = 1..Height[t] /\ \A h \in found : dHeight[h] = BlockAt(t, h)
  BY DEF Loads
<1>2. Height[dTip] \in Nat \ {0} /\ Height[t] \in Nat \ {0} /\ dTip \in Blocks
  BY Typed, Chains
<1>3. Height[dTip] \in Heights /\ Height[t] \in Heights
  BY <1>2 DEF Heights
<1>4. dHeight[Height[dTip]] = dTip
  BY <1>2, <1>3, BlockAtTop DEF StoreInv, HeightIndexExact
<1>5. dTip \in dBlock
  BY <1>2, Chains DEF StoreInv
<1>6. Height[dTip] \in found
  BY <1>2, <1>4, <1>5
<1>7. Height[t] \in found
  BY <1>1, <1>2
<1>8. Height[dTip] = Height[t]
  BY <1>1, <1>2, <1>6, <1>7
<1> QED
  BY <1>1, <1>4, <1>7, <1>8, BlockAtTop

\* What each verdict on an interrupted reorg rests on.
LEMMA Verdicts ==
    /\ Verdict = "disconnect" => /\ MarkerShape
                                 /\ dReorg.dd < Cardinality(OldBranch)
    /\ Verdict = "connect" => /\ MarkerShape /\ ~(dReorg.dd < Cardinality(OldBranch))
                              /\ dReorg.cd < Cardinality(NewBranch)
    /\ Verdict = "publish" => MarkerShape /\ Gap /\ GapAuthentic
    /\ Verdict = "finalize" => /\ MarkerShape /\ ~(dReorg.dd < Cardinality(OldBranch))
                               /\ ~(dReorg.cd < Cardinality(NewBranch))
<1>1. CASE ~MarkerShape
  BY <1>1 DEF Verdict
<1>2. CASE MarkerShape /\ Gap
  BY <1>2 DEF Verdict
<1>3. CASE MarkerShape /\ ~Gap /\ ~PrefixAuthentic
  BY <1>3 DEF Verdict
<1>4. CASE MarkerShape /\ ~Gap /\ PrefixAuthentic
  <2>1. Verdict = IF dReorg.dd < Cardinality(OldBranch) THEN "disconnect"
                  ELSE IF dReorg.cd < Cardinality(NewBranch) THEN "connect" ELSE "finalize"
    BY <1>4 DEF Verdict
  <2> QED
    BY <1>4, <2>1
<1> QED
  BY <1>1, <1>2, <1>3, <1>4

\* Where the tip of an interrupted reorg stands, by the marker's own count.
LEMMA WhereItStopped ==
    ASSUME TypeInv, StoreInv, Moving(dReorg), MarkerShape
    PROVE  /\ dReorg.tip = tip /\ tip = dTip /\ MarkerCounts(dReorg) /\ dPending = NoBlock
           /\ dReorg.dd < Cardinality(OldBranch) => tip \notin Anc[dReorg.cand]
           /\ ~(dReorg.dd < Cardinality(OldBranch)) =>
                /\ tip \in Anc[dReorg.cand]
                /\ dReorg.cd < Cardinality(NewBranch) <=> tip # dReorg.cand
<1>1. dReorg.tip = tip /\ tip = dTip
  BY DEF MarkerShape
<1>2. MarkerCounts(dReorg) /\ dPending = NoBlock
  BY Phases DEF Moving, StoreInv, MarkerInv
<1>3. dReorg.dd \in 1..Cardinality(OldBranch) /\ Cardinality(OldBranch) \in Nat
  BY Typed, MarkerFields, BranchFinite DEF MarkerShape, OldBranch
<1>4. dReorg.dd = Cardinality(OldBranch) <=> tip \in Anc[dReorg.cand]
  BY <1>1, <1>2, Typed, MarkerReaches DEF OldBranch
<1>5. tip \in Anc[dReorg.cand] =>
        (dReorg.cd < Cardinality(NewBranch) <=> tip # dReorg.cand)
  BY <1>1, <1>2, Typed, MarkerReaches DEF NewBranch
<1> QED
  BY <1>1, <1>2, <1>3, <1>4, <1>5

\* The start keeps the invariant.
LEMMA RecoveryKeeps ==
    ASSUME TypeInv, NodeInv, RecoveryNext
    PROVE  NodeInv'
<1>0. StoreInv /\ MemoryInv /\ PhaseInv
  BY DEF NodeInv, PhaseInv
<1> SUFFICES StoreInv' /\ MemoryInv' /\ PhaseInv'
  BY DEF NodeInv, PhaseInv
<1>a. ASSUME UNCHANGED <<store, tip, side>> PROVE StoreInv' /\ MemoryInv'
  BY <1>0, <1>a, StoreKept DEF store, StoreInv, MemoryInv
<1>b. ASSUME Refuse PROVE PhaseInv'
  BY <1>b, RestPhase DEF Refuse, AtRest
<1>1. CASE Boot
  <2>1. UNCHANGED <<dState, dTip, dHeight, dUndo, dPending, dReorg>> /\ boot'
    BY <1>1 DEF Boot
  <2>2. CASE Refuse /\ UNCHANGED <<tip, side, dSide, dBlock>>
    BY <1>a, <1>b, <2>1, <2>2 DEF store
  <2>3. ASSUME NEW t \in Blocks, Loads(t), tip' = t, Rebuild(t, dSide), pc' = "BootPending",
               NEW deleted, deleted \subseteq Purged(Reloaded(t, dSide, dBlock)),
               dSide' = Only(dSide, Blocks \ deleted),
               dBlock' = dBlock \ (deleted \ Anc[t])
        PROVE  StoreInv' /\ MemoryInv' /\ PhaseInv'
    <3>1. t = dTip
      BY <1>0, <2>3, LoadedIsTip
    <3>2. \A b \in Blocks : dSide'[b] = IF b \in deleted THEN NoSource ELSE dSide[b]
      BY <2>3 DEF Only
    <3>3. Anc[dTip] \subseteq dBlock'
      BY <1>0, <2>3, <3>1 DEF StoreInv
    <3>4. StoreInv'
      BY <1>0, <2>1, <3>2, <3>3, Typed, StoreKept
    <3>5. ASSUME NEW b \in Blocks, side'[b] # NoSource
          PROVE  b \notin Anc[t] /\ dSide'[b] = side'[b]
      <4>1. dSide \in SideMaps
        BY DEF TypeInv
      <4>2. b \notin Anc[t] /\ dSide[b] = side'[b] /\ b \in Reloaded(t, dSide, dBlock)
        BY <2>3, <3>5, <4>1, Rebuilt
      <4>3. b \notin deleted
        BY <2>3, <4>2 DEF Purged
      <4> QED
        BY <3>2, <4>2, <4>3
    <3>6. MemoryInv'
      BY <2>3, <3>1, <3>3, <3>5 DEF MemoryInv
    <3>7. PhaseInv'
      BY <2>1, <2>3, <3>1 DEF PhaseInv, ConnectInv, ReorgInv, StartInv, AtRest
    <3> QED
      BY <3>4, <3>6, <3>7
  <2>4. CASE \E t \in Blocks : Loads(t)
    <3>1. PICK t \in Blocks :
            /\ Loads(t) /\ tip' = t /\ Rebuild(t, dSide)
            /\ \E deleted \in {Purged(Reloaded(t, dSide, dBlock)), {}} :
                 /\ dSide' = Only(dSide, Blocks \ deleted)
                 /\ dBlock' = dBlock \ (deleted \ Anc[t])
            /\ pc' = "BootPending"
      BY <1>1, <2>4 DEF Boot
    <3>2. PICK deleted \in {Purged(Reloaded(t, dSide, dBlock)), {}} :
            /\ dSide' = Only(dSide, Blocks \ deleted)
            /\ dBlock' = dBlock \ (deleted \ Anc[t])
      BY <3>1
    <3>3. deleted \subseteq Purged(Reloaded(t, dSide, dBlock))
      BY <3>2
    <3> QED
      BY <2>3, <3>1, <3>2, <3>3
  <2> QED
    BY <1>1, <2>2, <2>4 DEF Boot
<1>2. CASE RecoverPending
  <2>1. pc = "BootPending" /\ boot /\ boot' = boot /\ tip = dTip /\ side' = side
    BY <1>0, <1>2 DEF RecoverPending, PhaseInv, StartInv
  <2>2. CASE dPending = NoBlock /\ pc' = "BootReorg" /\ UNCHANGED <<store, tip>>
    <3>1. PhaseInv'
      BY <2>1, <2>2 DEF store, PhaseInv, ConnectInv, ReorgInv, StartInv, AtRest
    <3> QED
      BY <1>a, <2>1, <2>2, <3>1
  <2>3. CASE /\ PublishesPending /\ tip' = dPending /\ dTip' = dPending
             /\ dHeight' = SetHeight(dPending) /\ dPending' = NoBlock
             /\ pc' = "BootReorg" /\ UNCHANGED <<dState, dBlock, dSide, dUndo, dReorg>>
    <3>1. /\ dPending \in NonGenesis /\ Parent[dPending] = dTip /\ dPending \in dBlock
          /\ dPending \in Blocks /\ side[dPending] = NoSource /\ dState = dPending
          /\ dReorg = NoReorg
      BY <2>3 DEF PublishesPending, Indexed, SideBlocks, OwnedIn, Probe, NonGenesis
    <3>2. Anc[dPending] = Anc[dTip] \cup {dPending}
      BY <3>1, ParentOf
    <3>3. Anc[dPending] \subseteq dBlock
      BY <1>0, <3>1, <3>2 DEF StoreInv
    <3>4. MarkerInv'
      BY <2>3, <3>1 DEF MarkerInv, NoReorg
    <3>5. StoreInv'
      BY <1>0, <2>3, <3>1, <3>3, <3>4, StorePublished
    <3>6. MemoryInv'
      BY <1>0, <2>1, <2>3, <3>1, <3>2, <3>3 DEF MemoryInv
    <3>7. PhaseInv'
      BY <2>1, <2>3 DEF PhaseInv, ConnectInv, ReorgInv, StartInv, AtRest
    <3> QED
      BY <3>5, <3>6, <3>7
  <2>4. CASE Refuse /\ UNCHANGED <<store, tip>>
    BY <1>a, <1>b, <2>1, <2>4
  <2> QED
    BY <1>2, <2>2, <2>3, <2>4 DEF RecoverPending
<1>3. CASE RecoverMarker
  <2>1. /\ pc = "BootReorg" /\ boot /\ tip = dTip /\ dPending = NoBlock
        /\ UNCHANGED <<dState, dTip, dHeight, dBlock, dSide, dPending, tip, side, boot>>
    BY <1>0, <1>3 DEF RecoverMarker, memory, PhaseInv, StartInv
  <2>2. MemoryInv'
    BY <1>0, <2>1 DEF MemoryInv
  <2>3. CASE dReorg' = dReorg /\ Refuse
    <3>1. StoreInv'
      BY <1>0, <2>1, <2>3, StoreKept DEF StoreInv
    <3> QED
      BY <1>b, <2>2, <2>3, <3>1
  <2>4. CASE ~Moving(dReorg) /\ dReorg' = NoReorg /\ pc' = "Reconcile"
    <3>1. dState = dTip
      <4>1. dPending # dState
        BY <2>1, Typed, TreeTyping
      <4> QED
        BY <1>0, <2>4, <4>1 DEF StoreInv, StateExplained
    <3>2. StoreInv'
      BY <1>0, <2>1, <2>4, <3>1, StoreCleared
    <3>3. PhaseInv'
      BY <2>1, <2>4, <3>1 DEF PhaseInv, ConnectInv, ReorgInv, StartInv, AtRest, Quiet
    <3> QED
      BY <2>2, <3>2, <3>3
  <2>5. CASE Moving(dReorg) /\ dReorg' = dReorg /\ pc' = "Recover"
    <3>1. StoreInv'
      BY <1>0, <2>1, <2>5, StoreKept DEF StoreInv
    <3>2. PhaseInv'
      BY <2>1, <2>5 DEF PhaseInv, ConnectInv, ReorgInv, StartInv, AtRest
    <3> QED
      BY <2>2, <3>1, <3>2
  <2>6. \/ dReorg' = dReorg /\ Refuse
        \/ ~Moving(dReorg) /\ dReorg' = NoReorg /\ pc' = "Reconcile"
        \/ Moving(dReorg) /\ dReorg' = dReorg /\ pc' = "Recover"
    BY <1>3 DEF RecoverMarker, Moving, NoReorg
  <2> QED
    BY <2>3, <2>4, <2>5, <2>6
<1>c. ASSUME pc' = "Recover", boot' = boot, pc \in {"Recover", "RecoverSave"}, tip' = dTip',
             dPending' = NoBlock, Moving(dReorg')
      PROVE  PhaseInv'
  BY <1>0, <1>c DEF PhaseInv, ConnectInv, ReorgInv, StartInv, AtRest
<1>4. CASE RecoverDisconnect
  <2>1. /\ pc = "Recover" /\ pc' = pc /\ boot' = boot /\ Moving(dReorg)
        /\ MarkerShape /\ dReorg.dd < Cardinality(OldBranch)
    BY <1>0, <1>4, Verdicts DEF RecoverDisconnect, PhaseInv, StartInv
  <2>2. RollbackBatch /\ tip \in NonGenesis /\ dState = tip
    BY <1>4, Typed DEF RecoverDisconnect, CanRollback, Probe, NonGenesis
  <2>3. Quiet /\ dReorg.tip = tip /\ tip \notin Anc[dReorg.cand] /\ dReorg.phase # "NONE"
    BY <1>0, <2>1, <2>2, WhereItStopped DEF Quiet, Moving
  <2>4. /\ StoreInv' /\ Quiet' /\ Moving(dReorg') /\ tip' = Parent[tip]
        /\ Anc[tip'] \subseteq dBlock'
    BY <1>0, <2>2, <2>3, RolledBack DEF MemoryInv
  <2>5. /\ dSide' \in SideMaps /\ Parent[tip] \in Blocks
        /\ Rebuild(Parent[tip], dSide')
    <3>1. dSide' = [dSide EXCEPT ![tip] = Local]
      BY <2>2 DEF RollbackBatch
    <3>2. dSide \in SideMaps /\ Local \in Sources \cup {NoSource}
      BY DEF TypeInv, Sources
    <3>3. [dSide EXCEPT ![tip] = Local] \in SideMaps
      BY <2>2, <3>2, OwnerType
    <3>4. Rebuild(Parent[tip], [dSide EXCEPT ![tip] = Local])
      BY <1>4 DEF RecoverDisconnect
    <3> QED
      BY <2>2, <3>1, <3>3, <3>4, ParentOf
  <2>6. MemoryInv'
    BY <2>4, <2>5, Rebuilt DEF MemoryInv
  <2>7. PhaseInv'
    BY <1>c, <2>1, <2>4 DEF Quiet
  <2> QED
    BY <2>4, <2>6, <2>7
<1>5. CASE RecoverConnect
  <2>1. /\ Moving(dReorg) /\ MarkerShape /\ ~(dReorg.dd < Cardinality(OldBranch))
        /\ dReorg.cd < Cardinality(NewBranch) /\ boot /\ boot' = boot
        /\ PromoteBatch(NextOf(dReorg.cand)) /\ pc' = "RecoverSave"
    BY <1>0, <1>5, Verdicts DEF RecoverConnect, PhaseInv, StartInv
  <2>2. /\ tip = dTip /\ dReorg.tip = tip /\ tip \in Anc[dReorg.cand] \ {dReorg.cand}
    BY <1>0, <2>1, WhereItStopped
  <2>3. StoreInv' /\ MemoryInv' /\ InGap'
    BY <1>0, <2>1, <2>2, PromotedNext
  <2>4. PhaseInv'
    BY <2>1, <2>3 DEF PhaseInv, ConnectInv, ReorgInv, StartInv, AtRest
  <2> QED
    BY <2>3, <2>4
<1>6. CASE RecoverSave
  <2>1. /\ InGap /\ pc = "RecoverSave" /\ pc' = "Recover" /\ Rebuild(tip, dSide)
        /\ UNCHANGED <<dState, dBlock, dSide, tip, boot>>
        /\ PublishPromoted
    BY <1>0, <1>6 DEF RecoverSave, PhaseInv, StartInv
  <2>2. /\ dTip' = tip /\ dHeight' = SetHeight(tip) /\ dPending' = NoBlock
        /\ dReorg' = Progress(dReorg, "CONNECT_PUBLISHED", dReorg.dd, dReorg.cd + 1, tip)
    BY <2>1 DEF PublishPromoted, PublishTip, InGap
  <2>3. StoreInv' /\ Moving(dReorg')
    BY <1>0, <2>1, <2>2, PublishedNext DEF MemoryInv
  <2>4. MemoryInv'
    <3>1. dSide \in SideMaps /\ tip \in Blocks
      BY Typed DEF TypeInv
    <3> QED
      BY <1>0, <2>1, <3>1, Rebuilt DEF MemoryInv
  <2>5. PhaseInv'
    BY <1>c, <2>1, <2>2, <2>3
  <2> QED
    BY <2>3, <2>4, <2>5
<1>7. CASE RecoverPublish
  <2> DEFINE next == NextOf(dReorg.cand)
  <2>1. /\ pc = "Recover" /\ pc' = pc /\ boot' = boot /\ Moving(dReorg)
        /\ MarkerShape /\ Gap /\ GapAuthentic
        /\ tip' = next /\ dTip' = next /\ dHeight' = SetHeight(next)
        /\ dReorg' = Progress(dReorg, "CONNECT_PUBLISHED", dReorg.dd, dReorg.cd + 1, next)
        /\ Rebuild(next, dSide)
        /\ UNCHANGED <<dState, dBlock, dSide, dPending>>
    BY <1>0, <1>7, Verdicts DEF RecoverPublish, PhaseInv, StartInv
  <2>2. ~(dReorg.dd < Cardinality(OldBranch)) /\ dReorg.cd < Cardinality(NewBranch)
    BY <2>1, Typed, MarkerFields, BranchFinite DEF Gap, OldBranch
  <2>3. /\ tip = dTip /\ dReorg.tip = tip /\ tip \in Anc[dReorg.cand] \ {dReorg.cand}
        /\ MarkerCounts(dReorg) /\ dPending = NoBlock
    BY <1>0, <2>1, <2>2, WhereItStopped
  <2>4. next \in NonGenesis /\ next \in Anc[dReorg.cand] /\ Parent[next] = tip
    BY <2>3, Typed, MarkerFields, NextOfIs
  <2>5. dState = next /\ next \in NewBranch /\ next \in dBlock
    BY <2>1, <2>3, <2>4, NextIsNew, Typed DEF GapAuthentic, Probe, NewBranch
  <2> HIDE DEF next
  <2>6. Anc[next] \subseteq dBlock /\ next \in Blocks
    BY <1>0, <2>3, <2>4, <2>5, ParentOf DEF StoreInv
  <2>7. dReorg'.phase = "CONNECT_PUBLISHED" /\ MarkerCounts(dReorg')
    BY <2>1, <2>3, <2>4, Typed, MarkerUp DEF Progress, Marker
  <2>8. MarkerInv' /\ Moving(dReorg')
    BY <2>7 DEF MarkerInv, Moving
  <2>9. StoreInv'
    BY <1>0, <2>1, <2>3, <2>4, <2>5, <2>6, <2>8, StorePublished
  <2>10. MemoryInv'
    <3>1. dSide \in SideMaps
      BY DEF TypeInv
    <3> QED
      BY <2>1, <2>6, <3>1, Rebuilt DEF MemoryInv
  <2>11. PhaseInv'
    BY <1>c, <2>1, <2>3, <2>8
  <2> QED
    BY <2>9, <2>10, <2>11
<1>8. CASE RecoverFinalize
  <2>1. /\ Moving(dReorg) /\ MarkerShape /\ ~(dReorg.dd < Cardinality(OldBranch))
        /\ ~(dReorg.cd < Cardinality(NewBranch)) /\ boot /\ boot' = boot
        /\ Rebuild(tip, dSide) /\ dReorg' = NoReorg /\ pc' = "Reconcile"
        /\ UNCHANGED <<dState, dTip, dHeight, dBlock, dSide, dPending, tip>>
    BY <1>0, <1>8, Verdicts DEF RecoverFinalize, PhaseInv, StartInv
  <2>2. tip = dTip /\ tip = dReorg.cand /\ dPending = NoBlock
    BY <1>0, <2>1, WhereItStopped
  <2>3. dState = dTip
    <3>1. dState # dPending
      BY <2>2, Typed, TreeTyping
    <3>2. ASSUME dState \in NonGenesis, Parent[dState] = dTip, dState \in NewBranch PROVE FALSE
      <4>1. dState \in Anc[dTip]
        BY <2>2, <3>2 DEF NewBranch, Joining
      <4> QED
        BY <3>2, <4>1, ParentOf
    <3> QED
      BY <1>0, <3>1, <3>2 DEF StoreInv, StateExplained
  <2>4. StoreInv'
    BY <1>0, <2>1, <2>2, <2>3, StoreCleared
  <2>5. MemoryInv'
    <3>1. dSide \in SideMaps /\ tip \in Blocks
      BY Typed DEF TypeInv
    <3> QED
      BY <1>0, <2>1, <3>1, Rebuilt DEF MemoryInv
  <2>6. PhaseInv'
    BY <2>1, <2>2, <2>3 DEF PhaseInv, ConnectInv, ReorgInv, StartInv, AtRest, Quiet
  <2> QED
    BY <2>4, <2>5, <2>6
<1>9. CASE RecoverFails
  BY <1>9, <1>a, <1>b DEF RecoverFails, memory
<1>10. CASE Reconcile
  <2>1. UNCHANGED <<store, tip, side>> /\ pc = "Reconcile" /\ pc' \in {"Fatal", "Activate", "Idle"}
    BY <1>10 DEF Reconcile, Refuse
  <2>2. Quiet /\ dReorg = NoReorg
    BY <1>0, <2>1 DEF PhaseInv, ConnectInv, AtRest
  <2>3. PhaseInv'
    BY <2>1, <2>2, RestPhase DEF store, Quiet
  <2> QED
    BY <1>a, <2>1, <2>3
<1> QED
  BY <1>1, <1>2, <1>3, <1>4, <1>5, <1>6, <1>7, <1>8, <1>9, <1>10 DEF RecoveryNext

\* Crashes, stops and restarts keep the invariant.
LEMMA LifeKeeps ==
    ASSUME TypeInv, NodeInv, LifeNext
    PROVE  NodeInv'
<1>0. StoreInv /\ MemoryInv /\ PhaseInv
  BY DEF NodeInv, PhaseInv
<1> SUFFICES StoreInv' /\ MemoryInv' /\ PhaseInv'
  BY DEF NodeInv, PhaseInv
<1>1. ASSUME Lose, StoreInv', Genesis \in dBlock' PROVE MemoryInv' /\ PhaseInv'
  <2>1. tip' = Genesis /\ side' = NoSides /\ pc' = "Down"
    BY <1>1 DEF Lose
  <2>2. MemoryInv'
    BY <1>1, <2>1, TreeShape DEF MemoryInv, NoSides
  <2>3. PhaseInv'
    BY <2>1, RestPhase DEF AtRest
  <2> QED
    BY <2>2, <2>3
<1>2. Genesis \in dBlock
  BY <1>0, Typed, Chains DEF StoreInv
<1>3. CASE Crash \/ GiveUp
  <2>1. Lose /\ UNCHANGED store
    BY <1>3 DEF Crash, GiveUp
  <2>2. StoreInv'
    BY <1>0, <2>1, StoreKept DEF store, StoreInv
  <2> QED
    BY <1>1, <1>2, <2>1, <2>2 DEF store
<1>4. CASE BeginStop
  <2>1. UNCHANGED <<store, tip, side, halted, boot, pc, plan>>
    BY <1>4 DEF BeginStop
  <2>2. StoreInv' /\ MemoryInv'
    BY <1>0, <2>1, StoreKept DEF store, StoreInv, MemoryInv
  <2>3. PhaseInv'
    BY <1>0, <2>1 DEF store, PhaseInv, ConnectInv, ReorgInv, StartInv, AtRest, Quiet, Ahead,
       InGap, Marked, NewBranch
  <2> QED
    BY <2>2, <2>3
<1>5. CASE Exit
  <2>1. Lose /\ UNCHANGED <<dState, dBlock, dSide, dPending, dReorg>> /\ pc = "Idle"
    BY <1>5 DEF Exit
  <2>2. CASE UNCHANGED <<dTip, dHeight>>
    <3>1. StoreInv'
      BY <1>0, <2>1, <2>2, StoreKept DEF StoreInv
    <3> QED
      BY <1>1, <1>2, <2>1, <3>1
  <2>3. CASE /\ ~halted /\ dTip' = tip
             /\ dHeight' = [h \in Heights |->
                  IF BlockAt(tip, h) # NoBlock THEN BlockAt(tip, h) ELSE dHeight[h]]
    <3>1. tip = dTip
      BY <1>0, <2>1, <2>3 DEF PhaseInv, ConnectInv, AtRest, Quiet
    <3>2. dHeight' = dHeight
      BY <1>0, <2>3, <3>1, Typed DEF StoreInv, HeightIndexExact
    <3>3. StoreInv'
      BY <1>0, <2>1, <2>3, <3>1, <3>2, StoreKept DEF StoreInv
    <3> QED
      BY <1>1, <1>2, <2>1, <3>3
  <2> QED
    BY <1>5, <2>2, <2>3 DEF Exit, SavesAtExit
<1> QED
  BY <1>3, <1>4, <1>5 DEF LifeNext

----------------------------------------------------------------------------
(* The invariant holds *)

\* It holds of an empty store at the genesis block.
LEMMA NodeInit == Init => NodeInv
<1> SUFFICES ASSUME Init PROVE NodeInv
  OBVIOUS
<1>1. TypeInv
  BY InitTypes
<1>2. \A h \in Heights : dHeight[h] = BlockAt(Genesis, h)
  <2> SUFFICES ASSUME NEW h \in Heights PROVE dHeight[h] = BlockAt(Genesis, h)
    OBVIOUS
  <2>1. BlockAt(Genesis, h) = IF h = 1 THEN Genesis ELSE NoBlock
    BY TreeShape DEF BlockAt
  <2> QED
    BY <2>1 DEF Init
<1>3. StoreInv
  BY <1>2, TreeShape, TreeTyping DEF Init, StoreInv, HeightIndexExact, StateExplained,
     MarkerInv, NoReorg
<1>4. MemoryInv
  BY TreeShape DEF Init, MemoryInv, NoSides
<1>5. ConnectInv /\ ReorgInv /\ StartInv
  BY DEF Init, ConnectInv, ReorgInv, StartInv, AtRest
<1> QED
  BY <1>3, <1>4, <1>5 DEF NodeInv

\* Every step keeps it.
LEMMA NodeStep ==
    ASSUME TypeInv, NodeInv, [Next]_vars
    PROVE  NodeInv'
<1>1. CASE UNCHANGED vars
  BY <1>1 DEF vars, store, memory, NodeInv, StoreInv, HeightIndexExact, StateExplained,
     MarkerInv, MarkerCounts, MemoryInv, ConnectInv, ReorgInv, StartInv, AtRest, Quiet,
     Ahead, InGap, Marked, OldBranch, NewBranch
<1> QED
  BY <1>1, IntakeKeeps, ExecutorKeeps, RecoveryKeeps, LifeKeeps DEF Next

\* The invariant holds, with the types and the validity of the confirmed chain.
LEMMA NodeAlways == Spec => [](TypeInv /\ NodeInv /\ ValidInv)
<1>1. Init => TypeInv /\ NodeInv /\ ValidInv
  BY InitTypes, NodeInit, ValidGenesis DEF Init, ValidInv, ValidIndex
<1>2. (TypeInv /\ NodeInv /\ ValidInv) /\ [Next]_vars => (TypeInv /\ NodeInv /\ ValidInv)'
  BY StepTypes, NodeStep, ValidStep
<1> QED
  BY <1>1, <1>2, PTL DEF Spec

\* Wherever a crash falls, the confirmed state stands at the published tip or one
\* block above it, and a record says so: StateExplained of ChainNode, about the
\* two batches of applyBlock and saveChainState and their recovery.
THEOREM StateIsExplained == Spec => []StateExplained
<1>1. NodeInv => StateExplained
  BY DEF NodeInv, StoreInv
<1> QED
  BY <1>1, NodeAlways, PTL

\* The height mapping is the published chain and nothing above it, through every
\* connection, rollback, promotion, save and restart: HeightIndexExact of
\* ChainNode, about the height:N records.
THEOREM HeightIndexIsExact == Spec => []HeightIndexExact
<1>1. NodeInv => HeightIndexExact
  BY DEF NodeInv, StoreInv
<1> QED
  BY <1>1, NodeAlways, PTL

\* Between two submissions a node that is not halted has nothing in flight, and
\* its side pool is in the store as it is in memory: IdleIsClean of ChainNode,
\* about the postconditions of submitBlock.
THEOREM IdleNodeIsClean == Spec => []IdleIsClean
<1>1. NodeInv => IdleIsClean
  BY DEF NodeInv, ConnectInv, AtRest, Quiet, MemoryInv, IdleIsClean, SideBlocks, OwnedIn
<1> QED
  BY <1>1, NodeAlways, PTL

----------------------------------------------------------------------------
(* Block acceptance implements the ledger *)

\* The tip the ledger commits to.
Committed == IF Moving(dReorg) THEN dReorg.orig ELSE dState

\* Clearing the marker of a reorg that has reached its candidate is one switch.
LEMMA ReorgIsSwitch ==
    ASSUME TypeInv, StoreInv, ValidInv, Moving(dReorg), dState = dReorg.cand,
           dReorg' = NoReorg, dState' = dState
    PROVE  L!Switch(dState)
<1>1. Committed = dReorg.orig /\ Committed' = dState
  BY DEF Committed, Moving, NoReorg
<1>2. /\ Work[dReorg.cand] > Work[dReorg.orig]
      /\ Cardinality(Leaving(dReorg.orig, dReorg.cand)) <= MaxForkDepth
  BY DEF Moving, StoreInv, MarkerInv, MarkerCounts
<1>3. Height[dReorg.orig] - Height[ForkOf(dReorg.orig, dReorg.cand)] <= MaxForkDepth
  <2> DEFINE a == dReorg.orig
             f == ForkOf(dReorg.orig, dReorg.cand)
             n == Cardinality(Leaving(dReorg.orig, dReorg.cand))
  <2>1. Height[a] \in Nat /\ Height[f] \in Nat /\ n \in Nat /\ Height[a] - Height[f] <= n
    BY Typed, MarkerFields, DepthBound, Chains, BranchFinite
  <2>2. MaxForkDepth \in Nat
    BY PolicyAssumption
  <2> HIDE DEF a, f, n
  <2>3. n <= MaxForkDepth
    BY <1>2 DEF n
  <2>4. Height[a] - Height[f] <= MaxForkDepth
    BY <2>1, <2>2, <2>3
  <2> QED
    BY <2>4 DEF a, f
<1>4. ValidChain(dState) /\ dState \in Blocks
  BY Typed DEF ValidInv
<1>5. \A a, b : L!ForkOf(a, b) = ForkOf(a, b)
  BY DEF L!ForkOf, ForkOf
<1>6. L!ValidChain(dState)
  BY <1>4 DEF L!ValidChain, ValidChain
<1>7. L!Outweighs(dState)
  BY <1>1, <1>2, <1>3, <1>5, <1>6 DEF L!Outweighs, Committed
<1> QED
  BY <1>1, <1>4, <1>7 DEF L!Switch, Committed

\* Every step of the node is a step of the ledger or none.
LEMMA LedgerStep ==
    ASSUME TypeInv, NodeInv, ValidInv, [Next]_vars
    PROVE  L!LedgerNext \/ UNCHANGED Committed
<1>0. StoreInv /\ PhaseInv
  BY DEF NodeInv, PhaseInv
<1>1. ASSUME UNCHANGED <<dState, dReorg>> PROVE UNCHANGED Committed
  BY <1>1 DEF Committed
<1>2. ASSUME ~Moving(dReorg), ~Moving(dReorg'), dState' = dState PROVE UNCHANGED Committed
  BY <1>2 DEF Committed
<1>3. ASSUME Moving(dReorg), Moving(dReorg'), dReorg'.orig = dReorg.orig
      PROVE  UNCHANGED Committed
  BY <1>3 DEF Committed
<1>4. ASSUME Moving(dReorg), dState = dReorg.cand, dReorg' = NoReorg, dState' = dState
      PROVE  L!LedgerNext
  BY <1>0, <1>4, ReorgIsSwitch, Typed DEF L!LedgerNext
<1>5. ASSUME tip \in NonGenesis, RollbackBatch, dReorg.phase # "NONE", dState = dTip,
             Anc[tip] \subseteq dBlock
      PROVE  UNCHANGED Committed
  <2>1. Moving(dReorg') /\ dReorg'.orig = dReorg.orig
    BY <1>5, Typed DEF RollbackBatch, Progress, Marker, Moving
  <2>2. ~Moving(dReorg) => dReorg.orig = dState
    BY <1>0, <1>5, Phases DEF StoreInv, MarkerInv
  <2> QED
    BY <2>1, <2>2 DEF Committed
<1>6. CASE UNCHANGED vars
  BY <1>1, <1>6 DEF vars, store
<1>7. CASE IntakeNext
  <2>1. ASSUME NEW b \in Blocks, ConnectTip(b) PROVE L!LedgerNext
    <3>1. Quiet /\ dReorg = NoReorg
      BY <1>0, <2>1 DEF ConnectTip, Accepting, PhaseInv, ConnectInv, AtRest
    <3>2. ~Moving(dReorg) /\ dReorg' = dReorg /\ dState' = b
      BY <2>1, <3>1 DEF ConnectTip, Moving, NoReorg
    <3>3. Committed = tip /\ Committed' = b
      BY <3>1, <3>2 DEF Committed, Quiet
    <3>4. L!Extend(b)
      BY <2>1, <3>3 DEF ConnectTip, Applicable, Extends, L!Extend, L!NonGenesis, NonGenesis,
         Committed
    <3> QED
      BY <3>4 DEF L!LedgerNext
  <2>2. ASSUME NEW b \in Blocks, NEW s \in Sources, AdmitSide(b, s) \/ ReplaceSide(b, s)
        PROVE  UNCHANGED Committed
    BY <1>1, <2>2 DEF AdmitSide, ReplaceSide
  <2>3. CASE SaveConnected \/ VerifyConnected \/ PruneStale \/ PruneUndo \/ SaveFromSync
    BY <1>1, <2>3 DEF SaveConnected, VerifyConnected, PruneStale, PruneUndo, SaveFromSync, store
  <2> QED
    BY <1>7, <2>1, <2>2, <2>3 DEF IntakeNext
<1>8. CASE ExecutorNext
  <2>1. CASE SkipActivation \/ DeferActivation \/ ClearBlockers \/ BeginExecution
    BY <1>1, <2>1 DEF SkipActivation, DeferActivation, ClearBlockers, BeginExecution, store
  <2>2. CASE Prepare
    BY <1>2, <2>2 DEF Prepare, Moving, NoReorg
  <2>3. CASE Abandon
    <3>1. dReorg.phase = "PREPARED" /\ dState' = dState /\ dReorg' \in {dReorg, NoReorg}
      BY <1>0, <2>3 DEF Abandon, PhaseInv, ReorgInv
    <3> QED
      BY <1>2, <3>1 DEF Moving, NoReorg
  <2>4. CASE DisconnectTip
    <3>1. Quiet /\ dReorg.phase # "NONE"
      BY <1>0, <2>4 DEF DisconnectTip, PhaseInv, ReorgInv
    <3>2. RollbackBatch /\ tip \in NonGenesis
      BY <2>4, Typed DEF DisconnectTip, CanRollback, NonGenesis
    <3>3. Anc[tip] \subseteq dBlock
      BY DEF NodeInv, MemoryInv
    <3> QED
      BY <1>5, <3>1, <3>2, <3>3 DEF Quiet
  <2>5. CASE DisconnectFails \/ PromoteFails \/ VerifyPromoted
    BY <1>1, <2>5 DEF DisconnectFails, PromoteFails, VerifyPromoted, store
  <2>6. CASE PromoteNext
    <3>1. Moving(dReorg) /\ dReorg' = dReorg
      BY <1>0, <2>6 DEF PromoteNext, PromoteBatch, PhaseInv, ReorgInv
    <3> QED
      BY <1>3, <3>1
  <2>7. CASE SavePromoted
    <3>1. Moving(dReorg)
      BY <1>0, <2>7 DEF SavePromoted, PhaseInv, ReorgInv, InGap
    <3>2. Moving(dReorg') /\ dReorg'.orig = dReorg.orig
      BY <2>7, <3>1, Typed DEF SavePromoted, PublishPromoted, Progress, Marker, Moving
    <3> QED
      BY <1>3, <3>1, <3>2
  <2>8. CASE FinishReorg
    <3>1. Quiet /\ Marked /\ Moving(dReorg) /\ tip = plan.cand
      BY <1>0, <2>8 DEF FinishReorg, PhaseInv, ReorgInv
    <3>2. dState' = dState /\ dReorg' \in {dReorg, NoReorg}
      BY <2>8 DEF FinishReorg
    <3> QED
      BY <1>1, <1>4, <3>1, <3>2 DEF Quiet, Marked
  <2> QED
    BY <1>8, <2>1, <2>2, <2>3, <2>4, <2>5, <2>6, <2>7, <2>8 DEF ExecutorNext
<1>9. CASE RecoveryNext
  <2>1. CASE Boot \/ RecoverPending \/ RecoverFails \/ Reconcile
    BY <1>1, <2>1 DEF Boot, RecoverPending, RecoverFails, Reconcile, store
  <2>2. CASE RecoverMarker
    <3>1. dState' = dState /\ (dReorg' = dReorg \/ (~Moving(dReorg) /\ dReorg' = NoReorg))
      BY <2>2 DEF RecoverMarker, Moving, NoReorg
    <3> QED
      BY <1>1, <1>2, <3>1 DEF Moving, NoReorg
  <2>a. pc = "Recover" => Moving(dReorg)
    BY <1>0 DEF PhaseInv, StartInv
  <2>3. CASE RecoverDisconnect
    <3>1. RollbackBatch /\ tip \in NonGenesis /\ dState = tip
      BY <2>3, Typed DEF RecoverDisconnect, CanRollback, Probe, NonGenesis
    <3>2. tip = dTip /\ dReorg.phase # "NONE"
      BY <1>0, <2>3, <2>a DEF RecoverDisconnect, PhaseInv, StartInv, Moving
    <3> QED
      BY <1>5, <3>1, <3>2 DEF NodeInv, MemoryInv
  <2>4. CASE RecoverConnect
    BY <1>3, <2>4, <2>a DEF RecoverConnect, PromoteBatch
  <2>5. CASE RecoverSave
    <3>1. Moving(dReorg)
      BY <1>0, <2>5 DEF RecoverSave, PhaseInv, StartInv, InGap
    <3>2. Moving(dReorg') /\ dReorg'.orig = dReorg.orig
      BY <2>5, Typed DEF RecoverSave, PublishPromoted, Progress, Marker, Moving
    <3> QED
      BY <1>3, <3>1, <3>2
  <2>6. CASE RecoverPublish
    <3>1. Moving(dReorg') /\ dReorg'.orig = dReorg.orig
      BY <2>6, Typed DEF RecoverPublish, Progress, Marker, Moving
    <3> QED
      BY <1>3, <2>6, <2>a, <3>1 DEF RecoverPublish
  <2>7. CASE RecoverFinalize
    <3>1. /\ Moving(dReorg) /\ MarkerShape /\ ~(dReorg.dd < Cardinality(OldBranch))
          /\ ~(dReorg.cd < Cardinality(NewBranch)) /\ dReorg' = NoReorg
          /\ UNCHANGED <<dState, tip>> /\ pc' = "Reconcile"
      BY <2>7, <2>a, Verdicts DEF RecoverFinalize
    <3>2. tip = dReorg.cand
      BY <1>0, <3>1, WhereItStopped
    <3>3. NodeInv'
      BY <1>9, RecoveryKeeps
    <3>4. dState = tip
      BY <3>1, <3>3 DEF NodeInv, ConnectInv, AtRest, Quiet
    <3> QED
      BY <1>4, <3>1, <3>2, <3>4
  <2> QED
    BY <1>9, <2>1, <2>2, <2>3, <2>4, <2>5, <2>6, <2>7 DEF RecoveryNext
<1>10. CASE LifeNext
  BY <1>1, <1>10 DEF LifeNext, Crash, BeginStop, Exit, GiveUp, store
<1> QED
  BY <1>6, <1>7, <1>8, <1>9, <1>10 DEF Next

\* Whatever is batched, journalled, interrupted and recovered, block acceptance is
\* one committed tip that is only extended by a valid child or switched, at once,
\* to a valid branch with more work within the supported depth: LedgerImplemented
\* of ChainNode, about submitBlock, the reorg executor and the startup recovery.
THEOREM AcceptanceIsLedger == Spec => LedgerImplemented
<1>1. Init => L!LedgerInit
  BY DEF Init, L!LedgerInit, Moving, NoReorg
<1>2. (TypeInv /\ NodeInv /\ ValidInv) /\ [Next]_vars
        => [L!LedgerNext]_(IF Moving(dReorg) THEN dReorg.orig ELSE dState)
  BY LedgerStep DEF Committed
<1> QED
  BY <1>1, <1>2, NodeAlways, PTL DEF Spec, LedgerImplemented, L!LedgerSpec

----------------------------------------------------------------------------
(* A reorg ends complete *)

\* The plan in hand starts at the marker's original tip; the memory of a start
\* that finds a moving marker is what the store says, with nothing purged.
EndInv ==
    /\ pc \in {"Prepared", "Disconnect", "Promote", "PromoteSave", "PromoteVerify", "Finish"}
         => dReorg.orig = plan.orig
    /\ pc \in {"BootPending", "BootReorg", "Recover"} /\ Moving(dReorg)
         => side = Only(dSide, Reloaded(tip, dSide, dBlock))

\* The blocks of a branch lie within its length of its end.
LEMMA BranchHeights ==
    ASSUME NEW a \in Blocks, NEW b \in Blocks, NEW c \in Leaving(a, b)
    PROVE  Height[c] > Height[a] - Cardinality(Leaving(a, b))
<1> DEFINE S == {x \in Blocks : \A y \in Leaving(x, b) :
                    Height[x] - Height[y] < Cardinality(Leaving(x, b))}
<1>1. Genesis \in S
  BY TreeShape, TreeTyping, Chains DEF Leaving
<1>2. ASSUME NEW x \in NonGenesis, Parent[x] \in S PROVE x \in S
  <2> SUFFICES ASSUME NEW y \in Leaving(x, b)
               PROVE  Height[x] - Height[y] < Cardinality(Leaving(x, b))
    BY ParentOf
  <2>1. x \notin Anc[b]
    <3>1. x \in Anc[b] => Anc[x] \subseteq Anc[b]
      BY TreeClosure
    <3> QED
      BY <3>1 DEF Leaving
  <2>2. /\ Leaving(x, b) = Leaving(Parent[x], b) \cup {x}
        /\ x \notin Leaving(Parent[x], b)
    BY <2>1, ParentOf DEF Leaving
  <2>3. /\ IsFiniteSet(Leaving(Parent[x], b)) /\ Cardinality(Leaving(Parent[x], b)) \in Nat
    BY ParentOf, BranchFinite
  <2>4. Cardinality(Leaving(x, b)) = Cardinality(Leaving(Parent[x], b)) + 1
    BY <2>2, <2>3, FS_AddElement
  <2>5. /\ Height[x] = Height[Parent[x]] + 1 /\ Height[Parent[x]] \in Nat
        /\ x \in Blocks /\ y \in Blocks /\ Height[y] \in Nat
    BY ParentOf, Chains DEF Leaving
  <2>6. CASE y = x
    BY <2>3, <2>4, <2>5, <2>6
  <2>7. CASE y \in Leaving(Parent[x], b)
    <3>1. Height[Parent[x]] - Height[y] < Cardinality(Leaving(Parent[x], b))
      BY <1>2, <2>7
    <3> QED
      BY <2>3, <2>4, <2>5, <3>1
  <2> QED
    BY <2>2, <2>6, <2>7
<1>3. Blocks \subseteq S
  <2> HIDE DEF S
  <2> QED
    BY <1>1, <1>2, BlockInduction
<1>4. Height[a] - Height[c] < Cardinality(Leaving(a, b))
  BY <1>3
<1>5. Height[a] \in Nat /\ Height[c] \in Nat /\ Cardinality(Leaving(a, b)) \in Nat
  BY BranchFinite, Chains DEF Leaving
<1> QED
  BY <1>4, <1>5

\* Every step keeps what the end of a reorg rests on.
LEMMA EndStep ==
    ASSUME TypeInv, NodeInv, EndInv, [Next]_vars
    PROVE  EndInv'
<1>0. StoreInv /\ PhaseInv
  BY DEF NodeInv, PhaseInv
<1>1. ASSUME UNCHANGED <<dReorg, dSide, dBlock, tip, side, plan>>,
             \/ pc' = pc
             \/ pc' \notin {"Prepared", "Disconnect", "Promote", "PromoteSave",
                            "PromoteVerify", "Finish", "BootPending", "BootReorg", "Recover"}
      PROVE  EndInv'
  BY <1>1 DEF EndInv
<1>2. ASSUME pc' \notin {"Prepared", "Disconnect", "Promote", "PromoteSave",
                         "PromoteVerify", "Finish", "BootPending", "BootReorg", "Recover"}
      PROVE  EndInv'
  BY <1>2 DEF EndInv
<1>3. ASSUME dReorg'.orig = plan'.orig, pc' \notin {"BootPending", "BootReorg", "Recover"}
      PROVE  EndInv'
  BY <1>3 DEF EndInv
<1>4. ASSUME pc' \in {"BootPending", "BootReorg", "Recover"},
             Moving(dReorg') => side' = Only(dSide', Reloaded(tip', dSide', dBlock'))
      PROVE  EndInv'
  BY <1>4 DEF EndInv
<1>5. ASSUME pc' = "Recover", UNCHANGED dBlock, Rebuild(tip', dSide')
      PROVE  EndInv'
  BY <1>4, <1>5 DEF Rebuild
<1>6. CASE UNCHANGED vars
  BY <1>1, <1>6 DEF vars, store, memory
<1>7. CASE IntakeNext
  <2>1. ASSUME NEW b \in Blocks, ConnectTip(b) PROVE EndInv'
    BY <1>2, <2>1 DEF ConnectTip
  <2>2. ASSUME NEW b \in Blocks, NEW s \in Sources, AdmitSide(b, s) \/ ReplaceSide(b, s)
        PROVE  EndInv'
    BY <1>2, <2>2 DEF AdmitSide, ReplaceSide
  <2>3. CASE SaveConnected \/ VerifyConnected \/ PruneStale \/ PruneUndo
    BY <1>2, <2>3 DEF SaveConnected, VerifyConnected, PruneStale, PruneUndo
  <2>4. CASE SaveFromSync
    BY <1>1, <2>4 DEF SaveFromSync, memory
  <2> QED
    BY <1>7, <2>1, <2>2, <2>3, <2>4 DEF IntakeNext
<1>8. CASE ExecutorNext
  <2>1. ASSUME NEW t, Settle(t) \/ Halt PROVE pc' \in {"Idle", "Fatal"}
    BY <2>1 DEF Settle, Halt
  <2>2. CASE SkipActivation \/ DeferActivation \/ Abandon \/ PromoteFails
    BY <1>2, <2>1, <2>2 DEF SkipActivation, DeferActivation, Abandon, PromoteFails
  <2>3. CASE ClearBlockers
    BY <1>2, <2>3 DEF ClearBlockers
  <2>4. CASE Prepare
    BY <1>3, <2>4, Typed DEF Prepare, NoReorg, TypeInv, TypeOK, Plans
  <2>5. CASE BeginExecution
    BY <1>2, <1>3, <2>5 DEF BeginExecution, store, EndInv
  <2>6. CASE DisconnectTip
    BY <1>3, <2>6, Typed DEF DisconnectTip, RollbackBatch, Progress, Marker, EndInv
  <2>7. CASE DisconnectFails
    BY <1>2, <2>1, <2>7 DEF DisconnectFails
  <2>8. CASE PromoteNext
    BY <1>3, <2>8 DEF PromoteNext, PromoteBatch, EndInv
  <2>9. CASE SavePromoted
    BY <1>3, <2>9, Typed DEF SavePromoted, PublishPromoted, Progress, Marker, EndInv
  <2>10. CASE VerifyPromoted
    <3>1. CASE Halt
      BY <1>2, <2>1, <3>1
    <3>2. CASE pc' = AfterPromotion
      BY <1>3, <2>10, <3>2 DEF VerifyPromoted, AfterPromotion, store, EndInv
    <3> QED
      BY <2>10, <3>1, <3>2 DEF VerifyPromoted
  <2>11. CASE FinishReorg
    BY <1>2, <2>1, <2>11 DEF FinishReorg
  <2> QED
    BY <1>8, <2>2, <2>3, <2>4, <2>5, <2>6, <2>7, <2>8, <2>9, <2>10, <2>11 DEF ExecutorNext
<1>9. CASE RecoveryNext
  <2>1. CASE Boot
    <3>1. CASE Refuse
      BY <1>2, <3>1 DEF Refuse
    <3>2. ASSUME NEW t, tip' = t, Rebuild(t, dSide), pc' = "BootPending",
                 NEW deleted, deleted \subseteq Purged(Reloaded(t, dSide, dBlock)),
                 dSide' = Only(dSide, Blocks \ deleted),
                 dBlock' = dBlock \ (deleted \ Anc[t]), dReorg' = dReorg
          PROVE  EndInv'
      <4>1. SUFFICES ASSUME Moving(dReorg)
                     PROVE  side' = Only(dSide', Reloaded(tip', dSide', dBlock'))
        BY <1>4, <3>2
      <4>2. deleted = {}
        BY <3>2, <4>1 DEF Purged, Moving, NoReorg
      <4>3. dBlock' = dBlock
        BY <3>2, <4>2
      <4>4. dSide' = dSide
        BY <3>2, <4>2, Typed DEF Only
      <4> QED
        BY <3>2, <4>3, <4>4 DEF Rebuild
    <3>3. CASE \E t \in Blocks : Loads(t)
      <4>1. PICK t \in Blocks :
              /\ tip' = t /\ Rebuild(t, dSide)
              /\ \E deleted \in {Purged(Reloaded(t, dSide, dBlock)), {}} :
                   /\ dSide' = Only(dSide, Blocks \ deleted)
                   /\ dBlock' = dBlock \ (deleted \ Anc[t])
              /\ pc' = "BootPending" /\ dReorg' = dReorg
        BY <2>1, <3>3 DEF Boot
      <4>2. PICK deleted \in {Purged(Reloaded(t, dSide, dBlock)), {}} :
              /\ dSide' = Only(dSide, Blocks \ deleted)
              /\ dBlock' = dBlock \ (deleted \ Anc[t])
        BY <4>1
      <4>3. deleted \subseteq Purged(Reloaded(t, dSide, dBlock))
        BY <4>2
      <4> QED
        BY <3>2, <4>1, <4>2, <4>3
    <3> QED
      BY <2>1, <3>1, <3>3 DEF Boot
  <2>2. CASE RecoverPending
    <3>1. CASE Refuse
      BY <1>2, <3>1 DEF Refuse
    <3>2. CASE PublishesPending /\ pc' = "BootReorg" /\ dReorg' = dReorg
      BY <1>4, <3>2 DEF PublishesPending, Moving, NoReorg
    <3>3. CASE pc = "BootPending" /\ pc' = "BootReorg" /\ UNCHANGED <<store, tip, side>>
      BY <1>4, <3>3 DEF EndInv, store
    <3> QED
      BY <2>2, <3>1, <3>2, <3>3 DEF RecoverPending
  <2>3. CASE RecoverMarker
    <3>1. CASE pc' \in {"Reconcile", "Fatal"}
      BY <1>2, <3>1
    <3>2. CASE pc = "BootReorg" /\ pc' = "Recover" /\ UNCHANGED <<dReorg, dSide, dBlock, memory>>
      BY <1>4, <3>2 DEF EndInv, memory
    <3> QED
      BY <2>3, <3>1, <3>2 DEF RecoverMarker, Refuse
  <2>4. CASE RecoverDisconnect
    <3>1. dSide' = [dSide EXCEPT ![tip] = Local] /\ tip' = Parent[tip] /\ dBlock' = dBlock
      BY <2>4 DEF RecoverDisconnect, RollbackBatch
    <3>2. Rebuild(tip', dSide') /\ pc' = "Recover"
      BY <2>4, <3>1 DEF RecoverDisconnect
    <3> QED
      BY <1>5, <3>1, <3>2
  <2>5. CASE RecoverSave
    BY <1>5, <2>5 DEF RecoverSave
  <2>6. CASE RecoverPublish
    BY <1>5, <2>6 DEF RecoverPublish
  <2>7. CASE RecoverConnect \/ RecoverFinalize
    BY <1>2, <2>7 DEF RecoverConnect, RecoverFinalize
  <2>8. CASE RecoverFails \/ Reconcile
    BY <1>2, <2>8 DEF RecoverFails, Reconcile, Refuse
  <2> QED
    BY <1>9, <2>1, <2>2, <2>3, <2>4, <2>5, <2>6, <2>7, <2>8 DEF RecoveryNext
<1>10. CASE LifeNext
  <2>1. CASE Crash \/ Exit \/ GiveUp
    BY <1>2, <2>1 DEF Crash, Exit, GiveUp, Lose
  <2>2. CASE BeginStop
    BY <1>1, <2>2 DEF BeginStop, store
  <2> QED
    BY <1>10, <2>1, <2>2 DEF LifeNext
<1> QED
  BY <1>6, <1>7, <1>8, <1>9, <1>10 DEF Next

\* The step that clears a moving marker.
LEMMA EndsComplete ==
    ASSUME TypeInv, NodeInv, EndInv, Next, Moving(dReorg), dReorg' = NoReorg
    PROVE  /\ dTip = dReorg.cand /\ dState = dTip /\ tip = dTip
           /\ \A b \in OldBranch : dSide[b] = Local /\ side'[b] = Local
<1>0. StoreInv /\ PhaseInv
  BY DEF NodeInv, PhaseInv
<1>1. dReorg' # dReorg /\ ~Moving(dReorg')
  BY DEF Moving, NoReorg
<1>2. CASE FinishReorg
  <2>1. Quiet /\ Marked /\ tip = plan.cand /\ dReorg.orig = plan.orig
    BY <1>0, <1>2 DEF FinishReorg, PhaseInv, ReorgInv, EndInv
  <2>2. /\ \A b \in Leaving(plan.orig, plan.cand) : dSide[b] = Local
        /\ side' = WithLocal(Leaving(plan.orig, plan.cand))
    BY <1>1, <1>2 DEF FinishReorg
  <2>3. OldBranch = Leaving(plan.orig, plan.cand) /\ OldBranch \subseteq Blocks
    BY <2>1, Typed, BranchFinite DEF Marked, OldBranch
  <2>4. \A b \in OldBranch : side'[b] = Local
    BY <2>2, <2>3 DEF WithLocal
  <2> QED
    BY <2>1, <2>2, <2>3, <2>4 DEF Quiet, Marked
<1>3. CASE RecoverFinalize
  <2>1. /\ MarkerShape /\ ~(dReorg.dd < Cardinality(OldBranch))
        /\ ~(dReorg.cd < Cardinality(NewBranch)) /\ PrefixAuthentic
        /\ pc = "Recover" /\ Rebuild(tip, dSide) /\ pc' = "Reconcile"
        /\ UNCHANGED <<dState, dTip, tip>>
    <3>1. Verdict = "finalize" => PrefixAuthentic
      <4>1. CASE ~MarkerShape
        BY <4>1 DEF Verdict
      <4>2. CASE MarkerShape /\ Gap
        BY <4>2 DEF Verdict
      <4>3. CASE MarkerShape /\ ~Gap /\ ~PrefixAuthentic
        BY <4>3 DEF Verdict
      <4> QED
        BY <4>1, <4>2, <4>3
    <3> QED
      BY <1>3, <3>1, Verdicts DEF RecoverFinalize
  <2>2. tip = dReorg.cand /\ tip = dTip
    BY <1>0, <2>1, WhereItStopped
  <2>3. dState = dTip
    <3>1. NodeInv'
      BY <1>3, RecoveryKeeps DEF RecoveryNext
    <3> QED
      BY <2>1, <3>1 DEF NodeInv, ConnectInv, AtRest, Quiet
  <2>4. side' = side
    BY <2>1 DEF Rebuild, EndInv
  <2>5. ASSUME NEW b \in OldBranch PROVE dSide[b] = Local /\ side[b] = Local
    <3>1. dReorg.dd = Cardinality(OldBranch)
      BY <2>1, Typed, MarkerFields, BranchFinite DEF MarkerShape, OldBranch
    <3>2. Height[b] > Height[dReorg.orig] - dReorg.dd
      BY <3>1, Typed, MarkerFields, BranchHeights DEF OldBranch
    <3>3. Demoted(b)
      BY <2>1, <3>2 DEF PrefixAuthentic, Disconnected
    <3> QED
      BY <3>3 DEF Demoted
  <2> QED
    BY <2>2, <2>3, <2>4, <2>5
<1>4. ~IntakeNext /\ ~LifeNext
  BY <1>1 DEF IntakeNext, ConnectTip, SaveConnected, VerifyConnected, AdmitSide, ReplaceSide,
     PruneStale, PruneUndo, SaveFromSync, LifeNext, Crash, BeginStop, Exit, GiveUp, store
<1>5. ExecutorNext => FinishReorg
  <2>1. ~Abandon
    BY <1>0 DEF Abandon, PhaseInv, ReorgInv, Moving
  <2>2. ~DisconnectTip
    BY <1>1, Typed DEF DisconnectTip, RollbackBatch, Progress, Marker, Moving
  <2>3. ~SavePromoted
    BY <1>1, Typed DEF SavePromoted, PublishPromoted, Progress, Marker, Moving
  <2>4. ~Prepare
    BY DEF Prepare, Moving, NoReorg
  <2>5. /\ ~SkipActivation /\ ~DeferActivation /\ ~ClearBlockers /\ ~BeginExecution
        /\ ~DisconnectFails /\ ~PromoteNext /\ ~PromoteFails /\ ~VerifyPromoted
    BY <1>1 DEF SkipActivation, DeferActivation, ClearBlockers, BeginExecution,
       DisconnectFails, PromoteNext, PromoteBatch, PromoteFails, VerifyPromoted, store
  <2> QED
    BY <2>1, <2>2, <2>3, <2>4, <2>5 DEF ExecutorNext
<1>6. RecoveryNext => RecoverFinalize
  <2>1. ~Boot /\ ~RecoverPending /\ ~RecoverFails /\ ~Reconcile /\ ~RecoverConnect
    BY <1>1 DEF Boot, RecoverPending, RecoverFails, Reconcile, RecoverConnect, PromoteBatch, store
  <2>2. ~RecoverMarker
    BY <1>1 DEF RecoverMarker, Moving
  <2>3. ~RecoverDisconnect
    BY <1>1, Typed DEF RecoverDisconnect, RollbackBatch, Progress, Marker, Moving
  <2>4. ~RecoverSave /\ ~RecoverPublish
    BY <1>1, Typed DEF RecoverSave, RecoverPublish, PublishPromoted, Progress, Marker, Moving
  <2> QED
    BY <2>1, <2>2, <2>3, <2>4 DEF RecoveryNext
<1> QED
  BY <1>2, <1>3, <1>4, <1>5, <1>6 DEF Next

\* A reorg that has moved the store is over only when its candidate is the tip,
\* in the store and in memory, and the whole old branch is a durable local side
\* branch: ReorgEndsComplete of ChainNode, about finalizeCompletedReorgLocked and
\* the last step of the recovery.
THEOREM ReorgsEndComplete == Spec => ReorgEndsComplete
<1>1. Init => EndInv
  BY DEF Init, EndInv
<1>2. (TypeInv /\ NodeInv) /\ EndInv /\ [Next]_vars => EndInv'
  BY EndStep
<1>3. (TypeInv /\ NodeInv) /\ EndInv /\ [Next]_vars
        => [Moving(dReorg) /\ dReorg' = NoReorg =>
              /\ dTip = dReorg.cand /\ dState = dTip /\ tip = dTip
              /\ \A b \in OldBranch : dSide[b] = Local /\ side'[b] = Local]_vars
  BY EndsComplete
<1> QED
  BY <1>1, <1>2, <1>3, NodeAlways, PTL DEF Spec, ReorgEndsComplete

----------------------------------------------------------------------------
(* The evidence of a reorg is kept *)

\* Both branches of the marker m are stored; of the old one, what is still connected
\* has its journal and what was disconnected is a local side block.
Trail(m) ==
    /\ Leaving(m.orig, m.cand) \cup Joining(m.orig, m.cand) \subseteq dBlock
    /\ \A b \in Leaving(m.orig, m.cand) :
         IF b \in Anc[m.tip] THEN b \in dUndo ELSE dSide[b] = Local

TrailInv == dReorg.phase # "NONE" => Trail(dReorg)

\* Between a block and one of its ancestors there are as many blocks as heights.
LEMMA AncestorDistance ==
    ASSUME NEW a \in Blocks, NEW s \in Anc[a]
    PROVE  Cardinality(Leaving(a, s)) <= Height[a] - Height[s]
<1> DEFINE S == {x \in Blocks : \A y \in Anc[x] :
                    Cardinality(Leaving(x, y)) <= Height[x] - Height[y]}
<1>1. ASSUME NEW x \in Blocks PROVE Cardinality(Leaving(x, x)) <= Height[x] - Height[x]
  <2>1. Leaving(x, x) = {}
    BY DEF Leaving
  <2> QED
    BY <2>1, FS_EmptySet, Chains
<1>2. Genesis \in S
  BY <1>1, TreeShape, TreeTyping
<1>3. ASSUME NEW x \in NonGenesis, Parent[x] \in S PROVE x \in S
  <2> SUFFICES ASSUME NEW y \in Anc[x]
               PROVE  Cardinality(Leaving(x, y)) <= Height[x] - Height[y]
    BY ParentOf
  <2>1. CASE y = x
    BY <1>1, <2>1, ParentOf
  <2>2. CASE y \in Anc[Parent[x]]
    <3>1. y \in Blocks /\ Anc[y] \subseteq Anc[Parent[x]]
      BY <2>2, ParentOf, Chains, TreeClosure
    <3>2. /\ Leaving(x, y) = Leaving(Parent[x], y) \cup {x}
          /\ x \notin Leaving(Parent[x], y)
      BY <3>1, ParentOf DEF Leaving
    <3>3. /\ IsFiniteSet(Leaving(Parent[x], y)) /\ Cardinality(Leaving(Parent[x], y)) \in Nat
      BY <3>1, ParentOf, BranchFinite
    <3>4. Cardinality(Leaving(x, y)) = Cardinality(Leaving(Parent[x], y)) + 1
      BY <3>2, <3>3, FS_AddElement
    <3>5. Cardinality(Leaving(Parent[x], y)) <= Height[Parent[x]] - Height[y]
      BY <1>3, <2>2
    <3>6. /\ Height[x] = Height[Parent[x]] + 1 /\ Height[Parent[x]] \in Nat
          /\ Height[y] \in Nat
      BY <3>1, ParentOf, Chains
    <3> QED
      BY <3>3, <3>4, <3>5, <3>6
  <2> QED
    BY <2>1, <2>2, ParentOf
<1>4. Blocks \subseteq S
  <2> HIDE DEF S
  <2> QED
    BY <1>2, <1>3, BlockInduction
<1> QED
  BY <1>4

\* The blocks the marker counts as disconnected are those its tip has left.
LEMMA DisconnectedIs ==
    ASSUME TypeInv, MarkerCounts(dReorg), NEW b \in OldBranch
    PROVE  b \in Disconnected <=> b \notin Anc[dReorg.tip]
<1> DEFINE out == Leaving(dReorg.orig, dReorg.tip)
<1>1. /\ dReorg.orig \in Blocks /\ dReorg.tip \in Blocks
      /\ b \in Blocks /\ b \in Anc[dReorg.orig]
  BY Typed, MarkerFields, BranchFinite DEF OldBranch, Leaving
<1>2. /\ dReorg.dd = Cardinality(out) /\ Cardinality(out) \in Nat
      /\ Height[b] \in Nat /\ Height[dReorg.orig] \in Nat
  BY <1>1, BranchFinite, Chains DEF MarkerCounts
<1>3. ASSUME b \notin Anc[dReorg.tip] PROVE Height[b] > Height[dReorg.orig] - dReorg.dd
  <2>1. b \in out
    BY <1>1, <1>3 DEF Leaving
  <2> QED
    BY <1>1, <1>2, <2>1, BranchHeights
<1>4. ASSUME b \in Anc[dReorg.tip] PROVE ~(Height[b] > Height[dReorg.orig] - dReorg.dd)
  <2>1. Anc[b] \subseteq Anc[dReorg.tip]
    BY <1>1, <1>4, TreeClosure
  <2>2. out \subseteq Leaving(dReorg.orig, b)
    BY <2>1 DEF Leaving
  <2>3. Cardinality(out) <= Cardinality(Leaving(dReorg.orig, b))
    BY <1>1, <2>2, BranchFinite, FS_Subset
  <2>4. Cardinality(Leaving(dReorg.orig, b)) <= Height[dReorg.orig] - Height[b]
    BY <1>1, AncestorDistance
  <2>5. Cardinality(Leaving(dReorg.orig, b)) \in Nat
    BY <1>1, BranchFinite
  <2> QED
    BY <1>2, <2>3, <2>4, <2>5
<1> QED
  BY <1>3, <1>4 DEF Disconnected

\* A marker that stays keeps its trail when nothing of the old branch is touched.
LEMMA TrailKept ==
    ASSUME TrailInv, dReorg' = dReorg, dBlock \subseteq dBlock', dUndo \subseteq dUndo',
           \A b \in OldBranch : dSide'[b] = dSide[b]
    PROVE  TrailInv'
BY DEF TrailInv, Trail, OldBranch

\* So it does when the tip above the fork is disconnected ...
LEMMA TrailDown ==
    ASSUME TypeInv, MarkerCounts(dReorg), TrailInv, dReorg.phase # "NONE",
           dReorg.tip = tip, tip \in NonGenesis, tip \notin Anc[dReorg.cand], RollbackBatch
    PROVE  TrailInv'
<1>1. /\ dReorg'.orig = dReorg.orig /\ dReorg'.cand = dReorg.cand /\ dReorg'.tip = Parent[tip]
      /\ dBlock' = dBlock /\ dUndo' = dUndo
      /\ \A b \in Blocks : dSide'[b] = IF b = tip THEN Local ELSE dSide[b]
  BY Typed DEF RollbackBatch, Progress, Marker
<1>2. Trail(dReorg) /\ OldBranch \subseteq Blocks
  BY Typed, MarkerFields, BranchFinite DEF TrailInv, OldBranch
<1>3. Anc[tip] = Anc[Parent[tip]] \cup {tip} /\ tip \notin Anc[Parent[tip]]
  BY ParentOf
<1>4. ASSUME NEW b \in OldBranch
      PROVE  IF b \in Anc[Parent[tip]] THEN b \in dUndo' ELSE dSide'[b] = Local
  BY <1>1, <1>2, <1>3 DEF Trail, OldBranch
<1> QED
  BY <1>1, <1>2, <1>4 DEF TrailInv, Trail, OldBranch

\* ... and when the next candidate is published.
LEMMA TrailUp ==
    ASSUME TypeInv, TrailInv, dReorg.phase # "NONE",
           NEW b \in NewBranch, b \in NonGenesis, Parent[b] = dReorg.tip, NEW dd, NEW cd,
           dReorg' = Progress(dReorg, "CONNECT_PUBLISHED", dd, cd, b),
           UNCHANGED <<dBlock, dSide, dUndo>>
    PROVE  TrailInv'
<1>1. dReorg'.orig = dReorg.orig /\ dReorg'.cand = dReorg.cand /\ dReorg'.tip = b
  BY Typed DEF Progress, Marker
<1>2. Trail(dReorg)
  BY DEF TrailInv
<1>3. \A c \in OldBranch : c \in Anc[b] <=> c \in Anc[dReorg.tip]
  BY ParentOf DEF OldBranch, NewBranch, Leaving, Joining
<1> QED
  BY <1>1, <1>2, <1>3 DEF TrailInv, Trail, OldBranch

\* The promotion of a new block touches nothing of the old branch.
LEMMA TrailPromoted ==
    ASSUME TypeInv, TrailInv, NEW b \in Anc[dReorg.cand], PromoteBatch(b)
    PROVE  TrailInv'
<1>1. /\ dReorg' = dReorg /\ dBlock \subseteq dBlock' /\ dUndo \subseteq dUndo'
      /\ \A c \in Blocks : c # b => dSide'[c] = dSide[c]
  BY Typed DEF PromoteBatch, SidesWithout
<1>2. \A c \in OldBranch : c \in Blocks /\ c # b
  BY Typed, MarkerFields, Chains DEF OldBranch, Leaving
<1> QED
  BY <1>1, <1>2, TrailKept

\* Every step keeps the trail.
LEMMA TrailStep ==
    ASSUME TypeInv, NodeInv, TrailInv, [Next]_vars
    PROVE  TrailInv'
<1>0. StoreInv /\ PhaseInv
  BY DEF NodeInv, PhaseInv
<1>1. ASSUME UNCHANGED <<dReorg, dBlock, dSide, dUndo>> PROVE TrailInv'
  BY <1>1, TrailKept
<1>2. ASSUME dReorg' = NoReorg PROVE TrailInv'
  BY <1>2 DEF TrailInv, NoReorg
<1>3. dReorg.phase # "NONE" => MarkerCounts(dReorg)
  BY <1>0 DEF StoreInv, MarkerInv
<1>4. ASSUME InGap, dBlock' = dBlock, dSide' = dSide, dUndo' = dUndo, PublishPromoted
      PROVE  TrailInv'
  <2>1. tip \in NewBranch /\ tip \in NonGenesis /\ Parent[tip] = dReorg.tip
    BY <1>4 DEF InGap, Ahead
  <2>2. dReorg.phase # "NONE"
    BY <1>4 DEF InGap, Moving
  <2> QED
    BY <1>4, <2>1, <2>2, TrailUp DEF PublishPromoted
<1>5. CASE UNCHANGED vars
  BY <1>1, <1>5 DEF vars, store
<1>6. CASE IntakeNext
  <2>1. ASSUME NEW b \in Blocks, NEW s \in Sources,
               ConnectTip(b) \/ AdmitSide(b, s) \/ ReplaceSide(b, s)
        PROVE  TrailInv'
    <3>1. dReorg = NoReorg /\ dReorg' = dReorg
      BY <1>0, <2>1 DEF ConnectTip, AdmitSide, ReplaceSide, SideAdmissible, Accepting,
         PhaseInv, ConnectInv, AtRest
    <3> QED
      BY <1>2, <3>1
  <2>2. CASE PruneStale \/ PruneUndo
    <3>1. dReorg = NoReorg /\ dReorg' = dReorg
      BY <1>0, <2>2 DEF PruneStale, PruneUndo, PhaseInv, ConnectInv, AtRest
    <3> QED
      BY <1>2, <3>1
  <2>3. CASE SaveConnected \/ VerifyConnected \/ SaveFromSync
    BY <1>1, <2>3 DEF SaveConnected, VerifyConnected, SaveFromSync, store
  <2>4. Local \in Sources
    BY DEF Sources
  <2> QED
    BY <1>6, <2>1, <2>2, <2>3, <2>4 DEF IntakeNext
<1>7. CASE ExecutorNext
  <2>1. CASE \/ SkipActivation \/ DeferActivation \/ BeginExecution
             \/ DisconnectFails \/ PromoteFails \/ VerifyPromoted
    BY <1>1, <2>1 DEF SkipActivation, DeferActivation, BeginExecution, DisconnectFails,
       PromoteFails, VerifyPromoted, store
  <2>2. CASE ClearBlockers
    BY <1>2, <2>2 DEF ClearBlockers
  <2>3. CASE Prepare
    <3>1. /\ dReorg'.orig = tip /\ dReorg'.cand = plan.cand /\ dReorg'.tip = tip
          /\ dBlock' = dBlock /\ dUndo' = dUndo /\ PlanDurable(plan.cand)
      BY <2>3 DEF Prepare, PreflightPasses, NoReorg
    <3> QED
      BY <3>1 DEF TrailInv, Trail, PlanDurable, Leaving
  <2>4. CASE Abandon \/ FinishReorg
    BY <1>1, <1>2, <2>4 DEF Abandon, FinishReorg
  <2>5. CASE DisconnectTip
    <3>1. /\ RollbackBatch /\ tip \in NonGenesis /\ dReorg.tip = tip
          /\ dReorg.phase # "NONE" /\ tip \notin Anc[dReorg.cand]
      BY <1>0, <2>5, Typed DEF DisconnectTip, CanRollback, NonGenesis, PhaseInv, ReorgInv, Marked
    <3> QED
      BY <1>3, <3>1, TrailDown
  <2>6. CASE PromoteNext
    <3>1. /\ tip \in Anc[plan.cand] \ {plan.cand} /\ dReorg.cand = plan.cand
          /\ PromoteBatch(NextOf(plan.cand))
      BY <1>0, <2>6 DEF PromoteNext, PhaseInv, ReorgInv, Marked
    <3>2. NextOf(plan.cand) \in Anc[dReorg.cand]
      BY <3>1, Typed, NextOfIs
    <3> QED
      BY <3>1, <3>2, TrailPromoted
  <2>7. CASE SavePromoted
    <3>1. InGap /\ dBlock' = dBlock /\ dSide' = dSide /\ dUndo' = dUndo
      BY <1>0, <2>7 DEF SavePromoted, PhaseInv, ReorgInv
    <3> QED
      BY <1>1, <1>4, <2>7, <3>1 DEF SavePromoted
  <2> QED
    BY <1>7, <2>1, <2>2, <2>3, <2>4, <2>5, <2>6, <2>7 DEF ExecutorNext
<1>8. CASE RecoveryNext
  <2>1. CASE Boot
    <3>1. CASE dReorg = NoReorg
      BY <1>2, <2>1, <3>1 DEF Boot
    <3>2. CASE dReorg # NoReorg
      <4>1. \A kept : Purged(kept) = {}
        BY <3>2 DEF Purged
      <4>2. Only(dSide, Blocks \ {}) = dSide
        BY Typed DEF Only
      <4>3. ASSUME \E t \in Blocks : Loads(t) PROVE dSide' = dSide /\ dBlock' = dBlock
        <5>1. PICK t \in Blocks :
                \E deleted \in {Purged(Reloaded(t, dSide, dBlock)), {}} :
                  /\ dSide' = Only(dSide, Blocks \ deleted)
                  /\ dBlock' = dBlock \ (deleted \ Anc[t])
          BY <2>1, <4>3 DEF Boot
        <5> QED
          BY <4>1, <4>2, <5>1
      <4> QED
        BY <1>1, <2>1, <4>3 DEF Boot
    <3> QED
      BY <3>1, <3>2
  <2>2. CASE RecoverPending \/ RecoverFails \/ Reconcile
    BY <1>1, <2>2 DEF RecoverPending, RecoverFails, Reconcile, store
  <2>3. CASE RecoverMarker \/ RecoverFinalize
    BY <1>1, <1>2, <2>3 DEF RecoverMarker, RecoverFinalize
  <2>4. pc = "Recover" => Moving(dReorg) /\ dReorg.phase # "NONE"
    BY <1>0 DEF PhaseInv, StartInv, Moving
  <2>5. CASE RecoverDisconnect
    <3>1. /\ RollbackBatch /\ tip \in NonGenesis /\ Moving(dReorg) /\ dReorg.phase # "NONE"
          /\ MarkerShape /\ dReorg.dd < Cardinality(OldBranch)
      BY <2>4, <2>5, Typed, Verdicts DEF RecoverDisconnect, CanRollback, NonGenesis
    <3>2. dReorg.tip = tip /\ tip \notin Anc[dReorg.cand]
      BY <1>0, <3>1, WhereItStopped
    <3> QED
      BY <1>3, <3>1, <3>2, TrailDown
  <2>6. CASE RecoverConnect
    <3>1. /\ PromoteBatch(NextOf(dReorg.cand)) /\ Moving(dReorg) /\ MarkerShape
          /\ ~(dReorg.dd < Cardinality(OldBranch)) /\ dReorg.cd < Cardinality(NewBranch)
      BY <2>4, <2>6, Verdicts DEF RecoverConnect
    <3>2. tip \in Anc[dReorg.cand] \ {dReorg.cand}
      BY <1>0, <3>1, WhereItStopped
    <3>3. NextOf(dReorg.cand) \in Anc[dReorg.cand]
      BY <3>2, Typed, MarkerFields, NextOfIs
    <3> QED
      BY <3>1, <3>3, TrailPromoted
  <2>7. CASE RecoverSave
    <3>1. InGap /\ dBlock' = dBlock /\ dSide' = dSide /\ dUndo' = dUndo /\ PublishPromoted
      BY <1>0, <2>7 DEF RecoverSave, PhaseInv, StartInv
    <3> QED
      BY <1>4, <3>1
  <2>8. CASE RecoverPublish
    <3>1. /\ Moving(dReorg) /\ dReorg.phase # "NONE" /\ MarkerShape /\ Gap
          /\ dReorg' = Progress(dReorg, "CONNECT_PUBLISHED", dReorg.dd, dReorg.cd + 1,
                                NextOf(dReorg.cand))
          /\ UNCHANGED <<dBlock, dSide, dUndo>>
      BY <2>4, <2>8, Verdicts DEF RecoverPublish
    <3>2. ~(dReorg.dd < Cardinality(OldBranch)) /\ dReorg.cd < Cardinality(NewBranch)
      BY <3>1, Typed, MarkerFields, BranchFinite DEF Gap, OldBranch
    <3>3. tip \in Anc[dReorg.cand] \ {dReorg.cand} /\ dReorg.tip = tip
      BY <1>0, <3>1, <3>2, WhereItStopped
    <3>4. /\ NextOf(dReorg.cand) \in NonGenesis /\ NextOf(dReorg.cand) \in Anc[dReorg.cand]
          /\ Parent[NextOf(dReorg.cand)] = dReorg.tip
      BY <3>3, Typed, MarkerFields, NextOfIs
    <3>5. NextOf(dReorg.cand) \in NewBranch
      BY <1>3, <3>1, <3>4, Typed, NextIsNew DEF NewBranch
    <3> QED
      BY <3>1, <3>4, <3>5, TrailUp
  <2> QED
    BY <1>8, <2>1, <2>2, <2>3, <2>5, <2>6, <2>7, <2>8 DEF RecoveryNext
<1>9. CASE LifeNext
  BY <1>1, <1>9 DEF LifeNext, Crash, BeginStop, Exit, GiveUp, store
<1> QED
  BY <1>5, <1>6, <1>7, <1>8, <1>9 DEF Next

\* While a reorg has moved the store both branches stay stored, the connected part of
\* the old one keeps its journals and the disconnected part its side records, whatever
\* is pruned, purged or lost: EvidenceKept of ChainNode, about what the batches, the
\* maintenance and the purge of a start delete.
THEOREM EvidenceStays == Spec => []EvidenceKept
<1>1. Init => TrailInv
  BY DEF Init, TrailInv, NoReorg
<1>2. (TypeInv /\ NodeInv) /\ TrailInv /\ [Next]_vars => TrailInv'
  BY TrailStep
<1>3. TypeInv /\ NodeInv /\ TrailInv => EvidenceKept
  <2> SUFFICES ASSUME TypeInv, NodeInv, TrailInv, Moving(dReorg) PROVE EvidenceKept
    BY DEF EvidenceKept
  <2>1. Trail(dReorg) /\ MarkerCounts(dReorg)
    BY DEF Moving, TrailInv, NodeInv, StoreInv, MarkerInv
  <2>2. \A b \in OldBranch : b \in Disconnected <=> b \notin Anc[dReorg.tip]
    BY <2>1, DisconnectedIs
  <2>3. Disconnected \subseteq OldBranch
    BY DEF Disconnected
  <2> QED
    BY <2>1, <2>2, <2>3 DEF Trail, EvidenceKept, OldBranch, NewBranch
<1> QED
  BY <1>1, <1>2, <1>3, NodeAlways, PTL DEF Spec

----------------------------------------------------------------------------
(* The counters of the side pool *)

\* The side blocks a counter counts.
KidsIn(s, b) == {c \in OwnedIn(s) : c # Genesis /\ Parent[c] = b}
OwnedBy(s, o) == {c \in Blocks : s[c] = o}
KidsOwned(s, o, b) == {c \in KidsIn(s, b) : s[c] = o}

LEMMA CountersAre ==
    ASSUME NEW s
    PROVE  CountersOf(s) =
             [total  |-> Cardinality(OwnedIn(s)),
              kids   |-> [b \in Blocks |-> Cardinality(KidsIn(s, b))],
              of     |-> [o \in Sources |-> Cardinality(OwnedBy(s, o))],
              kidsOf |-> [o \in Sources |-> [b \in Blocks |-> Cardinality(KidsOwned(s, o, b))]]]
BY DEF CountersOf, KidsIn, OwnedBy, KidsOwned

LEMMA CardinalitySplits ==
    ASSUME NEW P \in SUBSET Blocks, NEW A, NEW B, A \cap B = {}, P \subseteq A \cup B
    PROVE  Cardinality(P) = Cardinality(P \cap A) + Cardinality(P \cap B)
<1>1. IsFiniteSet(P \cap A) /\ IsFiniteSet(P \cap B)
  BY FS_Subset, TreeTyping DEF TreeTyping
<1>2. (P \cap A) \cup (P \cap B) = P /\ (P \cap A) \cap (P \cap B) = {}
  OBVIOUS
<1>3. Cardinality((P \cap A) \cap (P \cap B)) = 0
  BY <1>2, FS_EmptySet
<1>4. Cardinality((P \cap A) \cup (P \cap B)) =
        Cardinality(P \cap A) + Cardinality(P \cap B) - Cardinality((P \cap A) \cap (P \cap B))
  BY <1>1, FS_Union
<1>5. Cardinality(P \cap A) \in Nat /\ Cardinality(P \cap B) \in Nat
  BY <1>1, FS_CardinalityType
<1> QED
  BY <1>2, <1>3, <1>4, <1>5

\* What a restricted map owns.
LEMMA OnlyOwns ==
    ASSUME NEW s \in SideMaps, NEW A \in SUBSET Blocks
    PROVE  /\ OwnedIn(Only(s, A)) = OwnedIn(s) \cap A
           /\ \A b : KidsIn(Only(s, A), b) = KidsIn(s, b) \cap A
           /\ \A o \in Sources : OwnedBy(Only(s, A), o) = OwnedBy(s, o) \cap A
           /\ \A o \in Sources : \A b : KidsOwned(Only(s, A), o, b) = KidsOwned(s, o, b) \cap A
<1>1. OwnedIn(Only(s, A)) = OwnedIn(s) \cap A
  BY DEF OwnedIn, Only
<1>2. \A b : KidsIn(Only(s, A), b) = KidsIn(s, b) \cap A
  BY <1>1 DEF KidsIn
<1>3. \A o \in Sources : OwnedBy(Only(s, A), o) = OwnedBy(s, o) \cap A
  BY PolicyAssumption DEF PolicyAssumption, OwnedBy, Only
<1>4. ASSUME NEW o \in Sources, NEW b
      PROVE  KidsOwned(Only(s, A), o, b) = KidsOwned(s, o, b) \cap A
  <2>1. \A c \in A : Only(s, A)[c] = s[c]
    BY DEF Only
  <2> QED
    BY <1>2, <2>1 DEF KidsOwned
<1> QED
  BY <1>1, <1>2, <1>3, <1>4

\* The counters of a map are those of its two halves.
LEMMA CountersSplit ==
    ASSUME NEW s \in SideMaps, NEW A \in SUBSET Blocks, NEW B \in SUBSET Blocks,
           A \cap B = {}, OwnedIn(s) \subseteq A \cup B
    PROVE  CountersOf(s) = Plus(CountersOf(Only(s, A)), CountersOf(Only(s, B)))
<1>0. \A P \in SUBSET Blocks : P \subseteq A \cup B =>
        Cardinality(P) = Cardinality(P \cap A) + Cardinality(P \cap B)
  BY CardinalitySplits
<1>1. Cardinality(OwnedIn(s)) =
        Cardinality(OwnedIn(Only(s, A))) + Cardinality(OwnedIn(Only(s, B)))
  <2>1. OwnedIn(s) \in SUBSET Blocks
    BY DEF OwnedIn
  <2> QED
    BY <1>0, <2>1, OnlyOwns
<1>2. ASSUME NEW b
      PROVE  Cardinality(KidsIn(s, b)) =
               Cardinality(KidsIn(Only(s, A), b)) + Cardinality(KidsIn(Only(s, B), b))
  <2>1. KidsIn(s, b) \in SUBSET Blocks /\ KidsIn(s, b) \subseteq A \cup B
    BY DEF OwnedIn, KidsIn
  <2> QED
    BY <1>0, <2>1, OnlyOwns
<1>3. ASSUME NEW o \in Sources
      PROVE  Cardinality(OwnedBy(s, o)) =
               Cardinality(OwnedBy(Only(s, A), o)) + Cardinality(OwnedBy(Only(s, B), o))
  <2>1. OwnedBy(s, o) \in SUBSET Blocks /\ OwnedBy(s, o) \subseteq A \cup B
    BY PolicyAssumption DEF PolicyAssumption, OwnedIn, OwnedBy
  <2> QED
    BY <1>0, <2>1, OnlyOwns
<1>4. ASSUME NEW o \in Sources, NEW b
      PROVE  Cardinality(KidsOwned(s, o, b)) =
               Cardinality(KidsOwned(Only(s, A), o, b)) + Cardinality(KidsOwned(Only(s, B), o, b))
  <2>1. KidsOwned(s, o, b) \in SUBSET Blocks /\ KidsOwned(s, o, b) \subseteq A \cup B
    BY DEF OwnedIn, KidsIn, KidsOwned
  <2> QED
    BY <1>0, <2>1, OnlyOwns
<1> QED
  BY <1>1, <1>2, <1>3, <1>4, CountersAre DEF Plus

\* What one block counts.
One(b, s) ==
    [total  |-> 1,
     kids   |-> [p \in Blocks |-> IF p = Parent[b] THEN 1 ELSE 0],
     of     |-> [o \in Sources |-> IF o = s THEN 1 ELSE 0],
     kidsOf |-> [o \in Sources |-> [p \in Blocks |-> IF o = s /\ p = Parent[b] THEN 1 ELSE 0]]]

LEMMA CountersOfOne ==
    ASSUME NEW s \in SideMaps, NEW b \in NonGenesis, s[b] \in Sources
    PROVE  CountersOf(Only(s, {b})) = One(b, s[b])
<1> DEFINE m == Only(s, {b})
<1>1. OwnedIn(m) = {b} /\ b # Genesis /\ m[b] = s[b]
  BY PolicyAssumption DEF PolicyAssumption, OwnedIn, Only, NonGenesis
<1>2. \A p : KidsIn(m, p) = IF p = Parent[b] THEN {b} ELSE {}
  BY <1>1 DEF KidsIn
<1>3. ASSUME NEW o \in Sources PROVE OwnedBy(m, o) = IF o = s[b] THEN {b} ELSE {}
  BY <1>1, PolicyAssumption DEF PolicyAssumption, OwnedBy, OwnedIn
<1>4. ASSUME NEW o \in Sources, NEW p
      PROVE  KidsOwned(m, o, p) = IF o = s[b] /\ p = Parent[b] THEN {b} ELSE {}
  BY <1>1, <1>2 DEF KidsOwned
<1>5. Cardinality({b}) = 1 /\ Cardinality({}) = 0
  BY FS_Singleton, FS_EmptySet
<1> HIDE DEF m
<1> QED
  BY <1>1, <1>2, <1>3, <1>4, <1>5, CountersAre DEF One, m

\* Counting a block in adds it, counting it out subtracts it.
LEMMA CountInAdds ==
    ASSUME NEW c \in Counters, NEW b \in NonGenesis, NEW s \in Sources
    PROVE  CountIn(c, b, s) = Plus(c, One(b, s))
<1> DEFINE p == Parent[b]
           kids == [c.kids EXCEPT ![p] = c.kids[p] + 1]
           of == [c.of EXCEPT ![s] = c.of[s] + 1]
           row == [c.kidsOf[s] EXCEPT ![p] = c.kidsOf[s][p] + 1]
           kidsOf == [c.kidsOf EXCEPT ![s] = row]
<1>1. p \in Blocks
  BY TreeTyping DEF TreeTyping
<1>2. /\ c.kids \in [Blocks -> Int] /\ c.of \in [Sources -> Int] /\ c.total \in Int
      /\ c.kidsOf \in [Sources -> [Blocks -> Int]] /\ c.kidsOf[s] \in [Blocks -> Int]
  BY DEF Counters
<1>3. kids = [q \in Blocks |-> c.kids[q] + One(b, s).kids[q]]
  BY <1>1, <1>2 DEF One
<1>4. of = [o \in Sources |-> c.of[o] + One(b, s).of[o]]
  BY <1>2 DEF One
<1>5. ASSUME NEW o \in Sources
      PROVE  kidsOf[o] = [q \in Blocks |-> c.kidsOf[o][q] + One(b, s).kidsOf[o][q]]
  <2>1. One(b, s).kidsOf[o] = [q \in Blocks |-> IF o = s /\ q = p THEN 1 ELSE 0]
    BY DEF One
  <2>2. CASE o = s
    <3>1. kidsOf[o] = row
      BY <1>2, <2>2
    <3> QED
      BY <1>1, <1>2, <2>1, <2>2, <3>1
  <2>3. CASE o # s
    <3>1. kidsOf[o] = c.kidsOf[o] /\ c.kidsOf[o] \in [Blocks -> Int]
      BY <1>2, <2>3
    <3>2. \A q \in Blocks : c.kidsOf[o][q] + One(b, s).kidsOf[o][q] = c.kidsOf[o][q]
      BY <2>1, <2>3, <3>1
    <3> QED
      BY <3>1, <3>2
  <2> QED
    BY <2>2, <2>3
<1>6. kidsOf = [o \in Sources |-> [q \in Blocks |-> c.kidsOf[o][q] + One(b, s).kidsOf[o][q]]]
  <2>1. kidsOf = [o \in Sources |-> kidsOf[o]]
    BY <1>2
  <2> HIDE DEF kidsOf
  <2> QED
    BY <1>5, <2>1
<1>7. CountIn(c, b, s) =
        [total |-> c.total + 1, kids |-> kids, of |-> of, kidsOf |-> kidsOf]
  <2>1. CountIn(c, b, s) = [c EXCEPT !.total = c.total + 1, !.kids = kids, !.of = of,
                                     !.kidsOf = kidsOf]
    BY DEF CountIn, Counters
  <2> HIDE DEF kids, of, kidsOf
  <2> QED
    BY <2>1 DEF Counters
<1>8. One(b, s).total = 1
  BY DEF One
<1> HIDE DEF kids, of, kidsOf
<1> QED
  BY <1>3, <1>4, <1>6, <1>7, <1>8 DEF Plus

LEMMA CountOutSubtracts ==
    ASSUME NEW c \in Counters, NEW b \in NonGenesis, NEW s \in Sources
    PROVE  CountOut(c, b, s) = Minus(c, One(b, s))
<1> DEFINE p == Parent[b]
           kids == [c.kids EXCEPT ![p] = c.kids[p] - 1]
           of == [c.of EXCEPT ![s] = c.of[s] - 1]
           row == [c.kidsOf[s] EXCEPT ![p] = c.kidsOf[s][p] - 1]
           kidsOf == [c.kidsOf EXCEPT ![s] = row]
<1>1. p \in Blocks
  BY TreeTyping DEF TreeTyping
<1>2. /\ c.kids \in [Blocks -> Int] /\ c.of \in [Sources -> Int] /\ c.total \in Int
      /\ c.kidsOf \in [Sources -> [Blocks -> Int]] /\ c.kidsOf[s] \in [Blocks -> Int]
  BY DEF Counters
<1>3. kids = [q \in Blocks |-> c.kids[q] - One(b, s).kids[q]]
  BY <1>1, <1>2 DEF One
<1>4. of = [o \in Sources |-> c.of[o] - One(b, s).of[o]]
  BY <1>2 DEF One
<1>5. ASSUME NEW o \in Sources
      PROVE  kidsOf[o] = [q \in Blocks |-> c.kidsOf[o][q] - One(b, s).kidsOf[o][q]]
  <2>1. One(b, s).kidsOf[o] = [q \in Blocks |-> IF o = s /\ q = p THEN 1 ELSE 0]
    BY DEF One
  <2>2. CASE o = s
    <3>1. kidsOf[o] = row
      BY <1>2, <2>2
    <3> QED
      BY <1>1, <1>2, <2>1, <2>2, <3>1
  <2>3. CASE o # s
    <3>1. kidsOf[o] = c.kidsOf[o] /\ c.kidsOf[o] \in [Blocks -> Int]
      BY <1>2, <2>3
    <3>2. \A q \in Blocks : c.kidsOf[o][q] - One(b, s).kidsOf[o][q] = c.kidsOf[o][q]
      BY <2>1, <2>3, <3>1
    <3> QED
      BY <3>1, <3>2
  <2> QED
    BY <2>2, <2>3
<1>6. kidsOf = [o \in Sources |-> [q \in Blocks |-> c.kidsOf[o][q] - One(b, s).kidsOf[o][q]]]
  <2>1. kidsOf = [o \in Sources |-> kidsOf[o]]
    BY <1>2
  <2> HIDE DEF kidsOf
  <2> QED
    BY <1>5, <2>1
<1>7. CountOut(c, b, s) =
        [total |-> c.total - 1, kids |-> kids, of |-> of, kidsOf |-> kidsOf]
  <2>1. CountOut(c, b, s) = [c EXCEPT !.total = c.total - 1, !.kids = kids, !.of = of,
                                      !.kidsOf = kidsOf]
    BY DEF CountOut, Counters
  <2> HIDE DEF kids, of, kidsOf
  <2> QED
    BY <2>1 DEF Counters
<1>8. One(b, s).total = 1
  BY DEF One
<1> HIDE DEF kids, of, kidsOf
<1> QED
  BY <1>3, <1>4, <1>6, <1>7, <1>8 DEF Minus

LEMMA MinusUndoes ==
    ASSUME NEW c \in Counters, NEW d \in Counters
    PROVE  Minus(Plus(c, d), d) = c
<1>1. \A m, n \in Int : (m + n) - n = m
  OBVIOUS
<1>2. /\ c.total \in Int /\ d.total \in Int
      /\ c.kids \in [Blocks -> Int] /\ d.kids \in [Blocks -> Int]
      /\ c.of \in [Sources -> Int] /\ d.of \in [Sources -> Int]
      /\ c.kidsOf \in [Sources -> [Blocks -> Int]] /\ d.kidsOf \in [Sources -> [Blocks -> Int]]
      /\ c = [total |-> c.total, kids |-> c.kids, of |-> c.of, kidsOf |-> c.kidsOf]
  BY DEF Counters
<1>3. Minus(Plus(c, d), d).kids = c.kids
  BY <1>2 DEF Minus, Plus
<1>4. Minus(Plus(c, d), d).of = c.of
  BY <1>2 DEF Minus, Plus
<1>5. ASSUME NEW o \in Sources PROVE Minus(Plus(c, d), d).kidsOf[o] = c.kidsOf[o]
  <2>1. c.kidsOf[o] \in [Blocks -> Int] /\ d.kidsOf[o] \in [Blocks -> Int]
    BY <1>2
  <2> QED
    BY <2>1 DEF Minus, Plus
<1>6. Minus(Plus(c, d), d).kidsOf = c.kidsOf
  <2>1. Minus(Plus(c, d), d).kidsOf = [o \in Sources |-> Minus(Plus(c, d), d).kidsOf[o]]
    BY DEF Minus
  <2> QED
    BY <1>2, <1>5, <2>1
<1>7. Minus(Plus(c, d), d).total = c.total
  BY <1>2 DEF Minus, Plus
<1>8. Minus(Plus(c, d), d) =
        [total |-> Minus(Plus(c, d), d).total, kids |-> Minus(Plus(c, d), d).kids,
         of |-> Minus(Plus(c, d), d).of, kidsOf |-> Minus(Plus(c, d), d).kidsOf]
  BY DEF Minus
<1> QED
  BY <1>2, <1>3, <1>4, <1>6, <1>7, <1>8

\* A block enters the map, or leaves it.
LEMMA CountsIn ==
    ASSUME NEW s \in SideMaps, NEW b \in NonGenesis, NEW o \in Sources, s[b] = NoSource
    PROVE  CountersOf([s EXCEPT ![b] = o]) = CountIn(CountersOf(s), b, o)
<1> DEFINE n == [s EXCEPT ![b] = o]
           A == Blocks \ {b}
<1>1. n \in SideMaps /\ n[b] = o
  BY OwnerType DEF SideMaps, NonGenesis
<1>2. Only(n, A) = s
  BY DEF Only, SideMaps
<1>3. A \in SUBSET Blocks /\ {b} \in SUBSET Blocks /\ A \cap {b} = {} /\ OwnedIn(n) \subseteq A \cup {b}
  BY DEF OwnedIn, NonGenesis
<1> HIDE DEF n, A
<1>4. CountersOf(n) = Plus(CountersOf(Only(n, A)), CountersOf(Only(n, {b})))
  BY <1>1, <1>3, CountersSplit
<1>5. CountersOf(Only(n, {b})) = One(b, o)
  BY <1>1, CountersOfOne
<1> QED
  BY <1>2, <1>4, <1>5, CountInAdds, CountersOfType DEF n

LEMMA CountsOut ==
    ASSUME NEW s \in SideMaps, NEW b \in NonGenesis, s[b] \in Sources
    PROVE  CountersOf([s EXCEPT ![b] = NoSource]) = CountOut(CountersOf(s), b, s[b])
<1> DEFINE n == [s EXCEPT ![b] = NoSource]
           A == Blocks \ {b}
<1>1. Only(s, A) = n
  BY DEF Only, SideMaps, NonGenesis
<1>2. A \in SUBSET Blocks /\ {b} \in SUBSET Blocks /\ A \cap {b} = {} /\ OwnedIn(s) \subseteq A \cup {b}
  BY DEF OwnedIn, NonGenesis
<1>3. n \in SideMaps
  BY OwnerType
<1> HIDE DEF n, A
<1>4. CountersOf(s) = Plus(CountersOf(n), CountersOf(Only(s, {b})))
  BY <1>1, <1>2, CountersSplit
<1>5. CountersOf(Only(s, {b})) = One(b, s[b]) /\ CountersOf(Only(s, {b})) \in Counters
  BY CountersOfOne, CountersOfType, OnlyType
<1>6. CountersOf(n) \in Counters /\ CountersOf(s) \in Counters
  BY <1>3, CountersOfType
<1>7. CountOut(CountersOf(s), b, s[b]) = Minus(CountersOf(s), One(b, s[b]))
  BY <1>6, CountOutSubtracts
<1> QED
  BY <1>4, <1>5, <1>6, <1>7, MinusUndoes DEF n

----------------------------------------------------------------------------
(* The counters are exact *)

\* What the counters count is a natural number.
LEMMA CountersNat ==
    ASSUME NEW s \in SideMaps
    PROVE  /\ CountersOf(s) \in Counters
           /\ CountersOf(s).total \in Nat
           /\ \A b \in Blocks : CountersOf(s).kids[b] \in Nat
           /\ \A o \in Sources : /\ CountersOf(s).of[o] \in Nat
                                 /\ \A b \in Blocks : CountersOf(s).kidsOf[o][b] \in Nat
<1>1. /\ OwnedIn(s) \in SUBSET Blocks
      /\ \A b : KidsIn(s, b) \in SUBSET Blocks
      /\ \A o : OwnedBy(s, o) \in SUBSET Blocks
      /\ \A o, b : KidsOwned(s, o, b) \in SUBSET Blocks
  BY DEF OwnedIn, KidsIn, OwnedBy, KidsOwned
<1>2. \A P \in SUBSET Blocks : Cardinality(P) \in Nat
  BY CardinalityOfBlocks
<1> QED
  BY <1>1, <1>2, CountersAre, CountersOfType

\* Deleting side blocks counts them out.
LEMMA DroppedCounts ==
    ASSUME TypeInv, CountersExact, NEW vs \in SUBSET Blocks, DropSides(vs)
    PROVE  CountersExact'
<1> DEFINE A == Blocks \ vs
<1>1. A \in SUBSET Blocks /\ A \cap vs = {} /\ OwnedIn(side) \subseteq A \cup vs
  BY DEF OwnedIn
<1>2. side \in SideMaps /\ side' = Only(side, A) /\ cnt' = Minus(cnt, CountersOf(Only(side, vs)))
  BY DEF TypeInv, DropSides
<1> HIDE DEF A
<1>3. CountersOf(side) = Plus(CountersOf(Only(side, A)), CountersOf(Only(side, vs)))
  BY <1>1, <1>2, CountersSplit
<1>4. CountersOf(Only(side, A)) \in Counters /\ CountersOf(Only(side, vs)) \in Counters
  BY <1>2, OnlyType, CountersOfType
<1> QED
  BY <1>2, <1>3, <1>4, MinusUndoes DEF CountersExact

\* Promoting a side block counts it out.
LEMMA PromotedCounts ==
    ASSUME TypeInv, CountersExact, NEW b, CanPromote(b), PromoteBatch(b)
    PROVE  CountersExact'
<1>1. b \in NonGenesis /\ side[b] \in Sources
  BY DEF CanPromote, Applicable, Extends, NonGenesis, TypeInv, TypeOK
<1>2. side \in SideMaps /\ side' = [side EXCEPT ![b] = NoSource] /\ cnt' = CountOut(cnt, b, side[b])
  BY DEF TypeInv, PromoteBatch
<1> QED
  BY <1>1, <1>2, CountsOut DEF CountersExact

\* The old branch enters the side pool as a whole.
LEMMA DemotedCounts ==
    ASSUME TypeInv, CountersExact,
           NEW old \in SUBSET NonGenesis, old \cap Indexed = {}
    PROVE  /\ WithLocal(old) \in SideMaps
           /\ Only(WithLocal(old), Blocks \ old) = side
           /\ CountersOf(WithLocal(old)) =
                Plus(cnt, CountersOf(Only(WithLocal(old), old)))
<1> DEFINE s == WithLocal(old)
           A == Blocks \ old
<1>1. side \in [Blocks -> Sources \cup {NoSource}] /\ side[Genesis] = NoSource
  BY DEF TypeInv, SideMaps
<1>2. old \subseteq Blocks /\ Genesis \notin old
  BY DEF NonGenesis
<1>3. s \in [Blocks -> Sources \cup {NoSource}]
  BY <1>1 DEF WithLocal, Sources
<1>4. s[Genesis] = NoSource
  BY <1>1, <1>2, TreeTyping DEF WithLocal
<1>5. s \in SideMaps
  BY <1>3, <1>4 DEF SideMaps
<1>6. \A b \in old : side[b] = NoSource
  BY <1>2 DEF Indexed, SideBlocks, OwnedIn
<1>7. Only(s, A) = [b \in Blocks |-> side[b]]
  BY <1>6 DEF Only, WithLocal
<1>8. Only(s, A) = side
  BY <1>1, <1>7
<1>9. A \in SUBSET Blocks /\ A \cap old = {} /\ OwnedIn(s) \subseteq A \cup old
  BY DEF OwnedIn
<1> HIDE DEF s, A
<1>10. CountersOf(s) = Plus(CountersOf(Only(s, A)), CountersOf(Only(s, old)))
  BY <1>2, <1>5, <1>9, CountersSplit
<1> QED
  BY <1>5, <1>8, <1>10 DEF s, A, CountersExact

\* The branch a reorg leaves has no genesis block.
LEMMA BranchNonGenesis ==
    ASSUME NEW a \in Blocks, NEW b \in Blocks
    PROVE  Leaving(a, b) \subseteq NonGenesis
BY Chains DEF Leaving, NonGenesis

LEMMA CountStep == TypeInv /\ CountersExact /\ [Next]_vars => CountersExact'
<1> SUFFICES ASSUME TypeInv, CountersExact, [Next]_vars PROVE CountersExact'
  OBVIOUS
<1>0. side \in SideMaps
  BY DEF TypeInv
<1>1. ASSUME UNCHANGED <<side, cnt>> PROVE CountersExact'
  BY <1>1 DEF CountersExact
<1>2. ASSUME NEW t, NEW own, Rebuild(t, own) PROVE CountersExact'
  BY <1>2 DEF CountersExact, Rebuild
<1>3. ASSUME Lose PROVE CountersExact'
  BY <1>3 DEF CountersExact, Lose
<1>4. CASE UNCHANGED vars
  BY <1>1, <1>4 DEF vars, memory
<1>5. CASE IntakeNext
  <2>1. ASSUME NEW b \in Blocks, ConnectTip(b) PROVE CountersExact'
    BY <1>1, <2>1 DEF ConnectTip
  <2>2. ASSUME NEW b \in Blocks, NEW s \in Sources, AdmitSide(b, s) PROVE CountersExact'
    <3>1. b \in NonGenesis /\ side[b] = NoSource
      BY <2>2 DEF AdmitSide, SideAdmissible, Indexed, SideBlocks, OwnedIn
    <3>2. side' = [side EXCEPT ![b] = s] /\ cnt' = CountIn(cnt, b, s)
      BY <2>2 DEF AdmitSide
    <3> QED
      BY <1>0, <3>1, <3>2, CountsIn DEF CountersExact
  <2>3. ASSUME NEW b \in Blocks, NEW s \in Sources, ReplaceSide(b, s) PROVE CountersExact'
    <3>1. b \in NonGenesis /\ side[b] = NoSource
      BY <2>3 DEF ReplaceSide, SideAdmissible, Indexed, SideBlocks, OwnedIn
    <3>2. PICK v \in Blocks :
            /\ IsVictim(v, b, s)
            /\ side' = [side EXCEPT ![v] = NoSource, ![b] = s]
            /\ cnt' = CountIn(CntWithout(v), b, s)
      BY <2>3 DEF ReplaceSide
    <3>3. v \in NonGenesis /\ side[v] \in Sources
      BY <1>0, <3>2 DEF IsVictim, Evictable, SideBlocks, OwnedIn, NonGenesis, SideMaps
    <3> DEFINE n == [side EXCEPT ![v] = NoSource]
    <3>4. n \in SideMaps
      BY <1>0, <3>3, OwnerType
    <3>5. n[b] = NoSource
      BY <1>0, <3>1, <3>3 DEF SideMaps, NonGenesis
    <3>6. CntWithout(v) = CountersOf(n)
      BY <1>0, <3>3, CountsOut DEF CntWithout, CountersExact
    <3>7. side' = [n EXCEPT ![b] = s]
      BY <3>2
    <3> HIDE DEF n
    <3>8. CountersOf([n EXCEPT ![b] = s]) = CountIn(CountersOf(n), b, s)
      BY <3>1, <3>4, <3>5, CountsIn
    <3>9. CountersOf(side') = cnt'
      BY <3>2, <3>6, <3>7, <3>8
    <3> QED
      BY <3>9 DEF CountersExact
  <2>4. CASE PruneStale
    <3>1. ASSUME NEW vs \in SUBSET Blocks, DropSides(vs) PROVE CountersExact'
      BY <3>1, DroppedCounts
    <3>2. \/ \E vs \in SUBSET Blocks : DropSides(vs)
          \/ UNCHANGED <<side, cnt>>
      BY <2>4 DEF PruneStale, StaleLeaves, SideBlocks, OwnedIn
    <3> QED
      BY <1>1, <3>1, <3>2
  <2>5. CASE SaveConnected \/ VerifyConnected \/ PruneUndo \/ SaveFromSync
    BY <1>1, <2>5 DEF SaveConnected, VerifyConnected, PruneUndo, SaveFromSync, memory
  <2> QED
    BY <1>5, <2>1, <2>2, <2>3, <2>4, <2>5 DEF IntakeNext
<1>6. CASE ExecutorNext
  <2>1. CASE ClearBlockers
    BY <2>1, DroppedCounts DEF ClearBlockers, Blockers, SideBlocks, OwnedIn
  <2>2. CASE PromoteNext
    BY <2>2, PromotedCounts DEF PromoteNext
  <2>3. CASE FinishReorg
    <3> DEFINE old == Leaving(plan.orig, plan.cand)
    <3>1. old \in SUBSET NonGenesis
      BY Typed, BranchNonGenesis
    <3>2. \/ UNCHANGED <<side, cnt>>
          \/ /\ old \cap Indexed = {} /\ side' = WithLocal(old)
             /\ cnt' = Plus(cnt, CountersOf(Only(WithLocal(old), old)))
      BY <2>3 DEF FinishReorg
    <3> HIDE DEF old
    <3> QED
      BY <1>1, <3>1, <3>2, DemotedCounts DEF CountersExact
  <2>4. CASE \/ SkipActivation \/ DeferActivation \/ Prepare \/ BeginExecution
             \/ Abandon \/ DisconnectTip \/ DisconnectFails \/ PromoteFails
             \/ SavePromoted \/ VerifyPromoted
    BY <1>1, <2>4 DEF SkipActivation, DeferActivation, Prepare, BeginExecution, Abandon,
       DisconnectTip, DisconnectFails, PromoteFails, SavePromoted, VerifyPromoted, memory
  <2> QED
    BY <1>6, <2>1, <2>2, <2>3, <2>4 DEF ExecutorNext
<1>7. CASE RecoveryNext
  <2>1. CASE Boot
    BY <1>1, <1>2, <2>1 DEF Boot
  <2>2. CASE RecoverConnect
    BY <2>2, PromotedCounts DEF RecoverConnect
  <2>3. CASE RecoverDisconnect \/ RecoverSave \/ RecoverPublish \/ RecoverFinalize
    BY <1>1, <1>2, <2>3 DEF RecoverDisconnect, RecoverSave, RecoverPublish, RecoverFinalize
  <2>4. CASE RecoverPending \/ RecoverMarker \/ RecoverFails \/ Reconcile
    BY <1>1, <2>4 DEF RecoverPending, RecoverMarker, RecoverFails, Reconcile, memory
  <2> QED
    BY <1>7, <2>1, <2>2, <2>3, <2>4 DEF RecoveryNext
<1>8. CASE LifeNext
  BY <1>1, <1>3, <1>8 DEF LifeNext, Crash, BeginStop, Exit, GiveUp
<1> QED
  BY <1>4, <1>5, <1>6, <1>7, <1>8 DEF Next

\* The incremental counters of the side pool (total, per parent, per source, per
\* source and parent) are what a recount of the pool gives, after any sequence of
\* admissions, evictions, prunings, reorgs and reloads: CountersExact of ChainNode,
\* about addSideBlockAccounting and removeSideBlockAccounting.
THEOREM CountersAreExact == Spec => []CountersExact
<1>1. Init => TypeInv /\ CountersExact
  BY InitTypes DEF Init, CountersExact
<1>2. (TypeInv /\ CountersExact) /\ [Next]_vars => (TypeInv /\ CountersExact)'
  BY StepTypes, CountStep
<1> QED
  BY <1>1, <1>2, PTL DEF Spec

----------------------------------------------------------------------------
(* The pool stays in its limits *)

\* The counters c are within every limit.
Bounded(c) ==
    /\ c.total <= MaxSideBlocks
    /\ \A b \in Blocks : c.kids[b] <= MaxSideChildren
    /\ \A p \in Peers : /\ c.of[p] <= MaxPerSource
                        /\ \A b \in Blocks : c.kidsOf[p][b] <= MaxPerSourceChildren

LEMMA PoolIsBounded == PoolBounded <=> Bounded(CountersOf(side))
BY DEF PoolBounded, Bounded

LEMMA LimitsAreNat ==
    /\ {MaxSideBlocks, MaxSideChildren, MaxPerSource, MaxPerSourceChildren} \subseteq Nat
    /\ Local \notin Peers /\ Sources = Peers \cup {Local}
BY PolicyAssumption DEF PolicyAssumption, Sources

\* One more block that fits.
LEMMA BoundedIn ==
    ASSUME NEW s \in SideMaps, NEW b \in NonGenesis, NEW o \in Sources, s[b] = NoSource,
           Bounded(CountersOf(s)), Fits(CountersOf(s), b, o)
    PROVE  Bounded(CountersOf([s EXCEPT ![b] = o]))
<1> DEFINE c == CountersOf(s)
           d == One(b, o)
<1>1. CountersOf([s EXCEPT ![b] = o]) = Plus(c, d)
  BY CountsIn, CountInAdds, CountersOfType
<1>2. /\ c.total \in Nat /\ \A q \in Blocks : c.kids[q] \in Nat
      /\ \A p \in Peers : c.of[p] \in Nat /\ \A q \in Blocks : c.kidsOf[p][q] \in Nat
  BY CountersNat, LimitsAreNat
<1>3. Bounded(c) /\ Fits(c, b, o)
  OBVIOUS
<1> HIDE DEF c
<1>4. Plus(c, d).total <= MaxSideBlocks
  BY <1>2, <1>3, LimitsAreNat DEF Plus, One, Fits
<1>5. ASSUME NEW q \in Blocks PROVE Plus(c, d).kids[q] <= MaxSideChildren
  <2>1. Plus(c, d).kids[q] = c.kids[q] + (IF q = Parent[b] THEN 1 ELSE 0)
    BY DEF Plus, One
  <2>2. c.kids[q] \in Nat /\ c.kids[q] <= MaxSideChildren
        /\ (q = Parent[b] => c.kids[q] < MaxSideChildren)
    BY <1>2, <1>3 DEF Bounded, Fits
  <2> QED
    BY <2>1, <2>2, LimitsAreNat
<1>6. ASSUME NEW p \in Peers PROVE Plus(c, d).of[p] <= MaxPerSource
  <2>1. Plus(c, d).of[p] = c.of[p] + (IF p = o THEN 1 ELSE 0)
    BY LimitsAreNat DEF Plus, One
  <2>2. c.of[p] \in Nat /\ c.of[p] <= MaxPerSource /\ (p = o => c.of[p] < MaxPerSource)
    BY <1>2, <1>3 DEF Bounded, Fits
  <2> QED
    BY <2>1, <2>2, LimitsAreNat
<1>7. ASSUME NEW p \in Peers, NEW q \in Blocks
      PROVE  Plus(c, d).kidsOf[p][q] <= MaxPerSourceChildren
  <2>1. Plus(c, d).kidsOf[p][q] =
          c.kidsOf[p][q] + (IF p = o /\ q = Parent[b] THEN 1 ELSE 0)
    BY LimitsAreNat DEF Plus, One
  <2>2. /\ c.kidsOf[p][q] \in Nat /\ c.kidsOf[p][q] <= MaxPerSourceChildren
        /\ (p = o /\ q = Parent[b] => c.kidsOf[p][q] < MaxPerSourceChildren)
    BY <1>2, <1>3 DEF Bounded, Fits
  <2> QED
    BY <2>1, <2>2, LimitsAreNat
<1> HIDE DEF d
<1> QED
  BY <1>1, <1>4, <1>5, <1>6, <1>7 DEF Bounded

\* A part of a pool within its limits is within them.
LEMMA BoundedPart ==
    ASSUME NEW s \in SideMaps, NEW A \in SUBSET Blocks, Bounded(CountersOf(s))
    PROVE  Bounded(CountersOf(Only(s, A)))
<1> DEFINE B == Blocks \ A
           c == CountersOf(Only(s, A))
           d == CountersOf(Only(s, B))
<1>1. B \in SUBSET Blocks /\ A \cap B = {} /\ OwnedIn(s) \subseteq A \cup B
  BY DEF OwnedIn
<1> HIDE DEF B
<1>2. CountersOf(s) = Plus(c, d)
  BY <1>1, CountersSplit
<1>3. Only(s, A) \in SideMaps /\ Only(s, B) \in SideMaps
  BY OnlyType
<1>4. /\ c.total \in Nat /\ \A q \in Blocks : c.kids[q] \in Nat
      /\ \A p \in Peers : c.of[p] \in Nat /\ \A q \in Blocks : c.kidsOf[p][q] \in Nat
  BY <1>3, CountersNat, LimitsAreNat
<1>5. /\ d.total \in Nat /\ \A q \in Blocks : d.kids[q] \in Nat
      /\ \A p \in Peers : d.of[p] \in Nat /\ \A q \in Blocks : d.kidsOf[p][q] \in Nat
  BY <1>3, CountersNat, LimitsAreNat
<1>6. Bounded(Plus(c, d))
  BY <1>2
<1> HIDE DEF c, d
<1>7. c.total <= MaxSideBlocks
  BY <1>4, <1>5, <1>6, LimitsAreNat DEF Plus, Bounded
<1>8. ASSUME NEW q \in Blocks PROVE c.kids[q] <= MaxSideChildren
  <2>1. c.kids[q] + d.kids[q] <= MaxSideChildren
    BY <1>6 DEF Plus, Bounded
  <2> QED
    BY <1>4, <1>5, <2>1, LimitsAreNat
<1>9. ASSUME NEW p \in Peers PROVE c.of[p] <= MaxPerSource
  <2>1. c.of[p] + d.of[p] <= MaxPerSource
    BY <1>6, LimitsAreNat DEF Plus, Bounded
  <2> QED
    BY <1>4, <1>5, <2>1, LimitsAreNat
<1>10. ASSUME NEW p \in Peers, NEW q \in Blocks PROVE c.kidsOf[p][q] <= MaxPerSourceChildren
  <2>1. c.kidsOf[p][q] + d.kidsOf[p][q] <= MaxPerSourceChildren
    BY <1>6, LimitsAreNat DEF Plus, Bounded
  <2> QED
    BY <1>4, <1>5, <2>1, LimitsAreNat
<1>11. Bounded(c)
  BY <1>7, <1>8, <1>9, <1>10 DEF Bounded
<1> QED
  BY <1>11 DEF c

LEMMA BoundedEmpty == Bounded(CountersOf(NoSides))
<1>1. NoSides \in SideMaps
  BY EmptyTypes
<1>2. OwnedIn(NoSides) = {}
  BY DEF OwnedIn, NoSides
<1>3. /\ \A b : KidsIn(NoSides, b) = {}
      /\ \A o \in Sources : OwnedBy(NoSides, o) = {}
      /\ \A o, b : KidsOwned(NoSides, o, b) = {}
  BY <1>2, PolicyAssumption DEF KidsIn, KidsOwned, OwnedBy, NoSides, PolicyAssumption
<1>4. Cardinality({}) = 0
  BY FS_EmptySet
<1> DEFINE c == CountersOf(NoSides)
<1>5. c.total = 0 /\ \A b \in Blocks : c.kids[b] = 0
  BY <1>2, <1>3, <1>4, CountersAre
<1>6. \A p \in Peers : c.of[p] = 0 /\ \A b \in Blocks : c.kidsOf[p][b] = 0
  BY <1>3, <1>4, CountersAre, LimitsAreNat
<1> HIDE DEF c
<1>7. Bounded(c)
  BY <1>5, <1>6, LimitsAreNat DEF Bounded
<1> QED
  BY <1>7 DEF c

\* Deleting the side block v leaves a pool within its limits.
LEMMA BoundedOut ==
    ASSUME NEW s \in SideMaps, NEW v \in NonGenesis, Bounded(CountersOf(s))
    PROVE  Bounded(CountersOf([s EXCEPT ![v] = NoSource]))
<1>1. [s EXCEPT ![v] = NoSource] = Only(s, Blocks \ {v})
  BY DEF Only, SideMaps, NonGenesis
<1> QED
  BY <1>1, BoundedPart

\* What the reload keeps is within the limits.
LEMMA ReloadBounded ==
    ASSUME NEW t \in Blocks, NEW own \in SideMaps, NEW stored
    PROVE  Bounded(CountersOf(Only(own, Reloaded(t, own, stored))))
<1> DEFINE K == {A \in SUBSET Blocks : Bounded(CountersOf(Only(own, A)))}
<1>1. {} \in K
  <2>1. Only(own, {}) = NoSides
    BY DEF Only, NoSides
  <2> QED
    BY <2>1, BoundedEmpty
<1>2. ASSUME NEW kept \in K, NEW b \in OwnedIn(own) \ Anc[t],
             Fits(CountersOf(Only(own, kept)), b, own[b])
      PROVE  kept \cup {b} \in K
  <2>1. b \in NonGenesis /\ own[b] \in Sources
    BY DEF OwnedIn, SideMaps, NonGenesis
  <2>2. kept \cup {b} \in SUBSET Blocks
    BY <2>1 DEF NonGenesis
  <2>3. CASE b \in kept
    <3>1. kept \cup {b} = kept
      BY <2>3
    <3> QED
      BY <3>1
  <2>4. CASE b \notin kept
    <3>1. Only(own, kept) \in SideMaps /\ Only(own, kept)[b] = NoSource
      BY <2>1, <2>4, OnlyType DEF Only, NonGenesis
    <3>2. Only(own, kept \cup {b}) = [Only(own, kept) EXCEPT ![b] = own[b]]
      BY <2>1 DEF Only, NonGenesis
    <3>3. Bounded(CountersOf(Only(own, kept)))
      OBVIOUS
    <3>4. Bounded(CountersOf(Only(own, kept \cup {b})))
      BY <1>2, <2>1, <3>1, <3>2, <3>3, BoundedIn
    <3> QED
      BY <2>2, <3>4
  <2> QED
    BY <2>3, <2>4
<1> HIDE DEF K
<1>3. Reloaded(t, own, stored) \in K
  BY <1>1, <1>2, ReloadedKeeps
<1> QED
  BY <1>3 DEF K

LEMMA RebuildBounded ==
    ASSUME NEW t \in Blocks, NEW own \in SideMaps, Rebuild(t, own)
    PROVE  PoolBounded'
<1>1. side' = Only(own, Reloaded(t, own, dBlock))
  BY DEF Rebuild
<1>2. Bounded(CountersOf(side'))
  BY <1>1, ReloadBounded
<1> QED
  BY <1>2 DEF PoolBounded, Bounded

\* The old branch of a finished reorg is counted in within the limits: it is local,
\* and its parents are the blocks the reservation looks at.
LEMMA DemotionBounded ==
    ASSUME TypeInv, CountersExact, PoolBounded,
           NEW old \in SUBSET NonGenesis, old \cap Indexed = {},
           NEW pool, pool = Plus(cnt, CountersOf(Only(WithLocal(old), old))),
           pool.total <= MaxSideBlocks,
           \A b \in old : pool.kids[Parent[b]] <= MaxSideChildren
    PROVE  Bounded(CountersOf(WithLocal(old)))
<1> DEFINE c == CountersOf(side)
           m == Only(WithLocal(old), old)
           d == CountersOf(m)
<1>1. /\ WithLocal(old) \in SideMaps /\ cnt = c
      /\ CountersOf(WithLocal(old)) = Plus(c, d) /\ pool = Plus(c, d)
  BY DemotedCounts DEF CountersExact
<1>2. m \in SideMaps /\ side \in SideMaps
  BY <1>1, OnlyType DEF TypeInv
<1>3. \A b \in Blocks : m[b] = IF b \in old THEN Local ELSE NoSource
  BY DEF Only, WithLocal
<1>4. OwnedIn(m) = old
  BY <1>3, PolicyAssumption DEF PolicyAssumption, OwnedIn, Sources, NonGenesis
<1>5. \A p \in Peers : OwnedBy(m, p) = {} /\ \A q : KidsOwned(m, p, q) = {}
  BY <1>3, LimitsAreNat, PolicyAssumption
  DEF PolicyAssumption, OwnedBy, KidsOwned, KidsIn, OwnedIn
<1>6. Cardinality({}) = 0
  BY FS_EmptySet
<1>7. \A p \in Peers : d.of[p] = 0 /\ \A q \in Blocks : d.kidsOf[p][q] = 0
  BY <1>5, <1>6, CountersAre, LimitsAreNat
<1>8. ASSUME NEW q \in Blocks, \A b \in old : Parent[b] # q PROVE d.kids[q] = 0
  <2>1. KidsIn(m, q) = {}
    BY <1>4, <1>8 DEF KidsIn
  <2> QED
    BY <1>6, <2>1, CountersAre
<1>9. /\ c.total \in Nat /\ \A q \in Blocks : c.kids[q] \in Nat
      /\ \A p \in Peers : c.of[p] \in Nat /\ \A q \in Blocks : c.kidsOf[p][q] \in Nat
  BY <1>2, CountersNat, LimitsAreNat
<1>10. Bounded(c)
  BY PoolIsBounded
<1> HIDE DEF c, d, m
<1>11. ASSUME NEW q \in Blocks PROVE pool.kids[q] <= MaxSideChildren
  <2>1. CASE \E b \in old : Parent[b] = q
    BY <2>1
  <2>2. CASE \A b \in old : Parent[b] # q
    <3>1. pool.kids[q] = c.kids[q] + 0
      BY <1>1, <1>8, <2>2 DEF Plus
    <3> QED
      BY <1>9, <1>10, <3>1 DEF Bounded
  <2> QED
    BY <2>1, <2>2
<1>12. ASSUME NEW p \in Peers PROVE pool.of[p] <= MaxPerSource
  <2>1. pool.of[p] = c.of[p] + 0
    BY <1>1, <1>7, LimitsAreNat DEF Plus
  <2> QED
    BY <1>9, <1>10, <2>1 DEF Bounded
<1>13. ASSUME NEW p \in Peers, NEW q \in Blocks PROVE pool.kidsOf[p][q] <= MaxPerSourceChildren
  <2>1. pool.kidsOf[p][q] = c.kidsOf[p][q] + 0
    BY <1>1, <1>7, LimitsAreNat DEF Plus
  <2> QED
    BY <1>9, <1>10, <2>1 DEF Bounded
<1>14. Bounded(pool)
  BY <1>11, <1>12, <1>13 DEF Bounded
<1> QED
  BY <1>1, <1>14

LEMMA BoundStep ==
    TypeInv /\ CountersExact /\ PoolBounded /\ [Next]_vars => PoolBounded'
<1> SUFFICES ASSUME TypeInv, CountersExact, PoolBounded, [Next]_vars PROVE PoolBounded'
  OBVIOUS
<1>0. side \in SideMaps /\ dSide \in SideMaps /\ Bounded(CountersOf(side))
  BY PoolIsBounded DEF TypeInv
<1>1. ASSUME Bounded(CountersOf(side')) PROVE PoolBounded'
  BY <1>1 DEF PoolBounded, Bounded
<1>2. ASSUME side' = side PROVE PoolBounded'
  BY <1>0, <1>1, <1>2
<1>3. ASSUME NEW vs \in SUBSET Blocks, DropSides(vs) PROVE PoolBounded'
  BY <1>0, <1>1, <1>3, BoundedPart DEF DropSides
<1>4. ASSUME NEW b, CanPromote(b), PromoteBatch(b) PROVE PoolBounded'
  <2>1. b \in NonGenesis
    BY <1>4 DEF CanPromote, Applicable, Extends, NonGenesis
  <2> QED
    BY <1>0, <1>1, <1>4, <2>1, BoundedOut DEF PromoteBatch
<1>5. CASE UNCHANGED vars
  BY <1>2, <1>5 DEF vars, memory
<1>6. CASE IntakeNext
  <2>1. ASSUME NEW b \in Blocks, ConnectTip(b) PROVE PoolBounded'
    BY <1>2, <2>1 DEF ConnectTip
  <2>2. ASSUME NEW b \in Blocks, NEW s \in Sources, AdmitSide(b, s) PROVE PoolBounded'
    <3>1. b \in NonGenesis /\ side[b] = NoSource
      BY <2>2 DEF AdmitSide, SideAdmissible, Indexed, SideBlocks, OwnedIn
    <3>2. side' = [side EXCEPT ![b] = s] /\ Fits(CountersOf(side), b, s)
      BY <2>2 DEF AdmitSide, CountersExact
    <3> QED
      BY <1>0, <1>1, <3>1, <3>2, BoundedIn
  <2>3. ASSUME NEW b \in Blocks, NEW s \in Sources, ReplaceSide(b, s) PROVE PoolBounded'
    <3>1. b \in NonGenesis /\ side[b] = NoSource
      BY <2>3 DEF ReplaceSide, SideAdmissible, Indexed, SideBlocks, OwnedIn
    <3>2. PICK v \in Blocks : IsVictim(v, b, s) /\ side' = [side EXCEPT ![v] = NoSource, ![b] = s]
      BY <2>3 DEF ReplaceSide
    <3>3. v \in NonGenesis /\ side[v] \in Sources /\ Fits(CntWithout(v), b, s)
      BY <1>0, <3>2 DEF IsVictim, Evictable, SideBlocks, OwnedIn, NonGenesis, SideMaps
    <3> DEFINE n == [side EXCEPT ![v] = NoSource]
    <3>4. n \in SideMaps /\ Bounded(CountersOf(n))
      BY <1>0, <3>3, OwnerType, BoundedOut
    <3>5. n[b] = NoSource
      BY <1>0, <3>1, <3>3 DEF SideMaps, NonGenesis
    <3>6. CntWithout(v) = CountersOf(n)
      BY <1>0, <3>3, CountsOut DEF CntWithout, CountersExact
    <3>7. side' = [n EXCEPT ![b] = s]
      BY <3>2
    <3> HIDE DEF n
    <3>8. Bounded(CountersOf([n EXCEPT ![b] = s]))
      BY <3>1, <3>3, <3>4, <3>5, <3>6, BoundedIn
    <3> QED
      BY <1>1, <3>7, <3>8
  <2>4. CASE PruneStale
    <3>1. \/ \E vs \in SUBSET Blocks : DropSides(vs)
          \/ side' = side
      BY <2>4 DEF PruneStale, StaleLeaves, SideBlocks, OwnedIn
    <3> QED
      BY <1>2, <1>3, <3>1
  <2>5. CASE SaveConnected \/ VerifyConnected \/ PruneUndo \/ SaveFromSync
    BY <1>2, <2>5 DEF SaveConnected, VerifyConnected, PruneUndo, SaveFromSync, memory
  <2> QED
    BY <1>6, <2>1, <2>2, <2>3, <2>4, <2>5 DEF IntakeNext
<1>7. CASE ExecutorNext
  <2>1. CASE ClearBlockers
    BY <1>3, <2>1 DEF ClearBlockers, Blockers, SideBlocks, OwnedIn
  <2>2. CASE PromoteNext
    BY <1>4, <2>2 DEF PromoteNext
  <2>3. CASE FinishReorg
    <3> DEFINE old == Leaving(plan.orig, plan.cand)
               pool == Plus(cnt, CountersOf(Only(WithLocal(old), old)))
    <3>1. old \in SUBSET NonGenesis
      BY Typed, BranchNonGenesis
    <3>2. \/ side' = side
          \/ /\ old \cap Indexed = {} /\ side' = WithLocal(old)
             /\ pool.total <= MaxSideBlocks
             /\ \A b \in old : pool.kids[Parent[b]] <= MaxSideChildren
      BY <2>3 DEF FinishReorg
    <3> HIDE DEF old
    <3> QED
      BY <1>1, <1>2, <3>1, <3>2, DemotionBounded
  <2>4. CASE \/ SkipActivation \/ DeferActivation \/ Prepare \/ BeginExecution
             \/ Abandon \/ DisconnectTip \/ DisconnectFails \/ PromoteFails
             \/ SavePromoted \/ VerifyPromoted
    BY <1>2, <2>4 DEF SkipActivation, DeferActivation, Prepare, BeginExecution, Abandon,
       DisconnectTip, DisconnectFails, PromoteFails, SavePromoted, VerifyPromoted, memory
  <2> QED
    BY <1>7, <2>1, <2>2, <2>3, <2>4 DEF ExecutorNext
<1>8. CASE RecoveryNext
  <2>1. CASE Boot
    BY <1>0, <1>2, <2>1, RebuildBounded DEF Boot
  <2>2. CASE RecoverConnect
    BY <1>4, <2>2 DEF RecoverConnect
  <2>3. CASE RecoverSave \/ RecoverFinalize
    BY <1>0, <1>2, <2>3, Typed, RebuildBounded DEF RecoverSave, RecoverFinalize
  <2>4. CASE RecoverDisconnect
    <3>1. tip \in NonGenesis /\ Parent[tip] \in Blocks
      BY <2>4, Typed, TreeTyping DEF RecoverDisconnect, CanRollback, NonGenesis, TreeTyping
    <3>2. [dSide EXCEPT ![tip] = Local] \in SideMaps
      BY <1>0, <3>1, OwnerType, LimitsAreNat
    <3> QED
      BY <2>4, <3>1, <3>2, RebuildBounded DEF RecoverDisconnect
  <2>5. CASE RecoverPublish
    <3>1. NextOf(dReorg.cand) \in Blocks /\ Rebuild(NextOf(dReorg.cand), dSide)
      BY <2>5 DEF RecoverPublish, Verdict, GapAuthentic, Probe, TypeInv, TypeOK
    <3> QED
      BY <1>0, <3>1, RebuildBounded
  <2>6. CASE RecoverPending \/ RecoverMarker \/ RecoverFails \/ Reconcile
    BY <1>2, <2>6 DEF RecoverPending, RecoverMarker, RecoverFails, Reconcile, memory
  <2> QED
    BY <1>8, <2>1, <2>2, <2>3, <2>4, <2>5, <2>6 DEF RecoveryNext
<1>9. CASE LifeNext
  <2>1. CASE Lose
    BY <1>1, <2>1, BoundedEmpty DEF Lose
  <2> QED
    BY <1>2, <1>9, <2>1 DEF LifeNext, Crash, BeginStop, Exit, GiveUp
<1> QED
  BY <1>5, <1>6, <1>7, <1>8, <1>9 DEF Next

\* No sequence of admissions, evictions, reorgs, demotions and reloads takes the
\* side pool over a limit, the total, the children of a block, the blocks of a
\* peer or its children of a block: PoolBounded of ChainNode, about
\* indexSideChainBlock, tryWorkAwareSideReplacement, finalizeCompletedReorgLocked
\* and reloadSideChainIndexLocked.
THEOREM PoolStaysBounded == Spec => []PoolBounded
<1>1. Init => TypeInv /\ CountersExact /\ PoolBounded
  BY InitTypes, BoundedEmpty, PoolIsBounded DEF Init, CountersExact
<1>2. (TypeInv /\ CountersExact /\ PoolBounded) /\ [Next]_vars
        => (TypeInv /\ CountersExact /\ PoolBounded)'
  BY StepTypes, CountStep, BoundStep
<1> QED
  BY <1>1, <1>2, PTL DEF Spec

----------------------------------------------------------------------------
(* The best branch is taken before the node has peers *)

\* Of finitely many blocks one has the most work.
LEMMA HeaviestBlock ==
    ASSUME NEW S, S \subseteq Blocks, S # {}
    PROVE  \E x \in S : \A y \in S : Work[y] <= Work[x]
<1> DEFINE above(x) == {z \in Blocks : Work[z] > Work[x]}
           T == {Cardinality(above(x)) : x \in S}
<1>1. \A x \in S : IsFiniteSet(above(x)) /\ Cardinality(above(x)) \in Nat
  BY CardinalityOfBlocks, FS_Subset, TreeTyping
<1>2. PICK n \in T : \A m \in T : n <= m
  <2>1. T \subseteq Nat /\ T # {}
    BY <1>1
  <2> HIDE DEF T
  <2> QED
    BY <2>1, LeastNumber
<1>3. PICK x \in S : n = Cardinality(above(x))
  BY <1>2
<1>4. ASSUME NEW y \in S, ~(Work[y] <= Work[x]) PROVE FALSE
  <2>1. Work[y] \in Nat /\ Work[x] \in Nat /\ Work[y] > Work[x]
    BY <1>3, <1>4, Chains
  <2>2. above(y) \subseteq above(x) /\ y \in above(x) /\ y \notin above(y)
    BY <2>1, Chains
  <2>3. Cardinality(above(y)) < Cardinality(above(x))
    <3> HIDE DEF above
    <3>1. above(y) # above(x)
      BY <2>2
    <3>2. Cardinality(above(y)) <= Cardinality(above(x)) /\ Cardinality(above(y)) # Cardinality(above(x))
      BY <1>1, <1>3, <2>2, <3>1, FS_Subset
    <3> QED
      BY <1>1, <1>3, <3>2
  <2>4. Cardinality(above(x)) <= Cardinality(above(y))
    BY <1>2, <1>3
  <2> QED
    BY <1>1, <1>3, <2>3, <2>4
<1> QED
  BY <1>3, <1>4

\* It has no child among them: in the counters of a pool it is a leaf.
LEMMA HeaviestIsLeaf ==
    ASSUME TypeInv, CountersExact, NEW b \in SideBlocks,
           \A c \in SideBlocks : Work[c] <= Work[b]
    PROVE  cnt.kids[b] = 0
<1>1. b \in Blocks /\ SideBlocks \subseteq Blocks /\ OwnedIn(side) = SideBlocks
  BY DEF SideBlocks, OwnedIn
<1>2. KidsIn(side, b) = {}
  <2> SUFFICES ASSUME NEW c \in KidsIn(side, b) PROVE FALSE
    OBVIOUS
  <2>1. c \in SideBlocks /\ c \in NonGenesis /\ Parent[c] = b
    BY <1>1 DEF KidsIn, NonGenesis
  <2>2. Work[c] > Work[b] /\ Work[c] <= Work[b] /\ Work[c] \in Nat /\ Work[b] \in Nat
    BY <1>1, <2>1, ParentOf, Chains
  <2> QED
    BY <2>2
<1>3. cnt.kids[b] = Cardinality(KidsIn(side, b))
  BY <1>1, CountersAre DEF CountersExact
<1> QED
  BY <1>2, <1>3, FS_EmptySet

\* A unique winner is a heaviest side block ...
LEMMA WinnerIsHeaviest ==
    ASSUME TypeInv, CountersExact, NEW b \in Winners
    PROVE  \A c \in SideBlocks : Work[c] <= Work[b]
<1>1. b \in SideBlocks /\ SideBlocks \subseteq Blocks
  BY DEF Winners, SideBlocks, OwnedIn
<1>2. PICK m \in SideBlocks : \A c \in SideBlocks : Work[c] <= Work[m]
  BY <1>1, HeaviestBlock
<1>3. Work[m] <= Work[b]
  BY <1>2, HeaviestIsLeaf DEF Winners
<1> QED
  BY <1>1, <1>2, <1>3, Chains

\* ... and a single heaviest side block above the tip is the only winner.
LEMMA HeaviestIsWinner ==
    ASSUME TypeInv, CountersExact, NEW b \in SideBlocks, Work[b] > Work[tip],
           \A c \in SideBlocks \ {b} : Work[c] < Work[b]
    PROVE  Cardinality(Winners) = 1
<1>1. b \in Blocks /\ SideBlocks \subseteq Blocks
  BY DEF SideBlocks, OwnedIn
<1>2. \A c \in SideBlocks : Work[c] <= Work[b] /\ Work[c] \in Nat
  BY <1>1, Chains
<1>3. b \in Winners
  BY <1>2, HeaviestIsLeaf DEF Winners
<1>4. ASSUME NEW w \in Winners PROVE w = b
  <2>1. w \in SideBlocks /\ Work[b] <= Work[w]
    BY <1>2, <1>4, HeaviestIsLeaf DEF Winners
  <2> QED
    BY <1>1, <1>2, <2>1
<1>5. Winners = {b}
  BY <1>3, <1>4
<1> QED
  BY <1>5, FS_Singleton

\* The phases a side tip chosen at a start goes through.
Activating == {"Activate", "Prepared", "Abandon", "Disconnect", "Promote", "PromoteSave",
               "PromoteVerify", "Finish"}

\* During a start nothing is submitted, and no side block has more work than the one
\* the start has chosen.
BestInv ==
    boot => /\ pc \notin {"Idle", "ConnectSave", "ConnectVerify", "Tidy", "TidyUndo"}
            /\ pc \in Activating => \A b \in SideBlocks : Work[b] <= Work[plan.cand]

LEMMA BestStep ==
    ASSUME TypeInv, CountersExact, BestInv, [Next]_vars
    PROVE  BestInv'
<1>1. ASSUME boot' = FALSE PROVE BestInv'
  BY <1>1 DEF BestInv
<1>2. ASSUME pc' \in {"Down", "Fatal", "BootPending", "BootReorg", "Recover", "RecoverSave",
                      "Reconcile"}
      PROVE  BestInv'
  BY <1>2 DEF BestInv, Activating
<1>3. ASSUME boot' = boot, pc \in Activating, pc' \in Activating, plan'.cand = plan.cand,
             SideBlocks' \subseteq SideBlocks
      PROVE  BestInv'
  BY <1>3 DEF BestInv, Activating
<1>4. ASSUME NEW t, Settle(t) \/ Halt PROVE BestInv'
  BY <1>1, <1>4 DEF Settle, Halt
<1>5. ASSUME NEW vs, side' = Only(side, Blocks \ vs) PROVE SideBlocks' \subseteq SideBlocks
  BY <1>5 DEF SideBlocks, OwnedIn, Only
<1>6. CASE UNCHANGED vars
  BY <1>6 DEF vars, memory, BestInv, SideBlocks
<1>7. CASE IntakeNext
  <2>1. ~boot \/ SaveFromSync
    BY <1>7 DEF IntakeNext, BestInv, ConnectTip, AdmitSide, ReplaceSide, SideAdmissible,
       Accepting, SaveConnected, VerifyConnected, PruneStale, PruneUndo
  <2>2. boot' = boot
    BY <1>7 DEF IntakeNext, ConnectTip, AdmitSide, ReplaceSide, SaveConnected,
       VerifyConnected, PruneStale, PruneUndo, SaveFromSync, memory
  <2> QED
    BY <1>1, <2>1, <2>2, Typed DEF SaveFromSync, TypeInv, TypeOK, BestInv
<1>8. CASE ExecutorNext
  <2>1. CASE SkipActivation \/ DeferActivation \/ Abandon \/ PromoteFails \/ FinishReorg
    BY <1>4, <2>1 DEF SkipActivation, DeferActivation, Abandon, PromoteFails, FinishReorg
  <2>2. CASE ClearBlockers
    BY <1>3, <1>5, <2>2 DEF ClearBlockers, DropSides, Activating
  <2>3. CASE Prepare
    BY <1>3, <2>3, Typed DEF Prepare, memory, Activating, SideBlocks, TypeInv, TypeOK, Plans
  <2>4. CASE BeginExecution
    BY <1>3, <2>4 DEF BeginExecution, memory, Activating, SideBlocks
  <2>5. CASE DisconnectTip
    BY <1>3, <2>5 DEF DisconnectTip, Activating, SideBlocks
  <2>6. CASE DisconnectFails
    BY <1>3, <1>4, <2>6 DEF DisconnectFails, Activating, SideBlocks
  <2>7. CASE PromoteNext
    <3>1. SideBlocks' \subseteq SideBlocks
      BY <2>7, Typed DEF PromoteNext, PromoteBatch, SideBlocks, OwnedIn
    <3> QED
      BY <1>3, <2>7, <3>1 DEF PromoteNext, Activating
  <2>8. CASE SavePromoted
    BY <1>3, <2>8 DEF SavePromoted, memory, Activating, SideBlocks
  <2>9. CASE VerifyPromoted
    BY <1>3, <1>4, <2>9 DEF VerifyPromoted, AfterPromotion, Activating, SideBlocks
  <2> QED
    BY <1>8, <2>1, <2>2, <2>3, <2>4, <2>5, <2>6, <2>7, <2>8, <2>9 DEF ExecutorNext
<1>9. CASE RecoveryNext
  <2>1. CASE Reconcile
    <3>1. CASE /\ pc' = "Activate" /\ side' = side
               /\ \E b \in Winners : plan' = [plan EXCEPT !.cand = b]
      <4>1. PICK b \in Winners : plan' = [plan EXCEPT !.cand = b]
        BY <3>1
      <4>2. plan'.cand = b
        BY <4>1, Typed DEF TypeInv, TypeOK, Plans
      <4> QED
        BY <3>1, <4>1, <4>2, WinnerIsHeaviest DEF BestInv, Activating, SideBlocks
    <3> QED
      BY <1>1, <1>2, <2>1, <3>1 DEF Reconcile, Refuse
  <2>2. CASE RecoverDisconnect \/ RecoverPublish
    BY <1>2, <2>2 DEF RecoverDisconnect, RecoverPublish
  <2>3. CASE \/ Boot \/ RecoverPending \/ RecoverMarker \/ RecoverConnect \/ RecoverSave
             \/ RecoverFinalize \/ RecoverFails
    BY <1>2, <2>3 DEF Boot, RecoverPending, RecoverMarker, RecoverConnect, RecoverSave,
       RecoverFinalize, RecoverFails, Refuse
  <2> QED
    BY <1>9, <2>1, <2>2, <2>3 DEF RecoveryNext
<1>10. CASE LifeNext
  <2>1. CASE Crash \/ Exit \/ GiveUp
    BY <1>2, <2>1 DEF Crash, Exit, GiveUp, Lose
  <2>2. CASE BeginStop
    BY <1>1, <2>2 DEF BeginStop, TypeInv, TypeOK
  <2> QED
    BY <1>10, <2>1, <2>2 DEF LifeNext
<1> QED
  BY <1>6, <1>7, <1>8, <1>9, <1>10 DEF Next

\* The plan of the executor is the marker's.
LEMMA EndAlways == Spec => []EndInv
<1>1. Init => EndInv
  BY DEF Init, EndInv
<1>2. (TypeInv /\ NodeInv) /\ EndInv /\ [Next]_vars => EndInv'
  BY EndStep
<1> QED
  BY <1>1, <1>2, NodeAlways, PTL DEF Spec

\* The step that ends a start.
LEMMA StartEnds ==
    ASSUME TypeInv, NodeInv, EndInv, CountersExact, BestInv, Next,
           boot, ~boot', pc' = "Idle", AutoReorg,
           NEW b \in SideBlocks', Work[b] > Work[tip'],
           \A c \in SideBlocks' \ {b} : Work[c] < Work[b]
    PROVE  FALSE
<1>1. CASE \/ SkipActivation \/ DeferActivation \/ (Abandon /\ side' = side)
  <2>1. Settle(tip) \/ Halt
    BY <1>1 DEF SkipActivation, DeferActivation, Abandon
  <2>2. tip = plan.cand /\ tip' = tip /\ SideBlocks' = SideBlocks /\ pc \in Activating
    BY <1>1, <2>1 DEF Settle, Halt, SkipActivation, DeferActivation, Abandon, SideBlocks, Activating
  <2>3. Work[b] <= Work[plan.cand] /\ b \in Blocks
    BY <2>2 DEF BestInv, SideBlocks, OwnedIn
  <2> QED
    BY <2>2, <2>3, Typed, Chains
<1>2. CASE FinishReorg
  <2> DEFINE old == Leaving(plan.orig, plan.cand)
  <2>1. /\ pc = "Finish" /\ tip = plan.cand /\ tip' = tip /\ Moving(dReorg)
        /\ dReorg.cand = plan.cand /\ dReorg.orig = plan.orig
    BY <1>2 DEF FinishReorg, NodeInv, ReorgInv, Marked, EndInv
  <2>2. side' = WithLocal(old) \/ side' = side
    BY <1>2 DEF FinishReorg
  <2>3. b \in Blocks /\ (b \in old \/ b \in SideBlocks)
    BY <2>2 DEF SideBlocks, OwnedIn, WithLocal
  <2>4. CASE b \in SideBlocks
    <3>1. Work[b] <= Work[plan.cand]
      BY <2>1, <2>4 DEF BestInv, Activating
    <3> QED
      BY <2>1, <2>3, <3>1, Typed, Chains
  <2>5. CASE b \in old
    <3>1. Work[dReorg.cand] > Work[dReorg.orig]
      BY <2>1 DEF NodeInv, StoreInv, MarkerInv, MarkerCounts, Moving
    <3>2. Work[b] <= Work[plan.orig]
      BY <2>5, Typed, WorkGrows DEF Leaving
    <3> QED
      BY <2>1, <2>3, <3>1, <3>2, Typed, Chains
  <2> QED
    BY <2>3, <2>4, <2>5
<1>3. CASE Reconcile
  <2>1. tip' = tip /\ SideBlocks' = SideBlocks
    BY <1>3 DEF Reconcile, SideBlocks
  <2>2. Cardinality(Winners) = 1
    BY <2>1, HeaviestIsWinner
  <2> QED
    BY <1>3, <2>2 DEF Reconcile, Refuse
<1>4. CASE \/ PromoteFails \/ VerifyPromoted \/ DisconnectFails
  BY <1>4 DEF PromoteFails, VerifyPromoted, DisconnectFails, Halt
<1>5. CASE \/ ClearBlockers \/ Prepare \/ BeginExecution \/ DisconnectTip \/ PromoteNext
           \/ SavePromoted
  BY <1>5 DEF ClearBlockers, Prepare, BeginExecution, DisconnectTip, PromoteNext,
     SavePromoted, memory
<1>6. ~IntakeNext
  BY DEF IntakeNext, ConnectTip, AdmitSide, ReplaceSide, SaveConnected,
     VerifyConnected, PruneStale, PruneUndo, SaveFromSync, memory
<1>7. ~LifeNext
  BY DEF LifeNext, Crash, BeginStop, Exit, GiveUp, Lose
<1>8. RecoveryNext => Reconcile
  BY DEF RecoveryNext, Boot, RecoverPending, RecoverMarker, RecoverDisconnect, RecoverConnect,
     RecoverSave, RecoverPublish, RecoverFinalize, RecoverFails, Refuse, memory
<1>9. Abandon => side' = side
  BY DEF Abandon
<1> QED
  BY <1>1, <1>2, <1>3, <1>4, <1>5, <1>6, <1>7, <1>8, <1>9 DEF Next, ExecutorNext

\* A node never meets its peers while a single heaviest side tip beats its own: it
\* has activated it, or the start is refused.  BestBeforePeers of ChainNode, about
\* reconcileWinningSideTipAtStartup and what follows it.
THEOREM StartTakesTheBest == Spec => BestBeforePeers
<1>1. Init => BestInv
  BY DEF Init, BestInv, Activating
<1>2. (TypeInv /\ CountersExact) /\ BestInv /\ [Next]_vars => BestInv'
  BY BestStep
<1>3. (TypeInv /\ NodeInv) /\ EndInv /\ CountersExact /\ BestInv /\ [Next]_vars
        => [boot /\ ~boot' /\ pc' = "Idle" /\ AutoReorg =>
              ~ \E b \in SideBlocks' :
                  /\ Work[b] > Work[tip']
                  /\ \A c \in SideBlocks' \ {b} : Work[c] < Work[b]]_vars
  BY StartEnds
<1> QED
  BY <1>1, <1>2, <1>3, NodeAlways, EndAlways, CountersAreExact, PTL DEF Spec, BestBeforePeers

----------------------------------------------------------------------------
(* The marker and the published tip *)

\* A halted thread is out of the operation that failed.
LEMMA HaltAlways == Spec => []HaltInv
<1>1. Init => HaltInv
  BY DEF Init, HaltInv
<1>2. HaltInv /\ [Next]_vars => HaltInv'
  BY HaltStep
<1> QED
  BY <1>1, <1>2, PTL DEF Spec

\* Failed writes are counted up.
LEMMA FaultsGrow ==
    ASSUME TypeInv, [Next]_vars, budget'.faults = 0
    PROVE  budget.faults = 0
<1>1. /\ WriteOK => budget'.faults = budget.faults
      /\ ~WriteFails
      /\ UNCHANGED budget => budget.faults = 0
  BY DEF WriteOK, WriteFails, TypeInv, TypeOK
<1>2. CASE UNCHANGED vars
  BY <1>1, <1>2 DEF vars
<1>3. CASE IntakeNext
  BY <1>1, <1>3 DEF IntakeNext, ConnectTip, SaveConnected, VerifyConnected, AdmitSide,
     ReplaceSide, PruneStale, PruneUndo, SaveFromSync
<1>4. CASE ExecutorNext
  BY <1>1, <1>4 DEF ExecutorNext, SkipActivation, DeferActivation, ClearBlockers, Prepare,
     BeginExecution, Abandon, DisconnectTip, DisconnectFails, PromoteNext, PromoteFails,
     SavePromoted, VerifyPromoted, FinishReorg
<1>5. CASE RecoveryNext
  <2>1. CASE Boot
    BY <1>1, <2>1 DEF Boot
  <2> QED
    BY <1>1, <1>5, <2>1 DEF RecoveryNext, RecoverPending, RecoverMarker, RecoverDisconnect,
       RecoverConnect, RecoverSave, RecoverPublish, RecoverFinalize, RecoverFails, Reconcile
<1>6. CASE LifeNext
  BY <1>1, <1>6 DEF LifeNext, Crash, BeginStop, Exit, GiveUp, TypeInv, TypeOK
<1> QED
  BY <1>2, <1>3, <1>4, <1>5, <1>6 DEF Next

\* No write has failed, or nobody else saves.
Undisturbed == budget.faults = 0 \/ ~SyncSaves

\* Then the marker names the published tip: a promotion whose publication was not
\* written is one a shutdown has interrupted, after which nothing is saved.
MarkInv ==
    /\ Undisturbed => MarkerNamesTip
    /\ budget.faults = 0 /\ pc = "PromoteVerify" /\ InGap => stopping

\* A publication of the tip alone, where the tip is published already.
LEMMA MarkStep ==
    ASSUME TypeInv, NodeInv, HaltInv, MarkInv, [Next]_vars
    PROVE  MarkInv'
<1>0. StoreInv /\ PhaseInv
  BY DEF NodeInv, PhaseInv
<1>1. Undisturbed' => Undisturbed
  BY FaultsGrow DEF Undisturbed
<1>2. ASSUME UNCHANGED <<dReorg, dTip>>, pc' # "PromoteVerify" PROVE MarkInv'
  BY <1>1, <1>2 DEF MarkInv, MarkerNamesTip
<1>3. ASSUME ~Moving(dReorg') \/ dReorg'.tip = dTip', pc' # "PromoteVerify" PROVE MarkInv'
  BY <1>3 DEF MarkInv, MarkerNamesTip
<1>4. ASSUME Quiet, PublishTip, UNCHANGED <<dReorg, tip>> PROVE dTip' = dTip
  BY <1>4 DEF PublishTip, Quiet
<1>5. ASSUME PublishPromoted PROVE dReorg'.tip = tip /\ dTip' = tip
  BY <1>5, Typed DEF PublishPromoted, PublishTip, Progress, Marker
<1>6. CASE UNCHANGED vars
  BY <1>6 DEF vars, store, memory, MarkInv, Undisturbed, MarkerNamesTip, InGap, Ahead, NewBranch
<1>7. CASE IntakeNext
  <2>1. ASSUME NEW b \in Blocks, NEW s \in Sources,
               ConnectTip(b) \/ AdmitSide(b, s) \/ ReplaceSide(b, s)
        PROVE  MarkInv'
    BY <1>2, <2>1 DEF ConnectTip, AdmitSide, ReplaceSide
  <2>2. CASE SaveConnected
    <3>1. ~Moving(dReorg) /\ dReorg' = dReorg /\ pc' # "PromoteVerify"
      BY <1>0, <2>2 DEF SaveConnected, PhaseInv, ConnectInv, Moving, NoReorg
    <3> QED
      BY <1>3, <3>1
  <2>3. CASE VerifyConnected \/ PruneStale \/ PruneUndo
    BY <1>2, <2>3 DEF VerifyConnected, PruneStale, PruneUndo, store
  <2>4. CASE SaveFromSync
    <3>1. /\ ~halted /\ ~stopping /\ PublishTip /\ SyncSaves /\ ~boot
          /\ UNCHANGED <<dState, dSide, dReorg, tip, pc, budget, stopping>>
          /\ pc \notin {"Down", "Fatal", "ConnectSave", "PromoteSave"}
      BY <2>4 DEF SaveFromSync, CanPublish, memory
    <3>2. CASE ~Moving(dReorg)
      <4>1. ~InGap'
        BY <3>1, <3>2 DEF InGap
      <4> QED
        BY <3>1, <3>2, <4>1 DEF MarkInv, MarkerNamesTip
    <3>3. CASE Moving(dReorg)
      <4>1. dReorg # NoReorg /\ dReorg.phase # "PREPARED"
        BY <3>3 DEF Moving, NoReorg
      <4>2. pc \in {"Disconnect", "Promote", "PromoteVerify", "Finish"}
        BY <1>0, <3>1, <4>1, Typed DEF TypeInv, TypeOK, Steps, PhaseInv, ConnectInv, ReorgInv,
           StartInv, AtRest
      <4>3. CASE Quiet
        <5>1. dTip' = dTip /\ tip = dTip
          BY <1>4, <3>1, <4>3 DEF Quiet
        <5>2. tip = dState /\ (InGap' => Parent[tip] = tip /\ tip \in NonGenesis)
          BY <3>1, <4>3, <5>1 DEF Quiet, InGap, Ahead
        <5>3. ~InGap'
          BY <5>2, ParentOf, Typed, Chains
        <5> QED
          BY <3>1, <5>1, <5>3 DEF MarkInv, Undisturbed, MarkerNamesTip
      <4>4. CASE pc = "PromoteVerify" /\ InGap
        <5>1. budget.faults # 0
          BY <3>1, <4>4 DEF MarkInv
        <5> QED
          BY <3>1, <5>1 DEF MarkInv, Undisturbed
      <4> QED
        BY <1>0, <4>2, <4>3, <4>4 DEF PhaseInv, ReorgInv
    <3> QED
      BY <3>2, <3>3
  <2>5. Local \in Sources
    BY DEF Sources
  <2> QED
    BY <1>7, <2>1, <2>2, <2>3, <2>4, <2>5 DEF IntakeNext
<1>8. CASE ExecutorNext
  <2>1. ASSUME NEW t, Settle(t) \/ Halt PROVE pc' \in {"Idle", "Fatal"}
    BY <2>1 DEF Settle, Halt
  <2>2. CASE SkipActivation \/ DeferActivation \/ PromoteFails \/ DisconnectFails
    BY <1>2, <2>1, <2>2 DEF SkipActivation, DeferActivation, PromoteFails, DisconnectFails, store
  <2>3. CASE ClearBlockers \/ BeginExecution \/ PromoteNext
    BY <1>2, <2>3 DEF ClearBlockers, BeginExecution, PromoteNext, PromoteBatch, store
  <2>4. CASE Prepare
    BY <1>3, <2>4 DEF Prepare, NoReorg, Moving
  <2>5. CASE Abandon \/ FinishReorg
    <3>1. dTip' = dTip /\ (dReorg' = NoReorg \/ dReorg' = dReorg) /\ pc' # "PromoteVerify"
      BY <2>1, <2>5 DEF Abandon, FinishReorg
    <3> QED
      BY <1>2, <1>3, <3>1 DEF Moving, NoReorg
  <2>6. CASE DisconnectTip
    <3>1. dReorg'.tip = dTip' /\ pc' # "PromoteVerify"
      BY <2>6, Typed DEF DisconnectTip, RollbackBatch, Progress, Marker
    <3> QED
      BY <1>3, <3>1
  <2>7. CASE SavePromoted
    <3>1. InGap /\ ~halted /\ tip' = tip /\ stopping' = stopping /\ UNCHANGED <<dState, dSide>>
      BY <1>0, <2>7 DEF SavePromoted, PhaseInv, ReorgInv, HaltInv, memory
    <3>2. CASE PublishPromoted
      <4>1. dReorg'.tip = tip /\ dTip' = tip
        BY <1>5, <3>2
      <4>2. ~InGap'
        BY <3>1, <4>1, ParentOf, Typed, Chains DEF InGap, Ahead
      <4> QED
        BY <4>1, <4>2 DEF MarkInv, MarkerNamesTip
    <3>3. CASE WriteFails /\ UNCHANGED <<dTip, dReorg>>
      <4>1. budget'.faults # 0
        BY <3>3 DEF WriteFails, TypeInv, TypeOK
      <4> QED
        BY <1>1, <3>3, <4>1 DEF MarkInv, MarkerNamesTip
    <3>4. CASE ~CanPublish(TRUE) /\ UNCHANGED <<dTip, dReorg, budget>>
      <4>1. stopping
        BY <3>1, <3>4, Typed, TreeTyping DEF CanPublish, PendingAgrees, InGap
      <4> QED
        BY <1>1, <3>1, <3>4, <4>1 DEF MarkInv, MarkerNamesTip
    <3> QED
      BY <2>7, <3>2, <3>3, <3>4 DEF SavePromoted
  <2>8. CASE VerifyPromoted
    BY <1>2, <2>1, <2>8 DEF VerifyPromoted, AfterPromotion, store
  <2> QED
    BY <1>8, <2>2, <2>3, <2>4, <2>5, <2>6, <2>7, <2>8 DEF ExecutorNext
<1>9. CASE RecoveryNext
  <2>1. CASE Boot \/ RecoverConnect \/ RecoverFails \/ Reconcile
    BY <1>2, <2>1 DEF Boot, RecoverConnect, PromoteBatch, RecoverFails, Reconcile, Refuse, store
  <2>2. CASE RecoverPending
    <3>1. \/ UNCHANGED <<dReorg, dTip>>
          \/ dReorg = NoReorg /\ dReorg' = dReorg
      BY <2>2 DEF RecoverPending, PublishesPending, store
    <3>2. pc' # "PromoteVerify"
      BY <2>2 DEF RecoverPending, Refuse
    <3> QED
      BY <1>2, <1>3, <3>1, <3>2 DEF Moving, NoReorg
  <2>3. CASE RecoverMarker \/ RecoverFinalize
    <3>1. dTip' = dTip /\ (dReorg' = NoReorg \/ dReorg' = dReorg) /\ pc' # "PromoteVerify"
      BY <2>3 DEF RecoverMarker, RecoverFinalize, Refuse
    <3> QED
      BY <1>2, <1>3, <3>1 DEF Moving, NoReorg
  <2>4. CASE RecoverDisconnect
    <3>1. dReorg'.tip = dTip' /\ pc' # "PromoteVerify"
      BY <2>4, Typed DEF RecoverDisconnect, RollbackBatch, Progress, Marker
    <3> QED
      BY <1>3, <3>1
  <2>5. CASE RecoverSave
    BY <1>3, <1>5, <2>5 DEF RecoverSave
  <2>6. CASE RecoverPublish
    <3>1. dReorg'.tip = dTip' /\ pc' # "PromoteVerify"
      BY <2>6, Typed DEF RecoverPublish, Progress, Marker
    <3> QED
      BY <1>3, <3>1
  <2> QED
    BY <1>9, <2>1, <2>2, <2>3, <2>4, <2>5, <2>6 DEF RecoveryNext
<1>10. CASE LifeNext
  <2>1. CASE Crash \/ GiveUp
    BY <1>2, <2>1 DEF Crash, GiveUp, Lose, store
  <2>2. CASE BeginStop
    BY <2>2, <1>1 DEF BeginStop, store, MarkInv, MarkerNamesTip
  <2>3. CASE Exit
    <3>1. dReorg' = dReorg /\ pc' = "Down" /\ pc = "Idle"
      BY <2>3 DEF Exit, Lose
    <3>2. CASE dTip' = dTip
      BY <1>2, <3>1, <3>2
    <3>3. CASE ~halted
      <4>1. dReorg = NoReorg
        BY <1>0, <3>1, <3>3 DEF PhaseInv, ConnectInv, AtRest
      <4> QED
        BY <1>3, <3>1, <4>1 DEF Moving, NoReorg
    <3> QED
      BY <2>3, <3>2, <3>3 DEF Exit, SavesAtExit
  <2> QED
    BY <1>10, <2>1, <2>2, <2>3 DEF LifeNext
<1> QED
  BY <1>6, <1>7, <1>8, <1>9, <1>10 DEF Next

\* The marker of a reorg that has moved names the published tip, unless a write has
\* failed and the sync thread saves as well: MarkerNamesTip of ChainNode, about the
\* batches that publish both, and about a save between a promotion's state batch and
\* the check that halts the node.  With both disturbances it is false.
THEOREM MarkerKeepsTip == Spec => [](budget.faults = 0 \/ ~SyncSaves => MarkerNamesTip)
<1>1. Init => MarkInv
  BY DEF Init, MarkInv, MarkerNamesTip, Moving, NoReorg
<1>2. (TypeInv /\ NodeInv) /\ HaltInv /\ MarkInv /\ [Next]_vars => MarkInv'
  BY MarkStep
<1>3. MarkInv => (budget.faults = 0 \/ ~SyncSaves => MarkerNamesTip)
  BY DEF MarkInv, Undisturbed
<1> QED
  BY <1>1, <1>2, <1>3, NodeAlways, HaltAlways, PTL DEF Spec

----------------------------------------------------------------------------
(* What a reorg within the policy can undo *)

\* The marker is the same but for its progress, or there is none that moves.
SameReorg ==
    /\ Moving(dReorg') <=> Moving(dReorg)
    /\ Moving(dReorg) => dReorg'.orig = dReorg.orig /\ dReorg'.cand = dReorg.cand

\* A rollback of the executor or of a start.
Disconnects ==
    /\ RollbackBatch /\ tip \in NonGenesis /\ dState = tip
    /\ dReorg.phase # "NONE" /\ MarkerCounts(dReorg) /\ dReorg.tip = tip
    /\ ~Moving(dReorg) => dReorg.orig = tip
    /\ tip \notin Anc[dReorg.cand]

\* A promotion of the executor or of a start.
Promotes(b) ==
    /\ PromoteBatch(b) /\ Moving(dReorg) /\ dState = tip
    /\ b \in NonGenesis /\ b \in Anc[dReorg.cand] /\ Parent[b] = tip

\* The last step of a reorg.
Completes == Moving(dReorg) /\ dReorg' = NoReorg /\ dState = dReorg.cand /\ dState' = dState

\* At rest between two steps of a recovery, the state of the next candidate not being
\* there, it stands at the published tip.
LEMMA StateOfConnect ==
    ASSUME TypeInv, StoreInv, Moving(dReorg), Verdict = "connect"
    PROVE  /\ dState = tip /\ tip \in Anc[dReorg.cand] \ {dReorg.cand}
           /\ NextOf(dReorg.cand) \in NonGenesis /\ NextOf(dReorg.cand) \in Anc[dReorg.cand]
           /\ Parent[NextOf(dReorg.cand)] = tip
<1>1. /\ MarkerShape /\ ~(dReorg.dd < Cardinality(OldBranch))
      /\ dReorg.cd < Cardinality(NewBranch)
  BY Verdicts
<1>2. tip = dTip /\ dPending = NoBlock /\ tip \in Anc[dReorg.cand] \ {dReorg.cand}
  BY <1>1, WhereItStopped
<1>3. /\ NextOf(dReorg.cand) \in NonGenesis /\ NextOf(dReorg.cand) \in Anc[dReorg.cand]
      /\ Parent[NextOf(dReorg.cand)] = tip
      /\ \A b \in Anc[dReorg.cand] \ {Genesis} : Parent[b] = tip => b = NextOf(dReorg.cand)
  BY <1>2, Typed, MarkerFields, NextOfIs
<1>4. ~Gap
  <2>1. CASE Gap
    BY <1>1, <2>1 DEF Verdict
  <2> QED
    BY <2>1
<1>5. dReorg.dd = Cardinality(OldBranch)
  BY <1>1, Typed, MarkerFields, BranchFinite DEF MarkerShape, OldBranch
<1>6. dSide[NextOf(dReorg.cand)] # NoSource
  BY <1>1, <1>4, <1>5 DEF Gap
<1>7. dState # dTip => dState = NextOf(dReorg.cand) /\ dSide[dState] = NoSource
  <2> SUFFICES ASSUME dState # dTip
               PROVE  dState = NextOf(dReorg.cand) /\ dSide[dState] = NoSource
    OBVIOUS
  <2>1. /\ dState \in NonGenesis /\ Parent[dState] = tip /\ dState \in NewBranch
        /\ dSide[dState] = NoSource
    BY <1>2, Typed, TreeTyping DEF StoreInv, StateExplained
  <2> QED
    BY <1>3, <2>1 DEF NewBranch, Joining, NonGenesis
<1> QED
  BY <1>2, <1>3, <1>6, <1>7

\* How the confirmed state and the marker move.
LEMMA StoreMoves ==
    ASSUME TypeInv, NodeInv, EndInv, [Next]_vars
    PROVE  \/ dState' = dState /\ SameReorg
           \/ \E b \in Blocks : ConnectTip(b) /\ dReorg = NoReorg /\ dState = tip
           \/ Disconnects
           \/ \E b \in Blocks : Promotes(b)
           \/ Completes
<1>0. StoreInv /\ PhaseInv
  BY DEF NodeInv, PhaseInv
<1>1. ASSUME UNCHANGED <<dState, dReorg>> PROVE dState' = dState /\ SameReorg
  BY <1>1 DEF SameReorg
<1>2. ASSUME dState' = dState, ~Moving(dReorg), ~Moving(dReorg')
      PROVE  dState' = dState /\ SameReorg
  BY <1>2 DEF SameReorg
<1>3. ASSUME dState' = dState, Moving(dReorg), PublishPromoted
      PROVE  dState' = dState /\ SameReorg
  BY <1>3, Typed DEF SameReorg, PublishPromoted, Progress, Marker, Moving
<1>4. dReorg.phase # "NONE" => MarkerCounts(dReorg)
  BY <1>0 DEF StoreInv, MarkerInv
<1>5. ASSUME RollbackBatch, tip \in NonGenesis, dState = tip, dTip = tip, dReorg.phase # "NONE",
             dReorg.tip = tip, tip \notin Anc[dReorg.cand]
      PROVE  Disconnects
  <2>1. ~Moving(dReorg) => dReorg.orig = tip
    BY <1>0, <1>5, Phases DEF StoreInv, MarkerInv
  <2> QED
    BY <1>4, <1>5, <2>1 DEF Disconnects
<1>6. CASE UNCHANGED vars
  BY <1>1, <1>6 DEF vars, store
<1>7. CASE IntakeNext
  <2>1. ASSUME NEW b \in Blocks, ConnectTip(b) PROVE dReorg = NoReorg /\ dState = tip
    BY <1>0, <2>1 DEF ConnectTip, Accepting, PhaseInv, ConnectInv, AtRest, Quiet
  <2>2. ASSUME NEW b \in Blocks, NEW s \in Sources, AdmitSide(b, s) \/ ReplaceSide(b, s)
        PROVE  UNCHANGED <<dState, dReorg>>
    BY <2>2 DEF AdmitSide, ReplaceSide
  <2>3. CASE SaveConnected \/ VerifyConnected \/ PruneStale \/ PruneUndo \/ SaveFromSync
    BY <1>1, <2>3 DEF SaveConnected, VerifyConnected, PruneStale, PruneUndo, SaveFromSync, store
  <2> QED
    BY <1>1, <1>7, <2>1, <2>2, <2>3 DEF IntakeNext
<1>8. CASE ExecutorNext
  <2>1. CASE SkipActivation \/ DeferActivation \/ ClearBlockers \/ BeginExecution
    BY <1>1, <2>1 DEF SkipActivation, DeferActivation, ClearBlockers, BeginExecution, store
  <2>2. CASE Prepare
    BY <1>2, <2>2 DEF Prepare, Moving, NoReorg
  <2>3. CASE Abandon
    <3>1. dReorg.phase = "PREPARED" /\ dState' = dState /\ dReorg' \in {dReorg, NoReorg}
      BY <1>0, <2>3 DEF Abandon, PhaseInv, ReorgInv
    <3> QED
      BY <1>2, <3>1 DEF Moving, NoReorg
  <2>4. CASE DisconnectTip
    <3>1. Quiet /\ Marked /\ dReorg.phase # "NONE" /\ tip \notin Anc[plan.cand]
      BY <1>0, <2>4 DEF DisconnectTip, PhaseInv, ReorgInv
    <3>2. RollbackBatch /\ tip \in NonGenesis
      BY <2>4, Typed DEF DisconnectTip, CanRollback, NonGenesis
    <3> QED
      BY <1>5, <3>1, <3>2 DEF Quiet, Marked
  <2>5. CASE DisconnectFails \/ PromoteFails \/ VerifyPromoted
    BY <1>1, <2>5 DEF DisconnectFails, PromoteFails, VerifyPromoted, store
  <2>6. CASE PromoteNext
    <3>1. /\ Moving(dReorg) /\ dState = tip /\ tip \in Anc[plan.cand] \ {plan.cand}
          /\ dReorg.cand = plan.cand /\ PromoteBatch(NextOf(plan.cand))
      BY <1>0, <2>6 DEF PromoteNext, PhaseInv, ReorgInv, Quiet, Marked
    <3>2. /\ NextOf(plan.cand) \in NonGenesis /\ NextOf(plan.cand) \in Anc[plan.cand]
          /\ Parent[NextOf(plan.cand)] = tip
      BY <3>1, Typed, NextOfIs
    <3> QED
      BY <3>1, <3>2, ParentOf DEF Promotes
  <2>7. CASE SavePromoted
    <3>1. Moving(dReorg) /\ dState' = dState
      BY <1>0, <2>7 DEF SavePromoted, PhaseInv, ReorgInv, InGap
    <3> QED
      BY <1>1, <1>3, <2>7, <3>1 DEF SavePromoted
  <2>8. CASE FinishReorg
    <3>1. Quiet /\ Marked /\ Moving(dReorg) /\ tip = plan.cand
      BY <1>0, <2>8 DEF FinishReorg, PhaseInv, ReorgInv
    <3>2. dState' = dState /\ dReorg' \in {dReorg, NoReorg}
      BY <2>8 DEF FinishReorg
    <3> QED
      BY <1>1, <3>1, <3>2 DEF Quiet, Marked, Completes
  <2> QED
    BY <1>8, <2>1, <2>2, <2>3, <2>4, <2>5, <2>6, <2>7, <2>8 DEF ExecutorNext
<1>9. CASE RecoveryNext
  <2>1. CASE Boot \/ RecoverPending \/ RecoverFails \/ Reconcile
    BY <1>1, <2>1 DEF Boot, RecoverPending, RecoverFails, Reconcile, store
  <2>2. CASE RecoverMarker
    <3>1. dState' = dState /\ (dReorg' = dReorg \/ (~Moving(dReorg) /\ dReorg' = NoReorg))
      BY <2>2 DEF RecoverMarker, Moving, NoReorg
    <3> QED
      BY <1>1, <1>2, <3>1 DEF Moving, NoReorg
  <2>a. pc = "Recover" => Moving(dReorg) /\ dReorg.phase # "NONE"
    BY <1>0 DEF PhaseInv, StartInv, Moving
  <2>3. CASE RecoverDisconnect
    <3>1. RollbackBatch /\ tip \in NonGenesis /\ dState = tip
      BY <2>3, Typed DEF RecoverDisconnect, CanRollback, Probe, NonGenesis
    <3>2. MarkerShape /\ dReorg.dd < Cardinality(OldBranch)
      BY <2>3, Verdicts DEF RecoverDisconnect
    <3>3. dReorg.tip = tip /\ tip = dTip /\ tip \notin Anc[dReorg.cand]
      BY <1>0, <2>3, <2>a, <3>2, WhereItStopped DEF RecoverDisconnect
    <3> QED
      BY <1>5, <2>3, <2>a, <3>1, <3>3 DEF RecoverDisconnect
  <2>4. CASE RecoverConnect
    <3>1. Moving(dReorg) /\ Verdict = "connect" /\ PromoteBatch(NextOf(dReorg.cand))
      BY <2>4, <2>a DEF RecoverConnect
    <3> QED
      BY <1>0, <3>1, StateOfConnect, ParentOf DEF Promotes
  <2>5. CASE RecoverSave
    <3>1. Moving(dReorg)
      BY <1>0, <2>5 DEF RecoverSave, PhaseInv, StartInv, InGap
    <3> QED
      BY <1>3, <2>5, <3>1 DEF RecoverSave
  <2>6. CASE RecoverPublish
    BY <2>6, <2>a, Typed DEF RecoverPublish, SameReorg, Progress, Marker, Moving
  <2>7. CASE RecoverFinalize
    <3>1. Moving(dReorg) /\ dReorg' = NoReorg /\ dState' = dState
      BY <2>7, <2>a DEF RecoverFinalize
    <3>2. dState = dReorg.cand
      BY <1>9, <3>1, EndsComplete DEF Next
    <3> QED
      BY <3>1, <3>2 DEF Completes
  <2> QED
    BY <1>9, <2>1, <2>2, <2>3, <2>4, <2>5, <2>6, <2>7 DEF RecoveryNext
<1>10. CASE LifeNext
  BY <1>1, <1>10 DEF LifeNext, Crash, BeginStop, Exit, GiveUp, store
<1> QED
  BY <1>6, <1>7, <1>8, <1>9, <1>10 DEF Next

\* The fork of two chains is on both.
LEMMA ForkIsCommon ==
    ASSUME NEW a \in Blocks, NEW b \in Blocks
    PROVE  ForkOf(a, b) \in Anc[a] \cap Anc[b]
<1> DEFINE S == {x \in Blocks : ForkOf(x, b) \in Anc[x] \cap Anc[b]}
<1>1. ASSUME NEW x \in Blocks, x \in Anc[b] PROVE x \in S
  <2>1. x \in Anc[x] \cap Anc[b] /\ \A d \in Anc[x] \cap Anc[b] : Height[d] <= Height[x]
    BY <1>1, Chains, TreeClosure
  <2> QED
    BY <2>1 DEF ForkOf
<1>2. Genesis \in S
  BY <1>1, Chains, TreeTyping
<1>3. ASSUME NEW x \in NonGenesis, Parent[x] \in S PROVE x \in S
  <2>1. CASE x \in Anc[b]
    BY <1>1, <2>1, ParentOf
  <2>2. CASE x \notin Anc[b]
    <3>1. Anc[x] \cap Anc[b] = Anc[Parent[x]] \cap Anc[b]
      BY <2>2, ParentOf
    <3>2. ForkOf(x, b) = ForkOf(Parent[x], b)
      BY <3>1 DEF ForkOf
    <3> QED
      BY <1>3, <3>1, <3>2, ParentOf
  <2> QED
    BY <2>1, <2>2
<1>4. Blocks \subseteq S
  <2> HIDE DEF S
  <2> QED
    BY <1>2, <1>3, BlockInduction
<1> QED
  BY <1>4

\* The chain of the committed tip has its journals as far down as they are kept below
\* height N, wherever a later reorg to a heavier and lower chain has taken the tip.
Retained(N) ==
    \A b \in Anc[Committed] \ {Genesis} : N - Height[b] <= UndoRetention => b \in dUndo

\* The committed tip never stood above height N.
UpTo(N) == Height[Committed] <= N

\* The state is so far below N that a reorg as deep as the policy allows reaches below
\* what is kept under N.
Fallen(N) == N - Height[dState] > UndoRetention + 1 - MaxForkDepth

\* The state on its way from the original tip to the candidate: the part of the new
\* branch that is connected has its journals.
OnTheWay ==
    Moving(dReorg) =>
      /\ NewBranch \cap Anc[dState] \subseteq dUndo
      /\ Anc[dReorg.orig] \cap Anc[dReorg.cand] \subseteq Anc[dState]
      /\ Anc[dState] \subseteq Anc[dReorg.orig] \cup Anc[dReorg.cand]

\* Only the pruning deletes journals, below the horizon of a tip at rest.
LEMMA JournalsStay ==
    ASSUME TypeInv, NodeInv, [Next]_vars
    PROVE  \/ dUndo \subseteq dUndo'
           \/ /\ UNCHANGED <<dState, dReorg>> /\ dReorg = NoReorg /\ dState = tip
              /\ \A b \in dUndo \ dUndo' : Height[tip] - Height[b] > UndoRetention
<1>1. CASE PruneUndo
  <2>1. Quiet /\ dReorg = NoReorg
    BY <1>1 DEF PruneUndo, NodeInv, ConnectInv, AtRest
  <2>2. \E X : X \subseteq ExpiredUndo /\ dUndo' = dUndo \ X
    <3>1. PICK n \in 0..MaxUndoDeletes :
            dUndo' = dUndo \ {b \in ExpiredUndo :
                        Cardinality({c \in ExpiredUndo : Height[c] < Height[b]}) < n}
      BY <1>1, <2>1 DEF PruneUndo
    <3> QED
      BY <3>1
  <2>3. UNCHANGED <<dState, dReorg>>
    BY <1>1 DEF PruneUndo
  <2> QED
    BY <2>1, <2>2, <2>3 DEF Quiet, ExpiredUndo
<1>2. CASE UNCHANGED vars
  BY <1>2 DEF vars, store
<1>3. CASE IntakeNext
  BY <1>1, <1>3 DEF IntakeNext, ConnectTip, SaveConnected, VerifyConnected, AdmitSide,
     ReplaceSide, PruneStale, SaveFromSync, store
<1>4. CASE ExecutorNext
  BY <1>4 DEF ExecutorNext, SkipActivation, DeferActivation, ClearBlockers, Prepare,
     BeginExecution, Abandon, DisconnectTip, DisconnectFails, PromoteNext, PromoteFails,
     SavePromoted, VerifyPromoted, FinishReorg, RollbackBatch, PromoteBatch, store
<1>5. CASE RecoveryNext
  BY <1>5 DEF RecoveryNext, Boot, RecoverPending, RecoverMarker, RecoverDisconnect,
     RecoverConnect, RecoverSave, RecoverPublish, RecoverFinalize, RecoverFails, Reconcile,
     RollbackBatch, PromoteBatch, store
<1>6. CASE LifeNext
  BY <1>6 DEF LifeNext, Crash, BeginStop, Exit, GiveUp, store
<1> QED
  BY <1>2, <1>3, <1>4, <1>5, <1>6 DEF Next

LEMMA RetainedStep ==
    ASSUME NEW N \in Nat, UpTo(N), TypeInv, NodeInv, EndInv, Retained(N), OnTheWay, [Next]_vars
    PROVE  Retained(N)' /\ OnTheWay'
<1>0. UndoRetention \in Nat
  BY PolicyAssumption
<1>1. CASE dUndo \subseteq dUndo' /\ dState' = dState /\ SameReorg
  <2>1. Committed' = Committed
    BY <1>1 DEF Committed, SameReorg
  <2>2. Retained(N)'
    BY <1>1, <2>1 DEF Retained
  <2>3. OnTheWay'
    BY <1>1 DEF OnTheWay, SameReorg, NewBranch
  <2> QED
    BY <2>2, <2>3
<1>2. CASE /\ UNCHANGED <<dState, dReorg>> /\ dReorg = NoReorg /\ dState = tip
           /\ \A b \in dUndo \ dUndo' : Height[tip] - Height[b] > UndoRetention
  <2>1. ~Moving(dReorg) /\ ~Moving(dReorg')
    BY <1>2 DEF Moving, NoReorg
  <2>2. Committed = tip /\ Committed' = tip
    BY <1>2, <2>1 DEF Committed
  <2>3. ASSUME NEW b \in Anc[tip] \ {Genesis}, N - Height[b] <= UndoRetention
        PROVE  b \in dUndo'
    <3>1. b \in dUndo
      BY <2>2, <2>3 DEF Retained
    <3>2. Height[tip] \in Nat /\ Height[b] \in Nat /\ Height[tip] <= N
      BY <2>2, <2>3, Typed, Chains DEF UpTo
    <3> QED
      BY <1>0, <1>2, <2>3, <3>1, <3>2
  <2> QED
    BY <2>1, <2>2, <2>3 DEF Retained, OnTheWay
<1>3. ASSUME NEW b \in Blocks, ConnectTip(b), dReorg = NoReorg, dState = tip
      PROVE  Retained(N)' /\ OnTheWay'
  <2>1. /\ ~Moving(dReorg) /\ ~Moving(dReorg') /\ dState' = b /\ dUndo' = dUndo \cup {b}
        /\ b \in NonGenesis /\ Parent[b] = tip
    BY <1>3 DEF ConnectTip, Applicable, Extends, Moving, NoReorg
  <2>2. Committed = tip /\ Committed' = b
    BY <1>3, <2>1 DEF Committed
  <2>3. ASSUME NEW c \in Anc[b] \ {Genesis}, N - Height[c] <= UndoRetention
        PROVE  c \in dUndo'
    <3>1. CASE c = b
      BY <2>1, <3>1
    <3>2. CASE c \in Anc[tip]
      BY <2>1, <2>2, <2>3, <3>2 DEF Retained
    <3> QED
      BY <2>1, <2>3, <3>1, <3>2, ParentOf
  <2> QED
    BY <2>1, <2>2, <2>3 DEF Retained, OnTheWay
<1>4. CASE Disconnects /\ dUndo \subseteq dUndo'
  <2>1. /\ Moving(dReorg') /\ dReorg'.orig = dReorg.orig /\ dReorg'.cand = dReorg.cand
        /\ dState' = Parent[tip] /\ dState = tip /\ tip \in NonGenesis
    BY <1>4, Typed DEF Disconnects, RollbackBatch, Progress, Marker, Moving
  <2>2. Committed' = Committed
    BY <1>4, <2>1 DEF Committed, Disconnects
  <2>3. Anc[tip] = Anc[Parent[tip]] \cup {tip} /\ tip \notin Anc[Parent[tip]]
    BY <2>1, ParentOf
  <2>4. Anc[dReorg.orig] \cap Anc[dReorg.cand] \subseteq Anc[Parent[tip]]
    BY <1>4, <2>3 DEF Disconnects, MarkerCounts
  <2>5. CASE Moving(dReorg)
    <3>1. OnTheWay'
      BY <1>4, <2>1, <2>3, <2>4, <2>5 DEF OnTheWay, NewBranch
    <3> QED
      BY <1>4, <2>2, <3>1 DEF Retained
  <2>6. CASE ~Moving(dReorg)
    <3>1. dReorg.orig = tip
      BY <1>4, <2>6 DEF Disconnects
    <3>2. OnTheWay'
      BY <2>1, <2>3, <2>4, <3>1 DEF OnTheWay, NewBranch, Joining
    <3> QED
      BY <1>4, <2>2, <3>2 DEF Retained
  <2> QED
    BY <2>5, <2>6
<1>5. ASSUME NEW b \in Blocks, Promotes(b) PROVE Retained(N)' /\ OnTheWay'
  <2>1. /\ dReorg' = dReorg /\ Moving(dReorg) /\ dState' = b /\ dState = tip
        /\ dUndo' = dUndo \cup {b} /\ b \in Anc[dReorg.cand]
    BY <1>5 DEF Promotes, PromoteBatch
  <2>2. Anc[b] = Anc[tip] \cup {b}
    BY <1>5, ParentOf DEF Promotes
  <2>3. Committed' = Committed
    BY <2>1 DEF Committed
  <2>4. OnTheWay'
    BY <2>1, <2>2 DEF OnTheWay, NewBranch
  <2> QED
    BY <2>1, <2>3, <2>4 DEF Retained
<1>6. CASE Completes /\ dUndo \subseteq dUndo'
  <2>1. ~Moving(dReorg') /\ dState' = dReorg.cand /\ dState = dReorg.cand
    BY <1>6 DEF Completes, Moving, NoReorg
  <2>2. Committed = dReorg.orig /\ Committed' = dReorg.cand
    BY <1>6, <2>1 DEF Committed, Completes
  <2>3. ASSUME NEW c \in Anc[dReorg.cand] \ {Genesis}, N - Height[c] <= UndoRetention
        PROVE  c \in dUndo
    <3>1. CASE c \in Anc[dReorg.orig]
      BY <2>2, <2>3, <3>1 DEF Retained
    <3>2. CASE c \notin Anc[dReorg.orig]
      BY <1>6, <2>1, <2>3, <3>2 DEF Completes, OnTheWay, NewBranch, Joining
    <3> QED
      BY <3>1, <3>2
  <2> QED
    BY <1>6, <2>1, <2>2, <2>3 DEF Retained, OnTheWay
<1>7. CASE dUndo \subseteq dUndo'
  BY <1>1, <1>3, <1>4, <1>5, <1>6, <1>7, StoreMoves
<1> QED
  BY <1>2, <1>7, JournalsStay

\* The blocks of the confirmed chain stay stored as long as none of them is taken for a
\* side block.
LEMMA StoredStep ==
    ASSUME TypeInv, NodeInv, SidesApart, Anc[dState] \subseteq dBlock, [Next]_vars
    PROVE  (Anc[dState] \subseteq dBlock)'
<1>0. StoreInv /\ MemoryInv /\ PhaseInv
  BY DEF NodeInv, PhaseInv
<1>1. ASSUME UNCHANGED <<dState, dBlock>> PROVE (Anc[dState] \subseteq dBlock)'
  BY <1>1
<1>2. ASSUME NEW vs, vs \subseteq OwnedIn(dSide), dState' = dState, dBlock \ vs \subseteq dBlock'
      PROVE  (Anc[dState] \subseteq dBlock)'
  BY <1>2 DEF SidesApart
<1>3. SideBlocks \subseteq OwnedIn(dSide)
  BY <1>0, Typed DEF MemoryInv, SideBlocks, OwnedIn
<1>4. ASSUME RollbackBatch, tip \in NonGenesis, dState = tip PROVE (Anc[dState] \subseteq dBlock)'
  BY <1>4, ParentOf DEF RollbackBatch
<1>5. ASSUME NEW b \in NonGenesis, Parent[b] = tip, Anc[tip] \subseteq dBlock,
             dState' = b, dBlock' = dBlock \cup {b}
      PROVE  (Anc[dState] \subseteq dBlock)'
  BY <1>5, ParentOf
<1>6. Anc[tip] \subseteq dBlock
  BY <1>0 DEF MemoryInv
<1>7. CASE UNCHANGED vars
  BY <1>1, <1>7 DEF vars, store
<1>8. CASE IntakeNext
  <2>1. ASSUME NEW b \in Blocks, ConnectTip(b) PROVE (Anc[dState] \subseteq dBlock)'
    BY <1>5, <1>6, <2>1 DEF ConnectTip, Applicable, Extends
  <2>2. ASSUME NEW b \in Blocks, NEW s \in Sources, AdmitSide(b, s)
        PROVE  (Anc[dState] \subseteq dBlock)'
    BY <2>2 DEF AdmitSide
  <2>3. ASSUME NEW b \in Blocks, NEW s \in Sources, ReplaceSide(b, s)
        PROVE  (Anc[dState] \subseteq dBlock)'
    <3>1. PICK v : IsVictim(v, b, s) /\ dBlock' = (dBlock \ {v}) \cup {b}
      BY <2>3 DEF ReplaceSide
    <3>2. {v} \subseteq OwnedIn(dSide)
      BY <1>3, <3>1 DEF IsVictim, Evictable
    <3>3. dBlock \ {v} \subseteq dBlock' /\ dState' = dState
      BY <2>3, <3>1 DEF ReplaceSide
    <3> QED
      BY <1>2, <3>2, <3>3
  <2>4. CASE PruneStale
    <3>1. CASE UNCHANGED dBlock
      BY <1>1, <2>4, <3>1 DEF PruneStale
    <3>2. CASE \E vs : vs \subseteq SideBlocks /\ dBlock' = dBlock \ vs
      <4>1. PICK vs : vs \subseteq SideBlocks /\ dBlock' = dBlock \ vs
        BY <3>2
      <4>2. dState' = dState
        BY <2>4 DEF PruneStale
      <4> QED
        BY <1>2, <1>3, <4>1, <4>2
    <3>3. UNCHANGED dBlock \/ \E vs : vs \subseteq SideBlocks /\ dBlock' = dBlock \ vs
      <4> DEFINE stale == IF dReorg = NoReorg THEN StaleLeaves ELSE {}
                 gone == {b \in stale :
                    Cardinality({c \in stale : PruneBefore(c, b)}) < MaxStalePrunes}
      <4>1. stale \subseteq SideBlocks
        BY DEF StaleLeaves
      <4>2. UNCHANGED dBlock \/ DropSides(gone)
        BY <2>4 DEF PruneStale
      <4>3. gone \subseteq SideBlocks
        BY <4>1
      <4> HIDE DEF gone
      <4> QED
        BY <4>2, <4>3 DEF DropSides, DeleteSides
    <3> QED
      BY <3>1, <3>2, <3>3
  <2>5. CASE SaveConnected \/ VerifyConnected \/ PruneUndo \/ SaveFromSync
    BY <1>1, <2>5 DEF SaveConnected, VerifyConnected, PruneUndo, SaveFromSync, store
  <2> QED
    BY <1>8, <2>1, <2>2, <2>3, <2>4, <2>5 DEF IntakeNext
<1>9. CASE ExecutorNext
  <2>1. CASE \/ SkipActivation \/ DeferActivation \/ Prepare \/ BeginExecution \/ Abandon
             \/ DisconnectFails \/ PromoteFails \/ SavePromoted \/ VerifyPromoted
             \/ FinishReorg
    BY <1>1, <2>1 DEF SkipActivation, DeferActivation, Prepare, BeginExecution, Abandon,
       DisconnectFails, PromoteFails, SavePromoted, VerifyPromoted, FinishReorg, store
  <2>2. CASE ClearBlockers
    <3>1. dState' = dState /\ dBlock' = dBlock \ Blockers(plan.cand)
      BY <2>2 DEF ClearBlockers, DropSides, DeleteSides
    <3>2. Blockers(plan.cand) \subseteq OwnedIn(dSide)
      BY <1>3 DEF Blockers
    <3> QED
      BY <1>2, <3>1, <3>2
  <2>3. CASE DisconnectTip
    <3>1. RollbackBatch /\ tip \in NonGenesis /\ dState = tip
      BY <1>0, <2>3, Typed DEF DisconnectTip, CanRollback, NonGenesis, PhaseInv, ReorgInv, Quiet
    <3> QED
      BY <1>4, <3>1
  <2>4. CASE PromoteNext
    <3>1. PromoteBatch(NextOf(plan.cand)) /\ tip \in Anc[plan.cand] \ {plan.cand}
      BY <1>0, <2>4 DEF PromoteNext, PhaseInv, ReorgInv
    <3>2. NextOf(plan.cand) \in NonGenesis /\ Parent[NextOf(plan.cand)] = tip
      BY <3>1, Typed, NextOfIs
    <3> QED
      BY <1>5, <1>6, <3>1, <3>2 DEF PromoteBatch
  <2> QED
    BY <1>9, <2>1, <2>2, <2>3, <2>4 DEF ExecutorNext
<1>10. CASE RecoveryNext
  <2>1. CASE Boot
    <3>1. CASE ~ \E t \in Blocks : Loads(t)
      BY <1>1, <2>1, <3>1 DEF Boot
    <3>2. CASE \E t \in Blocks : Loads(t)
      <4>1. PICK t \in Blocks :
              \E deleted \in {Purged(Reloaded(t, dSide, dBlock)), {}} :
                dBlock' = dBlock \ (deleted \ Anc[t])
        BY <2>1, <3>2 DEF Boot
      <4>2. PICK deleted \in {Purged(Reloaded(t, dSide, dBlock)), {}} :
              dBlock' = dBlock \ (deleted \ Anc[t])
        BY <4>1
      <4>3. deleted \subseteq OwnedIn(dSide)
        BY <4>2 DEF Purged
      <4>4. dState' = dState /\ dBlock \ deleted \subseteq dBlock'
        BY <2>1, <4>2 DEF Boot
      <4> QED
        BY <1>2, <4>3, <4>4
    <3> QED
      BY <3>1, <3>2
  <2>2. CASE \/ RecoverPending \/ RecoverMarker \/ RecoverSave \/ RecoverPublish
             \/ RecoverFinalize \/ RecoverFails \/ Reconcile
    BY <1>1, <2>2 DEF RecoverPending, RecoverMarker, RecoverSave, RecoverPublish,
       RecoverFinalize, RecoverFails, Reconcile, store
  <2>3. CASE RecoverDisconnect
    BY <1>4, <2>3, Typed DEF RecoverDisconnect, CanRollback, NonGenesis, Probe
  <2>4. CASE RecoverConnect
    <3>1. Moving(dReorg) /\ PromoteBatch(NextOf(dReorg.cand)) /\ Verdict = "connect"
      BY <1>0, <2>4 DEF RecoverConnect, PhaseInv, StartInv
    <3>2. NextOf(dReorg.cand) \in NonGenesis /\ Parent[NextOf(dReorg.cand)] = tip
      BY <1>0, <3>1, StateOfConnect
    <3> QED
      BY <1>5, <1>6, <3>1, <3>2 DEF PromoteBatch
  <2> QED
    BY <1>10, <2>1, <2>2, <2>3, <2>4 DEF RecoveryNext
<1>11. CASE LifeNext
  BY <1>1, <1>11 DEF LifeNext, Crash, BeginStop, Exit, GiveUp, store
<1> QED
  BY <1>7, <1>8, <1>9, <1>10, <1>11 DEF Next

\* What is kept below N is enough for a state that has not fallen too far below it,
\* wherever on its way a reorg has taken it.
LEMMA RetainedReaches ==
    ASSUME NEW N \in Nat, ~Fallen(N), TypeInv, Retained(N), OnTheWay,
           NEW b \in Anc[dState] \ {Genesis}, Height[dState] - Height[b] < MaxForkDepth
    PROVE  b \in dUndo
<1>1. /\ b \in Blocks /\ Height[b] \in Nat /\ Height[dState] \in Nat
      /\ UndoRetention \in Nat /\ MaxForkDepth \in Nat
  BY Typed, Chains, PolicyAssumption
<1>2. N - Height[b] <= UndoRetention
  BY <1>1 DEF Fallen
<1>3. CASE b \in Anc[Committed]
  BY <1>2, <1>3 DEF Retained
<1>4. CASE b \notin Anc[Committed]
  <2>1. Moving(dReorg) /\ b \notin Anc[dReorg.orig]
    BY <1>4 DEF Committed
  <2> QED
    BY <2>1 DEF OnTheWay, NewBranch, Joining
<1> QED
  BY <1>3, <1>4

LEMMA StoredAlways == Spec /\ []SidesApart => [](Anc[dState] \subseteq dBlock)
<1>1. Init => Anc[dState] \subseteq dBlock
  BY TreeShape DEF Init
<1>2. (TypeInv /\ NodeInv) /\ SidesApart /\ Anc[dState] \subseteq dBlock /\ [Next]_vars
        => (Anc[dState] \subseteq dBlock)'
  BY StoredStep
<1> QED
  BY <1>1, <1>2, NodeAlways, PTL DEF Spec

\* Wherever crashes, reorgs and recoveries have left the state, a reorg as deep as the
\* policy allows finds the blocks and the journals it must undo: UndoWithinReach of
\* ChainNode, about pruneActiveUndoJournals and everything else that deletes.  N is the
\* greatest height at which the committed tip has stood (Spec asks nothing of what comes
\* next, so a behaviour may be cut off, and end in stuttering, anywhere): whichever reorgs to
\* lower and heavier chains followed, the journals last until the state stands more than
\* UndoRetention + 1 - MaxForkDepth blocks below it, in the code 4097.  No confirmed
\* block may be left in the side pool, whose blocks may be deleted.
THEOREM UndoStaysInReach ==
    ASSUME NEW N \in Nat
    PROVE  Spec /\ []SidesApart /\ []UpTo(N) => [](Fallen(N) \/ UndoWithinReach)
<1>1. Init => Retained(N) /\ OnTheWay
  BY TreeShape DEF Init, Retained, OnTheWay, Committed, Moving, NoReorg
<1>2. (TypeInv /\ NodeInv) /\ EndInv /\ UpTo(N) /\ Retained(N) /\ OnTheWay /\ [Next]_vars
        => Retained(N)' /\ OnTheWay'
  BY RetainedStep
<1>3. (TypeInv /\ NodeInv) /\ Retained(N) /\ OnTheWay /\ Anc[dState] \subseteq dBlock
        => Fallen(N) \/ UndoWithinReach
  BY RetainedReaches DEF UndoWithinReach
<1> QED
  BY <1>1, <1>2, <1>3, NodeAlways, EndAlways, StoredAlways, PTL DEF Spec

----------------------------------------------------------------------------
(* What an interrupted reorg leaves is recognised *)

\* A branch is as long as it rises above the fork.
LEMMA BranchLength ==
    ASSUME NEW a \in Blocks, NEW b \in Blocks
    PROVE  Cardinality(Leaving(a, b)) = Height[a] - Height[ForkOf(a, b)]
<1> DEFINE S == {x \in Blocks : Cardinality(Leaving(x, b)) = Height[x] - Height[ForkOf(x, b)]}
<1>1. ASSUME NEW x \in Blocks, x \in Anc[b] PROVE x \in S
  <2>1. x \in Anc[x] \cap Anc[b] /\ \A d \in Anc[x] \cap Anc[b] : Height[d] <= Height[x]
    BY <1>1, Chains, TreeClosure
  <2>2. /\ ForkOf(x, b) \in Anc[x] \cap Anc[b]
        /\ \A d \in Anc[x] \cap Anc[b] : Height[d] <= Height[ForkOf(x, b)]
    BY <2>1 DEF ForkOf
  <2>3. Height[ForkOf(x, b)] <= Height[x] /\ Height[x] <= Height[ForkOf(x, b)]
    BY <2>1, <2>2
  <2>4. Height[ForkOf(x, b)] \in Nat /\ Height[x] \in Nat
    BY <2>2, Chains
  <2>5. Leaving(x, b) = {}
    BY <1>1, TreeClosure DEF Leaving
  <2> QED
    BY <2>3, <2>4, <2>5, FS_EmptySet
<1>2. Genesis \in S
  BY <1>1, Chains, TreeTyping
<1>3. ASSUME NEW x \in NonGenesis, Parent[x] \in S PROVE x \in S
  <2>1. CASE x \in Anc[b]
    BY <1>1, <2>1, ParentOf
  <2>2. CASE x \notin Anc[b]
    <3>1. Anc[x] \cap Anc[b] = Anc[Parent[x]] \cap Anc[b]
      BY <2>2, ParentOf
    <3>2. ForkOf(x, b) = ForkOf(Parent[x], b)
      BY <3>1 DEF ForkOf
    <3>3. Leaving(x, b) = Leaving(Parent[x], b) \cup {x} /\ x \notin Leaving(Parent[x], b)
      BY <2>2, ParentOf DEF Leaving
    <3>4. /\ IsFiniteSet(Leaving(Parent[x], b)) /\ Cardinality(Leaving(Parent[x], b)) \in Nat
          /\ ForkOf(x, b) \in Blocks
      BY <3>2, ParentOf, BranchFinite, DepthBound
    <3>5. Cardinality(Leaving(x, b)) = Cardinality(Leaving(Parent[x], b)) + 1
      BY <3>3, <3>4, FS_AddElement
    <3>6. Height[x] = Height[Parent[x]] + 1 /\ Height[Parent[x]] \in Nat
          /\ Height[ForkOf(x, b)] \in Nat
      BY <3>4, ParentOf, Chains
    <3>7. Cardinality(Leaving(Parent[x], b)) = Height[Parent[x]] - Height[ForkOf(x, b)]
      BY <1>3, <3>2
    <3>8. Cardinality(Leaving(x, b)) = Height[x] - Height[ForkOf(x, b)]
      BY <3>5, <3>6, <3>7
    <3> QED
      BY <3>8, ParentOf
  <2> QED
    BY <2>1, <2>2
<1>4. Blocks \subseteq S
  <2> HIDE DEF S
  <2> QED
    BY <1>2, <1>3, BlockInduction
<1> QED
  BY <1>4

\* On one chain the lower block is an ancestor of the higher one.
LEMMA LowerIsAncestor ==
    ASSUME NEW x \in Blocks, NEW c \in Anc[x], NEW t \in Anc[x], Height[c] <= Height[t]
    PROVE  c \in Anc[t]
<1> DEFINE S == {y \in Blocks : \A d, e \in Anc[y] : Height[d] <= Height[e] => d \in Anc[e]}
<1>1. Genesis \in S
  BY TreeShape, TreeTyping
<1>2. ASSUME NEW y \in NonGenesis, Parent[y] \in S PROVE y \in S
  <2> SUFFICES ASSUME NEW d \in Anc[y], NEW e \in Anc[y], Height[d] <= Height[e]
               PROVE  d \in Anc[e]
    BY ParentOf
  <2>1. CASE e = y
    BY <2>1
  <2>2. CASE e \in Anc[Parent[y]] /\ d = y
    <3>1. Height[e] <= Height[Parent[y]] /\ Height[y] = Height[Parent[y]] + 1
      BY <2>2, ParentOf, TreeClosure
    <3>2. Height[e] \in Nat /\ Height[Parent[y]] \in Nat
      BY <2>2, ParentOf, Chains
    <3> QED
      BY <2>2, <3>1, <3>2
  <2>3. CASE e \in Anc[Parent[y]] /\ d \in Anc[Parent[y]]
    BY <1>2, <2>3
  <2> QED
    BY <2>1, <2>2, <2>3, ParentOf
<1>3. Blocks \subseteq S
  <2> HIDE DEF S
  <2> QED
    BY <1>1, <1>2, BlockInduction
<1> QED
  BY <1>3

\* The tip of a marker is where its progress puts it, and what it counts as connected
\* is what its tip has joined.
LEMMA MarkedTipIs ==
    ASSUME TypeInv, MarkerCounts(dReorg)
    PROVE  /\ MarkedTip = dReorg.tip
           /\ \A c \in NewBranch : c \in Connected <=> c \in Anc[dReorg.tip]
           /\ dReorg.cd > 0 => dReorg.tip \in Anc[dReorg.cand]
           /\ dReorg.dd <= Cardinality(OldBranch) /\ dReorg.cd <= Cardinality(NewBranch)
<1> DEFINE t == dReorg.tip
           o == dReorg.orig
           c == dReorg.cand
           f == ForkOf(o, c)
<1>1. /\ t \in Blocks /\ o \in Blocks /\ c \in Blocks
      /\ dReorg.dd = Cardinality(Leaving(o, t)) /\ dReorg.cd = Cardinality(Joining(o, t))
      /\ Anc[o] \cap Anc[c] \subseteq Anc[t] /\ t \in Anc[o] \cup Anc[c]
  BY Typed, MarkerFields DEF MarkerCounts
<1>2. /\ Height[t] \in Nat /\ Height[o] \in Nat /\ Height[f] \in Nat /\ f \in Blocks
      /\ dReorg.dd \in Nat /\ dReorg.cd \in Nat
  BY <1>1, Chains, DepthBound, Typed, MarkerFields
<1>3. /\ IsFiniteSet(Leaving(o, c)) /\ IsFiniteSet(Joining(o, c)) /\ IsFiniteSet(Joining(o, t))
  BY <1>1, BranchFinite
<1>4. dReorg.dd <= Cardinality(OldBranch)
  <2>1. Leaving(o, t) \subseteq Leaving(o, c)
    BY <1>1 DEF Leaving
  <2> QED
    BY <1>1, <1>3, <2>1, FS_Subset DEF OldBranch
<1>5. f \in Anc[o] \cap Anc[c]
  BY <1>1, ForkIsCommon
<1>6. CASE t \notin Anc[o]
  <2>1. t \in Anc[c] /\ Anc[t] \subseteq Anc[c]
    BY <1>1, <1>6, TreeClosure
  <2>2. Anc[t] \cap Anc[o] = Anc[o] \cap Anc[c]
    BY <1>1, <2>1
  <2>3. ForkOf(t, o) = f
    BY <2>2 DEF ForkOf
  <2>4. Joining(o, t) = Leaving(t, o)
    BY DEF Joining, Leaving
  <2>5. dReorg.cd = Height[t] - Height[f]
    BY <1>1, <2>3, <2>4, BranchLength
  <2>6. Height[f] + dReorg.cd = Height[t]
    BY <1>2, <2>5
  <2>7. f \in Anc[t] /\ f # t
    BY <1>5, <1>6, <2>2
  <2>8. dReorg.cd > 0
    <3>1. Height[f] <= Height[t] /\ Height[f] # Height[t]
      BY <1>1, <2>7, TreeClosure
    <3> QED
      BY <1>2, <2>5, <3>1
  <2>9. BlockAt(c, Height[t]) = t
    BY <1>1, <2>1, TreeClosure DEF BlockAt
  <2>10. MarkedTip = t
    BY <2>6, <2>8, <2>9 DEF MarkedTip, ForkPoint
  <2>11. ASSUME NEW d \in NewBranch PROVE d \in Connected <=> d \in Anc[t]
    <3>1. d \in Anc[c]
      BY DEF NewBranch, Joining
    <3>2. d \in Connected <=> Height[d] <= Height[t]
      BY <2>6 DEF Connected, ForkPoint
    <3>3. d \in Anc[t] => Height[d] <= Height[t]
      BY <1>1, TreeClosure
    <3>4. Height[d] <= Height[t] => d \in Anc[t]
      BY <1>1, <2>1, <3>1, LowerIsAncestor
    <3> QED
      BY <3>2, <3>3, <3>4
  <2>12. Joining(o, t) \subseteq Joining(o, c)
    BY <2>1 DEF Joining
  <2>13. dReorg.cd <= Cardinality(NewBranch)
    BY <1>1, <1>3, <2>12, FS_Subset DEF NewBranch
  <2> QED
    BY <1>4, <2>1, <2>10, <2>11, <2>13
<1>7. CASE t \in Anc[o]
  <2>1. Anc[t] \subseteq Anc[o]
    BY <1>1, <1>7, TreeClosure
  <2>2. Joining(o, t) = {}
    BY <2>1 DEF Joining
  <2>3. dReorg.cd = 0
    BY <1>1, <2>2, FS_EmptySet
  <2>4. ForkOf(o, t) = t
    <3>1. t \in Anc[o] \cap Anc[t] /\ \A d \in Anc[o] \cap Anc[t] : Height[d] <= Height[t]
      BY <1>1, <1>7, Chains, TreeClosure
    <3>2. /\ ForkOf(o, t) \in Anc[o] \cap Anc[t]
          /\ \A d \in Anc[o] \cap Anc[t] : Height[d] <= Height[ForkOf(o, t)]
      BY <3>1 DEF ForkOf
    <3>3. Height[ForkOf(o, t)] <= Height[t] /\ Height[t] <= Height[ForkOf(o, t)]
      BY <3>1, <3>2
    <3>4. Height[ForkOf(o, t)] = Height[t]
      BY <1>1, <1>2, <3>2, <3>3, Chains
    <3> QED
      BY <1>1, <1>7, <3>2, <3>4, TreeClosure
  <2>5. dReorg.dd = Height[o] - Height[t]
    BY <1>1, <2>4, BranchLength
  <2>6. BlockAt(o, Height[t]) = t
    BY <1>1, <1>7, TreeClosure DEF BlockAt
  <2>7. Height[o] - dReorg.dd = Height[t]
    BY <1>2, <2>5
  <2>8. MarkedTip = t
    BY <2>3, <2>6, <2>7 DEF MarkedTip
  <2>9. ASSUME NEW d \in NewBranch PROVE d \notin Connected /\ d \notin Anc[t]
    <3>1. d \in Anc[c] /\ d \notin Anc[o]
      BY DEF NewBranch, Joining
    <3>2. d \notin Anc[f]
      BY <1>1, <1>5, <3>1, TreeClosure
    <3>3. ~(Height[d] <= Height[f])
      BY <1>1, <1>5, <3>1, <3>2, LowerIsAncestor
    <3> QED
      BY <1>2, <2>1, <2>3, <3>1, <3>3 DEF Connected, ForkPoint
  <2>10. Cardinality(Joining(o, c)) \in Nat
    BY <1>1, BranchFinite
  <2> QED
    BY <1>4, <2>3, <2>8, <2>9, <2>10 DEF NewBranch
<1> QED
  BY <1>6, <1>7

\* What the records say of the new branch, and of the old one once the pool is reserved:
\* a new block has its side record until its state is committed with its journal, an old
\* one has none until it is disconnected.
WayInv ==
    dReorg.phase # "NONE" =>
      /\ NewBranch \subseteq Valid /\ dReorg.orig \notin Anc[dReorg.cand]
      /\ \A c \in NewBranch : IF c \in Anc[dState] THEN dSide[c] = NoSource /\ c \in dUndo
                                                   ELSE dSide[c] # NoSource
      /\ Moving(dReorg) \/ pc = "Disconnect" =>
           \A b \in OldBranch : b \in Anc[dReorg.tip] => dSide[b] = NoSource
      /\ Moving(dReorg) => /\ dReorg.orig \notin Anc[dReorg.tip]
                           /\ dReorg.phase = "CONNECT_PUBLISHED" <=> dReorg.cd > 0

\* It stays true with the marker ...
LEMMA WayKept ==
    ASSUME WayInv, UNCHANGED <<dReorg, dState, dSide>>, dUndo \subseteq dUndo',
           pc' = "Disconnect" => pc = "Disconnect"
    PROVE  WayInv'
BY DEF WayInv, OldBranch, NewBranch

\* ... when a block is disconnected ...
LEMMA WayDown ==
    ASSUME TypeInv, WayInv, Disconnects, Moving(dReorg) \/ pc = "Disconnect"
    PROVE  WayInv'
<1>1. /\ dReorg'.orig = dReorg.orig /\ dReorg'.cand = dReorg.cand /\ dReorg'.tip = Parent[tip]
      /\ dReorg'.phase = "DISCONNECT_COMMITTED" /\ dReorg'.cd = 0
      /\ dUndo' = dUndo /\ dState' = Parent[tip]
      /\ \A b \in Blocks : dSide'[b] = IF b = tip THEN Local ELSE dSide[b]
  BY Typed DEF Disconnects, RollbackBatch, Progress, Marker
<1>2. Anc[tip] = Anc[Parent[tip]] \cup {tip} /\ tip \notin Anc[Parent[tip]]
  BY ParentOf DEF Disconnects
<1>3. /\ dReorg.phase # "NONE" /\ dState = tip /\ dReorg.tip = tip /\ tip \notin Anc[dReorg.cand]
      /\ ~Moving(dReorg) => dReorg.orig = tip
  BY DEF Disconnects
<1>4. OldBranch' = OldBranch /\ NewBranch' = NewBranch
  BY <1>1 DEF OldBranch, NewBranch
<1>5. OldBranch \subseteq Blocks /\ NewBranch \subseteq Blocks
  BY Typed, MarkerFields, BranchFinite DEF OldBranch, NewBranch
<1>6. ASSUME NEW c \in NewBranch
      PROVE  IF c \in Anc[Parent[tip]] THEN dSide'[c] = NoSource /\ c \in dUndo'
                                       ELSE dSide'[c] # NoSource
  <2>1. c \in Blocks /\ c # tip
    BY <1>3, <1>5 DEF NewBranch, Joining
  <2> QED
    BY <1>1, <1>2, <1>3, <2>1 DEF WayInv
<1>7. ASSUME NEW b \in OldBranch, b \in Anc[Parent[tip]] PROVE dSide'[b] = NoSource
  <2>1. b \in Anc[dReorg.tip] /\ b # tip /\ b \in Blocks
    BY <1>2, <1>3, <1>5, <1>7
  <2>2. dSide[b] = NoSource
    BY <1>3, <1>7, <2>1 DEF WayInv
  <2> QED
    BY <1>1, <2>1, <2>2
<1>8. dReorg.orig \notin Anc[Parent[tip]]
  BY <1>2, <1>3 DEF WayInv
<1> QED
  BY <1>1, <1>3, <1>4, <1>6, <1>7, <1>8, Typed, MarkerFields DEF WayInv

\* ... when the next candidate is promoted ...
LEMMA WayPromoted ==
    ASSUME TypeInv, WayInv, NEW b \in Blocks, Promotes(b)
    PROVE  WayInv'
<1>1. /\ dReorg' = dReorg /\ dState' = b /\ dUndo \subseteq dUndo' /\ b \in dUndo'
      /\ \A c \in Blocks : dSide'[c] = IF c = b THEN NoSource ELSE dSide[c]
  BY Typed DEF Promotes, PromoteBatch, SidesWithout
<1>2. Moving(dReorg) /\ dReorg.phase # "NONE" /\ Anc[b] = Anc[dState] \cup {b}
  BY ParentOf DEF Promotes, Moving
<1>3. OldBranch' = OldBranch /\ NewBranch' = NewBranch
  BY <1>1 DEF OldBranch, NewBranch
<1>4. OldBranch \subseteq Blocks /\ NewBranch \subseteq Blocks
  BY Typed, MarkerFields, BranchFinite DEF OldBranch, NewBranch
<1>5. ASSUME NEW c \in NewBranch
      PROVE  IF c \in Anc[b] THEN dSide'[c] = NoSource /\ c \in dUndo'
                             ELSE dSide'[c] # NoSource
  <2>1. CASE c = b
    BY <1>1, <1>2, <2>1
  <2>2. CASE c # b
    <3>1. IF c \in Anc[dState] THEN dSide[c] = NoSource /\ c \in dUndo
                               ELSE dSide[c] # NoSource
      BY <1>2 DEF WayInv
    <3> QED
      BY <1>1, <1>2, <1>4, <2>2, <3>1
  <2> QED
    BY <2>1, <2>2
<1>6. ASSUME NEW d \in OldBranch, d \in Anc[dReorg.tip] PROVE dSide'[d] = NoSource
  <2>1. dSide[d] = NoSource
    BY <1>2, <1>6 DEF WayInv
  <2> QED
    BY <1>1, <1>4, <2>1
<1> QED
  BY <1>1, <1>2, <1>3, <1>5, <1>6 DEF WayInv

\* ... and when it is published.
LEMMA WayUp ==
    ASSUME TypeInv, WayInv, Moving(dReorg), MarkerCounts(dReorg),
           NEW b \in NewBranch, b \in NonGenesis, Parent[b] = dReorg.tip,
           dReorg' = Progress(dReorg, "CONNECT_PUBLISHED", dReorg.dd, dReorg.cd + 1, b),
           UNCHANGED <<dState, dSide, dUndo>>
    PROVE  WayInv'
<1>1. /\ dReorg'.orig = dReorg.orig /\ dReorg'.cand = dReorg.cand /\ dReorg'.tip = b
      /\ dReorg'.phase = "CONNECT_PUBLISHED" /\ dReorg'.cd = dReorg.cd + 1
  BY Typed DEF Progress, Marker
<1>2. dReorg.phase # "NONE" /\ dReorg.cd \in Nat /\ dReorg.orig \in Blocks
  BY Typed, MarkerFields DEF Moving
<1>3. OldBranch' = OldBranch /\ NewBranch' = NewBranch
  BY <1>1 DEF OldBranch, NewBranch
<1>4. Anc[b] = Anc[dReorg.tip] \cup {b} /\ b \notin Anc[dReorg.orig]
  BY ParentOf DEF NewBranch, Joining
<1>5. dReorg.orig \notin Anc[b]
  BY <1>2, <1>4, Chains DEF WayInv
<1>6. ASSUME NEW d \in OldBranch, d \in Anc[b] PROVE dSide'[d] = NoSource
  <2>1. d \in Anc[dReorg.tip]
    BY <1>4, <1>6 DEF OldBranch, Leaving
  <2> QED
    BY <1>2, <2>1 DEF WayInv
<1>7. \A c \in NewBranch : IF c \in Anc[dState'] THEN dSide'[c] = NoSource /\ c \in dUndo'
                                                 ELSE dSide'[c] # NoSource
  BY <1>2 DEF WayInv
<1>8. dReorg'.cd > 0
  BY <1>1, <1>2
<1> QED
  BY <1>1, <1>2, <1>3, <1>5, <1>6, <1>7, <1>8 DEF WayInv

\* A new marker starts with it.
LEMMA WayPrepared ==
    ASSUME TypeInv, Quiet, MemoryInv, Prepare
    PROVE  WayInv'
<1>1. /\ dReorg'.phase = "PREPARED" /\ dReorg'.orig = tip /\ dReorg'.cand = plan.cand
      /\ dState' = tip /\ dSide' = dSide /\ pc' = "Prepared"
      /\ PlanExists(plan.cand) /\ PlanDurable(plan.cand)
      /\ Joining(tip, plan.cand) \subseteq Valid
  BY DEF Prepare, PreflightPasses, NoReorg, Quiet
<1>2. tip \notin Anc[plan.cand] /\ Joining(tip, plan.cand) \subseteq SideBlocks
  BY <1>1 DEF PlanExists
<1>3. ASSUME NEW c \in Joining(tip, plan.cand)
      PROVE  c \notin Anc[tip] /\ dSide[c] # NoSource
  <2>1. c \in Blocks /\ side[c] # NoSource
    BY <1>2 DEF SideBlocks, OwnedIn
  <2> QED
    BY <2>1 DEF MemoryInv
<1> QED
  BY <1>1, <1>2, <1>3 DEF WayInv, NewBranch, Moving

\* Every step keeps it.
LEMMA WayStep ==
    ASSUME TypeInv, NodeInv, EndInv, WayInv, [Next]_vars
    PROVE  WayInv'
<1>0. StoreInv /\ PhaseInv /\ MemoryInv
  BY DEF NodeInv, PhaseInv
<1>1. ASSUME UNCHANGED <<dReorg, dState, dSide, dUndo>>, pc' = "Disconnect" => pc = "Disconnect"
      PROVE  WayInv'
  BY <1>1, WayKept
<1>2. ASSUME dReorg' = NoReorg PROVE WayInv'
  BY <1>2 DEF WayInv, NoReorg
<1>3. dReorg.phase # "NONE" => MarkerCounts(dReorg)
  BY <1>0 DEF StoreInv, MarkerInv
<1>4. ASSUME InGap, dState' = dState, dSide' = dSide, dUndo' = dUndo, PublishPromoted
      PROVE  WayInv'
  <2>1. tip \in NewBranch /\ tip \in NonGenesis /\ Parent[tip] = dReorg.tip /\ Moving(dReorg)
    BY <1>4 DEF InGap, Ahead
  <2>2. dReorg' = Progress(dReorg, "CONNECT_PUBLISHED", dReorg.dd, dReorg.cd + 1, tip)
    BY <1>4 DEF PublishPromoted
  <2> QED
    BY <1>3, <1>4, <2>1, <2>2, WayUp DEF Moving
<1>5. ASSUME Disconnects, Moving(dReorg) \/ pc = "Disconnect" PROVE WayInv'
  BY <1>5, WayDown
<1>6. ASSUME NEW b \in Blocks, Promotes(b) PROVE WayInv'
  BY <1>6, WayPromoted
<1>7. ASSUME RollbackBatch, tip \in NonGenesis, dState = tip, dTip = tip, dReorg.phase # "NONE",
             dReorg.tip = tip, tip \notin Anc[dReorg.cand]
      PROVE  Disconnects
  <2>1. ~Moving(dReorg) => dReorg.orig = tip
    BY <1>0, <1>7, Phases DEF StoreInv, MarkerInv
  <2> QED
    BY <1>3, <1>7, <2>1 DEF Disconnects
<1>8. CASE UNCHANGED vars
  BY <1>1, <1>8 DEF vars, store
<1>9. CASE IntakeNext
  <2>1. ASSUME NEW b \in Blocks, NEW s \in Sources,
               ConnectTip(b) \/ AdmitSide(b, s) \/ ReplaceSide(b, s)
        PROVE  WayInv'
    <3>1. dReorg = NoReorg /\ dReorg' = dReorg
      BY <1>0, <2>1 DEF ConnectTip, AdmitSide, ReplaceSide, SideAdmissible, Accepting,
         PhaseInv, ConnectInv, AtRest
    <3> QED
      BY <1>2, <3>1
  <2>2. CASE PruneStale \/ PruneUndo
    <3>1. dReorg = NoReorg /\ dReorg' = dReorg
      BY <1>0, <2>2 DEF PruneStale, PruneUndo, PhaseInv, ConnectInv, AtRest
    <3> QED
      BY <1>2, <3>1
  <2>3. CASE SaveConnected \/ VerifyConnected \/ SaveFromSync
    BY <1>1, <2>3 DEF SaveConnected, VerifyConnected, SaveFromSync, store
  <2>4. Local \in Sources
    BY DEF Sources
  <2> QED
    BY <1>9, <2>1, <2>2, <2>3, <2>4 DEF IntakeNext
<1>10. CASE ExecutorNext
  <2>1. CASE \/ SkipActivation \/ DeferActivation \/ DisconnectFails \/ PromoteFails
             \/ VerifyPromoted
    BY <1>1, <2>1 DEF SkipActivation, DeferActivation, DisconnectFails, PromoteFails,
       VerifyPromoted, AfterPromotion, Settle, Halt, store
  <2>2. CASE ClearBlockers
    BY <1>2, <2>2 DEF ClearBlockers
  <2>3. CASE Prepare
    <3>1. Quiet
      BY <1>0, <2>3 DEF Prepare, PhaseInv, ConnectInv, AtRest
    <3> QED
      BY <1>0, <2>3, <3>1, WayPrepared
  <2>4. CASE BeginExecution
    <3>1. UNCHANGED <<dReorg, dState, dSide, dUndo>> /\ dReorg.orig = plan.orig
      BY <2>4 DEF BeginExecution, store, EndInv
    <3>2. CASE pc' # "Disconnect"
      BY <1>1, <3>1, <3>2
    <3>3. CASE pc' = "Disconnect"
      <4>1. dReorg.cand = plan.cand /\ Reserved
        BY <2>4, <3>3 DEF BeginExecution
      <4>2. \A b \in OldBranch : dSide[b] = NoSource
        BY <3>1, <4>1 DEF Reserved, OldBranch
      <4> QED
        BY <3>1, <4>2 DEF WayInv, OldBranch, NewBranch
    <3> QED
      BY <3>2, <3>3
  <2>5. CASE Abandon \/ FinishReorg
    BY <1>1, <1>2, <2>5 DEF Abandon, FinishReorg, Settle, Halt
  <2>6. CASE DisconnectTip
    <3>1. Quiet /\ Marked /\ dReorg.phase # "NONE" /\ tip \notin Anc[plan.cand]
      BY <1>0, <2>6 DEF DisconnectTip, PhaseInv, ReorgInv
    <3>2. RollbackBatch /\ tip \in NonGenesis
      BY <2>6, Typed DEF DisconnectTip, CanRollback, NonGenesis
    <3>3. pc = "Disconnect"
      BY <2>6 DEF DisconnectTip
    <3> QED
      BY <1>5, <1>7, <3>1, <3>2, <3>3 DEF Quiet, Marked
  <2>7. CASE PromoteNext
    <3>1. /\ Moving(dReorg) /\ dState = tip /\ tip \in Anc[plan.cand] \ {plan.cand}
          /\ dReorg.cand = plan.cand /\ PromoteBatch(NextOf(plan.cand))
      BY <1>0, <2>7 DEF PromoteNext, PhaseInv, ReorgInv, Quiet, Marked
    <3>2. /\ NextOf(plan.cand) \in NonGenesis /\ NextOf(plan.cand) \in Anc[plan.cand]
          /\ Parent[NextOf(plan.cand)] = tip
      BY <3>1, Typed, NextOfIs
    <3> QED
      BY <1>6, <3>1, <3>2, ParentOf DEF Promotes
  <2>8. CASE SavePromoted
    <3>1. InGap /\ dState' = dState /\ dSide' = dSide /\ dUndo' = dUndo /\ pc' = "PromoteVerify"
      BY <1>0, <2>8 DEF SavePromoted, PhaseInv, ReorgInv
    <3> QED
      BY <1>1, <1>4, <2>8, <3>1 DEF SavePromoted
  <2> QED
    BY <1>10, <2>1, <2>2, <2>3, <2>4, <2>5, <2>6, <2>7, <2>8 DEF ExecutorNext
<1>11. CASE RecoveryNext
  <2>1. CASE Boot
    <3>1. CASE dReorg = NoReorg
      BY <1>2, <2>1, <3>1 DEF Boot
    <3>2. CASE dReorg # NoReorg
      <4>1. \A kept : Purged(kept) = {}
        BY <3>2 DEF Purged
      <4>2. Only(dSide, Blocks \ {}) = dSide
        BY Typed DEF Only
      <4>3. ASSUME \E t \in Blocks : Loads(t) PROVE dSide' = dSide
        <5>1. PICK t \in Blocks :
                \E deleted \in {Purged(Reloaded(t, dSide, dBlock)), {}} :
                  dSide' = Only(dSide, Blocks \ deleted)
          BY <2>1, <4>3 DEF Boot
        <5> QED
          BY <4>1, <4>2, <5>1
      <4>4. pc' # "Disconnect"
        BY <2>1 DEF Boot, Refuse
      <4> QED
        BY <1>1, <2>1, <4>3, <4>4 DEF Boot
    <3> QED
      BY <3>1, <3>2
  <2>2. CASE RecoverPending \/ RecoverFails \/ Reconcile
    BY <1>1, <2>2 DEF RecoverPending, RecoverFails, Reconcile, Refuse, store
  <2>3. CASE RecoverMarker \/ RecoverFinalize
    BY <1>1, <1>2, <2>3 DEF RecoverMarker, RecoverFinalize, Refuse
  <2>a. pc = "Recover" => Moving(dReorg) /\ dReorg.phase # "NONE"
    BY <1>0 DEF PhaseInv, StartInv, Moving
  <2>4. CASE RecoverDisconnect
    <3>1. RollbackBatch /\ tip \in NonGenesis /\ dState = tip
      BY <2>4, Typed DEF RecoverDisconnect, CanRollback, Probe, NonGenesis
    <3>2. MarkerShape /\ dReorg.dd < Cardinality(OldBranch)
      BY <2>4, Verdicts DEF RecoverDisconnect
    <3>3. dReorg.tip = tip /\ tip = dTip /\ tip \notin Anc[dReorg.cand]
      BY <1>0, <2>4, <2>a, <3>2, WhereItStopped DEF RecoverDisconnect
    <3> QED
      BY <1>5, <1>7, <2>4, <2>a, <3>1, <3>3 DEF RecoverDisconnect
  <2>5. CASE RecoverConnect
    <3>1. Moving(dReorg) /\ Verdict = "connect" /\ PromoteBatch(NextOf(dReorg.cand))
      BY <2>5, <2>a DEF RecoverConnect
    <3> QED
      BY <1>0, <1>6, <3>1, StateOfConnect, ParentOf DEF Promotes
  <2>6. CASE RecoverSave
    <3>1. InGap /\ dState' = dState /\ dSide' = dSide /\ dUndo' = dUndo /\ PublishPromoted
      BY <1>0, <2>6 DEF RecoverSave, PhaseInv, StartInv
    <3> QED
      BY <1>4, <3>1
  <2>7. CASE RecoverPublish
    <3>1. /\ Moving(dReorg) /\ dReorg.phase # "NONE" /\ MarkerShape /\ Gap
          /\ dReorg' = Progress(dReorg, "CONNECT_PUBLISHED", dReorg.dd, dReorg.cd + 1,
                                NextOf(dReorg.cand))
          /\ UNCHANGED <<dState, dSide, dUndo>>
      BY <2>7, <2>a, Verdicts DEF RecoverPublish
    <3>2. ~(dReorg.dd < Cardinality(OldBranch)) /\ dReorg.cd < Cardinality(NewBranch)
      BY <3>1, Typed, MarkerFields, BranchFinite DEF Gap, OldBranch
    <3>3. tip \in Anc[dReorg.cand] \ {dReorg.cand} /\ dReorg.tip = tip
      BY <1>0, <3>1, <3>2, WhereItStopped
    <3>4. /\ NextOf(dReorg.cand) \in NonGenesis /\ NextOf(dReorg.cand) \in Anc[dReorg.cand]
          /\ Parent[NextOf(dReorg.cand)] = dReorg.tip
      BY <3>3, Typed, MarkerFields, NextOfIs
    <3>5. NextOf(dReorg.cand) \in NewBranch
      BY <1>3, <3>1, <3>4, Typed, NextIsNew DEF NewBranch
    <3> QED
      BY <1>3, <3>1, <3>4, <3>5, WayUp
  <2> QED
    BY <1>11, <2>1, <2>2, <2>3, <2>4, <2>5, <2>6, <2>7 DEF RecoveryNext
<1>12. CASE LifeNext
  BY <1>1, <1>12 DEF LifeNext, Crash, BeginStop, Exit, GiveUp, Lose, store
<1> QED
  BY <1>8, <1>9, <1>10, <1>11, <1>12 DEF Next

\* A start, or its recovery between two steps, has a moving marker before it.
Interrupted == pc \in {"BootReorg", "Recover"} /\ Moving(dReorg)

\* The reload has kept what it could of the two branches: a record of theirs is a side
\* block, unless its parent is not indexed either.
BranchesReloaded ==
    \A b \in OldBranch \cup NewBranch :
      dSide[b] # NoSource /\ Parent[b] \in Indexed => side[b] # NoSource

\* Where an interrupted reorg has left the chain, the branches and the state.
LEMMA InterruptedAt ==
    ASSUME TypeInv, NodeInv, WayInv, Interrupted, MarkerNamesTip
    PROVE  /\ MarkerCounts(dReorg) /\ dReorg.phase # "NONE"
           /\ dPending = NoBlock /\ tip = dTip /\ dReorg.tip = tip
           /\ OldBranch \subseteq Blocks /\ NewBranch \subseteq Blocks
           /\ dReorg.dd = Cardinality(OldBranch) <=> tip \in Anc[dReorg.cand]
           /\ dState # tip => /\ tip \in Anc[dReorg.cand] \ {dReorg.cand}
                              /\ dState = NextOf(dReorg.cand) /\ dState \in NonGenesis
                              /\ Parent[dState] = tip /\ dSide[dState] = NoSource
<1>1. StoreInv /\ StartInv /\ pc \in {"BootReorg", "Recover"} /\ Moving(dReorg)
  BY DEF NodeInv, Interrupted
<1>2. MarkerCounts(dReorg) /\ dReorg.phase # "NONE"
  BY <1>1 DEF StoreInv, MarkerInv, Moving
<1>3. dPending = NoBlock /\ tip = dTip /\ dReorg.tip = tip
  BY <1>1 DEF StartInv, MarkerNamesTip
<1>4. OldBranch \subseteq Blocks /\ NewBranch \subseteq Blocks
  BY Typed, MarkerFields, BranchFinite DEF OldBranch, NewBranch
<1>5. dReorg.dd = Cardinality(OldBranch) <=> tip \in Anc[dReorg.cand]
  BY <1>2, <1>3, Typed, MarkerReaches DEF OldBranch
<1>6. ASSUME dState # tip
      PROVE  /\ tip \in Anc[dReorg.cand] \ {dReorg.cand}
             /\ dState = NextOf(dReorg.cand) /\ dState \in NonGenesis
             /\ Parent[dState] = tip /\ dSide[dState] = NoSource
  <2>1. /\ dState \in NonGenesis /\ Parent[dState] = tip /\ dState \in NewBranch
        /\ dSide[dState] = NoSource
    BY <1>1, <1>3, <1>6, Typed, TreeTyping DEF StoreInv, StateExplained
  <2>2. dState \in Anc[dReorg.cand] /\ Anc[dState] \subseteq Anc[dReorg.cand]
    BY <2>1, Typed, MarkerFields, TreeClosure DEF NewBranch, Joining
  <2>3. tip \in Anc[dReorg.cand] /\ tip # dReorg.cand
    BY <2>1, <2>2, ParentOf, Typed, Chains
  <2>4. dState = NextOf(dReorg.cand)
    BY <2>1, <2>2, <2>3, Typed, MarkerFields, NextOfIs DEF NonGenesis
  <2> QED
    BY <2>1, <2>3, <2>4
<1> QED
  BY <1>2, <1>3, <1>4, <1>5, <1>6

\* What the reader of a marker asks of it holds.
LEMMA ShapeHolds ==
    ASSUME TypeInv, NodeInv, WayInv, Interrupted, MarkerNamesTip
    PROVE  MarkerShape
<1>1. /\ MarkerCounts(dReorg) /\ dReorg.phase # "NONE" /\ tip = dTip /\ dReorg.tip = tip
      /\ dReorg.dd = Cardinality(OldBranch) <=> tip \in Anc[dReorg.cand]
  BY InterruptedAt
<1>2. /\ MarkedTip = dReorg.tip
      /\ dReorg.cd > 0 => dReorg.tip \in Anc[dReorg.cand]
      /\ dReorg.dd <= Cardinality(OldBranch) /\ dReorg.cd <= Cardinality(NewBranch)
  BY <1>1, MarkedTipIs
<1>3. /\ dReorg.dd \in Nat /\ dReorg.cd \in Nat
      /\ Cardinality(OldBranch) \in Nat /\ Cardinality(NewBranch) \in Nat
  BY Typed, MarkerFields, BranchFinite DEF OldBranch, NewBranch
<1>4. Moving(dReorg)
  BY DEF Interrupted
<1>5. /\ dReorg.orig \notin Anc[dReorg.tip]
      /\ dReorg.phase = "CONNECT_PUBLISHED" <=> dReorg.cd > 0
  BY <1>1, <1>4 DEF WayInv
<1>6. dReorg.dd # 0
  <2>1. dReorg.orig \in Leaving(dReorg.orig, dReorg.tip)
    BY <1>5, Typed, MarkerFields, Chains DEF Leaving
  <2>2. IsFiniteSet(Leaving(dReorg.orig, dReorg.tip))
    BY Typed, MarkerFields, BranchFinite
  <2>3. Cardinality(Leaving(dReorg.orig, dReorg.tip)) # 0
    BY <2>1, <2>2, FS_EmptySet
  <2> QED
    BY <1>1, <2>3 DEF MarkerCounts
<1>7. dHeight[Height[tip]] = tip
  <2>1. Height[tip] \in Heights
    BY Typed DEF Heights
  <2> QED
    BY <1>1, <2>1, Typed, BlockAtTop DEF NodeInv, StoreInv, HeightIndexExact
<1> QED
  BY <1>1, <1>2, <1>3, <1>5, <1>6, <1>7 DEF MarkerShape

\* So every record of a branch above the tip is a side block, outside the window between
\* the two batches of a promotion: its branch hangs on the tip's chain.
LEMMA ReloadedBranches ==
    ASSUME TypeInv, NodeInv, TrailInv, WayInv, Interrupted, MarkerNamesTip, BranchesReloaded
    PROVE  /\ \A b \in OldBranch : b \notin Anc[tip] => side[b] # NoSource
           /\ dState = tip => \A b \in NewBranch : b \notin Anc[tip] => side[b] # NoSource
<1>1. /\ dReorg.phase # "NONE" /\ dReorg.tip = tip
      /\ Anc[dReorg.orig] \cap Anc[dReorg.cand] \subseteq Anc[tip]
  BY InterruptedAt DEF MarkerCounts
<1>2. Trail(dReorg) /\ Local # NoSource
  BY <1>1, PolicyAssumption DEF TrailInv, Sources
<1>3. dReorg.orig \in Blocks /\ dReorg.cand \in Blocks /\ tip \in Blocks
  BY Typed, MarkerFields
<1> DEFINE S == {b \in Blocks : b \in OldBranch /\ b \notin Anc[tip] => side[b] # NoSource}
           U == {b \in Blocks : b \in NewBranch /\ b \notin Anc[tip] => side[b] # NoSource}
<1>4. Genesis \in S /\ Genesis \in U
  BY <1>3, Chains, TreeTyping
<1>5. ASSUME NEW b \in NonGenesis, Parent[b] \in S PROVE b \in S
  <2> SUFFICES ASSUME b \in OldBranch, b \notin Anc[tip] PROVE side[b] # NoSource
    BY ParentOf
  <2>1. Parent[b] \in Anc[dReorg.orig] /\ Parent[b] \in Blocks /\ b \in Blocks
    BY <1>3, ParentOf, Chains, TreeClosure DEF OldBranch, Leaving
  <2>2. Parent[b] \in Anc[tip] \/ Parent[b] \in OldBranch \ Anc[tip]
    BY <1>1, <2>1 DEF OldBranch, Leaving
  <2>3. Parent[b] \in Indexed
    BY <1>5, <2>1, <2>2 DEF Indexed, SideBlocks, OwnedIn
  <2>4. dSide[b] # NoSource
    BY <1>1, <1>2, <2>1 DEF Trail, OldBranch
  <2> QED
    BY <2>3, <2>4 DEF BranchesReloaded
<1>6. ASSUME dState = tip, NEW b \in NonGenesis, Parent[b] \in U PROVE b \in U
  <2> SUFFICES ASSUME b \in NewBranch, b \notin Anc[tip] PROVE side[b] # NoSource
    BY ParentOf
  <2>1. Parent[b] \in Anc[dReorg.cand] /\ Parent[b] \in Blocks /\ b \in Blocks
    BY <1>3, ParentOf, Chains, TreeClosure DEF NewBranch, Joining
  <2>2. Parent[b] \in Anc[tip] \/ Parent[b] \in NewBranch \ Anc[tip]
    BY <1>1, <2>1 DEF NewBranch, Joining
  <2>3. Parent[b] \in Indexed
    BY <1>6, <2>1, <2>2 DEF Indexed, SideBlocks, OwnedIn
  <2>4. dSide[b] # NoSource
    BY <1>1, <1>6, <2>1 DEF WayInv
  <2> QED
    BY <2>3, <2>4 DEF BranchesReloaded
<1>7. Blocks \subseteq S
  <2> HIDE DEF S
  <2> QED
    BY <1>4, <1>5, BlockInduction
<1>8. dState = tip => Blocks \subseteq U
  <2> HIDE DEF U
  <2> QED
    BY <1>4, <1>6, BlockInduction
<1>9. OldBranch \subseteq Blocks /\ NewBranch \subseteq Blocks
  BY InterruptedAt
<1> QED
  BY <1>7, <1>8, <1>9

\* Every block of the two branches is where the records place it.
LEMMA BranchesAre ==
    ASSUME TypeInv, NodeInv, TrailInv, WayInv, Interrupted, MarkerNamesTip, BranchesReloaded
    PROVE  /\ OldBranch \cup NewBranch \subseteq dBlock
           /\ \A b \in Disconnected : b \in OldBranch /\ b \notin Anc[tip] /\ Demoted(b)
           /\ \A b \in OldBranch \ Disconnected :
                b \in Anc[tip] /\ side[b] = NoSource /\ dSide[b] = NoSource /\ b \in dUndo
           /\ \A c \in NewBranch : c \in Connected <=> c \in Anc[tip]
           /\ \A c \in NewBranch : c \in Anc[dState] =>
                side[c] = NoSource /\ dSide[c] = NoSource /\ c \in dUndo
           /\ \A c \in NewBranch : c \notin Anc[dState] =>
                /\ dSide[c] # NoSource /\ side[c] \in {NoSource, dSide[c]}
                /\ dState = tip => side[c] # NoSource
<1>1. /\ MarkerCounts(dReorg) /\ dReorg.phase # "NONE" /\ dReorg.tip = tip
      /\ OldBranch \subseteq Blocks /\ NewBranch \subseteq Blocks
  BY InterruptedAt
<1>2. Trail(dReorg) /\ MemoryInv /\ Moving(dReorg)
  BY <1>1 DEF TrailInv, NodeInv, Interrupted
<1>3. OldBranch \cup NewBranch \subseteq dBlock
  BY <1>2 DEF Trail, OldBranch, NewBranch
<1>4. \A b \in OldBranch : b \in Disconnected <=> b \notin Anc[tip]
  BY <1>1, DisconnectedIs
<1>5. Disconnected \subseteq OldBranch
  BY DEF Disconnected
<1>6. Local # NoSource
  BY PolicyAssumption DEF Sources
<1>7. \A b \in Blocks : side[b] # NoSource => dSide[b] = side[b]
  BY <1>2 DEF MemoryInv
<1>8. ASSUME NEW b \in Disconnected PROVE b \notin Anc[tip] /\ Demoted(b)
  <2>1. b \in OldBranch /\ b \notin Anc[tip]
    BY <1>4, <1>5
  <2>2. dSide[b] = Local
    BY <1>1, <1>2, <2>1 DEF Trail, OldBranch
  <2>3. side[b] # NoSource
    BY <2>1, ReloadedBranches
  <2> QED
    BY <1>1, <1>7, <2>1, <2>2, <2>3 DEF Demoted
<1>9. ASSUME NEW b \in OldBranch \ Disconnected
      PROVE  b \in Anc[tip] /\ side[b] = NoSource /\ dSide[b] = NoSource /\ b \in dUndo
  <2>1. b \in Anc[tip]
    BY <1>4
  <2>2. b \in dUndo
    BY <1>1, <1>2, <2>1 DEF Trail, OldBranch
  <2>3. dSide[b] = NoSource
    BY <1>1, <1>2, <2>1 DEF WayInv
  <2> QED
    BY <1>1, <1>7, <2>1, <2>2, <2>3
<1>10. \A c \in NewBranch : c \in Connected <=> c \in Anc[tip]
  BY <1>1, MarkedTipIs
<1>11. ASSUME NEW c \in NewBranch, c \in Anc[dState]
       PROVE  side[c] = NoSource /\ dSide[c] = NoSource /\ c \in dUndo
  <2>1. dSide[c] = NoSource /\ c \in dUndo
    BY <1>1, <1>11 DEF WayInv
  <2> QED
    BY <1>1, <1>7, <2>1
<1>12. ASSUME NEW c \in NewBranch, c \notin Anc[dState]
       PROVE  /\ dSide[c] # NoSource /\ side[c] \in {NoSource, dSide[c]}
              /\ dState = tip => side[c] # NoSource
  <2>1. dSide[c] # NoSource
    BY <1>1, <1>12 DEF WayInv
  <2>2. dState = tip => side[c] # NoSource
    BY <1>12, ReloadedBranches
  <2> QED
    BY <1>1, <1>7, <2>1, <2>2
<1> QED
  BY <1>3, <1>5, <1>8, <1>9, <1>10, <1>11, <1>12

\* So no classification of it is a rejection.
LEMMA NotRejected ==
    ASSUME TypeInv, NodeInv, TrailInv, WayInv, Interrupted, MarkerNamesTip, BranchesReloaded
    PROVE  Verdict # "reject"
<1> DEFINE next == NextOf(dReorg.cand)
<1>1. MarkerShape
  BY ShapeHolds
<1>2. /\ MarkerCounts(dReorg) /\ tip = dTip /\ dReorg.tip = tip
      /\ OldBranch \subseteq Blocks /\ NewBranch \subseteq Blocks
      /\ dReorg.dd = Cardinality(OldBranch) <=> tip \in Anc[dReorg.cand]
      /\ dState # tip => /\ tip \in Anc[dReorg.cand] \ {dReorg.cand}
                         /\ dState = next /\ dState \in NonGenesis
                         /\ Parent[dState] = tip /\ dSide[dState] = NoSource
  BY InterruptedAt
<1>3. /\ OldBranch \cup NewBranch \subseteq dBlock
      /\ \A b \in Disconnected : b \in OldBranch /\ b \notin Anc[tip] /\ Demoted(b)
      /\ \A b \in OldBranch \ Disconnected :
           b \in Anc[tip] /\ side[b] = NoSource /\ dSide[b] = NoSource /\ b \in dUndo
      /\ \A c \in NewBranch : c \in Connected <=> c \in Anc[tip]
      /\ \A c \in NewBranch : c \in Anc[dState] =>
           side[c] = NoSource /\ dSide[c] = NoSource /\ c \in dUndo
      /\ \A c \in NewBranch : c \notin Anc[dState] =>
           /\ dSide[c] # NoSource /\ side[c] \in {NoSource, dSide[c]}
           /\ dState = tip => side[c] # NoSource
  BY BranchesAre
<1>4. tip \in Blocks /\ dReorg.orig \in Blocks /\ dReorg.cand \in Blocks /\ dState \in Blocks
  BY Typed, MarkerFields
<1>5. tip \in Anc[dReorg.cand] =>
        (dReorg.cd < Cardinality(NewBranch) <=> tip # dReorg.cand)
  BY <1>2, Typed, MarkerReaches DEF NewBranch
<1>6. tip \in Anc[dReorg.cand] \ {dReorg.cand} =>
        /\ next \in NonGenesis /\ next \in Anc[dReorg.cand] /\ Parent[next] = tip
        /\ next \in NewBranch /\ next \notin Anc[tip]
  BY <1>2, <1>4, Typed, NextOfIs, NextIsNew, ParentOf DEF NewBranch
<1>7. ASSUME Gap PROVE GapAuthentic
  <2>1. tip \in Anc[dReorg.cand] \ {dReorg.cand} /\ dSide[next] = NoSource
    BY <1>2, <1>5, <1>7 DEF Gap
  <2>2. /\ next \in NonGenesis /\ next \in Anc[dReorg.cand] /\ Parent[next] = tip
        /\ next \in NewBranch /\ next \notin Anc[tip]
    BY <1>6, <2>1
  <2>3. next \in Anc[dState]
    <3>1. CASE next \notin Anc[dState]
      BY <1>3, <2>1, <2>2, <3>1
    <3> QED
      BY <3>1
  <2>4. dState = next
    BY <1>2, <2>2, <2>3
  <2>5. Anc[dState] = Anc[tip] \cup {next}
    BY <2>2, <2>4, ParentOf
  <2>6. Probe(next) = "post"
    BY <1>3, <2>2, <2>3, <2>4 DEF Probe
  <2>7. side[next] = NoSource
    BY <1>3, <2>2, <2>3
  <2>8. next \notin Indexed
    BY <2>2, <2>7 DEF Indexed, SideBlocks, OwnedIn
  <2>9. ASSUME NEW b \in OldBranch PROVE Demoted(b)
    <3>1. Anc[tip] \subseteq Anc[dReorg.cand]
      BY <1>4, <2>1, TreeClosure
    <3>2. b \notin Anc[tip]
      BY <3>1 DEF OldBranch, Leaving
    <3> QED
      BY <1>3, <3>2
  <2>10. ASSUME NEW c \in NewBranch \ Connected PROVE dHeight[Height[c]] = NoBlock
    <3>1. c \in Blocks /\ c \in Anc[dReorg.cand] /\ c \notin Anc[tip]
      BY <1>2, <1>3 DEF NewBranch, Joining
    <3>2. ~(Height[c] <= Height[tip])
      BY <1>4, <2>1, <3>1, LowerIsAncestor
    <3>3. ASSUME NEW d \in Anc[tip], Height[d] = Height[c] PROVE FALSE
      <4>1. Height[d] <= Height[tip]
        BY <1>4, TreeClosure
      <4> QED
        BY <3>2, <3>3, <4>1
    <3>4. BlockAt(dTip, Height[c]) = NoBlock
      BY <1>2, <3>3 DEF BlockAt
    <3>5. Height[c] \in Heights
      BY <3>1 DEF Heights
    <3> QED
      BY <3>4, <3>5 DEF NodeInv, StoreInv, HeightIndexExact
  <2>11. ASSUME NEW c \in NewBranch \ (Connected \cup {next})
         PROVE  dSide[c] # NoSource /\ side[c] \in {NoSource, dSide[c]}
    <3>1. c \notin Anc[dState]
      BY <1>3, <2>5
    <3> QED
      BY <1>3, <3>1
  <2> QED
    BY <1>3, <2>6, <2>8, <2>9, <2>10, <2>11 DEF GapAuthentic
<1>8. ASSUME ~Gap PROVE PrefixAuthentic
  <2>1. dState = tip
    <3>1. CASE dState # tip
      <4>1. dReorg.dd = Cardinality(OldBranch) /\ dReorg.cd < Cardinality(NewBranch)
        BY <1>2, <1>5, <3>1
      <4> QED
        BY <1>2, <1>8, <3>1, <4>1 DEF Gap
    <3> QED
      BY <3>1
  <2>2. dReorg.orig \in Indexed
    <3>1. Moving(dReorg) /\ dReorg.phase # "NONE"
      BY DEF Interrupted, Moving
    <3>2. dReorg.orig \notin Anc[dReorg.cand] /\ dReorg.orig \notin Anc[tip]
      BY <1>2, <3>1 DEF WayInv
    <3>3. dReorg.orig \in OldBranch
      BY <1>4, <3>2, Chains DEF OldBranch, Leaving
    <3>4. Demoted(dReorg.orig)
      BY <1>3, <3>2, <3>3
    <3> QED
      BY <1>4, <3>4, PolicyAssumption DEF Demoted, Indexed, SideBlocks, OwnedIn, Sources
  <2>3. dReorg.cand \in Indexed
    <3>1. dReorg.cand \notin Anc[dReorg.orig]
      BY <1>2, <1>4, WorkGrows, Chains DEF MarkerCounts
    <3>2. dReorg.cand \in NewBranch
      BY <1>4, <3>1, Chains DEF NewBranch, Joining
    <3> QED
      BY <1>3, <1>4, <2>1, <3>2 DEF Indexed, SideBlocks, OwnedIn
  <2>4. \A c \in Connected : c \in NewBranch
    BY DEF Connected
  <2>5. \A c \in Connected : c \in Anc[tip] /\ side[c] = NoSource /\ dSide[c] = NoSource
    BY <1>3, <2>1, <2>4
  <2>6. \A c \in NewBranch \ Connected :
          c \notin Anc[tip] /\ side[c] # NoSource /\ dSide[c] = side[c]
    BY <1>3, <2>1
  <2>7. \A b \in Disconnected : b \notin Anc[tip] /\ Demoted(b)
    BY <1>3
  <2>8. \A b \in OldBranch \ Disconnected :
          b \in Anc[tip] /\ side[b] = NoSource /\ dSide[b] = NoSource /\ b \in dUndo
    BY <1>3
  <2>9. {dReorg.orig, dReorg.cand} \subseteq Indexed /\ OldBranch \cup NewBranch \subseteq dBlock
    BY <1>3, <2>2, <2>3
  <2> QED
    BY <2>5, <2>6, <2>7, <2>8, <2>9 DEF PrefixAuthentic
<1> QED
  BY <1>1, <1>7, <1>8 DEF Verdict

\* What the next step asks of the block it connects, or of the tip it disconnects.
LEMMA NextConnects ==
    ASSUME TypeInv, NodeInv, TrailInv, WayInv, Interrupted, MarkerNamesTip, BranchesReloaded,
           Verdict = "connect"
    PROVE  CanPromote(NextOf(dReorg.cand))
<1> DEFINE next == NextOf(dReorg.cand)
<1>1. StoreInv /\ Moving(dReorg) /\ dReorg.phase # "NONE"
  BY DEF NodeInv, Interrupted, Moving
<1>2. /\ dState = tip /\ next \in NonGenesis /\ next \in Anc[dReorg.cand] /\ Parent[next] = tip
  BY <1>1, StateOfConnect
<1>3. MarkerCounts(dReorg) /\ dReorg.tip = tip
  BY InterruptedAt
<1>4. next \in NewBranch
  BY <1>2, <1>3, Typed, NextIsNew DEF NewBranch
<1>5. next \notin Anc[tip] /\ next # tip
  BY <1>2, ParentOf, Typed, Chains
<1>6. side[next] # NoSource /\ dSide[next] = side[next]
  BY <1>2, <1>4, <1>5, BranchesAre
<1>7. next \in Valid
  BY <1>1, <1>4 DEF WayInv
<1>8. ReadyToApply(next)
  BY <1>2, <1>5 DEF ReadyToApply, Probe
<1> QED
  BY <1>2, <1>6, <1>7, <1>8 DEF CanPromote, Applicable, Extends

LEMMA TipDisconnects ==
    ASSUME TypeInv, NodeInv, TrailInv, WayInv, Interrupted, MarkerNamesTip,
           Verdict = "disconnect"
    PROVE  tip # Genesis /\ Probe(tip) = "post" /\ tip \in OldBranch
<1>1. dReorg.dd < Cardinality(OldBranch)
  BY Verdicts
<1>2. /\ MarkerCounts(dReorg) /\ dReorg.phase # "NONE" /\ dReorg.tip = tip
      /\ dReorg.dd = Cardinality(OldBranch) <=> tip \in Anc[dReorg.cand]
      /\ dState # tip => tip \in Anc[dReorg.cand]
  BY InterruptedAt
<1>3. tip \notin Anc[dReorg.cand]
  BY <1>1, <1>2, Typed, MarkerFields, BranchFinite DEF OldBranch
<1>4. tip \in OldBranch /\ tip \in Anc[tip] /\ tip # Genesis
  BY <1>2, <1>3, Typed, MarkerFields, Chains DEF MarkerCounts, OldBranch, Leaving
<1>5. tip \in dUndo
  BY <1>2, <1>4 DEF TrailInv, Trail, OldBranch
<1> QED
  BY <1>2, <1>3, <1>4, <1>5 DEF Probe

LEMMA TrailAlways == Spec => []TrailInv
<1>1. Init => TrailInv
  BY DEF Init, TrailInv, NoReorg
<1>2. (TypeInv /\ NodeInv) /\ TrailInv /\ [Next]_vars => TrailInv'
  BY TrailStep
<1> QED
  BY <1>1, <1>2, NodeAlways, PTL DEF Spec

LEMMA WayAlways == Spec => []WayInv
<1>1. Init => WayInv
  BY DEF Init, WayInv, NoReorg
<1>2. (TypeInv /\ NodeInv) /\ EndInv /\ WayInv /\ [Next]_vars => WayInv'
  BY WayStep
<1> QED
  BY <1>1, <1>2, NodeAlways, EndAlways, PTL DEF Spec

\* A marker is classified, and the step it calls for can be made.
Recognised ==
    /\ Verdict # "reject"
    /\ Verdict = "disconnect" => tip # Genesis /\ Probe(tip) = "post"
    /\ Verdict = "connect" => CanPromote(NextOf(dReorg.cand))

\* Whatever step of a reorg or of its recovery a crash has cut off, the next start
\* classifies what it finds and can make the step it decides on, about
\* classifyReorgExecutionRecoveryState.  The marker has to name the published tip and the
\* reload to have kept, of both branches, every record whose parent it indexed.
THEOREM InterruptedIsRecognised ==
    Spec => [](Interrupted /\ MarkerNamesTip /\ BranchesReloaded => Recognised)
<1>1. (TypeInv /\ NodeInv) /\ TrailInv /\ WayInv
        => (Interrupted /\ MarkerNamesTip /\ BranchesReloaded => Recognised)
  BY NotRejected, NextConnects, TipDisconnects DEF Recognised
<1> QED
  BY <1>1, NodeAlways, TrailAlways, WayAlways, PTL

----------------------------------------------------------------------------
(* The side records and the confirmed chain *)

\* A step that leaves the confirmed state where it is deletes records, and no block
\* without its record.
OnlyGo ==
    /\ dState' = dState
    /\ \A b \in Blocks : dSide'[b] # NoSource =>
         dSide[b] # NoSource /\ (b \in dBlock => b \in dBlock')

\* The marker is that of the same two branches, if there still is one.
SameBranches ==
    dReorg'.phase # "NONE" =>
      /\ dReorg.phase # "NONE"
      /\ dReorg'.orig = dReorg.orig /\ dReorg'.cand = dReorg.cand

\* A side block enters, perhaps for another one, and not on the tip.
Enters(b) ==
    /\ dState = tip /\ dState' = dState /\ dReorg = NoReorg /\ dReorg' = NoReorg
    /\ b \in NonGenesis /\ Parent[b] \in Indexed /\ Parent[b] # tip
    /\ b \notin Anc[tip] /\ b \in dBlock'
    /\ \A c \in Blocks \ {b} : dSide'[c] # NoSource =>
         dSide[c] # NoSource /\ (c \in dBlock => c \in dBlock')

\* Blocks are deleted with their records.
LEMMA DeletedGo ==
    ASSUME TypeInv, NEW vs, DeleteSides(vs), dState' = dState
    PROVE  OnlyGo
BY Typed DEF DeleteSides, Only, OnlyGo

\* How the side records, the confirmed state and the marker move together.
LEMMA SidesMove ==
    ASSUME TypeInv, NodeInv, EndInv, [Next]_vars
    PROVE  \/ \E b \in Blocks : ConnectTip(b) /\ dReorg' = NoReorg
           \/ \E b \in Blocks : Enters(b)
           \/ Disconnects
           \/ \E b \in Blocks : Promotes(b)
           \/ OnlyGo /\ SameBranches
           \/ Prepare
<1>0. StoreInv /\ PhaseInv
  BY DEF NodeInv, PhaseInv
<1>1. ASSUME UNCHANGED <<dState, dSide, dBlock>>, dReorg' \in {dReorg, NoReorg}
      PROVE  OnlyGo /\ SameBranches
  BY <1>1 DEF OnlyGo, SameBranches, NoReorg
<1>2. ASSUME UNCHANGED <<dState, dSide, dBlock>>, Moving(dReorg), NEW p, NEW dd, NEW cd, NEW t,
             dReorg' = Progress(dReorg, p, dd, cd, t)
      PROVE  OnlyGo /\ SameBranches
  <2>1. dReorg'.orig = dReorg.orig /\ dReorg'.cand = dReorg.cand
    BY <1>2, Typed DEF Progress, Marker
  <2> QED
    BY <1>2, <2>1 DEF OnlyGo, SameBranches, Moving
<1>3. \/ dState' = dState /\ SameReorg
      \/ \E b \in Blocks : ConnectTip(b) /\ dReorg = NoReorg /\ dState = tip
      \/ Disconnects
      \/ \E b \in Blocks : Promotes(b)
      \/ Completes
  BY StoreMoves
<1>4. CASE UNCHANGED vars
  BY <1>1, <1>4 DEF vars, store
<1>5. CASE IntakeNext
  <2>1. ASSUME NEW b \in Blocks, ConnectTip(b) PROVE dReorg' = NoReorg
    BY <1>0, <2>1 DEF ConnectTip, Accepting, PhaseInv, ConnectInv, AtRest
  <2>2. ASSUME NEW b \in Blocks, NEW s \in Sources, AdmitSide(b, s) PROVE Enters(b)
    <3>1. /\ b \in NonGenesis \ Indexed /\ Parent[b] \in Indexed /\ Parent[b] # tip
          /\ pc = "Idle" /\ ~halted
      BY <2>2 DEF AdmitSide, SideAdmissible, Accepting
    <3>2. b \notin Anc[tip]
      BY <3>1 DEF Indexed
    <3> QED
      BY <1>0, <2>2, <3>1, <3>2, Typed DEF AdmitSide, PhaseInv, ConnectInv, AtRest, Quiet, Enters
  <2>3. ASSUME NEW b \in Blocks, NEW s \in Sources, ReplaceSide(b, s) PROVE Enters(b)
    <3>1. PICK v \in Blocks :
            /\ dBlock' = (dBlock \ {v}) \cup {b}
            /\ dSide' = [dSide EXCEPT ![v] = NoSource, ![b] = s]
      BY <2>3 DEF ReplaceSide
    <3>2. /\ dState = tip /\ dState' = dState /\ dReorg = NoReorg /\ dReorg' = NoReorg
          /\ b \notin Anc[tip]
          /\ b \in NonGenesis /\ Parent[b] \in Indexed /\ Parent[b] # tip
      BY <1>0, <2>3 DEF ReplaceSide, SideAdmissible, Accepting, PhaseInv, ConnectInv, AtRest,
         Quiet, Indexed
    <3>3. \A c \in Blocks \ {b} : dSide'[c] = IF c = v THEN NoSource ELSE dSide[c]
      BY <3>1, Typed
    <3> QED
      BY <3>1, <3>2, <3>3 DEF Enters
  <2>4. CASE PruneStale
    <3> DEFINE stale == IF dReorg = NoReorg THEN StaleLeaves ELSE {}
               gone == {b \in stale :
                  Cardinality({c \in stale : PruneBefore(c, b)}) < MaxStalePrunes}
    <3>1. dState' = dState /\ dReorg' = dReorg
      BY <2>4 DEF PruneStale
    <3>2. UNCHANGED <<dSide, dBlock>> \/ DeleteSides(gone)
      BY <2>4 DEF PruneStale, DropSides
    <3>3. SameBranches
      BY <3>1 DEF SameBranches
    <3>4. CASE UNCHANGED <<dSide, dBlock>>
      BY <1>1, <3>1, <3>4
    <3> HIDE DEF gone
    <3> QED
      BY <3>1, <3>2, <3>3, <3>4, DeletedGo
  <2>5. CASE SaveConnected \/ VerifyConnected \/ PruneUndo \/ SaveFromSync
    BY <1>1, <2>5 DEF SaveConnected, VerifyConnected, PruneUndo, SaveFromSync, store
  <2> QED
    BY <1>5, <2>1, <2>2, <2>3, <2>4, <2>5 DEF IntakeNext
<1>6. CASE ExecutorNext
  <2>1. CASE \/ SkipActivation \/ DeferActivation \/ BeginExecution \/ Abandon
             \/ DisconnectFails \/ PromoteFails \/ VerifyPromoted \/ FinishReorg
    BY <1>1, <2>1 DEF SkipActivation, DeferActivation, BeginExecution, Abandon,
       DisconnectFails, PromoteFails, VerifyPromoted, FinishReorg, store
  <2>2. CASE ClearBlockers
    <3>1. DeleteSides(Blockers(plan.cand)) /\ dState' = dState /\ dReorg' = dReorg
      BY <2>2 DEF ClearBlockers, DropSides
    <3> QED
      BY <3>1, DeletedGo DEF SameBranches
  <2>3. CASE Prepare
    BY <2>3
  <2>4. CASE DisconnectTip
    <3>1. dState' = Parent[tip] /\ dState = tip /\ tip \in NonGenesis
      BY <1>0, <2>4, Typed DEF DisconnectTip, RollbackBatch, CanRollback, NonGenesis, PhaseInv,
         ReorgInv, Quiet
    <3>2. dState' # dState
      BY <3>1, ParentOf, Chains
    <3> QED
      BY <1>3, <2>4, <3>2 DEF DisconnectTip, ConnectTip, Accepting, Completes
  <2>5. CASE PromoteNext
    <3>1. pc = "Promote" /\ Moving(dReorg)
      BY <1>0, <2>5 DEF PromoteNext, PhaseInv, ReorgInv
    <3>2. dState' # dState
      <4>1. /\ dState = tip /\ tip \in Anc[plan.cand] \ {plan.cand}
            /\ dState' = NextOf(plan.cand)
        BY <1>0, <2>5 DEF PromoteNext, PromoteBatch, PhaseInv, ReorgInv, Quiet
      <4>2. NextOf(plan.cand) \in NonGenesis /\ Parent[NextOf(plan.cand)] = tip
        BY <4>1, Typed, NextOfIs
      <4> QED
        BY <4>1, <4>2, ParentOf, Typed, Chains
    <3> QED
      BY <1>3, <3>1, <3>2 DEF ConnectTip, Accepting, Completes
  <2>6. CASE SavePromoted
    <3>1. Moving(dReorg) /\ UNCHANGED <<dState, dSide, dBlock>>
      BY <1>0, <2>6 DEF SavePromoted, PhaseInv, ReorgInv, InGap
    <3> QED
      BY <1>1, <1>2, <2>6, <3>1 DEF SavePromoted, PublishPromoted
  <2> QED
    BY <1>6, <2>1, <2>2, <2>3, <2>4, <2>5, <2>6 DEF ExecutorNext
<1>7. CASE RecoveryNext
  <2>1. CASE Boot
    <3>1. CASE ~ \E t \in Blocks : Loads(t)
      BY <1>1, <2>1, <3>1 DEF Boot
    <3>2. CASE \E t \in Blocks : Loads(t)
      <4>1. PICK t \in Blocks :
              \E deleted : /\ dSide' = Only(dSide, Blocks \ deleted)
                           /\ dBlock' = dBlock \ (deleted \ Anc[t])
        BY <2>1, <3>2 DEF Boot
      <4>2. dState' = dState /\ dReorg' = dReorg
        BY <2>1 DEF Boot
      <4> QED
        BY <4>1, <4>2, Typed DEF Only, OnlyGo, SameBranches
    <3> QED
      BY <3>1, <3>2
  <2>2. CASE \/ RecoverPending \/ RecoverMarker \/ RecoverFinalize \/ RecoverFails \/ Reconcile
    BY <1>1, <2>2 DEF RecoverPending, RecoverMarker, RecoverFinalize, RecoverFails, Reconcile,
       store
  <2>a. pc = "Recover" => Moving(dReorg)
    BY <1>0 DEF PhaseInv, StartInv
  <2>3. CASE RecoverDisconnect
    <3>1. dState' = Parent[tip] /\ dState = tip /\ tip \in NonGenesis
      BY <2>3, Typed DEF RecoverDisconnect, RollbackBatch, CanRollback, Probe, NonGenesis
    <3>2. dState' # dState
      BY <3>1, ParentOf, Chains
    <3> QED
      BY <1>3, <2>3, <3>2 DEF RecoverDisconnect, ConnectTip, Accepting, Completes
  <2>4. CASE RecoverConnect
    <3>1. Moving(dReorg) /\ Verdict = "connect" /\ dState' = NextOf(dReorg.cand)
      BY <2>4, <2>a DEF RecoverConnect, PromoteBatch
    <3>2. /\ dState = tip /\ NextOf(dReorg.cand) \in NonGenesis
          /\ Parent[NextOf(dReorg.cand)] = tip
      BY <1>0, <3>1, StateOfConnect
    <3>3. dState' # dState
      BY <3>1, <3>2, ParentOf, Typed, Chains
    <3> QED
      BY <1>3, <2>4, <3>3 DEF RecoverConnect, ConnectTip, Accepting, Completes
  <2>5. CASE RecoverSave
    <3>1. Moving(dReorg) /\ UNCHANGED <<dState, dSide, dBlock>>
      BY <1>0, <2>5 DEF RecoverSave, PhaseInv, StartInv, InGap
    <3> QED
      BY <1>2, <2>5, <3>1 DEF RecoverSave, PublishPromoted
  <2>6. CASE RecoverPublish
    <3>1. Moving(dReorg) /\ UNCHANGED <<dState, dSide, dBlock>>
      BY <2>6, <2>a DEF RecoverPublish
    <3> QED
      BY <1>2, <2>6, <3>1 DEF RecoverPublish
  <2> QED
    BY <1>7, <2>1, <2>2, <2>3, <2>4, <2>5, <2>6 DEF RecoveryNext
<1>8. CASE LifeNext
  BY <1>1, <1>8 DEF LifeNext, Crash, BeginStop, Exit, GiveUp, store
<1> QED
  BY <1>4, <1>5, <1>6, <1>7, <1>8 DEF Next

\* Every step keeps them apart.
LEMMA ApartStep ==
    ASSUME TypeInv, NodeInv, EndInv, SidesApart, NothingStray, [Next]_vars
    PROVE  SidesApart'
<1>0. StoreInv /\ MemoryInv
  BY DEF NodeInv
<1>1. ASSUME NEW b \in Blocks, ConnectTip(b) PROVE SidesApart'
  <2>1. /\ b \in NonGenesis /\ Parent[b] = tip /\ b \notin SideBlocks /\ pc = "Idle" /\ ~halted
        /\ dState' = b /\ dSide' = dSide /\ dBlock \subseteq dBlock'
    BY <1>1 DEF ConnectTip, Applicable, Extends, Accepting, Indexed
  <2>2. dSide[b] = NoSource
    BY <2>1 DEF NothingStray
  <2>3. dState = tip
    BY <1>0, <2>1 DEF NodeInv, ConnectInv, AtRest, Quiet
  <2> QED
    BY <2>1, <2>2, <2>3, ParentOf DEF SidesApart, OwnedIn
<1>2. ASSUME NEW b \in Blocks, Enters(b) PROVE SidesApart'
  BY <1>2 DEF Enters, SidesApart, OwnedIn
<1>3. ASSUME Disconnects PROVE SidesApart'
  <2>1. /\ dState' = Parent[tip] /\ tip \in NonGenesis /\ dState = tip /\ dBlock' = dBlock
        /\ \A c \in Blocks : dSide'[c] = IF c = tip THEN Local ELSE dSide[c]
    BY <1>3, Typed DEF Disconnects, RollbackBatch
  <2>2. tip \in dBlock
    BY <1>0, Typed, Chains DEF MemoryInv
  <2> QED
    BY <2>1, <2>2, ParentOf DEF SidesApart, OwnedIn
<1>4. ASSUME NEW b \in Blocks, Promotes(b) PROVE SidesApart'
  <2>1. /\ dState' = b /\ b \in NonGenesis /\ Parent[b] = tip /\ dState = tip
        /\ dBlock \subseteq dBlock'
        /\ \A c \in Blocks : dSide'[c] = IF c = b THEN NoSource ELSE dSide[c]
    BY <1>4, Typed DEF Promotes, PromoteBatch, SidesWithout
  <2> QED
    BY <2>1, ParentOf DEF SidesApart, OwnedIn
<1>5. ASSUME OnlyGo PROVE SidesApart'
  BY <1>5 DEF OnlyGo, SidesApart, OwnedIn
<1>6. ASSUME Prepare PROVE SidesApart'
  BY <1>6 DEF Prepare, SidesApart
<1> QED
  BY <1>1, <1>2, <1>3, <1>4, <1>5, <1>6, SidesMove

\* No block is both confirmed and a side block, and no side record is without its block,
\* wherever a crash falls: SidesApart of ChainNode, about every batch that moves a block
\* between the chain and the side pool.  No record the index does not know may be in the
\* way (NothingStray): a direct connection does not look for one.
THEOREM SidesStayApart == Spec /\ []NothingStray => []SidesApart
<1>1. Init => SidesApart
  BY TreeTyping, PolicyAssumption DEF Init, SidesApart, OwnedIn, NoSides
<1>2. (TypeInv /\ NodeInv) /\ EndInv /\ SidesApart /\ NothingStray /\ [Next]_vars => SidesApart'
  BY ApartStep
<1> QED
  BY <1>1, <1>2, NodeAlways, EndAlways, PTL DEF Spec

\* Nothing but its own blocks hangs on the branch a reorg leaves.
NothingHangs ==
    dReorg.phase # "NONE" =>
      \A b \in Blocks : dSide[b] # NoSource /\ (Anc[b] \ {b}) \cap OldBranch # {}
                          => b \in OldBranch

LEMMA HangStep ==
    ASSUME TypeInv, NodeInv, EndInv, NothingHangs, NothingStray, [Next]_vars
    PROVE  NothingHangs'
<1>1. ASSUME dReorg' = NoReorg PROVE NothingHangs'
  BY <1>1 DEF NothingHangs, NoReorg
<1>2. ASSUME SameBranches,
             \A b \in Blocks : dSide'[b] # NoSource => dSide[b] # NoSource \/ b \in OldBranch
      PROVE  NothingHangs'
  <2> SUFFICES ASSUME dReorg'.phase # "NONE" PROVE NothingHangs'
    BY DEF NothingHangs
  <2>1. dReorg.phase # "NONE" /\ OldBranch' = OldBranch
    BY <1>2 DEF SameBranches, OldBranch
  <2> QED
    BY <1>2, <2>1 DEF NothingHangs
<1>3. ASSUME NEW b \in Blocks, Enters(b) PROVE NothingHangs'
  BY <1>1, <1>3 DEF Enters
<1>4. ASSUME Disconnects PROVE NothingHangs'
  <2>1. /\ dReorg'.orig = dReorg.orig /\ dReorg'.cand = dReorg.cand /\ dReorg.phase # "NONE"
        /\ \A c \in Blocks : dSide'[c] = IF c = tip THEN Local ELSE dSide[c]
    BY <1>4, Typed DEF Disconnects, RollbackBatch, Progress, Marker
  <2>2. tip \in OldBranch
    BY <1>4, Typed, MarkerFields, Chains DEF Disconnects, MarkerCounts, OldBranch, Leaving
  <2> QED
    BY <1>2, <2>1, <2>2 DEF SameBranches
<1>5. ASSUME NEW b \in Blocks, Promotes(b) PROVE NothingHangs'
  <2>1. /\ dReorg' = dReorg
        /\ \A c \in Blocks : dSide'[c] = IF c = b THEN NoSource ELSE dSide[c]
    BY <1>5, Typed DEF Promotes, PromoteBatch, SidesWithout
  <2> QED
    BY <1>2, <2>1 DEF SameBranches
<1>6. ASSUME OnlyGo, SameBranches PROVE NothingHangs'
  BY <1>2, <1>6 DEF OnlyGo
<1>7. ASSUME Prepare PROVE NothingHangs'
  <2>1. /\ dReorg'.orig = tip /\ dReorg'.cand = plan.cand /\ dSide' = dSide /\ pc = "Activate"
        /\ Blockers(plan.cand) = {}
    BY <1>7 DEF Prepare, NoReorg
  <2>2. ASSUME NEW b \in Blocks, dSide[b] # NoSource,
               (Anc[b] \ {b}) \cap Leaving(tip, plan.cand) # {}
        PROVE  FALSE
    <3>1. b \in SideBlocks
      BY <2>1, <2>2 DEF NothingStray, OwnedIn
    <3>2. b \in Blockers(plan.cand)
      BY <2>2, <3>1 DEF Blockers
    <3> QED
      BY <2>1, <3>2
  <2> QED
    BY <2>1, <2>2 DEF NothingHangs, OldBranch
<1> QED
  BY <1>1, <1>3, <1>4, <1>5, <1>6, <1>7, SidesMove

LEMMA HangAlways == Spec /\ []NothingStray => []NothingHangs
<1>1. Init => NothingHangs
  BY DEF Init, NothingHangs, NoReorg
<1>2. (TypeInv /\ NodeInv) /\ EndInv /\ NothingHangs /\ NothingStray /\ [Next]_vars
        => NothingHangs'
  BY HangStep
<1> QED
  BY <1>1, <1>2, NodeAlways, EndAlways, PTL DEF Spec

\* The side children of a tip to disconnect are what was disconnected above it.
LEMMA ChildrenAllowed ==
    ASSUME TypeInv, NodeInv, NothingHangs, MarkerCounts(dReorg), dReorg.phase # "NONE",
           dReorg.tip = tip, tip \in OldBranch
    PROVE  {c \in SideBlocks : Parent[c] = tip} \subseteq Disconnected
<1> SUFFICES ASSUME NEW c \in SideBlocks, Parent[c] = tip PROVE c \in Disconnected
  OBVIOUS
<1>1. c \in Blocks /\ dSide[c] # NoSource /\ c \notin Anc[tip]
  BY DEF NodeInv, MemoryInv, SideBlocks, OwnedIn
<1>2. c \in NonGenesis
  BY <1>1, Typed, Chains DEF NonGenesis
<1>3. tip \in Anc[c] \ {c}
  BY <1>2, ParentOf, Typed, Chains
<1>4. c \in OldBranch
  BY <1>1, <1>3 DEF NothingHangs
<1> QED
  BY <1>1, <1>4, DisconnectedIs

\* A start is never told to stop.
NoStopAtBoot == boot => ~stopping

LEMMA StopStep ==
    ASSUME NoStopAtBoot, [Next]_vars
    PROVE  NoStopAtBoot'
<1>1. ASSUME stopping' = stopping, boot' \in {boot, FALSE} PROVE NoStopAtBoot'
  BY <1>1 DEF NoStopAtBoot
<1>2. ASSUME stopping' = FALSE \/ ~boot' PROVE NoStopAtBoot'
  BY <1>2 DEF NoStopAtBoot
<1>3. CASE UNCHANGED vars
  BY <1>1, <1>3 DEF vars, memory
<1>4. CASE IntakeNext
  <2>1. ASSUME NEW b \in Blocks, NEW s \in Sources,
               ConnectTip(b) \/ AdmitSide(b, s) \/ ReplaceSide(b, s)
        PROVE  NoStopAtBoot'
    BY <1>1, <2>1 DEF ConnectTip, AdmitSide, ReplaceSide
  <2>2. CASE \/ SaveConnected \/ VerifyConnected \/ PruneStale \/ PruneUndo \/ SaveFromSync
    BY <1>1, <2>2 DEF SaveConnected, VerifyConnected, PruneStale, PruneUndo, SaveFromSync, memory
  <2>3. Local \in Sources
    BY DEF Sources
  <2> QED
    BY <1>4, <2>1, <2>2, <2>3 DEF IntakeNext
<1>5. CASE ExecutorNext
  BY <1>1, <1>5 DEF ExecutorNext, SkipActivation, DeferActivation, ClearBlockers, Prepare,
     BeginExecution, Abandon, DisconnectTip, DisconnectFails, PromoteNext, PromoteFails,
     SavePromoted, VerifyPromoted, FinishReorg, Settle, Halt, memory
<1>6. CASE RecoveryNext
  BY <1>1, <1>2, <1>6 DEF RecoveryNext, Boot, RecoverPending, RecoverMarker, RecoverDisconnect,
     RecoverConnect, RecoverSave, RecoverPublish, RecoverFinalize, RecoverFails, Reconcile, memory
<1>7. CASE LifeNext
  BY <1>1, <1>2, <1>7 DEF LifeNext, Crash, BeginStop, Exit, GiveUp, Lose
<1> QED
  BY <1>3, <1>4, <1>5, <1>6, <1>7 DEF Next

LEMMA StopAlways == Spec => []NoStopAtBoot
<1>1. Init => NoStopAtBoot
  BY DEF Init, NoStopAtBoot
<1>2. NoStopAtBoot /\ [Next]_vars => NoStopAtBoot'
  BY StopStep
<1> QED
  BY <1>1, <1>2, PTL DEF Spec

\* What gives a recovery up between two steps.
LEMMA GivenUp ==
    ASSUME TypeInv, NodeInv, TrailInv, WayInv, NothingHangs, MarkerNamesTip, BranchesReloaded,
           RecoverFails, pc = "Recover"
    PROVE  WriteFails
<1>1. Interrupted
  BY DEF NodeInv, StartInv, Interrupted
<1>2. Verdict # "reject"
  BY <1>1, NotRejected
<1>3. Verdict = "connect" => CanPromote(NextOf(dReorg.cand))
  BY <1>1, NextConnects
<1>4. ASSUME Verdict = "disconnect" PROVE CanRollback(Disconnected)
  <2>1. tip # Genesis /\ Probe(tip) = "post" /\ tip \in OldBranch
    BY <1>1, <1>4, TipDisconnects
  <2>2. MarkerCounts(dReorg) /\ dReorg.phase # "NONE" /\ dReorg.tip = tip
    BY <1>1, InterruptedAt
  <2> QED
    BY <2>1, <2>2, ChildrenAllowed DEF CanRollback
<1> QED
  BY <1>2, <1>3, <1>4 DEF RecoverFails

----------------------------------------------------------------------------
(* A direct connection that was cut off *)

\* The block of the pending record has its journal.
PendingJournal == dPending # NoBlock => dPending \in NonGenesis \cap dUndo

LEMMA PendingStep ==
    ASSUME TypeInv, NodeInv, PendingJournal, [Next]_vars
    PROVE  PendingJournal'
<1>1. ASSUME dPending' \in {dPending, NoBlock}, dUndo \subseteq dUndo' PROVE PendingJournal'
  BY <1>1 DEF PendingJournal
<1>2. CASE UNCHANGED vars
  BY <1>1, <1>2 DEF vars, store
<1>3. CASE IntakeNext
  <2>1. ASSUME NEW b \in Blocks, ConnectTip(b) PROVE PendingJournal'
    BY <2>1 DEF ConnectTip, Applicable, Extends, PendingJournal
  <2>2. ASSUME NEW b \in Blocks, NEW s \in Sources, AdmitSide(b, s) \/ ReplaceSide(b, s)
        PROVE  PendingJournal'
    BY <1>1, <2>2 DEF AdmitSide, ReplaceSide
  <2>3. CASE PruneUndo
    <3>1. dPending = NoBlock /\ dPending' = dPending
      BY <2>3 DEF PruneUndo, NodeInv, ConnectInv, AtRest, Quiet
    <3> QED
      BY <3>1 DEF PendingJournal
  <2>4. CASE SaveConnected \/ VerifyConnected \/ PruneStale \/ SaveFromSync
    BY <1>1, <2>4 DEF SaveConnected, VerifyConnected, PruneStale, SaveFromSync, PublishTip, store
  <2> QED
    BY <1>3, <2>1, <2>2, <2>3, <2>4 DEF IntakeNext
<1>4. CASE ExecutorNext
  BY <1>1, <1>4 DEF ExecutorNext, SkipActivation, DeferActivation, ClearBlockers, Prepare,
     BeginExecution, Abandon, DisconnectTip, DisconnectFails, RollbackBatch, PromoteNext,
     PromoteFails, PromoteBatch, SavePromoted, PublishPromoted, PublishTip, VerifyPromoted,
     FinishReorg, store
<1>5. CASE RecoveryNext
  BY <1>1, <1>5 DEF RecoveryNext, Boot, RecoverPending, RecoverMarker, RecoverDisconnect,
     RollbackBatch, RecoverConnect, PromoteBatch, RecoverSave, PublishPromoted, PublishTip,
     RecoverPublish, RecoverFinalize, RecoverFails, Reconcile, store
<1>6. CASE LifeNext
  BY <1>1, <1>6 DEF LifeNext, Crash, BeginStop, Exit, GiveUp, store
<1> QED
  BY <1>2, <1>3, <1>4, <1>5, <1>6 DEF Next

\* A start publishes every direct connection a crash has cut off between the batch of its
\* state and that of its tip, about recoverDirectConnectPendingAtStartup: the record is
\* never taken for a corrupt one.
THEOREM PendingIsPublished ==
    Spec /\ []SidesApart => [](pc = "BootPending" /\ dPending # NoBlock => PublishesPending)
<1>1. Init => PendingJournal
  BY DEF Init, PendingJournal
<1>2. (TypeInv /\ NodeInv) /\ PendingJournal /\ [Next]_vars => PendingJournal'
  BY PendingStep
<1>3. (TypeInv /\ NodeInv) /\ SidesApart /\ Anc[dState] \subseteq dBlock /\ PendingJournal
        => (pc = "BootPending" /\ dPending # NoBlock => PublishesPending)
  <2> SUFFICES ASSUME TypeInv, NodeInv, SidesApart, Anc[dState] \subseteq dBlock,
                      PendingJournal, pc = "BootPending", dPending # NoBlock
               PROVE  PublishesPending
    OBVIOUS
  <2>1. /\ dReorg = NoReorg /\ dState = dPending /\ Parent[dPending] = dTip /\ tip = dTip
        /\ dPending \in NonGenesis /\ dPending \in dUndo
    BY DEF NodeInv, StoreInv, StateExplained, StartInv, PendingJournal
  <2>2. /\ dPending \in Blocks /\ dPending \notin Anc[tip] /\ dPending \in Anc[dState]
        /\ BlockAt(dTip, Height[dPending]) = NoBlock
    BY <2>1, ParentOf, Chains, BlockAtChild
  <2>3. dHeight[Height[dPending]] = NoBlock
    BY <2>2 DEF NodeInv, StoreInv, HeightIndexExact, Heights
  <2>4. dPending \notin Indexed
    BY <2>2 DEF NodeInv, MemoryInv, SidesApart, Indexed, SideBlocks, OwnedIn
  <2>5. Probe(dPending) = "post"
    BY <2>1 DEF Probe
  <2> QED
    BY <2>1, <2>2, <2>3, <2>4, <2>5 DEF PublishesPending
<1> QED
  BY <1>1, <1>2, <1>3, NodeAlways, StoredAlways, PTL DEF Spec

----------------------------------------------------------------------------
(* A start goes on *)

\* A chain has a block at every height up to its end.
LEMMA NoHeightMissing ==
    ASSUME NEW t \in Blocks, NEW h \in 1..Height[t]
    PROVE  BlockAt(t, h) \in Anc[t] /\ Height[BlockAt(t, h)] = h
<1> DEFINE S == {x \in Blocks : \A k \in 1..Height[x] : \E c \in Anc[x] : Height[c] = k}
<1>1. Genesis \in S
  BY TreeShape, TreeTyping
<1>2. ASSUME NEW x \in NonGenesis, Parent[x] \in S PROVE x \in S
  <2> SUFFICES ASSUME NEW k \in 1..Height[x] PROVE \E c \in Anc[x] : Height[c] = k
    BY ParentOf
  <2>1. Height[x] = Height[Parent[x]] + 1 /\ Height[Parent[x]] \in Nat
    BY ParentOf, Chains
  <2>2. CASE k = Height[x]
    BY <2>2, ParentOf, Chains
  <2>3. CASE k \in 1..Height[Parent[x]]
    BY <1>2, <2>3, ParentOf
  <2> QED
    BY <2>1, <2>2, <2>3
<1>3. Blocks \subseteq S
  <2> HIDE DEF S
  <2> QED
    BY <1>1, <1>2, BlockInduction
<1>4. \E c \in Anc[t] : Height[c] = h
  BY <1>3
<1> QED
  BY <1>4 DEF BlockAt

\* What a start finds in the store is the published chain.
LEMMA StoreLoads ==
    ASSUME TypeInv, StoreInv
    PROVE  Loads(dTip)
<1>1. Height[dTip] \in Nat
  BY Typed, Chains
<1>2. ASSUME NEW h \in 1..Height[dTip]
      PROVE  dHeight[h] \in dBlock /\ dHeight[h] = BlockAt(dTip, h)
  <2>1. BlockAt(dTip, h) \in Anc[dTip] /\ Height[BlockAt(dTip, h)] = h
    BY <1>2, Typed, NoHeightMissing
  <2>2. BlockAt(dTip, h) \in Blocks
    BY <2>1, Typed, Chains
  <2>3. h \in Heights
    BY <2>1, <2>2 DEF Heights
  <2> QED
    BY <2>1, <2>3 DEF StoreInv, HeightIndexExact
<1> QED
  BY <1>2 DEF Loads

\* Before its peers and before it activates anything.
Starting == {"Down", "BootPending", "BootReorg", "Recover", "RecoverSave", "Reconcile"}

\* A start ends there, though the marker and the reload are as they should be.
Refused ==
    /\ pc \in Starting /\ pc' = "Fatal"
    /\ Interrupted => MarkerNamesTip /\ BranchesReloaded

LEMMA StartRefused ==
    ASSUME ~(pc = "BootReorg" /\ Moving(dReorg) /\ FALSE \in Gates),
           TypeInv, NodeInv, TrailInv, WayInv, HaltInv, NoStopAtBoot,
           NothingHangs, SidesApart, pc = "BootPending" /\ dPending # NoBlock => PublishesPending,
           Refused, [Next]_vars
    PROVE  budget'.faults > budget.faults
<1> USE DEF Refused
<1>0. StoreInv /\ MemoryInv /\ ConnectInv
  BY DEF NodeInv
<1>1. ASSUME WriteFails PROVE budget'.faults > budget.faults
  BY <1>1 DEF WriteFails, TypeInv, TypeOK
<1>2. CASE Boot
  BY <1>0, <1>2, StoreLoads, Typed DEF Boot
<1>3. CASE RecoverPending
  BY <1>1, <1>3 DEF RecoverPending, Refuse
<1>4. CASE RecoverMarker
  <2>1. CASE Moving(dReorg)
    <3>1. Interrupted
      BY <1>4, <2>1 DEF RecoverMarker, Interrupted
    <3>2. Verdict # "reject"
      BY <3>1, NotRejected
    <3>3. ~(dReorg = NoReorg) /\ ~(dReorg.phase = "PREPARED")
      BY <2>1 DEF Moving, NoReorg
    <3>4. FALSE \notin Gates
      BY <1>4, <2>1 DEF RecoverMarker
    <3>5. PICK gate \in Gates : pc' = "Recover"
      BY <1>4, <2>1, <3>2, <3>3, <3>4, GatesAssumption DEF RecoverMarker
    <3> QED
      BY <3>5
  <2>2. CASE ~Moving(dReorg)
    BY <1>1, <1>4, <2>2 DEF RecoverMarker
  <2> QED
    BY <2>1, <2>2
<1>5. CASE RecoverDisconnect \/ RecoverConnect \/ RecoverSave \/ RecoverPublish \/ RecoverFinalize
  BY <1>5 DEF RecoverDisconnect, RecoverConnect, RecoverSave, RecoverPublish, RecoverFinalize
<1>6. CASE RecoverFails
  <2>1. CASE pc = "Recover"
    BY <1>1, <1>6, <2>1, GivenUp DEF NodeInv, StartInv, Interrupted
  <2>2. CASE pc = "RecoverSave"
    <3>1. CanPublish(TRUE)
      <4>1. dPending = NoBlock /\ boot
        BY <2>2 DEF NodeInv, StartInv, InGap
      <4> QED
        BY <2>2, <4>1 DEF CanPublish, PendingAgrees, HaltInv, NoStopAtBoot
    <3> QED
      BY <1>1, <1>6, <2>2, <3>1 DEF RecoverFails
  <2> QED
    BY <1>6, <2>1, <2>2 DEF RecoverFails
<1>7. CASE Reconcile
  <2>1. dReorg = NoReorg
    BY <1>0, <1>7 DEF Reconcile, ConnectInv, AtRest
  <2>2. \A b \in SideBlocks : dSide[b] = side[b] /\ b \in dBlock
    BY <1>0 DEF MemoryInv, SidesApart, SideBlocks, OwnedIn
  <2>3. pc' \in {"Activate", "Idle"}
    BY <1>7, <2>1, <2>2 DEF Reconcile
  <2> QED
    BY <2>3
<1>8. CASE IntakeNext \/ ExecutorNext
  BY <1>8 DEF Starting, IntakeNext, ExecutorNext, ConnectTip, Accepting, SaveConnected,
     VerifyConnected, AdmitSide, ReplaceSide, SideAdmissible, PruneStale, PruneUndo,
     SaveFromSync, SkipActivation, DeferActivation, ClearBlockers, Prepare, BeginExecution,
     Abandon, DisconnectTip, DisconnectFails, PromoteNext, PromoteFails, SavePromoted,
     VerifyPromoted, FinishReorg
<1>9. CASE LifeNext \/ UNCHANGED vars
  BY <1>9 DEF Starting, LifeNext, Crash, BeginStop, Exit, GiveUp, Lose, vars
<1> QED
  BY <1>2, <1>3, <1>4, <1>5, <1>6, <1>7, <1>8, <1>9 DEF Next, RecoveryNext

\* Up to the activation of a side tip a start is refused only when a write fails: the store
\* loads, a pending connection is published, an interrupted reorg is recognised and every
\* step of its recovery can be made, and what it leaves is consistent, about
\* reloadBlocks, recoverDirectConnectPendingAtStartup and
\* classifyReorgExecutionRecoveryState.  The operator has the recovery enabled, the marker
\* names the tip, and of both branches the reload has kept what it could hang on a parent.
THEOREM StartGoesOn ==
    ASSUME FALSE \notin Gates
    PROVE  Spec /\ []NothingStray =>
             [][Refused => budget'.faults > budget.faults]_vars
<1>1. (TypeInv /\ NodeInv) /\ TrailInv /\ WayInv /\ HaltInv /\ NoStopAtBoot /\ NothingHangs
        /\ SidesApart /\ (pc = "BootPending" /\ dPending # NoBlock => PublishesPending)
        /\ [Next]_vars
        => [Refused => budget'.faults > budget.faults]_vars
  BY StartRefused DEF Refused
<1> QED
  BY <1>1, NodeAlways, TrailAlways, WayAlways, HaltAlways, StopAlways, HangAlways,
     SidesStayApart, PendingIsPublished, PTL DEF Spec

----------------------------------------------------------------------------
(* A reorg that has begun can end *)

\* Between the reservation of the pool and the end of the reorg.
Executing == {"Disconnect", "Promote", "PromoteSave", "PromoteVerify", "Finish"}

\* The side pool but for the branch that leaves it, and its children of a block.
Others == SideBlocks \ NewBranch
OtherKids(p) == {c \in Others : c # Genesis /\ Parent[c] = p}
OldKids(p) == {c \in OldBranch : Parent[c] = p}

\* Nothing of the pool hangs on the old branch, what is still to connect is in it, and
\* the old branch will fit next to the others.
ExecInv ==
    pc \in Executing =>
      /\ \A b \in SideBlocks : Anc[b] \cap OldBranch = {}
      /\ \A c \in NewBranch : c \notin Anc[tip] => c \in SideBlocks
      /\ Cardinality(Others) + Cardinality(OldBranch) <= MaxSideBlocks
      /\ \A b \in OldBranch :
           Cardinality(OtherKids(Parent[b])) + Cardinality(OldKids(Parent[b]))
             <= MaxSideChildren

\* The reservation of executePreparedReorg gives it ...
LEMMA ExecReserved ==
    ASSUME TypeInv, NodeInv, EndInv, CountersExact, BeginExecution
    PROVE  ExecInv'
<1> SUFFICES ASSUME pc' = "Disconnect" PROVE ExecInv'
  BY DEF BeginExecution, ExecInv, Executing
<1> DEFINE o == OldBranch
           n == NewBranch
           kin(p) == {c \in n : Parent[c] = p}
<1>1. /\ UNCHANGED <<side, tip, dReorg>> /\ pc = "Prepared"
      /\ dReorg.cand = plan.cand /\ tip = dReorg.orig
      /\ PreflightPasses(plan.cand) /\ Blockers(plan.cand) = {} /\ Reserved
  BY DEF BeginExecution, store, memory
<1>2. plan.orig = dReorg.orig
  BY <1>1 DEF EndInv
<1>3. o = Leaving(tip, plan.cand) /\ n = Joining(tip, plan.cand)
  BY <1>1 DEF OldBranch, NewBranch
<1>4. /\ o \subseteq Blocks /\ n \subseteq Blocks /\ IsFiniteSet(n)
      /\ Cardinality(o) \in Nat /\ Cardinality(n) \in Nat
  BY <1>1, Typed, MarkerFields, BranchFinite DEF OldBranch, NewBranch
<1>5. SideBlocks' = SideBlocks /\ OldBranch' = o /\ NewBranch' = n
      /\ Others' = Others /\ \A p : OtherKids(p)' = OtherKids(p) /\ OldKids(p)' = OldKids(p)
  BY <1>1 DEF SideBlocks, OldBranch, NewBranch, Others, OtherKids, OldKids
<1>6. n \subseteq SideBlocks /\ SideBlocks \subseteq Blocks
  BY <1>1, <1>3 DEF PreflightPasses, PlanExists, SideBlocks, OwnedIn
<1>7. ASSUME NEW b \in SideBlocks PROVE Anc[b] \cap o = {}
  <2>1. (Anc[b] \ {b}) \cap o = {}
    BY <1>1, <1>3 DEF Blockers
  <2>2. b \notin Anc[tip]
    BY <1>6 DEF NodeInv, MemoryInv, SideBlocks, OwnedIn
  <2> QED
    BY <1>3, <2>1, <2>2 DEF Leaving
<1>8. /\ cnt.total = Cardinality(SideBlocks)
      /\ \A p \in Blocks : cnt.kids[p] = Cardinality(KidsIn(side, p))
  BY CountersAre DEF CountersExact, SideBlocks
<1>9. ASSUME NEW P \in SUBSET SideBlocks
      PROVE  Cardinality(P) = Cardinality(P \cap n) + Cardinality(P \ n)
             /\ Cardinality(P \cap n) \in Nat /\ Cardinality(P \ n) \in Nat
  <2>1. P \in SUBSET Blocks /\ n \cap (Blocks \ n) = {} /\ P \subseteq n \cup (Blocks \ n)
    BY <1>4, <1>6
  <2>2. Cardinality(P) = Cardinality(P \cap n) + Cardinality(P \cap (Blocks \ n))
    BY <2>1, CardinalitySplits
  <2>3. P \cap (Blocks \ n) = P \ n
    BY <2>1
  <2> QED
    BY <2>1, <2>2, <2>3, CardinalityOfBlocks
<1>10. Cardinality(Others) + Cardinality(o) <= MaxSideBlocks
  <2>1. cnt.total - Cardinality(n) + Cardinality(o) <= MaxSideBlocks
    BY <1>1, <1>2, <1>3 DEF Reserved
  <2>2. SideBlocks \cap n = n /\ SideBlocks \ n = Others
    BY <1>6 DEF Others
  <2>3. cnt.total = Cardinality(n) + Cardinality(Others) /\ Cardinality(Others) \in Nat
    BY <1>8, <1>9, <2>2
  <2> QED
    BY <1>4, <2>1, <2>3, PolicyAssumption
<1>11. ASSUME NEW b \in o
       PROVE  Cardinality(OtherKids(Parent[b])) + Cardinality(OldKids(Parent[b]))
                <= MaxSideChildren
  <2> DEFINE p == Parent[b]
             K == KidsIn(side, p)
  <2>1. p \in Blocks
    BY <1>3, <1>4, Typed, BranchNonGenesis, ParentOf
  <2>2. cnt.kids[p] + Cardinality({c \in o : Parent[c] = p}) - Cardinality(kin(p))
          <= MaxSideChildren
    BY <1>1, <1>2, <1>3, LimitsAreNat DEF Reserved
  <2>3. Genesis \notin n
    BY <1>3, Typed, Chains DEF Joining
  <2>4. K \in SUBSET SideBlocks /\ K \cap n = kin(p) /\ K \ n = OtherKids(p)
    BY <1>6, <2>3 DEF KidsIn, OtherKids, Others, SideBlocks
  <2>5. /\ cnt.kids[p] = Cardinality(kin(p)) + Cardinality(OtherKids(p))
        /\ Cardinality(kin(p)) \in Nat /\ Cardinality(OtherKids(p)) \in Nat
    BY <1>8, <1>9, <2>1, <2>4
  <2>6. OldKids(p) \in SUBSET Blocks /\ OldKids(p) = {c \in o : Parent[c] = p}
    BY <1>4 DEF OldKids
  <2>7. Cardinality(OldKids(p)) \in Nat
    BY <2>6, CardinalityOfBlocks
  <2> HIDE DEF kin, p
  <2>8. cnt.kids[p] + Cardinality(OldKids(p)) - Cardinality(kin(p)) <= MaxSideChildren
    BY <2>2, <2>6
  <2>9. Cardinality(OtherKids(p)) + Cardinality(OldKids(p)) <= MaxSideChildren
    BY <2>5, <2>7, <2>8, LimitsAreNat
  <2> QED
    BY <2>9 DEF p
<1>12. tip' = tip /\ \A c \in n : c \in SideBlocks
  BY <1>1, <1>6
<1> QED
  BY <1>5, <1>7, <1>10, <1>11, <1>12 DEF ExecInv

\* ... and it lasts while only blocks of the new branch leave the pool.
LEMMA ExecKept ==
    ASSUME ExecInv, pc \in Executing, dReorg'.orig = dReorg.orig, dReorg'.cand = dReorg.cand,
           SideBlocks' \subseteq SideBlocks, Others' = Others,
           \A c \in NewBranch : c \notin Anc[tip'] => c \in SideBlocks'
    PROVE  ExecInv'
<1>1. OldBranch' = OldBranch /\ NewBranch' = NewBranch
  BY DEF OldBranch, NewBranch
<1>2. \A p : OtherKids(p)' = OtherKids(p) /\ OldKids(p)' = OldKids(p)
  BY <1>1 DEF OtherKids, OldKids
<1> QED
  BY <1>1, <1>2 DEF ExecInv

LEMMA ExecStep ==
    ASSUME TypeInv, NodeInv, EndInv, CountersExact, ExecInv, [Next]_vars
    PROVE  ExecInv'
<1>0. PhaseInv /\ MemoryInv
  BY DEF NodeInv, PhaseInv
<1>1. ASSUME pc' \notin Executing PROVE ExecInv'
  BY <1>1 DEF ExecInv
<1>2. ASSUME UNCHANGED <<side, tip>>, dReorg'.orig = dReorg.orig, dReorg'.cand = dReorg.cand,
             pc \in Executing
      PROVE  ExecInv'
  <2>1. SideBlocks' = SideBlocks /\ NewBranch' = NewBranch
    BY <1>2 DEF SideBlocks, NewBranch
  <2>2. Others' = Others
    BY <2>1 DEF Others
  <2>3. \A c \in NewBranch : c \notin Anc[tip'] => c \in SideBlocks'
    BY <1>2, <2>1 DEF ExecInv
  <2> QED
    BY <1>2, <2>1, <2>2, <2>3, ExecKept
<1>3. ASSUME UNCHANGED <<side, tip, dReorg, pc>> PROVE ExecInv'
  BY <1>1, <1>2, <1>3
<1>4. CASE UNCHANGED vars
  BY <1>3, <1>4 DEF vars, store, memory
<1>5. CASE IntakeNext
  BY <1>1, <1>3, <1>5 DEF Executing, IntakeNext, ConnectTip, SaveConnected, VerifyConnected,
     AdmitSide, ReplaceSide, PruneStale, PruneUndo, SaveFromSync, memory
<1>6. CASE ExecutorNext
  <2>1. CASE BeginExecution
    BY <2>1, ExecReserved
  <2>2. CASE DisconnectTip
    <3>1. /\ pc = "Disconnect" /\ side' = side /\ tip' = Parent[tip] /\ tip \in NonGenesis
          /\ dReorg'.orig = dReorg.orig /\ dReorg'.cand = dReorg.cand
      BY <2>2, Typed DEF DisconnectTip, CanRollback, RollbackBatch, Progress, Marker, NonGenesis
    <3>2. tip \notin Anc[dReorg.cand]
      BY <1>0, <3>1 DEF PhaseInv, ReorgInv, Marked
    <3>3. SideBlocks' = SideBlocks /\ NewBranch' = NewBranch
      BY <3>1 DEF SideBlocks, NewBranch
    <3>4. Others' = Others
      BY <3>3 DEF Others
    <3>5. ASSUME NEW c \in NewBranch, c \notin Anc[tip'] PROVE c \in SideBlocks'
      <4>1. c \notin Anc[tip]
        BY <3>1, <3>2, <3>5, ParentOf DEF NewBranch, Joining
      <4> QED
        BY <3>1, <3>3, <4>1 DEF ExecInv, Executing
    <3> QED
      BY <3>1, <3>3, <3>4, <3>5, ExecKept DEF Executing
  <2>3. CASE PromoteNext
    <3> DEFINE b == NextOf(plan.cand)
    <3>1. /\ pc = "Promote" /\ dReorg' = dReorg /\ tip' = b
          /\ side' = [side EXCEPT ![b] = NoSource]
      BY <2>3 DEF PromoteNext, PromoteBatch
    <3>2. /\ tip \in Anc[dReorg.cand] \ {dReorg.cand} /\ dReorg.cand = plan.cand
          /\ dReorg.tip = tip /\ Moving(dReorg)
      BY <1>0, <3>1 DEF PhaseInv, ReorgInv, Marked
    <3>3. b \in NonGenesis /\ b \in Anc[dReorg.cand] /\ Parent[b] = tip
      BY <3>2, Typed, NextOfIs
    <3>4. MarkerCounts(dReorg)
      BY <3>2 DEF NodeInv, StoreInv, MarkerInv, Moving
    <3>5. b \in NewBranch
      BY <3>2, <3>3, <3>4, Typed, NextIsNew DEF NewBranch
    <3>6. SideBlocks' = SideBlocks \ {b}
      BY <3>1, Typed DEF SideBlocks, OwnedIn
    <3>7. NewBranch' = NewBranch
      BY <3>1 DEF NewBranch
    <3>8. Others' = Others
      BY <3>5, <3>6, <3>7 DEF Others
    <3>9. ASSUME NEW c \in NewBranch, c \notin Anc[tip'] PROVE c \in SideBlocks'
      <4>1. Anc[b] = Anc[tip] \cup {b}
        BY <3>3, ParentOf
      <4>2. c \notin Anc[tip] /\ c # b
        BY <3>1, <3>9, <4>1
      <4> QED
        BY <3>1, <3>6, <4>2 DEF ExecInv, Executing
    <3> QED
      BY <3>1, <3>6, <3>8, <3>9, ExecKept DEF Executing
  <2>4. CASE SavePromoted
    <3>1. UNCHANGED <<side, tip>> /\ pc = "PromoteSave"
      BY <2>4 DEF SavePromoted, memory
    <3>2. dReorg'.orig = dReorg.orig /\ dReorg'.cand = dReorg.cand
      BY <2>4, Typed DEF SavePromoted, PublishPromoted, Progress, Marker
    <3> QED
      BY <1>2, <3>1, <3>2 DEF Executing
  <2>5. CASE VerifyPromoted
    BY <1>2, <2>5 DEF VerifyPromoted, store, Executing
  <2>6. CASE \/ SkipActivation \/ DeferActivation \/ ClearBlockers \/ Prepare \/ Abandon
             \/ DisconnectFails \/ PromoteFails \/ FinishReorg
    BY <1>1, <2>6 DEF Executing, SkipActivation, DeferActivation, ClearBlockers, Prepare,
       Abandon, DisconnectFails, PromoteFails, FinishReorg, Settle, Halt
  <2> QED
    BY <1>6, <2>1, <2>2, <2>3, <2>4, <2>5, <2>6 DEF ExecutorNext
<1>7. CASE RecoveryNext
  BY <1>1, <1>7 DEF Executing, RecoveryNext, Boot, RecoverPending, RecoverMarker,
     RecoverDisconnect, RecoverConnect, RecoverSave, RecoverPublish, RecoverFinalize,
     RecoverFails, Reconcile, Refuse
<1>8. CASE LifeNext
  BY <1>1, <1>3, <1>8 DEF Executing, LifeNext, Crash, BeginStop, Exit, GiveUp, Lose, store
<1> QED
  BY <1>4, <1>5, <1>6, <1>7, <1>8 DEF Next

LEMMA ExecAlways == Spec => []ExecInv
<1>1. Init => ExecInv
  BY DEF Init, ExecInv, Executing
<1>2. (TypeInv /\ NodeInv) /\ EndInv /\ CountersExact /\ ExecInv /\ [Next]_vars => ExecInv'
  BY ExecStep
<1> QED
  BY <1>1, <1>2, NodeAlways, EndAlways, CountersAreExact, PTL DEF Spec

\* What is read back was published, unless a stop came before or a write failed.
VerifyInv ==
    /\ pc = "PromoteVerify" => Promoted \/ stopping \/ budget.faults > 0
    /\ pc = "ConnectVerify" => Published \/ stopping \/ budget.faults > 0

LEMMA VerifyStep ==
    ASSUME TypeInv, NodeInv, HaltInv, VerifyInv, [Next]_vars
    PROVE  VerifyInv'
<1>0. PhaseInv
  BY DEF NodeInv, PhaseInv
<1>1. ASSUME pc' \notin {"PromoteVerify", "ConnectVerify"} PROVE VerifyInv'
  BY <1>1 DEF VerifyInv
<1>2. budget.faults > 0 => budget'.faults > 0
  <2>1. budget.faults \in Nat /\ budget'.faults \in Nat
    BY StepTypes DEF TypeInv, TypeOK
  <2> QED
    BY <2>1, FaultsGrow
<1>3. Height[tip] \in Heights /\ dHeight \in [Heights -> Blocks \cup {NoBlock}]
  BY Typed DEF Heights
<1>4. ASSUME pc' = pc, stopping => stopping', Promoted => Promoted', Published => Published'
      PROVE  VerifyInv'
  BY <1>2, <1>4 DEF VerifyInv
<1>5. CASE UNCHANGED vars
  BY <1>4, <1>5 DEF vars, store, memory, Promoted, Published
<1>6. CASE IntakeNext
  <2>1. CASE SaveConnected
    <3>1. Ahead /\ dPending = tip /\ pc = "ConnectSave" /\ ~halted
      BY <1>0, <2>1 DEF SaveConnected, PhaseInv, ConnectInv, HaltInv
    <3>2. tip' = tip /\ stopping' = stopping /\ pc' = "ConnectVerify"
      BY <2>1 DEF SaveConnected, memory
    <3>3. ASSUME WriteFails PROVE budget'.faults > 0
      BY <3>3 DEF WriteFails, TypeInv, TypeOK
    <3>4. ASSUME PublishTip PROVE Published'
      BY <1>3, <3>1, <3>2, <3>4 DEF PublishTip, SetHeight, Published
    <3>5. ASSUME ~CanPublish(FALSE) PROVE stopping
      BY <3>1, <3>5 DEF CanPublish, PendingAgrees
    <3> QED
      BY <2>1, <3>2, <3>3, <3>4, <3>5 DEF SaveConnected, VerifyInv
  <2>2. CASE SaveFromSync
    <3>1. UNCHANGED <<tip, dReorg, pc, stopping>> /\ PublishTip
      BY <2>2 DEF SaveFromSync, memory
    <3>2. Promoted => Promoted'
      BY <1>3, <3>1 DEF PublishTip, SetHeight, Promoted
    <3>3. Published => Published'
      BY <1>3, <3>1 DEF PublishTip, SetHeight, Published
    <3> QED
      BY <1>4, <3>1, <3>2, <3>3
  <2> QED
    BY <1>1, <1>6, <2>1, <2>2 DEF IntakeNext, ConnectTip, VerifyConnected, AdmitSide,
       ReplaceSide, PruneStale, PruneUndo
<1>7. CASE ExecutorNext
  <2>1. CASE SavePromoted
    <3>1. InGap /\ pc = "PromoteSave" /\ ~halted
      BY <1>0, <2>1 DEF SavePromoted, PhaseInv, ReorgInv, HaltInv
    <3>2. tip' = tip /\ stopping' = stopping /\ pc' = "PromoteVerify"
      BY <2>1 DEF SavePromoted, memory
    <3>3. ASSUME WriteFails PROVE budget'.faults > 0
      BY <3>3 DEF WriteFails, TypeInv, TypeOK
    <3>4. ASSUME PublishPromoted PROVE Promoted'
      <4>1. dTip' = tip /\ dHeight'[Height[tip]] = tip
        BY <1>3, <3>4 DEF PublishPromoted, PublishTip, SetHeight
      <4>2. dReorg'.phase = "CONNECT_PUBLISHED" /\ dReorg'.tip = tip
        BY <3>4, Typed DEF PublishPromoted, Progress, Marker
      <4> QED
        BY <3>2, <4>1, <4>2 DEF Promoted
    <3>5. ASSUME ~CanPublish(TRUE) PROVE stopping
      BY <3>1, <3>5 DEF CanPublish, PendingAgrees, InGap
    <3> QED
      BY <2>1, <3>2, <3>3, <3>4, <3>5 DEF SavePromoted, VerifyInv
  <2> QED
    BY <1>1, <1>7, <2>1 DEF ExecutorNext, SkipActivation, DeferActivation, ClearBlockers,
       Prepare, BeginExecution, Abandon, DisconnectTip, DisconnectFails, PromoteNext,
       PromoteFails, VerifyPromoted, AfterPromotion, FinishReorg, Settle, Halt
<1>8. CASE RecoveryNext
  BY <1>1, <1>8 DEF RecoveryNext, Boot, RecoverPending, RecoverMarker, RecoverDisconnect,
     RecoverConnect, RecoverSave, RecoverPublish, RecoverFinalize, RecoverFails, Reconcile,
     Refuse
<1>9. CASE LifeNext
  <2>1. CASE BeginStop
    BY <1>4, <2>1 DEF BeginStop, store, Promoted, Published
  <2> QED
    BY <1>1, <1>9, <2>1 DEF LifeNext, Crash, Exit, GiveUp, Lose
<1> QED
  BY <1>5, <1>6, <1>7, <1>8, <1>9 DEF Next

LEMMA VerifyAlways == Spec => []VerifyInv
<1>1. Init => VerifyInv
  BY DEF Init, VerifyInv
<1>2. (TypeInv /\ NodeInv) /\ HaltInv /\ VerifyInv /\ [Next]_vars => VerifyInv'
  BY VerifyStep
<1> QED
  BY <1>1, <1>2, NodeAlways, HaltAlways, PTL DEF Spec

\* The tip of the old branch can be disconnected ...
LEMMA ExecDisconnects ==
    ASSUME TypeInv, NodeInv, TrailInv, ExecInv, pc = "Disconnect"
    PROVE  CanRollback({})
<1>1. /\ dState = tip /\ dReorg.tip = tip /\ dReorg.cand = plan.cand
      /\ dReorg.phase # "NONE" /\ tip \notin Anc[dReorg.cand]
  BY DEF NodeInv, ReorgInv, Quiet, Marked
<1>2. MarkerCounts(dReorg)
  BY <1>1 DEF NodeInv, StoreInv, MarkerInv
<1>3. tip \in OldBranch /\ tip \in Anc[tip] /\ tip # Genesis
  BY <1>1, <1>2, Typed, MarkerFields, Chains DEF MarkerCounts, OldBranch, Leaving
<1>4. tip \in dUndo
  BY <1>1, <1>3 DEF TrailInv, Trail, OldBranch
<1>5. ASSUME NEW c \in SideBlocks, Parent[c] = tip PROVE FALSE
  <2>1. c \in NonGenesis
    BY DEF TypeInv, SideMaps, SideBlocks, OwnedIn, NonGenesis
  <2>2. tip \in Anc[c]
    BY <1>5, <2>1, ParentOf, Typed, Chains
  <2> QED
    BY <1>3, <2>2 DEF ExecInv, Executing
<1> QED
  BY <1>1, <1>3, <1>4, <1>5 DEF CanRollback, Probe

\* ... the next block of the new one promoted ...
LEMMA ExecPromotes ==
    ASSUME TypeInv, NodeInv, WayInv, ExecInv, pc = "Promote"
    PROVE  CanPromote(NextOf(plan.cand))
<1> DEFINE next == NextOf(plan.cand)
<1>1. /\ dState = tip /\ dReorg.tip = tip /\ dReorg.cand = plan.cand
      /\ Moving(dReorg) /\ tip \in Anc[plan.cand] \ {plan.cand}
  BY DEF NodeInv, ReorgInv, Quiet, Marked
<1>2. MarkerCounts(dReorg) /\ dReorg.phase # "NONE"
  BY <1>1 DEF NodeInv, StoreInv, MarkerInv, Moving
<1>3. next \in NonGenesis /\ next \in Anc[dReorg.cand] /\ Parent[next] = tip
  BY <1>1, Typed, NextOfIs
<1>4. next \in NewBranch
  BY <1>1, <1>2, <1>3, Typed, NextIsNew DEF NewBranch
<1>5. next \notin Anc[tip] /\ next # tip /\ next \in Blocks
  BY <1>3, ParentOf, Typed, Chains
<1>6. side[next] # NoSource /\ dSide[next] = side[next]
  BY <1>4, <1>5 DEF ExecInv, Executing, NodeInv, MemoryInv, SideBlocks, OwnedIn
<1>7. next \in Valid
  BY <1>2, <1>4 DEF WayInv
<1>8. ReadyToApply(next)
  BY <1>1, <1>3, <1>5 DEF ReadyToApply, Probe
<1> QED
  BY <1>3, <1>6, <1>7, <1>8 DEF CanPromote, Applicable, Extends

\* ... and the old branch demoted in the end.
LEMMA ExecDemotes ==
    ASSUME TypeInv, NodeInv, EndInv, TrailInv, CountersExact, ExecInv, pc = "Finish",
           NEW old, old = Leaving(plan.orig, plan.cand),
           NEW pool, pool = Plus(cnt, CountersOf(Only(WithLocal(old), old)))
    PROVE  /\ old \cap Indexed = {}
           /\ \A b \in old : dSide[b] = Local
           /\ pool.total <= MaxSideBlocks
           /\ \A b \in old : pool.kids[Parent[b]] <= MaxSideChildren
<1> DEFINE m == Only(WithLocal(old), old)
<1>1. /\ Quiet /\ dReorg.tip = tip /\ dReorg.cand = plan.cand /\ dReorg.orig = plan.orig
      /\ tip = plan.cand /\ dReorg.phase # "NONE"
  BY DEF NodeInv, ReorgInv, EndInv, Marked, Moving
<1>2. old = OldBranch /\ old \subseteq NonGenesis /\ old \cap Anc[tip] = {}
  BY <1>1, Typed, BranchNonGenesis DEF OldBranch, Leaving
<1>3. /\ \A b \in SideBlocks : Anc[b] \cap old = {}
      /\ Cardinality(Others) + Cardinality(old) <= MaxSideBlocks
      /\ \A b \in old : Cardinality(OtherKids(Parent[b])) + Cardinality(OldKids(Parent[b]))
                         <= MaxSideChildren
  BY <1>2 DEF ExecInv, Executing
<1>4. old \cap Indexed = {}
  BY <1>2, <1>3, Chains DEF Indexed, SideBlocks, OwnedIn
<1>5. \A b \in old : dSide[b] = Local
  BY <1>1, <1>2 DEF TrailInv, Trail, OldBranch
<1>6. Others = SideBlocks
  BY <1>1 DEF Others, NewBranch, Joining, NodeInv, MemoryInv, SideBlocks, OwnedIn
<1>7. WithLocal(old) \in SideMaps /\ m \in SideMaps
  BY <1>2, <1>4, DemotedCounts, OnlyType
<1>8. \A b \in Blocks : m[b] = IF b \in old THEN Local ELSE NoSource
  BY DEF Only, WithLocal
<1>9. OwnedIn(m) = old
  BY <1>2, <1>8, PolicyAssumption DEF OwnedIn, Sources, NonGenesis
<1> HIDE DEF m
<1>10. ASSUME NEW p PROVE KidsIn(m, p) = OldKids(p)
  BY <1>2, <1>9 DEF KidsIn, OldKids, NonGenesis
<1>11. ASSUME NEW p PROVE KidsIn(side, p) = OtherKids(p)
  BY <1>6 DEF KidsIn, OtherKids, SideBlocks
<1>12. /\ cnt.total = Cardinality(SideBlocks)
       /\ \A p \in Blocks : cnt.kids[p] = Cardinality(KidsIn(side, p))
  BY CountersAre DEF CountersExact, SideBlocks
<1>13. /\ CountersOf(m).total = Cardinality(old)
       /\ \A p \in Blocks : CountersOf(m).kids[p] = Cardinality(OldKids(p))
  BY <1>9, <1>10, CountersAre
<1>14. pool = Plus(cnt, CountersOf(m))
  BY DEF m
<1>15. pool.total <= MaxSideBlocks
  <2>1. pool.total = Cardinality(SideBlocks) + Cardinality(old)
    BY <1>12, <1>13, <1>14 DEF Plus
  <2> QED
    BY <1>3, <1>6, <2>1
<1>16. ASSUME NEW b \in old PROVE pool.kids[Parent[b]] <= MaxSideChildren
  <2>1. Parent[b] \in Blocks
    BY <1>2, ParentOf
  <2>2. pool.kids[Parent[b]] =
          Cardinality(OtherKids(Parent[b])) + Cardinality(OldKids(Parent[b]))
    BY <1>11, <1>12, <1>13, <1>14, <2>1 DEF Plus
  <2> QED
    BY <1>3, <2>2
<1> QED
  BY <1>4, <1>5, <1>15, <1>16

\* A node goes into fail-stop.
Stops == ~halted /\ halted'

LEMMA HaltsOnly ==
    ASSUME TypeInv, NodeInv, EndInv, TrailInv, WayInv, CountersExact, ExecInv, VerifyInv,
           Stops, [Next]_vars
    PROVE  stopping \/ budget'.faults > 0
<1> USE DEF Stops
<1>1. ASSUME WriteFails PROVE budget'.faults > 0
  BY <1>1 DEF WriteFails, TypeInv, TypeOK
<1>2. CASE DisconnectFails
  BY <1>1, <1>2, ExecDisconnects DEF DisconnectFails
<1>3. CASE PromoteFails
  BY <1>1, <1>3, ExecPromotes DEF PromoteFails
<1>4. CASE VerifyPromoted
  BY <1>4 DEF VerifyPromoted, VerifyInv
<1>5. CASE VerifyConnected
  BY <1>5 DEF VerifyConnected, VerifyInv
<1>6. CASE Abandon
  BY <1>1, <1>6 DEF Abandon, Settle
<1>7. CASE FinishReorg
  <2> DEFINE old == Leaving(plan.orig, plan.cand)
             pool == Plus(cnt, CountersOf(Only(WithLocal(old), old)))
  <2>1. /\ old \cap Indexed = {}
        /\ \A b \in old : dSide[b] = Local
        /\ pool.total <= MaxSideBlocks
        /\ \A b \in old : pool.kids[Parent[b]] <= MaxSideChildren
    BY <1>7, ExecDemotes DEF FinishReorg
  <2> QED
    BY <1>1, <1>7, <2>1 DEF FinishReorg, Settle
<1>8. CASE UNCHANGED vars
  BY <1>8 DEF vars, memory
<1>9. CASE IntakeNext
  BY <1>5, <1>9 DEF IntakeNext, ConnectTip, SaveConnected, AdmitSide, ReplaceSide, PruneStale,
     PruneUndo, SaveFromSync, memory
<1>10. CASE ExecutorNext
  BY <1>2, <1>3, <1>4, <1>6, <1>7, <1>10 DEF ExecutorNext, SkipActivation, DeferActivation,
     ClearBlockers, Prepare, BeginExecution, DisconnectTip, PromoteNext, SavePromoted, Settle,
     memory
<1>11. CASE RecoveryNext
  BY <1>11 DEF RecoveryNext, Boot, RecoverPending, RecoverMarker, RecoverDisconnect,
     RecoverConnect, RecoverSave, RecoverPublish, RecoverFinalize, RecoverFails, Reconcile,
     memory
<1>12. CASE LifeNext
  BY <1>12 DEF LifeNext, Crash, BeginStop, Exit, GiveUp, Lose
<1> QED
  BY <1>8, <1>9, <1>10, <1>11, <1>12 DEF Next

\* A reorg that has begun and every direct connection end in fail-stop only when a write
\* has failed or the node was being stopped: the tip can always be disconnected, the next
\* candidate promoted, what was published is read back and the old branch fits into the
\* pool, about executePreparedReorg, finalizeCompletedReorgLocked and submitBlock.
THEOREM HaltsForAReason == Spec => [][Stops => stopping \/ budget'.faults > 0]_vars
<1>1. (TypeInv /\ NodeInv) /\ EndInv /\ TrailInv /\ WayInv /\ CountersExact /\ ExecInv
        /\ VerifyInv /\ [Next]_vars
        => [Stops => stopping \/ budget'.faults > 0]_vars
  BY HaltsOnly
<1> QED
  BY <1>1, NodeAlways, EndAlways, TrailAlways, WayAlways, CountersAreExact, ExecAlways,
     VerifyAlways, PTL DEF Spec

----------------------------------------------------------------------------
(* A reorg goes forward *)

\* One more block of the old branch is off, none of the new one on yet; or the whole old
\* branch is off and one more block of the new one on.
OneFurther ==
    /\ dReorg'.orig = dReorg.orig /\ dReorg'.cand = dReorg.cand
    /\ \/ /\ dReorg'.dd = dReorg.dd + 1 /\ dReorg'.dd <= Cardinality(OldBranch)
          /\ dReorg.cd = 0 /\ dReorg'.cd = 0
       \/ /\ dReorg'.dd = dReorg.dd /\ dReorg.dd = Cardinality(OldBranch)
          /\ dReorg'.cd = dReorg.cd + 1 /\ dReorg'.cd <= Cardinality(NewBranch)

\* A disconnection and a publication are such steps.
LEMMA DisconnectsFurther ==
    ASSUME TypeInv, Disconnects
    PROVE  OneFurther
<1>1. /\ dReorg'.orig = dReorg.orig /\ dReorg'.cand = dReorg.cand
      /\ dReorg'.dd = dReorg.dd + 1 /\ dReorg'.cd = 0
  BY Typed DEF Disconnects, RollbackBatch, Progress, Marker
<1>2. MarkerCounts(dReorg) /\ dReorg.tip \notin Anc[dReorg.cand]
  BY DEF Disconnects
<1>3. dReorg.cd = 0 /\ dReorg.dd <= Cardinality(OldBranch)
  BY <1>2, MarkedTipIs, Typed, MarkerFields
<1>4. dReorg.dd # Cardinality(OldBranch)
  BY <1>2, Typed, MarkerReaches DEF OldBranch
<1>5. dReorg.dd + 1 <= Cardinality(OldBranch)
  BY <1>3, <1>4, Typed, MarkerFields, BranchFinite DEF OldBranch
<1> QED
  BY <1>1, <1>3, <1>5 DEF OneFurther

LEMMA PublishesFurther ==
    ASSUME TypeInv, NodeInv, Moving(dReorg), dReorg.tip \in Anc[dReorg.cand] \ {dReorg.cand},
           NEW t, dReorg' = Progress(dReorg, "CONNECT_PUBLISHED", dReorg.dd, dReorg.cd + 1, t)
    PROVE  OneFurther
<1>1. /\ dReorg'.orig = dReorg.orig /\ dReorg'.cand = dReorg.cand
      /\ dReorg'.dd = dReorg.dd /\ dReorg'.cd = dReorg.cd + 1
  BY Typed DEF Progress, Marker
<1>2. MarkerCounts(dReorg)
  BY DEF NodeInv, StoreInv, MarkerInv, Moving
<1>3. dReorg.dd = Cardinality(OldBranch) /\ dReorg.cd < Cardinality(NewBranch)
  BY <1>2, Typed, MarkerReaches DEF OldBranch, NewBranch
<1>4. dReorg.cd + 1 <= Cardinality(NewBranch)
  BY <1>3, Typed, MarkerFields, BranchFinite DEF NewBranch
<1> QED
  BY <1>1, <1>3, <1>4 DEF OneFurther

\* The block in the gap is the next one of the new branch.
LEMMA GapIsNext ==
    ASSUME TypeInv, InGap
    PROVE  dReorg.tip \in Anc[dReorg.cand] \ {dReorg.cand} /\ Moving(dReorg)
<1>1. tip \in NonGenesis /\ tip \in Anc[dReorg.cand] /\ Parent[tip] = dReorg.tip /\ Moving(dReorg)
  BY DEF InGap, Ahead, NewBranch, Joining
<1>2. dReorg.cand \in Blocks /\ Anc[tip] \subseteq Anc[dReorg.cand]
  BY <1>1, Typed, MarkerFields, TreeClosure
<1>3. dReorg.tip \in Anc[dReorg.cand]
  BY <1>1, <1>2, ParentOf, Chains
<1>4. dReorg.tip # dReorg.cand
  BY <1>1, ParentOf
<1> QED
  BY <1>1, <1>3, <1>4

LEMMA ForwardStep ==
    ASSUME TypeInv, NodeInv, Moving(dReorg), [Next]_vars
    PROVE  dReorg' = dReorg \/ dReorg' = NoReorg \/ OneFurther
<1>0. StoreInv /\ PhaseInv
  BY DEF NodeInv, PhaseInv
<1>1. ~(dReorg = NoReorg) /\ dReorg.phase # "PREPARED"
  BY DEF Moving, NoReorg
<1>2. ASSUME Disconnects PROVE OneFurther
  BY <1>2, DisconnectsFurther
<1>3. ASSUME InGap, PublishPromoted PROVE OneFurther
  BY <1>3, GapIsNext, PublishesFurther DEF PublishPromoted
<1>4. CASE UNCHANGED vars
  BY <1>4 DEF vars, store
<1>5. CASE IntakeNext
  <2>1. ASSUME NEW b \in Blocks, NEW s \in Sources,
               ConnectTip(b) \/ AdmitSide(b, s) \/ ReplaceSide(b, s)
        PROVE  dReorg' = dReorg
    BY <2>1 DEF ConnectTip, AdmitSide, ReplaceSide
  <2>2. CASE \/ SaveConnected \/ VerifyConnected \/ PruneStale \/ PruneUndo \/ SaveFromSync
    BY <2>2 DEF SaveConnected, VerifyConnected, PruneStale, PruneUndo, SaveFromSync, store
  <2>3. Local \in Sources
    BY DEF Sources
  <2> QED
    BY <1>5, <2>1, <2>2, <2>3 DEF IntakeNext
<1>6. CASE ExecutorNext
  <2>1. CASE DisconnectTip
    <3>1. RollbackBatch /\ tip \in NonGenesis
      BY <2>1, Typed DEF DisconnectTip, CanRollback, NonGenesis
    <3>2. /\ dState = tip /\ dReorg.tip = tip /\ tip \notin Anc[dReorg.cand]
          /\ dReorg.phase # "NONE"
      BY <1>0, <2>1 DEF DisconnectTip, PhaseInv, ReorgInv, Quiet, Marked
    <3>3. MarkerCounts(dReorg)
      BY <1>0, <3>2 DEF StoreInv, MarkerInv
    <3> QED
      BY <1>2, <3>1, <3>2, <3>3 DEF Disconnects
  <2>2. CASE SavePromoted
    BY <1>0, <1>3, <2>2 DEF SavePromoted, PhaseInv, ReorgInv
  <2>3. CASE \/ SkipActivation \/ DeferActivation \/ ClearBlockers \/ Prepare \/ BeginExecution
             \/ Abandon \/ DisconnectFails \/ PromoteNext \/ PromoteFails \/ VerifyPromoted
             \/ FinishReorg
    BY <1>1, <2>3 DEF SkipActivation, DeferActivation, ClearBlockers, Prepare, BeginExecution,
       Abandon, DisconnectFails, PromoteNext, PromoteBatch, PromoteFails, VerifyPromoted,
       FinishReorg, store
  <2> QED
    BY <1>6, <2>1, <2>2, <2>3 DEF ExecutorNext
<1>7. CASE RecoveryNext
  <2>1. CASE RecoverDisconnect
    <3>1. RollbackBatch /\ tip \in NonGenesis /\ dState = tip
      BY <2>1, Typed DEF RecoverDisconnect, CanRollback, Probe, NonGenesis
    <3>2. MarkerShape /\ dReorg.dd < Cardinality(OldBranch)
      BY <2>1, Verdicts DEF RecoverDisconnect
    <3>3. dReorg.tip = tip /\ MarkerCounts(dReorg) /\ tip \notin Anc[dReorg.cand]
      BY <1>0, <3>2, WhereItStopped
    <3> QED
      BY <1>2, <3>1, <3>3 DEF Disconnects, Moving
  <2>2. CASE RecoverSave
    BY <1>0, <1>3, <2>2 DEF RecoverSave, PhaseInv, StartInv
  <2>3. CASE RecoverPublish
    <3>1. MarkerShape /\ Gap
      BY <2>3, Verdicts DEF RecoverPublish
    <3>2. dReorg.tip = tip /\ tip \in Anc[dReorg.cand] \ {dReorg.cand}
      BY <1>0, <3>1, WhereItStopped, Typed, MarkerFields, BranchFinite DEF Gap, OldBranch
    <3> QED
      BY <2>3, <3>2, PublishesFurther DEF RecoverPublish
  <2>4. CASE \/ Boot \/ RecoverPending \/ RecoverMarker \/ RecoverConnect \/ RecoverFinalize
             \/ RecoverFails \/ Reconcile
    BY <1>1, <2>4 DEF Boot, RecoverPending, RecoverMarker, RecoverConnect, PromoteBatch,
       RecoverFinalize, RecoverFails, Reconcile, store
  <2> QED
    BY <1>7, <2>1, <2>2, <2>3, <2>4 DEF RecoveryNext
<1>8. CASE LifeNext
  BY <1>8 DEF LifeNext, Crash, BeginStop, Exit, GiveUp, store
<1> QED
  BY <1>4, <1>5, <1>6, <1>7, <1>8 DEF Next

\* Through any number of crashes and restarts a reorg only goes forward: every change of
\* a marker that moves is one more block disconnected, or one more connected once the whole
\* old branch is off, never beyond either branch, or the end of the reorg.  So its steps
\* are as many as the two branches have blocks, about rollbackBlock, the publication of a
\* promoted block and recoverInterruptedReorgWithSubmissionLockHeld.
THEOREM ReorgGoesForward ==
    Spec => [][Moving(dReorg) => dReorg' = dReorg \/ dReorg' = NoReorg \/ OneFurther]_vars
<1>1. (TypeInv /\ NodeInv) /\ [Next]_vars
        => [Moving(dReorg) => dReorg' = dReorg \/ dReorg' = NoReorg \/ OneFurther]_vars
  BY ForwardStep
<1> QED
  BY <1>1, NodeAlways, PTL DEF Spec

----------------------------------------------------------------------------
(* Records the index does not know *)

\* The index knows every side record.
Known == OwnedIn(dSide) \subseteq SideBlocks

\* So it does when the reloads of a start are over: whatever they did not keep was
\* purged.
StartKnowsAll == pc = "Reconcile" => Known

\* So it does ever after; what a reorg has disconnected follows when it ends.
KnownInv ==
    /\ pc \in {"ConnectSave", "ConnectVerify", "Tidy", "TidyUndo", "Activate", "Prepared",
              "Abandon"} => Known
    /\ pc = "Idle" /\ ~halted => Known
    /\ pc = "Disconnect" /\ ~Moving(dReorg) => Known
    /\ pc \in Executing => OwnedIn(dSide) \subseteq SideBlocks \cup OldBranch

LEMMA KnownStep ==
    ASSUME TypeInv, NodeInv, EndInv, StartKnowsAll, KnownInv, [Next]_vars
    PROVE  KnownInv'
<1>0. PhaseInv
  BY DEF NodeInv, PhaseInv
<1>1. ASSUME pc' \in {"Down", "Fatal", "BootPending", "BootReorg", "Recover", "RecoverSave",
                      "Reconcile"} \/ (pc' = "Idle" /\ halted')
      PROVE  KnownInv'
  BY <1>1 DEF KnownInv, Executing
<1>2. ASSUME Known', pc' \notin Executing PROVE KnownInv'
  BY <1>2 DEF KnownInv, Executing
<1>3. ASSUME UNCHANGED <<dSide, side>>, Known PROVE Known'
  BY <1>3 DEF Known, SideBlocks
<1>4. ASSUME UNCHANGED <<dSide, side, dReorg, pc, halted>> PROVE KnownInv'
  BY <1>4 DEF KnownInv, Known, SideBlocks, OldBranch, Executing, Moving
<1>5. CASE UNCHANGED vars
  BY <1>4, <1>5 DEF vars, store, memory
<1>6. CASE IntakeNext
  <2>1. ASSUME NEW b \in Blocks, ConnectTip(b) PROVE KnownInv'
    <3>1. Known /\ UNCHANGED <<dSide, side>> /\ pc' = "ConnectSave"
      BY <2>1 DEF ConnectTip, Accepting, KnownInv
    <3> QED
      BY <1>2, <1>3, <3>1 DEF Executing
  <2>2. ASSUME NEW b \in Blocks, NEW s \in Sources, AdmitSide(b, s) PROVE KnownInv'
    <3>1. /\ Known /\ pc' = "Activate"
          /\ \A c \in Blocks : dSide'[c] = IF c = b THEN s ELSE dSide[c]
          /\ \A c \in Blocks : side'[c] = IF c = b THEN s ELSE side[c]
      BY <2>2, Typed DEF AdmitSide, SideAdmissible, Accepting, KnownInv
    <3>2. Known'
      BY <3>1 DEF Known, SideBlocks, OwnedIn
    <3> QED
      BY <1>2, <3>1, <3>2 DEF Executing
  <2>3. ASSUME NEW b \in Blocks, NEW s \in Sources, ReplaceSide(b, s) PROVE KnownInv'
    <3>1. PICK v \in Blocks :
            /\ dSide' = [dSide EXCEPT ![v] = NoSource, ![b] = s]
            /\ side' = [side EXCEPT ![v] = NoSource, ![b] = s]
      BY <2>3 DEF ReplaceSide
    <3>2. Known /\ pc' = "Activate"
      BY <2>3 DEF ReplaceSide, SideAdmissible, Accepting, KnownInv
    <3>3. \A c \in Blocks :
            /\ dSide'[c] = IF c = b THEN s ELSE IF c = v THEN NoSource ELSE dSide[c]
            /\ side'[c] = IF c = b THEN s ELSE IF c = v THEN NoSource ELSE side[c]
      BY <3>1, Typed
    <3>4. Known'
      BY <3>2, <3>3 DEF Known, SideBlocks, OwnedIn
    <3> QED
      BY <1>2, <3>2, <3>4 DEF Executing
  <2>4. CASE SaveConnected \/ VerifyConnected
    <3>1. /\ Known /\ UNCHANGED <<dSide, side>>
          /\ pc' \in {"ConnectVerify", "Tidy"} \/ (pc' = "Idle" /\ halted')
      BY <2>4 DEF SaveConnected, VerifyConnected, KnownInv, store, memory
    <3> QED
      BY <1>1, <1>2, <1>3, <3>1 DEF Executing
  <2>5. CASE PruneStale
    <3>1. Known /\ pc' = "TidyUndo"
      BY <2>5 DEF PruneStale, KnownInv
    <3>2. \/ UNCHANGED <<dSide, side>>
          \/ \E vs : DropSides(vs)
      BY <2>5 DEF PruneStale
    <3>3. ASSUME NEW vs, DropSides(vs) PROVE Known'
      BY <3>1, <3>3 DEF DropSides, DeleteSides, Only, Known, SideBlocks, OwnedIn
    <3> QED
      BY <1>2, <1>3, <3>1, <3>2, <3>3 DEF Executing
  <2>6. CASE PruneUndo
    <3>1. Known /\ UNCHANGED <<dSide, side>> /\ pc' = "Idle"
      BY <2>6 DEF PruneUndo, KnownInv, memory
    <3> QED
      BY <1>2, <1>3, <3>1 DEF Executing
  <2>7. CASE SaveFromSync
    BY <1>4, <2>7 DEF SaveFromSync, memory
  <2> QED
    BY <1>6, <2>1, <2>2, <2>3, <2>4, <2>5, <2>6, <2>7 DEF IntakeNext
<1>7. CASE ExecutorNext
  <2>1. CASE SkipActivation \/ DeferActivation \/ Abandon
    <3>1. /\ Known /\ UNCHANGED <<dSide, side>>
          /\ pc' \in {"Idle", "Fatal"}
      BY <2>1 DEF SkipActivation, DeferActivation, Abandon, KnownInv, store, Settle, Halt
    <3> QED
      BY <1>2, <1>3, <3>1 DEF Executing
  <2>2. CASE ClearBlockers
    <3>1. Known /\ pc' = "Activate" /\ DropSides(Blockers(plan.cand))
      BY <2>2 DEF ClearBlockers, KnownInv
    <3>2. Known'
      BY <3>1 DEF DropSides, DeleteSides, Only, Known, SideBlocks, OwnedIn
    <3> QED
      BY <1>2, <3>1, <3>2 DEF Executing
  <2>3. CASE Prepare
    <3>1. Known /\ UNCHANGED <<dSide, side>> /\ pc' = "Prepared"
      BY <2>3 DEF Prepare, KnownInv, memory
    <3> QED
      BY <1>2, <1>3, <3>1 DEF Executing
  <2>4. CASE BeginExecution
    <3>1. /\ Known /\ UNCHANGED <<dSide, side>> /\ pc' \in {"Disconnect", "Abandon"}
      BY <2>4 DEF BeginExecution, KnownInv, store, memory
    <3>2. Known'
      BY <1>3, <3>1
    <3> QED
      BY <3>1, <3>2 DEF KnownInv, Known, Executing
  <2>5. CASE DisconnectTip
    <3>1. /\ pc = "Disconnect" /\ RollbackBatch /\ side' = side /\ tip # Genesis
          /\ pc' \in {"Promote", "Disconnect"}
      BY <2>5 DEF DisconnectTip, CanRollback
    <3>2. /\ dReorg'.orig = dReorg.orig /\ dReorg'.cand = dReorg.cand /\ Moving(dReorg')
          /\ \A c \in Blocks : dSide'[c] = IF c = tip THEN Local ELSE dSide[c]
      BY <3>1, Typed DEF RollbackBatch, Progress, Marker, Moving
    <3>3. tip \in OldBranch
      <4>1. dReorg.phase # "NONE" /\ Marked /\ tip \notin Anc[plan.cand]
        BY <1>0, <3>1 DEF PhaseInv, ReorgInv
      <4>2. tip \in Anc[dReorg.orig]
        <5>1. CASE Moving(dReorg)
          BY <4>1, <5>1 DEF NodeInv, StoreInv, MarkerInv, MarkerCounts, Marked
        <5>2. CASE ~Moving(dReorg)
          <6>1. dReorg.orig = tip
            BY <3>1, <4>1, <5>2, Typed DEF NodeInv, StoreInv, MarkerInv, Marked, Moving, Marker
          <6> QED
            BY <6>1, Typed, Chains
        <5> QED
          BY <5>1, <5>2
      <4> QED
        BY <4>1, <4>2 DEF OldBranch, Leaving, Marked
    <3>4. OwnedIn(dSide) \subseteq SideBlocks \cup OldBranch
      BY <3>1 DEF KnownInv, Executing
    <3>5. SideBlocks' = SideBlocks /\ OldBranch' = OldBranch
      BY <3>1, <3>2 DEF SideBlocks, OldBranch
    <3>6. OwnedIn(dSide)' \subseteq SideBlocks \cup OldBranch
      BY <3>2, <3>3, <3>4 DEF OwnedIn
    <3> QED
      BY <3>1, <3>2, <3>5, <3>6 DEF KnownInv, Executing
  <2>6. CASE DisconnectFails
    <3>1. /\ pc = "Disconnect" /\ UNCHANGED <<dSide, side>>
          /\ \/ dReorg.phase = "PREPARED" /\ pc' = "Abandon"
             \/ pc' = "Fatal" \/ (pc' = "Idle" /\ halted')
      BY <2>6 DEF DisconnectFails, store, Halt
    <3>2. dReorg.phase = "PREPARED" => Known
      BY <3>1 DEF KnownInv, Moving
    <3> QED
      BY <1>1, <1>2, <1>3, <3>1, <3>2 DEF Executing
  <2>7. CASE PromoteNext
    <3> DEFINE b == NextOf(plan.cand)
    <3>1. /\ pc = "Promote" /\ dReorg' = dReorg /\ pc' = "PromoteSave"
          /\ side' = [side EXCEPT ![b] = NoSource] /\ dSide' = [dSide EXCEPT ![b] = NoSource]
      BY <2>7 DEF PromoteNext, PromoteBatch, SidesWithout
    <3>2. OwnedIn(dSide) \subseteq SideBlocks \cup OldBranch
      BY <3>1 DEF KnownInv, Executing
    <3>3. \A c \in Blocks : /\ dSide'[c] = IF c = b THEN NoSource ELSE dSide[c]
                            /\ side'[c] = IF c = b THEN NoSource ELSE side[c]
      BY <3>1, Typed
    <3>4. OldBranch' = OldBranch
      BY <3>1 DEF OldBranch
    <3>5. OwnedIn(dSide)' \subseteq SideBlocks' \cup OldBranch
      BY <3>2, <3>3 DEF SideBlocks, OwnedIn
    <3> QED
      BY <3>1, <3>4, <3>5 DEF KnownInv, Executing
  <2>8. CASE SavePromoted \/ VerifyPromoted
    <3>1. /\ pc \in Executing /\ UNCHANGED <<dSide, side>>
          /\ pc' \in {"PromoteVerify", "Finish", "Promote", "Fatal"} \/ (pc' = "Idle" /\ halted')
      BY <2>8 DEF SavePromoted, VerifyPromoted, AfterPromotion, Halt, store, memory, Executing
    <3>2. dReorg'.orig = dReorg.orig /\ dReorg'.cand = dReorg.cand
      BY <2>8, Typed DEF SavePromoted, VerifyPromoted, PublishPromoted, Progress, Marker, store
    <3>3. OldBranch' = OldBranch /\ SideBlocks' = SideBlocks
      BY <3>1, <3>2 DEF OldBranch, SideBlocks
    <3>4. OwnedIn(dSide)' \subseteq SideBlocks' \cup OldBranch'
      BY <3>1, <3>3 DEF KnownInv
    <3> QED
      BY <1>1, <3>1, <3>4 DEF KnownInv, Executing
  <2>9. CASE PromoteFails
    BY <1>1, <2>9 DEF PromoteFails, Halt
  <2>10. CASE FinishReorg
    <3>1. CASE side' = WithLocal(Leaving(plan.orig, plan.cand))
      <4>1. pc = "Finish" /\ dSide' = dSide /\ pc' \in {"Idle", "Fatal"}
        BY <2>10 DEF FinishReorg, Settle, Halt
      <4>2. dReorg.orig = plan.orig /\ dReorg.cand = plan.cand
        BY <1>0, <4>1 DEF EndInv, PhaseInv, ReorgInv, Marked
      <4>3. OwnedIn(dSide) \subseteq SideBlocks \cup Leaving(plan.orig, plan.cand)
        BY <4>1, <4>2 DEF KnownInv, Executing, OldBranch
      <4>4. Local # NoSource
        BY PolicyAssumption DEF Sources
      <4>5. Known'
        BY <3>1, <4>1, <4>3, <4>4 DEF Known, SideBlocks, OwnedIn, WithLocal
      <4> QED
        BY <1>2, <4>1, <4>5 DEF Executing
    <3>2. CASE pc' = "Fatal" \/ (pc' = "Idle" /\ halted')
      BY <1>1, <3>2
    <3> QED
      BY <2>10, <3>1, <3>2 DEF FinishReorg, Halt
  <2> QED
    BY <1>7, <2>1, <2>2, <2>3, <2>4, <2>5, <2>6, <2>7, <2>8, <2>9, <2>10 DEF ExecutorNext
<1>8. CASE RecoveryNext
  <2>1. CASE Reconcile
    <3>1. Known /\ UNCHANGED <<dSide, side>>
      BY <2>1 DEF Reconcile, StartKnowsAll, store
    <3>2. pc' \in {"Fatal", "Activate", "Idle"}
      BY <2>1 DEF Reconcile, Refuse
    <3> QED
      BY <1>2, <1>3, <3>1, <3>2 DEF Executing
  <2>2. CASE ~Reconcile
    <3>1. pc' \in {"BootPending", "Fatal", "BootReorg", "Reconcile", "Recover", "RecoverSave"}
      BY <1>8, <2>2 DEF RecoveryNext, Boot, RecoverPending, RecoverMarker, RecoverDisconnect,
         RecoverConnect, RecoverSave, RecoverPublish, RecoverFinalize, RecoverFails, Refuse
    <3> QED
      BY <1>1, <3>1
  <2> QED
    BY <2>1, <2>2
<1>9. CASE LifeNext
  BY <1>1, <1>4, <1>9 DEF LifeNext, Crash, BeginStop, Exit, GiveUp, Lose, store
<1> QED
  BY <1>5, <1>6, <1>7, <1>8, <1>9 DEF Next

\* No side record the index does not know gets in the way of a connection or of a reorg,
\* if there is none when the reloads of a start are over: NothingStray of ChainNode, about
\* every batch that adds or deletes a side record and the memory that is updated with it.
THEOREM RecordsAreKnown == Spec /\ []StartKnowsAll => []NothingStray
<1>1. Init => KnownInv
  BY DEF Init, KnownInv, Executing
<1>2. (TypeInv /\ NodeInv) /\ EndInv /\ StartKnowsAll /\ KnownInv /\ [Next]_vars => KnownInv'
  BY KnownStep
<1>3. KnownInv => NothingStray
  BY DEF KnownInv, Known, NothingStray, OwnedIn, NonGenesis
<1> QED
  BY <1>1, <1>2, <1>3, NodeAlways, EndAlways, PTL DEF Spec

----------------------------------------------------------------------------
(* The side tree a node keeps *)

\* What a reload keeps hangs on the active chain or on what it keeps, within the policy.
LEMMA ReloadedHangs ==
    ASSUME NEW t \in Blocks, NEW own, NEW stored
    PROVE  \A b \in Reloaded(t, own, stored) :
             Parent[b] \in Anc[t] \cup Reloaded(t, own, stored) /\ SidePolicy(t, b)
<1> DEFINE K == {S \in SUBSET OwnedIn(own) :
                   \A b \in S : Parent[b] \in Anc[t] \cup S /\ SidePolicy(t, b)}
<1>1. {} \in K
  OBVIOUS
<1>2. ASSUME NEW kept \in K, NEW b \in OwnedIn(own) \ Anc[t],
             Parent[b] \in Anc[t] \cup kept, SidePolicy(t, b)
      PROVE  kept \cup {b} \in K
  BY <1>2
<1>3. Reloaded(t, own, stored) \in K
  <2> HIDE DEF K
  <2> QED
    BY <1>1, <1>2, ReloadedKeeps
<1> QED
  BY <1>3

\* The policy bounds both sides of the fork.
LEMMA PolicyBounds ==
    ASSUME NEW t \in Blocks, NEW b \in NonGenesis, b \notin Anc[t], SidePolicy(t, b)
    PROVE  Cardinality(Joining(t, b)) <= MaxBranch /\ Cardinality(Leaving(t, b)) <= MaxForkDepth
<1>1. b \in Blocks /\ Parent[b] \in Blocks
  BY ParentOf
<1>2. Anc[t] \cap Anc[b] = Anc[t] \cap Anc[Parent[b]] /\ Anc[b] \cap Anc[t] = Anc[t] \cap Anc[b]
  BY ParentOf
<1>3. ForkOf(t, b) = ForkOf(t, Parent[b]) /\ ForkOf(b, t) = ForkOf(t, b)
  BY <1>2 DEF ForkOf
<1>4. /\ Cardinality(Leaving(t, b)) = Height[t] - Height[ForkOf(t, b)]
      /\ Cardinality(Leaving(b, t)) = Height[b] - Height[ForkOf(b, t)]
  BY <1>1, BranchLength
<1>5. Joining(t, b) = Leaving(b, t)
  BY DEF Joining, Leaving
<1> QED
  BY <1>3, <1>4, <1>5 DEF SidePolicy

\* Every side block hangs on a block the index knows.
SideClosed == \A b \in SideBlocks : b \in NonGenesis /\ Parent[b] \in Indexed

\* So what joins a side block to the active chain is in the pool.
LEMMA JoinsInPool ==
    ASSUME TypeInv, SideClosed, NEW r \in SideBlocks
    PROVE  Joining(tip, r) \subseteq SideBlocks
<1> DEFINE S == {x \in Blocks : x \in SideBlocks => Joining(tip, x) \subseteq SideBlocks}
<1>1. Genesis \in S
  BY TreeTyping DEF SideClosed, NonGenesis
<1>2. ASSUME NEW x \in NonGenesis, Parent[x] \in S PROVE x \in S
  <2> SUFFICES ASSUME x \in SideBlocks PROVE Joining(tip, x) \subseteq SideBlocks
    BY ParentOf
  <2>1. Parent[x] \in Anc[tip] \/ Parent[x] \in SideBlocks
    BY DEF SideClosed, Indexed
  <2>2. Parent[x] \in Anc[tip] => Anc[Parent[x]] \subseteq Anc[tip]
    BY Typed, TreeClosure
  <2>3. Anc[Parent[x]] \ Anc[tip] \subseteq SideBlocks
    BY <1>2, <2>1, <2>2 DEF Joining
  <2> QED
    BY <2>3, ParentOf DEF Joining
<1>3. Blocks \subseteq S
  <2> HIDE DEF S
  <2> QED
    BY <1>1, <1>2, BlockInduction
<1> QED
  BY <1>3 DEF SideBlocks, OwnedIn

\* A leaf of the counters has no child in the pool.
LEMMA LeafIsLeaf ==
    ASSUME TypeInv, CountersExact, NEW v \in Blocks, cnt.kids[v] = 0,
           NEW c \in SideBlocks, c \in NonGenesis
    PROVE  Parent[c] # v
<1>1. cnt.kids[v] = Cardinality(KidsIn(side, v))
  BY CountersAre DEF CountersExact
<1>2. KidsIn(side, v) \in SUBSET Blocks
  BY DEF KidsIn, OwnedIn
<1>3. IsFiniteSet(KidsIn(side, v))
  BY <1>2, FS_Subset, TreeTyping
<1>4. KidsIn(side, v) = {}
  BY <1>1, <1>3, FS_EmptySet
<1> QED
  BY <1>4 DEF KidsIn, SideBlocks, NonGenesis

LEMMA ClosedStep ==
    ASSUME TypeInv, NodeInv, CountersExact, SideClosed, [Next]_vars
    PROVE  SideClosed'
<1>0. StoreInv /\ MemoryInv /\ PhaseInv
  BY DEF NodeInv, PhaseInv
<1>a. /\ Anc' = Anc /\ NonGenesis' = NonGenesis /\ Parent' = Parent /\ Blocks' = Blocks
      /\ side \in SideMaps /\ dSide \in SideMaps /\ SideBlocks \subseteq Blocks
  BY DEF TypeInv, SideMaps, SideBlocks, OwnedIn, NonGenesis
<1>1. ASSUME UNCHANGED <<tip, side>> PROVE SideClosed'
  BY <1>1 DEF SideClosed, SideBlocks, Indexed
<1>2. ASSUME NEW t \in Blocks, NEW own \in SideMaps, Rebuild(t, own), tip' = t
      PROVE  SideClosed'
  <2> SUFFICES ASSUME NEW b \in Blocks, side'[b] # NoSource
               PROVE  b \in NonGenesis /\ Parent[b] \in Indexed'
    BY DEF SideClosed, SideBlocks, OwnedIn
  <2>1. b \notin Anc[t] /\ b \in Reloaded(t, own, dBlock)
    BY <1>2, Rebuilt
  <2>2. b \in NonGenesis
    BY <2>1, Chains DEF NonGenesis
  <2>3. Parent[b] \in Anc[t] \cup Reloaded(t, own, dBlock) /\ Parent[b] \in Blocks
    BY <2>1, <2>2, ReloadedHangs, ParentOf
  <2>4. ASSUME NEW c \in Reloaded(t, own, dBlock) PROVE c \in SideBlocks'
    <3>1. side' = Only(own, Reloaded(t, own, dBlock))
      BY <1>2 DEF Rebuild
    <3>2. c \in OwnedIn(own)
      BY <1>2, ReloadedApart
    <3> QED
      BY <3>1, <3>2 DEF SideBlocks, OwnedIn, Only
  <2> QED
    BY <1>2, <2>2, <2>3, <2>4 DEF Indexed
<1>3. ASSUME NEW b \in NonGenesis, Parent[b] = tip, tip' = b,
             side' = side \/ side' = [side EXCEPT ![b] = NoSource]
      PROVE  SideClosed'
  <2>1. Anc[b] = Anc[tip] \cup {b} /\ b \in Blocks
    BY <1>3, ParentOf
  <2>2. SideBlocks' \subseteq SideBlocks /\ SideBlocks \subseteq SideBlocks' \cup {b}
    BY <1>3, <2>1, Typed DEF SideBlocks, OwnedIn
  <2> QED
    BY <1>3, <2>1, <2>2 DEF SideClosed, Indexed
<1>4. ASSUME NEW vs, DropSides(vs), tip' = tip,
             \A c \in SideBlocks \ vs : Parent[c] \notin vs
      PROVE  SideClosed'
  <2>1. SideBlocks' = SideBlocks \ vs
    BY <1>4 DEF DropSides, SideBlocks, OwnedIn, Only
  <2> QED
    BY <1>4, <2>1 DEF SideClosed, Indexed
<1>5. ASSUME side' = NoSides PROVE SideClosed'
  BY <1>5 DEF SideClosed, SideBlocks, OwnedIn, NoSides
<1>6. CASE UNCHANGED vars
  BY <1>1, <1>6 DEF vars, memory
<1>7. CASE IntakeNext
  <2>1. ASSUME NEW b \in Blocks, ConnectTip(b) PROVE SideClosed'
    BY <1>3, <2>1 DEF ConnectTip, Applicable, Extends
  <2>2. ASSUME NEW b \in Blocks, NEW s \in Sources, AdmitSide(b, s) PROVE SideClosed'
    <3>1. /\ b \in NonGenesis /\ Parent[b] \in Indexed /\ tip' = tip
          /\ side' = [side EXCEPT ![b] = s]
      BY <2>2 DEF AdmitSide, SideAdmissible
    <3>2. s # NoSource
      BY PolicyAssumption DEF Sources
    <3>3. SideBlocks' = SideBlocks \cup {b}
      BY <3>1, <3>2, Typed DEF SideBlocks, OwnedIn
    <3> QED
      BY <3>1, <3>3 DEF SideClosed, Indexed
  <2>3. ASSUME NEW b \in Blocks, NEW s \in Sources, ReplaceSide(b, s) PROVE SideClosed'
    <3>1. PICK v \in Blocks : IsVictim(v, b, s) /\ side' = [side EXCEPT ![v] = NoSource, ![b] = s]
      BY <2>3 DEF ReplaceSide
    <3>2. b \in NonGenesis /\ Parent[b] \in Indexed /\ tip' = tip
      BY <2>3 DEF ReplaceSide, SideAdmissible
    <3>3. v \in SideBlocks \ {Parent[b]} /\ cnt.kids[v] = 0
      BY <3>1 DEF IsVictim, Evictable
    <3>4. s # NoSource
      BY PolicyAssumption DEF Sources
    <3>5. SideBlocks' = (SideBlocks \ {v}) \cup {b}
      BY <3>1, <3>4, Typed DEF SideBlocks, OwnedIn
    <3>6. v \notin Anc[tip]
      BY <1>0, <3>3 DEF MemoryInv, SideBlocks, OwnedIn
    <3>7. \A c \in SideBlocks : Parent[c] # v
      BY <3>3, LeafIsLeaf DEF SideClosed
    <3> QED
      BY <3>2, <3>3, <3>5, <3>7 DEF SideClosed, Indexed
  <2>4. CASE PruneStale
    <3>1. CASE UNCHANGED <<tip, side>>
      BY <1>1, <3>1
    <3>2. CASE ~ UNCHANGED <<tip, side>>
      <4>1. PICK vs \in SUBSET StaleLeaves : DropSides(vs) /\ tip' = tip
        BY <2>4, <3>2 DEF PruneStale
      <4>2. ASSUME NEW c \in SideBlocks, NEW v \in vs PROVE Parent[c] # v
        BY <4>1, LeafIsLeaf DEF StaleLeaves, SideClosed, SideBlocks, OwnedIn
      <4> QED
        BY <1>4, <4>1, <4>2
    <3> QED
      BY <3>1, <3>2
  <2>5. CASE SaveConnected \/ VerifyConnected \/ PruneUndo \/ SaveFromSync
    BY <1>1, <2>5 DEF SaveConnected, VerifyConnected, PruneUndo, SaveFromSync, memory
  <2> QED
    BY <1>7, <2>1, <2>2, <2>3, <2>4, <2>5 DEF IntakeNext
<1>8. CASE ExecutorNext
  <2>1. CASE \/ SkipActivation \/ DeferActivation \/ Prepare \/ BeginExecution \/ Abandon
             \/ DisconnectFails \/ PromoteFails \/ SavePromoted \/ VerifyPromoted
    BY <1>1, <2>1 DEF SkipActivation, DeferActivation, Prepare, BeginExecution, Abandon,
       DisconnectFails, PromoteFails, SavePromoted, VerifyPromoted, memory
  <2>2. CASE ClearBlockers
    <3> DEFINE vs == Blockers(plan.cand)
    <3>1. DropSides(vs) /\ tip' = tip
      BY <2>2 DEF ClearBlockers
    <3>2. ASSUME NEW c \in SideBlocks, Parent[c] \in vs PROVE c \in vs
      <4>1. c \in NonGenesis
        BY DEF SideClosed
      <4> QED
        BY <3>2, <4>1, ParentOf, Chains DEF Blockers
    <3> QED
      BY <1>4, <3>1, <3>2
  <2>3. CASE DisconnectTip
    <3>1. /\ tip \in NonGenesis /\ tip' = Parent[tip] /\ side' = side
          /\ \A c \in SideBlocks : Parent[c] # tip
      BY <2>3, Typed DEF DisconnectTip, CanRollback, RollbackBatch, NonGenesis
    <3>2. Anc[tip] = Anc[tip'] \cup {tip}
      BY <3>1, ParentOf
    <3> QED
      BY <3>1, <3>2 DEF SideClosed, SideBlocks, Indexed
  <2>4. CASE PromoteNext
    <3>1. tip \in Anc[plan.cand] \ {plan.cand}
      BY <1>0, <2>4 DEF PromoteNext, PhaseInv, ReorgInv
    <3>2. NextOf(plan.cand) \in NonGenesis /\ Parent[NextOf(plan.cand)] = tip
      BY <3>1, Typed, NextOfIs
    <3> QED
      BY <1>3, <2>4, <3>2 DEF PromoteNext, PromoteBatch
  <2>5. CASE FinishReorg
    <3> DEFINE old == Leaving(plan.orig, plan.cand)
    <3>1. CASE side' = WithLocal(old)
      <4>1. tip = plan.cand /\ tip' = tip
        BY <1>0, <2>5 DEF FinishReorg, PhaseInv, ReorgInv
      <4>2. Local # NoSource
        BY PolicyAssumption DEF Sources
      <4>3. SideBlocks' = SideBlocks \cup old
        BY <3>1, <4>2, Typed, Chains DEF SideBlocks, OwnedIn, WithLocal, Leaving
      <4>4. ASSUME NEW b \in old PROVE b \in NonGenesis /\ Parent[b] \in Anc[tip] \cup old
        <5>1. b \in NonGenesis /\ Parent[b] \in Anc[b] /\ b \in Anc[plan.orig]
          BY Typed, BranchNonGenesis, ParentOf, Chains DEF Leaving
        <5>2. Parent[b] \in Anc[plan.orig]
          BY <5>1, Typed, Chains, TreeClosure
        <5> QED
          BY <4>1, <5>1, <5>2 DEF Leaving
      <4> QED
        BY <4>1, <4>3, <4>4 DEF SideClosed, Indexed
    <3>2. CASE side' = side
      BY <1>1, <2>5, <3>2 DEF FinishReorg
    <3> QED
      BY <2>5, <3>1, <3>2 DEF FinishReorg
  <2> QED
    BY <1>8, <2>1, <2>2, <2>3, <2>4, <2>5 DEF ExecutorNext
<1>9. CASE RecoveryNext
  <2>1. CASE Boot
    BY <1>1, <1>2, <1>a, <2>1 DEF Boot
  <2>2. CASE RecoverPending
    <3>1. CASE PublishesPending /\ tip' = dPending
      <4>1. tip = dTip
        BY <1>0, <2>2 DEF RecoverPending, PhaseInv, StartInv
      <4> QED
        BY <1>3, <2>2, <3>1, <4>1 DEF RecoverPending, PublishesPending
    <3>2. CASE tip' = tip
      BY <1>1, <2>2, <3>2 DEF RecoverPending
    <3> QED
      BY <2>2, <3>1, <3>2 DEF RecoverPending
  <2>3. CASE RecoverMarker \/ RecoverFails \/ Reconcile
    BY <1>1, <2>3 DEF RecoverMarker, RecoverFails, Reconcile, memory
  <2>a. pc = "Recover" => Moving(dReorg) /\ dReorg.phase # "NONE"
    BY <1>0 DEF PhaseInv, StartInv, Moving
  <2>4. CASE RecoverDisconnect
    <3>1. tip \in NonGenesis /\ tip' = Parent[tip]
      BY <2>4, Typed DEF RecoverDisconnect, CanRollback, RollbackBatch, NonGenesis
    <3>2. [dSide EXCEPT ![tip] = Local] \in SideMaps
      <4>1. dSide \in SideMaps /\ Local \in Sources \cup {NoSource}
        BY <1>a DEF Sources
      <4> QED
        BY <3>1, <4>1, OwnerType
    <3> QED
      BY <1>2, <2>4, <3>1, <3>2, ParentOf DEF RecoverDisconnect
  <2>5. CASE RecoverConnect
    <3>1. NextOf(dReorg.cand) \in NonGenesis /\ Parent[NextOf(dReorg.cand)] = tip
      BY <1>0, <2>5, <2>a, StateOfConnect DEF RecoverConnect
    <3> QED
      BY <1>3, <2>5, <3>1 DEF RecoverConnect, PromoteBatch
  <2>6. CASE RecoverSave
    BY <1>2, <1>a, <2>6, Typed DEF RecoverSave
  <2>7. CASE RecoverPublish
    <3>1. pc = "Recover" /\ Moving(dReorg) /\ MarkerShape /\ Gap
      BY <1>0, <2>7, Verdicts DEF RecoverPublish, PhaseInv, StartInv
    <3>2. ~(dReorg.dd < Cardinality(OldBranch)) /\ dReorg.cd < Cardinality(NewBranch)
      BY <3>1, Typed, MarkerFields, BranchFinite DEF Gap, OldBranch
    <3>3. dReorg.tip = tip /\ tip \in Anc[dReorg.cand] \ {dReorg.cand}
      BY <1>0, <3>1, <3>2, WhereItStopped
    <3>4. NextOf(dReorg.cand) \in Blocks
      BY <3>1, <3>3, Typed, MarkerFields, NextOfIs, ParentOf
    <3> QED
      BY <1>2, <1>a, <2>7, <3>4 DEF RecoverPublish
  <2>8. CASE RecoverFinalize
    BY <1>2, <1>a, <2>8, Typed DEF RecoverFinalize
  <2> QED
    BY <1>9, <2>1, <2>2, <2>3, <2>4, <2>5, <2>6, <2>7, <2>8 DEF RecoveryNext
<1>10. CASE LifeNext
  BY <1>1, <1>5, <1>10 DEF LifeNext, Crash, BeginStop, Exit, GiveUp, Lose
<1> QED
  BY <1>6, <1>7, <1>8, <1>9, <1>10 DEF Next

\* The side pool is a set of branches that hang on the active chain, through evictions, the
\* expiry of stale blocks, promotions, demotions and a reload at its limits, about
\* pruneRuntimeStaleSideBlocksWithSubmissionLockHeld and reloadSideChainIndexLocked: no side
\* block is left without the block below it.
THEOREM SidesHangTogether == Spec => []SideClosed
<1>1. Init => SideClosed
  BY DEF Init, SideClosed, SideBlocks, OwnedIn, NoSides
<1>2. (TypeInv /\ NodeInv) /\ CountersExact /\ SideClosed /\ [Next]_vars => SideClosed'
  BY ClosedStep
<1> QED
  BY <1>1, <1>2, NodeAlways, CountersAreExact, PTL DEF Spec

LEMMA KnownAlways == Spec /\ []StartKnowsAll => []KnownInv
<1>1. Init => KnownInv
  BY DEF Init, KnownInv, Executing
<1>2. (TypeInv /\ NodeInv) /\ EndInv /\ StartKnowsAll /\ KnownInv /\ [Next]_vars => KnownInv'
  BY KnownStep
<1> QED
  BY <1>1, <1>2, NodeAlways, EndAlways, PTL DEF Spec

LEMMA BestAlways == Spec => []BestInv
<1>1. Init => BestInv
  BY DEF Init, BestInv, Activating
<1>2. (TypeInv /\ CountersExact) /\ BestInv /\ [Next]_vars => BestInv'
  BY BestStep
<1> QED
  BY <1>1, <1>2, NodeAlways, CountersAreExact, PTL DEF Spec

\* No side record is of a block above t.
Topped(t) == \A b \in OwnedIn(dSide) : t \in Anc[b] => b = t

\* Nothing is recorded above the state, nor above a candidate on its way to be the tip.
NothingAbove ==
    /\ ~Moving(dReorg) => Topped(dState)
    /\ dReorg.phase # "NONE" => Topped(dReorg.cand)
    /\ pc = "Activate" => Topped(plan.cand)

\* A block the index does not know has nothing above it that the index knows.
LEMMA NewIsTop ==
    ASSUME TypeInv, SideClosed, Known, NEW b \in Blocks, b \notin Indexed
    PROVE  \A c \in OwnedIn(dSide) : b \notin Anc[c]
<1> SUFFICES ASSUME NEW c \in OwnedIn(dSide), b \in Anc[c] PROVE FALSE
  OBVIOUS
<1>1. c \in SideBlocks
  BY DEF Known
<1>2. Joining(tip, c) \subseteq SideBlocks
  BY <1>1, JoinsInPool
<1> QED
  BY <1>2 DEF Joining, Indexed

\* Nothing enters above the tip while nothing is there.
LEMMA EntersBeside ==
    ASSUME TypeInv, NodeInv, Topped(dState), NEW b \in Blocks, Enters(b)
    PROVE  tip \notin Anc[b]
<1>1. /\ b \in NonGenesis /\ Parent[b] \in Indexed /\ Parent[b] # tip /\ b \notin Anc[tip]
      /\ dState = tip
  BY DEF Enters
<1> SUFFICES ASSUME tip \in Anc[b] PROVE FALSE
  OBVIOUS
<1>2. tip \in Anc[Parent[b]] /\ Parent[b] \in Blocks
  BY <1>1, ParentOf, Typed, Chains
<1>3. CASE Parent[b] \in Anc[tip]
  <2>1. Height[Parent[b]] = Height[tip]
    <3>1. Height[Parent[b]] <= Height[tip] /\ Height[tip] <= Height[Parent[b]]
      BY <1>2, <1>3, Typed, TreeClosure
    <3> QED
      BY <3>1, <1>2, Typed, Chains
  <2> QED
    BY <1>1, <1>3, <2>1, Typed, TreeClosure
<1>4. CASE Parent[b] \in SideBlocks
  <2>1. Parent[b] \in OwnedIn(dSide)
    BY <1>4 DEF NodeInv, MemoryInv, SideBlocks, OwnedIn
  <2> QED
    BY <1>1, <1>2, <2>1 DEF Topped
<1> QED
  BY <1>1, <1>3, <1>4 DEF Indexed

\* Two chains that hold each other's ends are one.
LEMMA NoLoop ==
    ASSUME NEW a \in Blocks, NEW b \in Anc[a], a \in Anc[b]
    PROVE  a = b
<1>1. b \in Blocks
  BY Chains
<1>2. Height[a] <= Height[b] /\ Height[b] <= Height[a] /\ Height[a] \in Nat /\ Height[b] \in Nat
  BY <1>1, Chains, TreeClosure
<1>3. Height[a] = Height[b]
  BY <1>2
<1> QED
  BY <1>3, TreeClosure

LEMMA AboveStep ==
    ASSUME TypeInv, NodeInv, EndInv, CountersExact, SideClosed, KnownInv, StartKnowsAll,
           NothingAbove, [Next]_vars
    PROVE  NothingAbove'
<1> DEFINE After(t) == \A b \in OwnedIn(dSide') : t \in Anc[b] => b = t
<1>0. StoreInv /\ MemoryInv /\ PhaseInv
  BY DEF NodeInv, PhaseInv
<1>a. /\ dState \in Blocks /\ dReorg.cand \in Blocks /\ plan.cand \in Blocks /\ tip \in Blocks
      /\ dReorg.orig \in Blocks
  BY Typed, MarkerFields
<1>b. ASSUME NEW t, Topped(t),
             \A c \in Blocks : dSide'[c] # NoSource => dSide[c] # NoSource \/ t \notin Anc[c]
      PROVE  After(t)
  BY <1>b DEF Topped, OwnedIn
\* The state and the marker.
<1>1. /\ ~Moving(dReorg') => After(dState')
      /\ dReorg'.phase # "NONE" => After(dReorg'.cand)
  <2>1. ASSUME NEW b \in Blocks, ConnectTip(b), dReorg' = NoReorg
        PROVE  After(dState') /\ dReorg'.phase = "NONE"
    <3>1. Accepting /\ b \notin Indexed /\ dState' = b /\ dSide' = dSide
      BY <2>1 DEF ConnectTip
    <3>2. \A c \in OwnedIn(dSide) : b \notin Anc[c]
      BY <3>1, NewIsTop DEF Accepting, KnownInv
    <3> QED
      BY <2>1, <3>1, <3>2 DEF NoReorg, OwnedIn
  <2>2. ASSUME NEW b \in Blocks, Enters(b)
        PROVE  After(dState') /\ dReorg'.phase = "NONE"
    <3>1. dReorg' = NoReorg /\ dState' = dState /\ dState = tip
          /\ \A c \in Blocks \ {b} : dSide'[c] # NoSource => dSide[c] # NoSource
      BY <2>2 DEF Enters
    <3>2. Topped(dState)
      BY <2>2 DEF NothingAbove, Enters, Moving, NoReorg
    <3>3. tip \notin Anc[b]
      BY <2>2, <3>2, EntersBeside
    <3> QED
      BY <1>b, <3>1, <3>2, <3>3 DEF NoReorg
  <2>3. ASSUME Disconnects
        PROVE  Moving(dReorg') /\ After(dReorg'.cand)
    <3>1. /\ tip \in NonGenesis /\ dReorg.phase # "NONE" /\ MarkerCounts(dReorg)
          /\ dReorg.tip = tip /\ tip \notin Anc[dReorg.cand] /\ Topped(dReorg.cand)
      BY <2>3 DEF Disconnects, NothingAbove
    <3>2. \A c \in Blocks : dSide'[c] = IF c = tip THEN Local ELSE dSide[c]
      BY <2>3, Typed DEF Disconnects, RollbackBatch
    <3>3. Moving(dReorg') /\ dReorg'.cand = dReorg.cand
      BY <2>3, Typed DEF Disconnects, RollbackBatch, Progress, Moving, Marker
    <3>4. dReorg.cand \notin Anc[tip]
      <4>1. tip \in Anc[dReorg.orig] /\ Work[dReorg.cand] > Work[dReorg.orig]
        BY <3>1 DEF MarkerCounts
      <4>2. dReorg.cand \notin Anc[dReorg.orig]
        BY <1>a, <4>1, WorkGrows, Chains
      <4> QED
        BY <1>a, <4>1, <4>2, TreeClosure
    <3> QED
      BY <1>b, <3>1, <3>2, <3>3, <3>4
  <2>4. ASSUME NEW b \in Blocks, Promotes(b)
        PROVE  Moving(dReorg') /\ After(dReorg'.cand)
    <3>1. Moving(dReorg) /\ dReorg' = dReorg /\ Topped(dReorg.cand)
      BY <2>4 DEF Promotes, PromoteBatch, NothingAbove, Moving
    <3>2. \A c \in Blocks : dSide'[c] # NoSource => dSide[c] # NoSource
      BY <2>4, Typed DEF Promotes, PromoteBatch, SidesWithout
    <3> QED
      BY <1>b, <3>1, <3>2
  <2>5. ASSUME OnlyGo, SameBranches 
        PROVE  /\ ~Moving(dReorg') => After(dState')
               /\ dReorg'.phase # "NONE" => After(dReorg'.cand)
    <3>1. \A c \in Blocks : dSide'[c] # NoSource => dSide[c] # NoSource
      BY <2>5 DEF OnlyGo
    <3>2. dReorg'.phase # "NONE" => After(dReorg'.cand)
      BY <1>b, <2>5, <3>1 DEF SameBranches, NothingAbove
    <3>3. ASSUME ~Moving(dReorg') PROVE Topped(dState)
      <4>1. CASE ~Moving(dReorg)
        BY <4>1 DEF NothingAbove
      <4>2. CASE Moving(dReorg)
        <5>1. ~(\E b \in Blocks : ConnectTip(b) /\ dReorg = NoReorg /\ dState = tip)
          BY <4>2 DEF Moving, NoReorg
        <5>2. ~Disconnects
          BY <2>5, ParentOf, Chains DEF Disconnects, RollbackBatch, OnlyGo
        <5>3. ~(\E b \in Blocks : Promotes(b))
          BY <2>5, ParentOf, <1>a, Chains DEF Promotes, PromoteBatch, OnlyGo
        <5>4. Completes
          BY <3>3, <4>2, <5>1, <5>2, <5>3, StoreMoves DEF SameReorg
        <5> QED
          BY <4>2, <5>4 DEF Completes, NothingAbove, Moving
      <4> QED
        BY <4>1, <4>2
    <3> QED
      BY <1>b, <2>5, <3>1, <3>2, <3>3 DEF OnlyGo
  <2>6. ASSUME Prepare 
        PROVE  /\ ~Moving(dReorg') => After(dState')
               /\ dReorg'.phase # "NONE" => After(dReorg'.cand)
    <3>1. /\ pc = "Activate" /\ dReorg = NoReorg /\ dSide' = dSide /\ dState' = dState
          /\ dReorg' = [NoReorg EXCEPT !.phase = "PREPARED", !.orig = tip,
                                       !.cand = plan.cand, !.tip = tip]
      BY <2>6 DEF Prepare
    <3>2. dReorg'.cand = plan.cand /\ ~Moving(dReorg)
      BY <3>1 DEF NoReorg, Moving
    <3>3. Topped(plan.cand) /\ Topped(dState)
      BY <3>1, <3>2 DEF NothingAbove
    <3> QED
      BY <1>b, <3>1, <3>2, <3>3
  <2> HIDE DEF After
  <2> QED
    BY <2>1, <2>2, <2>3, <2>4, <2>5, <2>6, SidesMove DEF Moving
\* The plan.
<1>2. ASSUME pc' = "Activate" PROVE After(plan'.cand)
  <2>1. ASSUME pc = "Activate", plan' = plan,
               \A c \in Blocks : dSide'[c] # NoSource => dSide[c] # NoSource
        PROVE  After(plan'.cand)
    BY <1>b, <2>1 DEF NothingAbove
  <2>2. ASSUME NEW b \in Blocks, NEW s \in Sources, AdmitSide(b, s) \/ ReplaceSide(b, s)
        PROVE  After(plan'.cand)
    <3>1. Accepting /\ b \notin Indexed /\ plan'.cand = b
      BY <2>2, Typed DEF AdmitSide, ReplaceSide, SideAdmissible, TypeInv, TypeOK, Plans
    <3>2. \A c \in OwnedIn(dSide) : b \notin Anc[c]
      BY <3>1, NewIsTop DEF Accepting, KnownInv
    <3>3. \A c \in Blocks : dSide'[c] # NoSource => c = b \/ dSide[c] # NoSource
      BY <2>2, Typed DEF AdmitSide, ReplaceSide
    <3> QED
      BY <3>1, <3>2, <3>3 DEF OwnedIn
  <2>3. CASE Reconcile
    <3>1. /\ dSide' = dSide /\ pc = "Reconcile"
          /\ \E b \in Winners : plan' = [plan EXCEPT !.cand = b]
      BY <1>2, <2>3 DEF Reconcile, Refuse, store
    <3>2. PICK b \in Winners : plan' = [plan EXCEPT !.cand = b]
      BY <3>1
    <3>3. plan'.cand = b /\ b \in SideBlocks /\ b \in Blocks
      BY <3>2 DEF Winners, SideBlocks, OwnedIn, TypeInv, TypeOK, Plans
    <3>4. \A c \in SideBlocks : Work[c] <= Work[b]
      BY WinnerIsHeaviest
    <3>5. ASSUME NEW c \in OwnedIn(dSide), b \in Anc[c], c # b PROVE FALSE
      <4>1. c \in SideBlocks /\ c \in Blocks /\ c # Genesis
        <5>1. c \in SideBlocks /\ c \in Blocks
          BY <3>1, <3>5 DEF StartKnowsAll, Known, OwnedIn
        <5> QED
          BY <5>1 DEF SideClosed, NonGenesis
      <4>2. c \in NonGenesis /\ b \in Anc[Parent[c]] /\ Parent[c] \in Blocks
        BY <3>5, <4>1, ParentOf DEF NonGenesis
      <4>3. Work[b] <= Work[Parent[c]] /\ Work[Parent[c]] < Work[c] /\ Work[c] <= Work[b]
        BY <3>4, <4>1, <4>2, WorkGrows, ParentOf
      <4> QED
        BY <3>3, <4>1, <4>2, <4>3, Chains
    <3> QED
      BY <3>1, <3>3, <3>5
  <2>4. CASE ClearBlockers
    <3>1. pc = "Activate" /\ plan' = plan /\ DeleteSides(Blockers(plan.cand))
      BY <2>4 DEF ClearBlockers, DropSides
    <3> QED
      BY <2>1, <3>1, Typed DEF DeleteSides, Only
  <2>5. CASE UNCHANGED vars \/ SaveFromSync \/ BeginStop
    BY <1>2, <2>1, <2>5 DEF vars, store, SaveFromSync, BeginStop
  <2>6. CASE IntakeNext
    BY <1>2, <2>2, <2>5, <2>6 DEF IntakeNext, ConnectTip, SaveConnected, VerifyConnected,
       PruneStale, PruneUndo
  <2>7. CASE ExecutorNext
    BY <1>2, <2>4, <2>7 DEF ExecutorNext, SkipActivation, DeferActivation, Prepare,
       BeginExecution, Abandon, DisconnectTip, DisconnectFails, PromoteNext, PromoteFails,
       SavePromoted, VerifyPromoted, AfterPromotion, FinishReorg, Settle, Halt
  <2>8. CASE RecoveryNext
    BY <1>2, <2>3, <2>8 DEF RecoveryNext, Boot, RecoverPending, RecoverMarker, RecoverDisconnect,
       RecoverConnect, RecoverSave, RecoverPublish, RecoverFinalize, RecoverFails, Refuse
  <2>9. CASE LifeNext
    BY <1>2, <2>5, <2>9 DEF LifeNext, Crash, Exit, GiveUp, Lose
  <2> HIDE DEF After
  <2> QED
    BY <2>5, <2>6, <2>7, <2>8, <2>9 DEF Next
<1> QED
  BY <1>1, <1>2 DEF NothingAbove, Topped

LEMMA AboveAlways == Spec /\ []StartKnowsAll => []NothingAbove
<1>1. Init => NothingAbove
  BY DEF Init, NothingAbove, Topped, OwnedIn, NoSides, NoReorg
<1>2. (TypeInv /\ NodeInv) /\ EndInv /\ CountersExact /\ SideClosed /\ KnownInv
        /\ StartKnowsAll /\ NothingAbove /\ [Next]_vars => NothingAbove'
  BY AboveStep
<1> QED
  BY <1>1, <1>2, NodeAlways, EndAlways, CountersAreExact, SidesHangTogether, KnownAlways, PTL DEF Spec

----------------------------------------------------------------------------
(* The side tip a start has chosen *)

\* No side block is further from the tip than the policy allows, but for n blocks.
Within(n) == \A b \in SideBlocks : /\ Cardinality(Joining(tip, b)) <= MaxBranch
                                   /\ Cardinality(Leaving(tip, b)) <= MaxForkDepth + n

\* A reload applies the policy; a pending connection published after it adds a block.
ShortInv == boot =>
    /\ pc = "BootPending" => Within(0)
    /\ pc \in {"BootReorg", "Reconcile", "Activate"} => Within(1)

LEMMA ShortStep ==
    ASSUME TypeInv, NodeInv, BestInv, ShortInv, [Next]_vars
    PROVE  ShortInv'
<1> DEFINE W(n) == \A b \in SideBlocks' : /\ Cardinality(Joining(tip', b)) <= MaxBranch
                                          /\ Cardinality(Leaving(tip', b)) <= MaxForkDepth + n
<1>0. StartInv /\ side \in SideMaps /\ dSide \in SideMaps /\ SideBlocks \subseteq Blocks
  BY DEF NodeInv, TypeInv, SideBlocks, OwnedIn
<1>1. ASSUME NEW n, tip' = tip, SideBlocks' \subseteq SideBlocks, Within(n) PROVE W(n)
  BY <1>1 DEF Within
<1>a. Within(0) => Within(1)
  <2>1. \A b \in Blocks : Cardinality(Leaving(tip, b)) \in Nat
    BY Typed, BranchFinite
  <2> QED
    BY <1>0, <2>1, PolicyAssumption DEF Within
<1>2. ASSUME NEW t \in Blocks, NEW own \in SideMaps, Rebuild(t, own), tip' = t
      PROVE  W(0) /\ W(1)
  <2>1. ASSUME NEW b \in SideBlocks'
        PROVE  /\ Cardinality(Joining(t, b)) <= MaxBranch
               /\ Cardinality(Leaving(t, b)) <= MaxForkDepth
               /\ Cardinality(Leaving(t, b)) \in Nat
    <3>1. b \in Blocks /\ side'[b] # NoSource
      BY <2>1 DEF SideBlocks, OwnedIn
    <3>2. b \notin Anc[t] /\ b \in Reloaded(t, own, dBlock)
      BY <1>2, <3>1, Rebuilt
    <3>3. b \in NonGenesis /\ SidePolicy(t, b)
      BY <3>1, <3>2, ReloadedHangs, Chains DEF NonGenesis
    <3> QED
      BY <3>1, <3>2, <3>3, PolicyBounds, BranchFinite
  <2> QED
    BY <1>2, <2>1, PolicyAssumption
<1>3. ASSUME pc' \notin {"BootPending", "BootReorg", "Reconcile", "Activate"} \/ ~boot'
      PROVE  ShortInv'
  BY <1>3 DEF ShortInv
<1>4. ASSUME pc' \in {"BootReorg", "Reconcile", "Activate"}, W(1) PROVE ShortInv'
  BY <1>4 DEF ShortInv, Within
<1> HIDE DEF W
<1>5. CASE UNCHANGED vars
  BY <1>5 DEF ShortInv, Within, SideBlocks, vars, memory
<1>6. CASE IntakeNext
  <2>1. ASSUME boot PROVE FALSE
    BY <1>6, <2>1 DEF BestInv, IntakeNext, ConnectTip, AdmitSide, ReplaceSide, SideAdmissible,
       Accepting, SaveConnected, VerifyConnected, PruneStale, PruneUndo, SaveFromSync
  <2>2. boot' = boot
    BY <1>6 DEF IntakeNext, ConnectTip, AdmitSide, ReplaceSide, SaveConnected, VerifyConnected,
       PruneStale, PruneUndo, SaveFromSync, memory
  <2> QED
    BY <1>3, <2>1, <2>2
<1>7. CASE ExecutorNext
  <2>1. CASE ClearBlockers
    <3>1. pc = "Activate" /\ pc' = pc /\ boot' = boot /\ tip' = tip
          /\ side' = Only(side, Blocks \ Blockers(plan.cand))
      BY <2>1 DEF ClearBlockers, DropSides
    <3>2. SideBlocks' \subseteq SideBlocks
      BY <3>1 DEF SideBlocks, OwnedIn, Only
    <3>3. boot' => Within(1)
      BY <3>1 DEF ShortInv
    <3> QED
      BY <1>1, <1>3, <1>4, <3>1, <3>2, <3>3
  <2>2. CASE ~ClearBlockers
    <3>1. pc' \notin {"BootPending", "BootReorg", "Reconcile", "Activate"}
      BY <1>7, <2>2 DEF ExecutorNext, SkipActivation, DeferActivation, Prepare,
         BeginExecution, Abandon, DisconnectTip, DisconnectFails, PromoteNext, PromoteFails,
         SavePromoted, VerifyPromoted, AfterPromotion, FinishReorg, Settle, Halt
    <3> QED
      BY <1>3, <3>1
  <2> QED
    BY <2>1, <2>2
<1>8. CASE RecoveryNext
  <2>1. CASE Boot
    <3>1. CASE pc' = "BootPending"
      <4>1. \E t \in Blocks : tip' = t /\ Rebuild(t, dSide)
        BY <2>1, <3>1 DEF Boot, Refuse
      <4>2. W(0)
        BY <1>0, <1>2, <4>1
      <4> QED
        BY <3>1, <4>2 DEF ShortInv, Within, W
    <3>2. CASE pc' = "Fatal"
      BY <1>3, <3>2
    <3> QED
      BY <2>1, <3>1, <3>2 DEF Boot, Refuse
  <2>2. CASE RecoverPending
    <3>1. pc = "BootPending" /\ boot /\ UNCHANGED <<side, boot>>
      BY <1>0, <2>2 DEF RecoverPending, StartInv
    <3>2. Within(0) /\ SideBlocks' = SideBlocks
      BY <3>1 DEF ShortInv, SideBlocks
    <3>3. CASE pc' = "BootReorg" /\ tip' = tip
      BY <1>1, <1>4, <1>a, <3>2, <3>3
    <3>4. CASE pc' = "BootReorg" /\ tip' = dPending /\ PublishesPending
      <4>1. dPending \in NonGenesis /\ Parent[dPending] = tip
        BY <1>0, <3>1, <3>4 DEF PublishesPending, StartInv
      <4>2. Anc[dPending] = Anc[tip] \cup {dPending} /\ dPending \in Blocks
        BY <4>1, ParentOf
      <4>3. ASSUME NEW b \in SideBlocks'
            PROVE  /\ Cardinality(Joining(dPending, b)) <= MaxBranch
                   /\ Cardinality(Leaving(dPending, b)) <= MaxForkDepth + 1
        <5>1. /\ b \in Blocks /\ Cardinality(Joining(tip, b)) <= MaxBranch
              /\ Cardinality(Leaving(tip, b)) <= MaxForkDepth
          BY <1>0, <3>2, <4>3, PolicyAssumption DEF Within
        <5>2. Joining(dPending, b) \subseteq Joining(tip, b)
          BY <4>2 DEF Joining
        <5>3. Leaving(dPending, b) \subseteq Leaving(tip, b) \cup {dPending}
          BY <4>2 DEF Leaving
        <5>4. /\ IsFiniteSet(Joining(tip, b)) /\ IsFiniteSet(Leaving(tip, b))
              /\ Cardinality(Joining(tip, b)) \in Nat /\ Cardinality(Leaving(tip, b)) \in Nat
              /\ Cardinality(Joining(dPending, b)) \in Nat
              /\ Cardinality(Leaving(dPending, b)) \in Nat
          BY <4>2, <5>1, Typed, BranchFinite
        <5>5. Cardinality(Joining(dPending, b)) <= Cardinality(Joining(tip, b))
          BY <5>2, <5>4, FS_Subset
        <5>6. /\ IsFiniteSet(Leaving(tip, b) \cup {dPending})
              /\ Cardinality(Leaving(tip, b) \cup {dPending}) <= Cardinality(Leaving(tip, b)) + 1
          <6> DEFINE Left == Leaving(tip, b)
          <6>1. IsFiniteSet(Left) /\ Cardinality(Left) \in Nat
            BY <5>4
          <6> HIDE DEF Left
          <6>2. /\ IsFiniteSet(Left \cup {dPending})
                /\ Cardinality(Left \cup {dPending})
                     = IF dPending \in Left THEN Cardinality(Left) ELSE Cardinality(Left) + 1
            BY <6>1, FS_AddElement, Zenon
          <6>3. Cardinality(Left \cup {dPending}) <= Cardinality(Left) + 1
            BY <6>1, <6>2
          <6> QED
            BY <6>2, <6>3 DEF Left
        <5>7. Cardinality(Leaving(dPending, b)) <= Cardinality(Leaving(tip, b) \cup {dPending})
          BY <5>3, <5>6, FS_Subset
        <5>8. Cardinality(Leaving(tip, b) \cup {dPending}) \in Nat
          BY <5>6, FS_CardinalityType
        <5> QED
          BY <5>1, <5>4, <5>5, <5>6, <5>7, <5>8, PolicyAssumption
      <4>4. W(1)
        BY <3>4, <4>3 DEF W
      <4> QED
        BY <1>4, <3>4, <4>4
    <3>5. CASE pc' = "Fatal"
      BY <1>3, <3>5
    <3> QED
      BY <2>2, <3>3, <3>4, <3>5 DEF RecoverPending, Refuse
  <2>3. CASE RecoverMarker \/ Reconcile
    <3>1. pc \in {"BootReorg", "Reconcile"} /\ UNCHANGED <<tip, side>> /\ boot
      BY <1>0, <2>3 DEF RecoverMarker, Reconcile, memory, StartInv
    <3>2. Within(1)
      BY <3>1 DEF ShortInv
    <3>3. SideBlocks' = SideBlocks
      BY <3>1 DEF SideBlocks
    <3>4. pc' \in {"Reconcile", "Recover", "Fatal", "Activate", "Idle"}
      BY <2>3 DEF RecoverMarker, Reconcile, Refuse
    <3> QED
      BY <1>1, <1>3, <1>4, <3>1, <3>2, <3>3, <3>4
  <2>4. CASE RecoverFinalize
    <3>1. tip' = tip /\ Rebuild(tip, dSide) /\ pc' = "Reconcile"
      BY <2>4 DEF RecoverFinalize
    <3> QED
      BY <1>0, <1>2, <1>4, <3>1, Typed
  <2>5. CASE RecoverDisconnect \/ RecoverConnect \/ RecoverSave \/ RecoverPublish \/ RecoverFails
    <3>1. pc' \in {"Recover", "RecoverSave", "Fatal"}
      BY <2>5 DEF RecoverDisconnect, RecoverConnect, RecoverSave, RecoverPublish, RecoverFails,
         Refuse
    <3> QED
      BY <1>3, <3>1
  <2> QED
    BY <1>8, <2>1, <2>2, <2>3, <2>4, <2>5 DEF RecoveryNext
<1>9. CASE LifeNext
  <2>1. pc' \notin {"BootPending", "BootReorg", "Reconcile", "Activate"} \/ ~boot'
    BY <1>9 DEF LifeNext, Crash, BeginStop, Exit, GiveUp, Lose
  <2> QED
    BY <1>3, <2>1
<1> QED
  BY <1>5, <1>6, <1>7, <1>8, <1>9 DEF Next

LEMMA ShortAlways == Spec => []ShortInv
<1>1. Init => ShortInv
  BY DEF Init, ShortInv
<1>2. (TypeInv /\ NodeInv) /\ BestInv /\ ShortInv /\ [Next]_vars => ShortInv'
  BY ShortStep
<1> QED
  BY <1>1, <1>2, NodeAlways, BestAlways, PTL DEF Spec

\* The pool has room for the old branch in place of the new one.
Room ==
    LET old == Leaving(tip, plan.cand)
        new == Joining(tip, plan.cand)
        final(p) == cnt.kids[p] + Cardinality({b \in old : Parent[b] = p})
                                - Cardinality({b \in new : Parent[b] = p})
    IN  /\ cnt.total - Cardinality(new) + Cardinality(old) <= MaxSideBlocks
        /\ \A b \in old \cup new : final(Parent[b]) <= MaxSideChildren

\* All the reservation asks for beside the preflight is this room.
LEMMA RoomReserves ==
    ASSUME TypeInv, NodeInv, CountersExact, SidesApart, dState = tip, plan.orig = tip,
           Joining(tip, plan.cand) \subseteq SideBlocks, Room
    PROVE  Reserved
<1> DEFINE old == Leaving(tip, plan.cand)
           new == Joining(tip, plan.cand)
<1>1. /\ old \subseteq Blocks /\ new \subseteq SideBlocks /\ SideBlocks \subseteq Blocks
      /\ old \subseteq NonGenesis /\ new \subseteq NonGenesis
  <2>1. old \subseteq NonGenesis /\ Leaving(plan.cand, tip) \subseteq NonGenesis
    BY Typed, BranchNonGenesis
  <2> QED
    BY <2>1, Typed, BranchFinite DEF SideBlocks, OwnedIn, Leaving, Joining
<1>2. ASSUME NEW p \in Blocks
      PROVE  /\ cnt.kids[p] >= Cardinality({b \in new : Parent[b] = p})
             /\ cnt.kids[p] \in Nat /\ Cardinality({b \in new : Parent[b] = p}) \in Nat
             /\ Cardinality({b \in old : Parent[b] = p}) \in Nat
  <2>1. cnt.kids[p] = Cardinality(KidsIn(side, p)) /\ KidsIn(side, p) \in SUBSET Blocks
    BY CountersAre DEF CountersExact, KidsIn, OwnedIn
  <2>2. {b \in new : Parent[b] = p} \subseteq KidsIn(side, p)
    BY <1>1 DEF KidsIn, SideBlocks, NonGenesis
  <2>3. IsFiniteSet(KidsIn(side, p))
    BY <2>1, FS_Subset, TreeTyping
  <2>4. {b \in new : Parent[b] = p} \in SUBSET Blocks /\ {b \in old : Parent[b] = p} \in SUBSET Blocks
    BY <1>1
  <2> HIDE DEF new, old
  <2> QED
    BY <2>1, <2>2, <2>3, <2>4, FS_Subset, CardinalityOfBlocks
<1>3. ASSUME NEW o \in Sources PROVE cnt.of[o] >= Cardinality({b \in new : side[b] = o})
  <2>1. cnt.of[o] = Cardinality(OwnedBy(side, o)) /\ OwnedBy(side, o) \in SUBSET Blocks
    BY CountersAre DEF CountersExact, OwnedBy
  <2>2. {b \in new : side[b] = o} \subseteq OwnedBy(side, o)
    BY <1>1 DEF OwnedBy
  <2>3. IsFiniteSet(OwnedBy(side, o))
    BY <2>1, FS_Subset, TreeTyping
  <2>4. Cardinality({b \in new : side[b] = o}) <= Cardinality(OwnedBy(side, o))
    BY <2>2, <2>3, FS_Subset
  <2>5. Cardinality({b \in new : side[b] = o}) \in Nat /\ Cardinality(OwnedBy(side, o)) \in Nat
    BY <1>1, <2>1, CardinalityOfBlocks
  <2> QED
    BY <2>1, <2>4, <2>5
<1>4. \A b \in old : dSide[b] = NoSource
  BY <1>1 DEF SidesApart, OwnedIn, Leaving
<1>5. \A b \in new : dSide[b] = side[b]
  BY <1>1 DEF NodeInv, MemoryInv, SideBlocks, OwnedIn
<1>6. ASSUME NEW b \in old \cup new
      PROVE  cnt.kids[Parent[b]] + Cardinality({c \in old : Parent[c] = Parent[b]})
               - Cardinality({c \in new : Parent[c] = Parent[b]}) \in 0..MaxSideChildren
  <2>1. Parent[b] \in Blocks
    BY <1>1, ParentOf
  <2> DEFINE k == cnt.kids[Parent[b]]
             o == Cardinality({c \in old : Parent[c] = Parent[b]})
             n == Cardinality({c \in new : Parent[c] = Parent[b]})
  <2>2. k + o - n <= MaxSideChildren
    BY DEF Room
  <2>3. k >= n /\ k \in Nat /\ n \in Nat /\ o \in Nat
    BY <1>2, <2>1
  <2> HIDE DEF k, o, n
  <2>4. k + o - n \in 0..MaxSideChildren
    BY <2>2, <2>3, LimitsAreNat
  <2> QED
    BY <2>4 DEF k, o, n
<1> QED
  BY <1>3, <1>4, <1>5, <1>6 DEF Reserved, Room
\* Until it moves, a start works on the one heaviest side block; it gives it up where the
\* pool has no room, or where a write has failed.
ChosenInv == boot =>
    /\ pc \in {"Activate", "Prepared"} =>
         /\ AutoReorg /\ Work[plan.cand] > Work[tip] /\ plan.cand \in SideBlocks
         /\ \A b \in SideBlocks \ {plan.cand} : Work[b] < Work[plan.cand]
    /\ pc = "Prepared" =>
         /\ PreflightPasses(plan.cand) /\ Blockers(plan.cand) = {}
         /\ plan.orig = tip /\ dReorg.orig = tip /\ dReorg.cand = plan.cand
    /\ pc = "Abandon" => budget.faults > 0 \/ ~Room

LEMMA ChosenStep ==
    ASSUME TypeInv, NodeInv, CountersExact, BestInv, SidesApart, TrailInv, ExecInv, ChosenInv,
           [Next]_vars
    PROVE  ChosenInv'
<1>1. ASSUME pc' \notin {"Activate", "Prepared", "Abandon"} \/ ~boot' PROVE ChosenInv'
  BY <1>1 DEF ChosenInv
<1>2. ASSUME UNCHANGED vars PROVE ChosenInv'
  BY <1>2 DEF ChosenInv, PreflightPasses, PlanExists, PlanDurable, Blockers, Room, Indexed,
     SideBlocks, vars, store, memory
<1>3. SideBlocks \subseteq Blocks
  BY DEF SideBlocks, OwnedIn
<1>4. CASE IntakeNext
  <2>1. ASSUME boot PROVE FALSE
    BY <1>4, <2>1 DEF BestInv, IntakeNext, ConnectTip, AdmitSide, ReplaceSide, SideAdmissible,
       Accepting, SaveConnected, VerifyConnected, PruneStale, PruneUndo, SaveFromSync
  <2>2. boot' = boot
    BY <1>4 DEF IntakeNext, ConnectTip, AdmitSide, ReplaceSide, SaveConnected, VerifyConnected,
       PruneStale, PruneUndo, SaveFromSync, memory
  <2> QED
    BY <1>1, <2>1, <2>2
<1>5. CASE ExecutorNext
  <2>1. CASE ClearBlockers
    <3> SUFFICES ASSUME boot PROVE ChosenInv'
      BY <1>1, <2>1 DEF ClearBlockers
    <3>1. /\ pc = "Activate" /\ pc' = pc /\ tip' = tip /\ plan' = plan
          /\ PreflightPasses(plan.cand)
          /\ side' = Only(side, Blocks \ Blockers(plan.cand))
      BY <2>1 DEF ClearBlockers, DropSides
    <3>2. plan.cand \notin Blockers(plan.cand)
      BY <3>1, Typed, Chains DEF PreflightPasses
    <3>3. SideBlocks' = SideBlocks \ Blockers(plan.cand)
      BY <3>1 DEF SideBlocks, OwnedIn, Only
    <3> HIDE DEF Blockers
    <3> QED
      BY <3>1, <3>2, <3>3 DEF ChosenInv
  <2>2. CASE Prepare
    <3> SUFFICES ASSUME boot PROVE ChosenInv'
      BY <1>1, <2>2 DEF Prepare, memory
    <3>1. /\ pc = "Activate" /\ pc' = "Prepared" /\ plan' = [plan EXCEPT !.orig = tip]
          /\ PreflightPasses(plan.cand) /\ Blockers(plan.cand) = {}
          /\ UNCHANGED <<dBlock, dSide, dUndo, tip, side>>
          /\ dReorg' = [NoReorg EXCEPT !.phase = "PREPARED", !.orig = tip,
                                       !.cand = plan.cand, !.tip = tip]
      BY <2>2 DEF Prepare, memory
    <3>2. plan'.orig = tip /\ plan'.cand = plan.cand
      BY <3>1 DEF TypeInv, TypeOK, Plans
    <3>3. dReorg'.orig = tip /\ dReorg'.cand = plan.cand
      BY <3>1 DEF NoReorg
    <3>4. SideBlocks' = SideBlocks /\ Indexed' = Indexed
      BY <3>1 DEF SideBlocks, Indexed
    <3>5. PreflightPasses(plan.cand)' /\ Blockers(plan.cand)' = {}
      BY <3>1, <3>2, <3>4 DEF PreflightPasses, PlanExists, PlanDurable, Blockers
    <3> QED
      BY <3>1, <3>2, <3>3, <3>4, <3>5 DEF ChosenInv
  <2>3. CASE BeginExecution
    <3> SUFFICES ASSUME boot, pc' = "Abandon" PROVE ChosenInv'
      BY <1>1, <2>3 DEF BeginExecution, memory
    <3>1. pc = "Prepared" /\ UNCHANGED <<store, memory, plan, budget>>
      BY <2>3 DEF BeginExecution
    <3>2. /\ PreflightPasses(plan.cand) /\ Blockers(plan.cand) = {}
          /\ plan.orig = tip /\ dReorg.orig = tip /\ dReorg.cand = plan.cand
          /\ dReorg.phase = "PREPARED" /\ dState = tip
      BY <3>1 DEF ChosenInv, NodeInv, ReorgInv, Quiet
    <3>3. ~Reserved
      BY <2>3, <3>2 DEF BeginExecution
    <3>4. ~Room
      BY <3>2, <3>3, RoomReserves DEF PreflightPasses, PlanExists
    <3>5. Room' = Room
      BY <3>1 DEF Room, memory
    <3> QED
      BY <3>4, <3>5 DEF ChosenInv
  <2>4. CASE DisconnectFails
    <3>1. WriteFails
      BY <2>4, ExecDisconnects DEF DisconnectFails
    <3>2. budget'.faults > 0
      BY <3>1 DEF WriteFails, TypeInv, TypeOK
    <3>3. pc' \in {"Abandon", "Idle", "Fatal"}
      BY <2>4 DEF DisconnectFails, Halt
    <3> QED
      BY <3>2, <3>3 DEF ChosenInv
  <2>5. CASE \/ SkipActivation \/ DeferActivation \/ Abandon \/ DisconnectTip \/ PromoteNext
             \/ PromoteFails \/ SavePromoted \/ VerifyPromoted \/ FinishReorg
    <3>1. pc' \notin {"Activate", "Prepared", "Abandon"}
      BY <2>5 DEF SkipActivation, DeferActivation, Abandon, DisconnectTip, PromoteNext,
         PromoteFails, SavePromoted, VerifyPromoted, AfterPromotion, FinishReorg, Settle, Halt
    <3> QED
      BY <1>1, <3>1
  <2> QED
    BY <1>5, <2>1, <2>2, <2>3, <2>4, <2>5 DEF ExecutorNext
<1>6. CASE RecoveryNext
  <2>1. CASE Reconcile /\ pc' = "Activate"
    <3>1. /\ AutoReorg /\ Cardinality(Winners) = 1 /\ UNCHANGED <<tip, side>>
          /\ \E b \in Winners : plan' = [plan EXCEPT !.cand = b]
      BY <2>1 DEF Reconcile, Refuse
    <3>2. PICK b \in Winners : plan' = [plan EXCEPT !.cand = b]
      BY <3>1
    <3>3. /\ plan'.cand = b /\ b \in SideBlocks /\ b \in Blocks
          /\ Work[b] > Work[tip] /\ cnt.kids[b] = 0
          /\ \A c \in SideBlocks : cnt.kids[c] = 0 => Work[c] <= Work[b]
      BY <1>3, <3>2 DEF Winners, TypeInv, TypeOK, Plans
    <3>4. \A c \in SideBlocks : Work[c] <= Work[b]
      BY WinnerIsHeaviest
    <3>5. ASSUME NEW c \in SideBlocks \ {b} PROVE Work[c] < Work[b]
      <4> SUFFICES ASSUME Work[c] = Work[b] PROVE FALSE
        BY <1>3, <3>3, <3>4, Chains
      <4>1. cnt.kids[c] = 0
        BY <3>4, HeaviestIsLeaf
      <4>2. c \in Winners
        BY <3>3, <4>1 DEF Winners
      <4>3. IsFiniteSet(Winners)
        <5>1. Winners \in SUBSET Blocks
          BY <1>3 DEF Winners
        <5> QED
          BY <5>1, FS_Subset, TreeTyping
      <4>4. PICK x : Winners = {x}
        BY <3>1, <4>3, FS_Singleton
      <4> QED
        BY <3>2, <4>2, <4>4
    <3>6. SideBlocks' = SideBlocks
      BY <3>1 DEF SideBlocks
    <3> QED
      BY <2>1, <3>1, <3>3, <3>5, <3>6 DEF ChosenInv
  <2>2. CASE ~(Reconcile /\ pc' = "Activate")
    <3>1. pc' \notin {"Activate", "Prepared", "Abandon"}
      BY <1>6, <2>2 DEF RecoveryNext, Boot, RecoverPending, RecoverMarker, RecoverDisconnect,
         RecoverConnect, RecoverSave, RecoverPublish, RecoverFinalize, RecoverFails, Reconcile,
         Refuse
    <3> QED
      BY <1>1, <3>1
  <2> QED
    BY <2>1, <2>2
<1>7. CASE LifeNext
  <2>1. pc' \notin {"Activate", "Prepared", "Abandon"} \/ ~boot'
    BY <1>7 DEF LifeNext, Crash, BeginStop, Exit, GiveUp, Lose
  <2> QED
    BY <1>1, <2>1
<1> QED
  BY <1>2, <1>4, <1>5, <1>6, <1>7 DEF Next

LEMMA ChosenAlways == Spec /\ []StartKnowsAll => []ChosenInv
<1>1. Init => ChosenInv
  BY DEF Init, ChosenInv
<1>2. (TypeInv /\ NodeInv) /\ CountersExact /\ BestInv /\ SidesApart /\ TrailInv /\ ExecInv
        /\ ChosenInv /\ [Next]_vars => ChosenInv'
  BY ChosenStep
<1> QED
  BY <1>1, <1>2, NodeAlways, CountersAreExact, BestAlways, RecordsAreKnown, SidesStayApart,
     TrailAlways, ExecAlways, PTL DEF Spec

\* A start can move to the side tip it has chosen, if its blocks are valid and the fork is
\* not one block too deep: what it joins is in the pool, what it leaves has its blocks and
\* its journals, and what hangs there has less work.
LEMMA ChosenPasses ==
    ASSUME TypeInv, NodeInv, SidesApart, SideClosed, NothingAbove, ShortInv, ChosenInv,
           UndoWithinReach, boot, pc = "Activate",
           Joining(tip, plan.cand) \subseteq Valid,
           Cardinality(Leaving(tip, plan.cand)) <= MaxForkDepth
    PROVE  PreflightPasses(plan.cand)
<1> DEFINE c == plan.cand
<1>1. /\ Quiet /\ dReorg = NoReorg
  BY DEF NodeInv, ConnectInv, AtRest
<1>2. /\ c \in SideBlocks /\ c \in Blocks /\ tip \in Blocks /\ Work[c] > Work[tip]
      /\ \A b \in SideBlocks \ {c} : Work[b] < Work[c]
  BY Typed DEF ChosenInv
<1>3. Joining(tip, c) \subseteq SideBlocks
  BY <1>2, JoinsInPool
<1>4. PlanExists(c)
  <2>1. c \in Indexed /\ Cardinality(Joining(tip, c)) <= MaxBranch
    BY <1>2 DEF ShortInv, Within, Indexed
  <2>2. tip \notin Anc[c]
    <3>1. Topped(tip)
      BY <1>1 DEF NothingAbove, Quiet, Moving, NoReorg
    <3>2. c \in OwnedIn(dSide)
      BY <1>2 DEF NodeInv, MemoryInv, SideBlocks, OwnedIn
    <3>3. c # tip
      BY <1>2, Chains
    <3> QED
      BY <3>1, <3>2, <3>3 DEF Topped
  <2> QED
    BY <1>2, <1>3, <2>1, <2>2 DEF PlanExists
<1>5. PlanDurable(c)
  <2>1. ASSUME NEW b \in Leaving(tip, c) PROVE b \in dBlock /\ b \in dUndo
    <3>1. b \in Anc[tip] \ {Genesis} /\ b \in Blocks
      BY <1>2, <2>1, Chains DEF Leaving
    <3>2. Height[tip] - Height[b] < MaxForkDepth
      <4>1. Height[b] > Height[tip] - Cardinality(Leaving(tip, c))
        BY <1>2, <2>1, BranchHeights
      <4>2. /\ Cardinality(Leaving(tip, c)) \in Nat /\ Height[tip] \in Nat /\ Height[b] \in Nat
        BY <1>2, <3>1, Chains, BranchFinite
      <4>3. Cardinality(Leaving(tip, c)) <= MaxForkDepth /\ MaxForkDepth \in Nat
        BY PolicyAssumption
      <4> HIDE DEF c
      <4> QED
        BY <4>1, <4>2, <4>3
    <3> QED
      BY <1>1, <3>1, <3>2 DEF UndoWithinReach, Quiet
  <2>2. ASSUME NEW b \in Joining(tip, c) PROVE b \in dBlock /\ dSide[b] = side[b]
    BY <1>3, <2>2 DEF NodeInv, MemoryInv, SidesApart, SideBlocks, OwnedIn
  <2> QED
    BY <2>1, <2>2 DEF PlanDurable
<1>6. ASSUME NEW b \in Blockers(c) PROVE Work[b] < Work[c]
  <2>1. b \in SideBlocks /\ (Anc[b] \ {b}) \cap Leaving(tip, c) # {}
    BY <1>6 DEF Blockers
  <2>2. b # c
    BY <2>1 DEF Leaving
  <2> QED
    BY <1>2, <2>1, <2>2
<1> QED
  BY <1>4, <1>5, <1>6 DEF PreflightPasses

\* What can keep a start from the side tip it has chosen, when the committed tip has stood
\* at height N at most: a block of it that is not valid, a fork that a pending connection
\* has pushed one block too deep, a tip that reorgs to lower chains have taken so far down
\* that journals may be gone, no room in the pool.
Reasons(N) ==
    \/ pc = "Activate" /\ ~(Joining(tip, plan.cand) \subseteq Valid)
    \/ pc = "Activate" /\ Cardinality(Leaving(tip, plan.cand)) = MaxForkDepth + 1
    \/ pc = "Activate" /\ Fallen(N)
    \/ pc = "Abandon" /\ ~Room

LEMMA ActivationRefused ==
    ASSUME NEW N \in Nat, TypeInv, NodeInv, EndInv, TrailInv, WayInv, CountersExact, ExecInv,
           VerifyInv, HaltInv, NoStopAtBoot, SidesApart, SideClosed, NothingAbove, ShortInv,
           ChosenInv, Fallen(N) \/ UndoWithinReach, boot, pc \in Activating, pc' = "Fatal",
           [Next]_vars
    PROVE  budget'.faults > 0 \/ Reasons(N)
<1>1. ASSUME halted' PROVE budget'.faults > 0
  <2>1. ~halted /\ ~stopping
    BY DEF HaltInv, Activating, NoStopAtBoot
  <2> QED
    BY <1>1, <2>1, HaltsOnly DEF Stops
<1>2. CASE SkipActivation
  BY <1>2, Typed, Chains DEF SkipActivation, ChosenInv
<1>3. CASE DeferActivation
  <2>1. CASE WriteFails
    BY <2>1 DEF WriteFails, TypeInv, TypeOK
  <2>2. CASE ~PreflightPasses(plan.cand) \/ dReorg # NoReorg
    <3>1. pc = "Activate" /\ dReorg = NoReorg
      BY <1>3 DEF DeferActivation, NodeInv, ConnectInv, AtRest
    <3>2. \/ ~(Joining(tip, plan.cand) \subseteq Valid) \/ Fallen(N)
          \/ ~(Cardinality(Leaving(tip, plan.cand)) <= MaxForkDepth)
      BY <2>2, <3>1, ChosenPasses
    <3>3. /\ Cardinality(Leaving(tip, plan.cand)) <= MaxForkDepth + 1
          /\ Cardinality(Leaving(tip, plan.cand)) \in Nat
      BY <3>1, Typed, BranchFinite DEF ChosenInv, ShortInv, Within
    <3> QED
      BY <3>1, <3>2, <3>3, PolicyAssumption DEF Reasons
  <2> QED
    BY <1>3, <2>1, <2>2 DEF DeferActivation
<1>4. CASE Abandon
  <2>1. pc = "Abandon" /\ (WriteFails \/ WriteOK)
    BY <1>4 DEF Abandon
  <2>2. CASE WriteFails
    BY <2>2 DEF WriteFails, TypeInv, TypeOK
  <2>3. CASE WriteOK
    BY <2>1, <2>3 DEF WriteOK, ChosenInv, Reasons
  <2> QED
    BY <2>1, <2>2, <2>3
<1>5. CASE DisconnectFails \/ PromoteFails \/ VerifyPromoted
  BY <1>1, <1>5 DEF DisconnectFails, PromoteFails, VerifyPromoted, AfterPromotion, Halt
<1>6. CASE FinishReorg
  <2>1. tip = plan.cand
    BY <1>6 DEF FinishReorg, NodeInv, ReorgInv
  <2> QED
    BY <1>1, <1>6, <2>1 DEF FinishReorg, Settle, Halt
<1>7. CASE ExecutorNext
  BY <1>2, <1>3, <1>4, <1>5, <1>6, <1>7 DEF ExecutorNext, ClearBlockers, Prepare,
     BeginExecution, DisconnectTip, PromoteNext, SavePromoted, Activating
<1>8. CASE IntakeNext
  BY <1>8 DEF Activating, IntakeNext, ConnectTip, AdmitSide, ReplaceSide, SideAdmissible,
     Accepting, SaveConnected, VerifyConnected, PruneStale, PruneUndo, SaveFromSync
<1>9. CASE RecoveryNext
  BY <1>9 DEF Activating, RecoveryNext, Boot, RecoverPending, RecoverMarker, RecoverDisconnect,
     RecoverConnect, RecoverSave, RecoverPublish, RecoverFinalize, RecoverFails, Reconcile
<1>10. CASE LifeNext \/ UNCHANGED vars
  BY <1>10 DEF Activating, LifeNext, Crash, BeginStop, Exit, GiveUp, Lose, vars
<1> QED
  BY <1>7, <1>8, <1>9, <1>10 DEF Next

\* A start that has chosen a heavier side tip becomes it, unless a block of it turns out not
\* to be valid, a connection published at the same start has put the fork one block beyond
\* the reach of a reorg, reorgs to lower chains have outrun the retention of journals below N,
\* the greatest height so far, the pool has no room for the branch to leave, or a write fails,
\* about reconcileWinningSideTipAtStartup, verifyReorgDurabilityPreflight and
\* executePreparedReorg: the blocks, the records and the journals it needs are there, and
\* nothing it cannot clear hangs on the old branch.
THEOREM ActivationIsRefusedForAReason ==
    ASSUME NEW N \in Nat
    PROVE  Spec /\ []StartKnowsAll /\ []UpTo(N) =>
             [][boot /\ pc \in Activating /\ pc' = "Fatal"
                  => budget'.faults > 0 \/ Reasons(N)]_vars
<1>1. (TypeInv /\ NodeInv) /\ EndInv /\ TrailInv /\ WayInv /\ CountersExact /\ ExecInv
        /\ VerifyInv /\ HaltInv /\ NoStopAtBoot /\ SidesApart /\ SideClosed /\ NothingAbove
        /\ ShortInv /\ ChosenInv /\ (Fallen(N) \/ UndoWithinReach) /\ [Next]_vars
        => [boot /\ pc \in Activating /\ pc' = "Fatal"
              => budget'.faults > 0 \/ Reasons(N)]_vars
  BY ActivationRefused
<1>2. Spec /\ []StartKnowsAll /\ []UpTo(N) => [](Fallen(N) \/ UndoWithinReach)
  BY UndoStaysInReach, RecordsAreKnown, SidesStayApart, PTL
<1> QED
  BY <1>1, <1>2, NodeAlways, EndAlways, TrailAlways, WayAlways, CountersAreExact, ExecAlways,
     VerifyAlways, HaltAlways, StopAlways, RecordsAreKnown, SidesStayApart, SidesHangTogether,
     AboveAlways, ShortAlways, ChosenAlways, PTL DEF Spec

\* Only a start is ever refused.
LEMMA OnlyStartsFail ==
    ASSUME BestInv, pc # "Fatal", pc' = "Fatal", [Next]_vars
    PROVE  pc \in Starting \/ (boot /\ pc \in Activating)
<1>1. CASE IntakeNext
  BY <1>1 DEF IntakeNext, ConnectTip, AdmitSide, ReplaceSide, SaveConnected, VerifyConnected,
     PruneStale, PruneUndo, SaveFromSync
<1>2. CASE ExecutorNext
  BY <1>2 DEF Activating, ExecutorNext, SkipActivation, DeferActivation, ClearBlockers, Prepare,
     BeginExecution, Abandon, DisconnectTip, DisconnectFails, PromoteNext, PromoteFails,
     SavePromoted, VerifyPromoted, AfterPromotion, FinishReorg, Settle, Halt
<1>3. CASE RecoveryNext
  BY <1>3 DEF Starting, RecoveryNext, Boot, RecoverPending, RecoverMarker, RecoverDisconnect,
     RecoverConnect, RecoverSave, RecoverPublish, RecoverFinalize, RecoverFails, Reconcile
<1>4. CASE LifeNext \/ UNCHANGED vars
  BY <1>4 DEF LifeNext, Crash, BeginStop, Exit, GiveUp, Lose, vars
<1> QED
  BY <1>1, <1>2, <1>3, <1>4 DEF Next

\* What refuses a start at all, when the committed tip has stood at height N at most: a
\* write that failed, an interrupted reorg whose recovery is not enabled or whose records
\* a reload at its limits has left out, or a side tip it cannot activate.
WhyRefused(N) ==
    \/ budget'.faults > 0
    \/ pc = "BootReorg" /\ Moving(dReorg) /\ FALSE \in Gates
    \/ Interrupted /\ ~BranchesReloaded
    \/ Reasons(N)

\* A start is refused for no other reason, wherever the crashes before it fell: the store
\* loads, what was cut off is recognised and finished, and the side tip with the most work
\* is activated.  NeverRefused of ChainNode, about reloadBlocks, initialize and everything
\* they call; each of the reasons is a way a start of the code is refused.  The reloads
\* have left no record unknown when they were over.
THEOREM NodesStart ==
    ASSUME NEW N \in Nat
    PROVE  Spec /\ []StartKnowsAll /\ []UpTo(N) =>
             [][NeverRefused /\ ~NeverRefused' => WhyRefused(N)]_vars
<1>1. ASSUME TypeInv, NodeInv, TrailInv, WayInv, HaltInv, NoStopAtBoot, NothingHangs,
             SidesApart, pc = "BootPending" /\ dPending # NoBlock => PublishesPending,
             budget.faults = 0 \/ ~SyncSaves => MarkerNamesTip, BestInv, [Next]_vars,
             [boot /\ pc \in Activating /\ pc' = "Fatal"
                => budget'.faults > 0 \/ Reasons(N)]_vars,
             TypeInv', pc # "Fatal", pc' = "Fatal"
      PROVE  WhyRefused(N)
  <2> SUFFICES ASSUME ~(budget'.faults > 0), ~(Interrupted /\ ~BranchesReloaded),
                      ~(pc = "BootReorg" /\ Moving(dReorg) /\ FALSE \in Gates), ~Reasons(N)
               PROVE  FALSE
    BY DEF WhyRefused
  <2>1. budget'.faults = 0 /\ budget.faults = 0
    <3>1. budget'.faults = 0
      BY <1>1 DEF TypeInv, TypeOK
    <3> QED
      BY <1>1, <3>1, FaultsGrow
  <2>2. CASE pc \in Starting
    <3>1. Refused
      BY <1>1, <2>1, <2>2 DEF Refused
    <3> QED
      BY <1>1, <2>1, <3>1, StartRefused
  <2>3. CASE boot /\ pc \in Activating
    BY <1>1, <2>3 DEF vars
  <2> QED
    BY <1>1, <2>2, <2>3, OnlyStartsFail
<1>2. (TypeInv /\ NodeInv) /\ TrailInv /\ WayInv /\ HaltInv /\ NoStopAtBoot /\ NothingHangs
        /\ SidesApart /\ (pc = "BootPending" /\ dPending # NoBlock => PublishesPending)
        /\ (budget.faults = 0 \/ ~SyncSaves => MarkerNamesTip) /\ BestInv /\ [Next]_vars
        /\ TypeInv'
        /\ [boot /\ pc \in Activating /\ pc' = "Fatal"
              => budget'.faults > 0 \/ Reasons(N)]_vars
        => [NeverRefused /\ ~NeverRefused' => WhyRefused(N)]_vars
  BY <1>1 DEF NeverRefused, vars
<1>3. Spec /\ []StartKnowsAll /\ []UpTo(N) =>
        [][boot /\ pc \in Activating /\ pc' = "Fatal"
             => budget'.faults > 0 \/ Reasons(N)]_vars
  BY ActivationIsRefusedForAReason
<1> QED
  BY <1>2, <1>3, NodeAlways, TrailAlways, WayAlways, HaltAlways, StopAlways, HangAlways,
     BestAlways, RecordsAreKnown, SidesStayApart, PendingIsPublished, MarkerKeepsTip,
     PTL DEF Spec
=============================================================================
