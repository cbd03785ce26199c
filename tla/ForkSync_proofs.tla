-------------------------- MODULE ForkSync_proofs --------------------------
(***************************************************************************)
(* Facts about the search for the last common block, for every tree, every *)
(* peer and any number of blocks that arrive meanwhile.  Heights are       *)
(* handled by least counterexample: every height below a block's is on its *)
(* chain, two chains have a highest common block, and they share exactly   *)
(* the heights up to it.  The search keeps a bracket around that height    *)
(* (Closing), as long as the tip is the one it started from; a tip that    *)
(* has moved never comes back, because work only grows (Moved).  Every     *)
(* probe of a middle height halves the bracket (Probing).                  *)
(***************************************************************************)
EXTENDS ForkSync, WellFoundedInduction, TLAPS

LEMMA LeastNat ==
    ASSUME NEW T, T \subseteq Nat, T # {} PROVE \E n \in T : \A m \in T : n <= m
<1>1. \E n \in T : \A m \in T : ~(<<m, n>> \in OpToRel(<, Nat))
  BY NatLessThanWellFounded, WFMin
<1>2. PICK n \in T : \A m \in T : ~(<<m, n>> \in OpToRel(<, Nat))
  BY <1>1
<1>3. ASSUME NEW m \in T PROVE n <= m
  <2>1. m \in Nat /\ n \in Nat
    OBVIOUS
  <2>2. ~(m < n)
    BY <1>2, <2>1 DEF OpToRel
  <2>3. QED  BY <2>1, <2>2
<1>4. QED  BY <1>3

----------------------------------------------------------------------------
(* Chains and their heights *)

LEMMA HeightIs ==
    ASSUME NEW b \in Blocks
    PROVE  /\ Height[b] \in Nat \ {0} /\ Anc[b] \subseteq Blocks
           /\ b \in Anc[b] /\ Genesis \in Anc[b]
<1>1. Genesis \in Anc[b] /\ Anc[b] \subseteq Blocks /\ Height[b] \in Nat
  BY TreeTyping, TreeClosure
<1>2. Height[Genesis] = 1 /\ Height[Genesis] <= Height[b]
  BY <1>1, TreeShape, TreeClosure
<1>3. b \in Anc[b]
  BY TreeShape, TreeTyping DEF NonGenesis
<1>4. QED  BY <1>1, <1>2, <1>3

\* Every height up to a block's own is on its chain.
LEMMA ChainHasHeights ==
    \A b \in Blocks : \A h \in 1..Height[b] : \E c \in Anc[b] : Height[c] = h
<1> DEFINE Whole(b) == \A h \in 1..Height[b] : \E c \in Anc[b] : Height[c] = h
<1> DEFINE T == {Height[b] : b \in {x \in Blocks : ~Whole(x)}}
<1> SUFFICES ASSUME T # {} PROVE FALSE
  BY HeightIs
<1>1. T \subseteq Nat
  BY HeightIs
<1>2. PICK n \in T : \A m \in T : n <= m
  BY <1>1, LeastNat
<1>3. PICK b \in Blocks : ~Whole(b) /\ n = Height[b]
  BY <1>2
<1>4. b # Genesis
  BY <1>3, TreeShape
<1>5. /\ Parent[b] \in Blocks /\ Height[b] = Height[Parent[b]] + 1
      /\ Anc[b] = Anc[Parent[b]] \cup {b}
  BY <1>4, TreeTyping, TreeShape DEF NonGenesis
<1>6. Height[Parent[b]] \in Nat /\ Height[b] \in Nat
  BY <1>5, HeightIs
<1>7. Height[Parent[b]] \notin T
  BY <1>2, <1>3, <1>5, <1>6
<1>8. Whole(Parent[b])
  BY <1>5, <1>7
<1>9. Whole(b)
  <2> SUFFICES ASSUME NEW h \in 1..Height[b] PROVE \E c \in Anc[b] : Height[c] = h
    OBVIOUS
  <2>1. CASE h = Height[b]
    BY <1>5, <2>1
  <2>2. CASE h # Height[b]
    <3>1. h \in 1..Height[Parent[b]]
      BY <1>5, <1>6, <2>2
    <3>2. QED  BY <1>5, <1>8, <3>1
  <2>3. QED  BY <2>1, <2>2
<1>10. QED  BY <1>3, <1>9

LEMMA BlockAtIs ==
    ASSUME NEW b \in Blocks, NEW c \in Anc[b] PROVE BlockAt(b, Height[c]) = c
BY TreeClosure DEF BlockAt

LEMMA BlockAtHas ==
    ASSUME NEW b \in Blocks, NEW h \in 1..Height[b]
    PROVE  BlockAt(b, h) \in Anc[b] /\ Height[BlockAt(b, h)] = h
BY ChainHasHeights DEF BlockAt

\* Two chains have a highest common block ...
LEMMA ForkIs ==
    ASSUME NEW a \in Blocks, NEW b \in Blocks
    PROVE  /\ ForkOf(a, b) \in Anc[a] \cap Anc[b]
           /\ \A d \in Anc[a] \cap Anc[b] : Height[d] <= Height[ForkOf(a, b)]
<1> DEFINE T == {Height[a] - Height[d] : d \in Anc[a] \cap Anc[b]}
<1>1. \A d \in Anc[a] \cap Anc[b] : Height[d] \in Nat /\ Height[d] <= Height[a]
  BY HeightIs, TreeClosure
<1>2. Height[a] \in Nat /\ Genesis \in Anc[a] \cap Anc[b]
  BY HeightIs
<1>3. T \subseteq Nat /\ T # {}
  BY <1>1, <1>2
<1>4. PICK n \in T : \A m \in T : n <= m
  BY <1>3, LeastNat
<1>5. PICK c \in Anc[a] \cap Anc[b] : n = Height[a] - Height[c]
  BY <1>4
<1>6. \A d \in Anc[a] \cap Anc[b] : Height[d] <= Height[c]
  <2> SUFFICES ASSUME NEW d \in Anc[a] \cap Anc[b] PROVE Height[d] <= Height[c]
    OBVIOUS
  <2>1. Height[a] - Height[c] <= Height[a] - Height[d]
    BY <1>4, <1>5
  <2>2. QED  BY <1>1, <1>2, <2>1
<1>7. QED  BY <1>6 DEF ForkOf

\* ... and share exactly the heights up to it.
LEMMA SharedHeights ==
    ASSUME NEW a \in Blocks, NEW b \in Blocks, NEW h \in Nat,
           1 <= h, h <= Height[a], h <= Height[b]
    PROVE  BlockAt(a, h) = BlockAt(b, h) <=> h <= Height[ForkOf(a, b)]
<1> DEFINE f == ForkOf(a, b)
<1>1. f \in Anc[a] \cap Anc[b] /\ \A d \in Anc[a] \cap Anc[b] : Height[d] <= Height[f]
  BY ForkIs
<1>2. h \in 1..Height[a] /\ h \in 1..Height[b] /\ f \in Blocks
  BY <1>1, HeightIs
<1> HIDE DEF f
<1>3. ASSUME BlockAt(a, h) = BlockAt(b, h) PROVE h <= Height[f]
  BY <1>1, <1>2, <1>3, BlockAtHas
<1>4. ASSUME h <= Height[f] PROVE BlockAt(a, h) = BlockAt(b, h)
  <2>1. h \in 1..Height[f]
    BY <1>2, <1>4, HeightIs
  <2>2. PICK x \in Anc[f] : Height[x] = h
    BY <1>2, <2>1, ChainHasHeights
  <2>3. x \in Anc[a] /\ x \in Anc[b]
    BY <1>1, <2>2, TreeClosure
  <2>4. QED  BY <2>2, <2>3, BlockAtIs
<1>5. QED  BY <1>3, <1>4 DEF f

----------------------------------------------------------------------------
(* The invariant *)

Stages ==
    {"Choose", "Overlap", "Compare", "ReadHigh", "ReadLow", "ReadMiddle", "AskHigh",
     "AskLow", "AskMiddle", "Recheck", "Start", "Fetch", "Submit"}

Typed ==
    /\ committed \in Blocks /\ tip0 \in Blocks
    /\ peer \in Peers /\ pc \in Stages
    /\ {seen, at, lo, hi} \subseteq Nat

\* The height a steady peer reports is that of its chain.
PeerSeen == pc # "Choose" /\ peer \in Steady => seen = Height[ChainOf[peer]]

\* A tip that has moved has more work than the one it was.
Moved == committed = tip0 \/ Work[committed] > Work[tip0]

Overlapping ==
    /\ pc \in {"Overlap", "Compare"} => at = Highest
    /\ pc = "Compare" => got \in Answers(at)

Closing ==
    /\ pc \in {"ReadHigh", "AskHigh"} => at = Highest /\ Lowest(tip0) <= Highest
    /\ pc \in {"ReadLow", "AskLow"} =>
          at = Lowest(tip0) /\ Lowest(tip0) < Highest /\ Fork(peer) < Highest
    /\ pc \in {"ReadMiddle", "AskMiddle"} =>
          /\ lo < at /\ at < hi /\ hi <= Highest
          /\ 1 <= lo /\ lo <= Fork(peer) /\ Fork(peer) < hi
    /\ pc \in {"AskHigh", "AskLow", "AskMiddle"} => mine = BlockAt(tip0, at)
    /\ pc = "Recheck" => lo = Fork(peer)

SearchInv ==
    /\ Typed /\ PeerSeen /\ Moved /\ Overlapping
    /\ peer \in Steady /\ committed = tip0 => Closing

----------------------------------------------------------------------------
(* The search *)

LEMMA Bounds ==
    ASSUME Typed
    PROVE  /\ Height[tip0] \in Nat \ {0} /\ Lowest(tip0) \in Nat \ {0} /\ MaxForkDepth \in Nat
           /\ Highest \in Nat /\ Highest <= Height[tip0] /\ Highest <= seen
           /\ \A n \in Nat \ {0} :
                 n < Lowest(tip0) => Height[tip0] - n > MaxForkDepth
<1>1. Height[tip0] \in Nat \ {0} /\ MaxForkDepth \in Nat /\ seen \in Nat
  BY HeightIs, SyncAssumption DEF Typed
<1>2. Lowest(tip0) =
         IF Height[tip0] > MaxForkDepth THEN Height[tip0] - MaxForkDepth ELSE 1
  BY DEF Lowest
<1>3. Highest = IF Height[tip0] < seen THEN Height[tip0] ELSE seen
  BY DEF Highest, Lesser
<1> DEFINE low == Lowest(tip0)
<1>4. low \in Nat \ {0} /\ \A n \in Nat \ {0} : n < low => Height[tip0] - n > MaxForkDepth
  BY <1>1, <1>2
<1>5. QED  BY <1>1, <1>3, <1>4

\* The height of the last common block, and what a comparison of a height says of it.
LEMMA ForkBounds ==
    ASSUME Typed, PeerSeen, pc # "Choose", peer \in Steady
    PROVE  /\ ChainOf[peer] \in Blocks /\ seen = Height[ChainOf[peer]]
           /\ Fork(peer) \in Nat \ {0} /\ Fork(peer) <= Highest
           /\ \A h \in Nat : 1 <= h /\ h <= Highest =>
                 (BlockAt(ChainOf[peer], h) = BlockAt(tip0, h) <=> h <= Fork(peer))
<1> DEFINE c == ChainOf[peer]
<1>1. c \in Blocks /\ seen = Height[c] /\ tip0 \in Blocks
  BY SyncAssumption DEF Typed, PeerSeen
<1> HIDE DEF c
<1> DEFINE f == ForkOf(tip0, c)
<1>2. f \in Anc[tip0] \cap Anc[c]
  BY <1>1, ForkIs
<1>3. Height[f] \in Nat \ {0} /\ Height[f] <= Height[tip0] /\ Height[f] <= Height[c]
  BY <1>1, <1>2, HeightIs, TreeClosure
<1>4. Highest \in Nat /\ (Highest = Height[tip0] \/ Highest = seen)
      /\ Highest <= Height[tip0] /\ Highest <= seen
  BY <1>1, Bounds DEF Highest, Lesser
<1>5. Fork(peer) = Height[f]
  BY DEF Fork, c
<1>6. ASSUME NEW h \in Nat, 1 <= h, h <= Highest
      PROVE  BlockAt(c, h) = BlockAt(tip0, h) <=> h <= Height[f]
  <2>1. h <= Height[tip0] /\ h <= Height[c]
    BY <1>1, <1>4, <1>6, HeightIs
  <2>2. QED  BY <1>1, <1>6, <2>1, SharedHeights
<1>7. QED  BY <1>1, <1>3, <1>4, <1>5, <1>6 DEF c

\* What a steady peer answers, compared with the local block of the height.
LEMMA ProbeSays ==
    ASSUME Typed, PeerSeen, pc # "Choose", peer \in Steady, NEW b \in Answers(at),
           1 <= at, at <= Highest, mine = BlockAt(tip0, at)
    PROVE  b = mine <=> at <= Fork(peer)
<1>1. b = BlockAt(ChainOf[peer], at)
  BY DEF Answers
<1>2. at \in Nat
  BY DEF Typed
<1>3. QED  BY <1>1, <1>2, ForkBounds

\* A closed bracket, or one that is looked into.
LEMMA NarrowKeeps ==
    ASSUME Typed, PeerSeen, pc # "Choose", NEW l \in Nat, NEW h \in Nat,
           Narrow(l, h), UNCHANGED <<node, peer, seen, tip0>>,
           peer \in Steady /\ committed = tip0 =>
               /\ 1 <= l /\ l <= Fork(peer) /\ h <= Highest
               /\ Fork(peer) < h \/ l = Fork(peer)
    PROVE  /\ Typed' /\ pc' \in {"ReadMiddle", "Recheck"}
           /\ peer \in Steady /\ committed = tip0 => Closing'
<1>1. UNCHANGED committed
  BY DEF node
<1>2. lo' = l /\ hi' = h
  BY DEF Narrow
<1>3. CASE h - l > 1
  <2>1. pc' = "ReadMiddle" /\ at' = l + ((h - l) \div 2)
    BY <1>3 DEF Narrow, Middle
  <2>2. at' \in Nat /\ l < at' /\ at' < h
    BY <1>3, <2>1
  <2>3. Typed'
    BY <1>1, <1>2, <2>1, <2>2 DEF Typed, Stages
  <2>4. ASSUME peer \in Steady, committed = tip0 PROVE Closing'
    <3>1. Fork(peer)' = Fork(peer) /\ Highest' = Highest
      BY DEF Fork, Highest
    <3>2. 1 <= l /\ l <= Fork(peer) /\ h <= Highest /\ Fork(peer) < h
      <4>1. Fork(peer) \in Nat
        BY <2>4, ForkBounds
      <4>2. Fork(peer) < h \/ l = Fork(peer)
        BY <2>4
      <4>3. Fork(peer) < h
        BY <1>3, <4>1, <4>2
      <4>4. QED  BY <2>4, <4>3
    <3>3. QED  BY <1>2, <2>1, <2>2, <3>1, <3>2 DEF Closing
  <2>5. QED  BY <2>1, <2>3, <2>4
<1>4. CASE ~(h - l > 1)
  <2>1. pc' = "Recheck" /\ at' = at
    BY <1>4 DEF Narrow
  <2>2. Typed'
    BY <1>1, <1>2, <2>1 DEF Typed, Stages
  <2>3. ASSUME peer \in Steady, committed = tip0 PROVE Closing'
    <3>1. Fork(peer)' = Fork(peer)
      BY DEF Fork
    <3>2. Fork(peer) \in Nat
      BY <2>3, ForkBounds
    <3>3. l <= Fork(peer) /\ (Fork(peer) < h \/ l = Fork(peer))
      BY <2>3
    <3>4. l = Fork(peer)
      BY <1>4, <3>2, <3>3
    <3>5. QED  BY <1>2, <2>1, <3>1, <3>4 DEF Closing
  <2>4. QED  BY <2>1, <2>2, <2>3
<1>5. QED  BY <1>3, <1>4

----------------------------------------------------------------------------
(* Every step *)

NodeMoves ==
    \/ UNCHANGED committed
    \/ committed' \in Blocks /\ Work[committed'] > Work[committed]

LEMMA ExtendMoves ==
    ASSUME Typed, NEW b, Extend(b) \/ Switch(b) \/ UNCHANGED committed PROVE NodeMoves
<1>1. CASE Extend(b)
  <2>1. b \in NonGenesis /\ Parent[b] = committed /\ committed' = b
    BY <1>1 DEF Extend
  <2>2. QED  BY <2>1, TreeShape DEF NodeMoves, NonGenesis
<1>2. CASE Switch(b)
  BY <1>2 DEF Switch, Outweighs, NodeMoves
<1>3. QED  BY <1>1, <1>2 DEF NodeMoves

\* A tip that has moved does not come back.
LEMMA MovedStays ==
    ASSUME Typed, Moved, NodeMoves, UNCHANGED tip0
    PROVE  Moved' /\ committed' \in Blocks /\ (committed' = tip0 => committed' = committed)
<1>1. /\ Work[tip0] \in Nat /\ Work[committed] \in Nat
      /\ committed' \in Blocks => Work[committed'] \in Nat
  BY TreeTyping DEF Typed
<1>2. CASE UNCHANGED committed
  BY <1>2 DEF Moved, Typed
<1>3. CASE committed' \in Blocks /\ Work[committed'] > Work[committed]
  <2>1. Work[committed'] > Work[tip0]
    BY <1>1, <1>3 DEF Moved
  <2>2. QED  BY <1>1, <1>3, <2>1 DEF Moved
<1>4. QED  BY <1>2, <1>3 DEF NodeMoves

\* The thread is done with the search, or not in it.
LEMMA Outside ==
    ASSUME SearchInv, Typed', NodeMoves, UNCHANGED <<peer, seen, tip0>>, pc # "Choose",
           pc' \in {"Choose", "Start", "Fetch", "Submit"}
    PROVE  SearchInv'
<1>1. Moved'
  BY MovedStays DEF SearchInv
<1>2. PeerSeen'
  BY DEF SearchInv, PeerSeen
<1>3. Overlapping' /\ Closing'
  BY DEF Overlapping, Closing
<1>4. QED  BY <1>1, <1>2, <1>3 DEF SearchInv

LEMMA ChooseStep ==
    ASSUME SearchInv, Choose PROVE SearchInv'
<1>0. PICK h \in Surveys : \E p \in DOMAIN h : peer' = p /\ seen' = h[p]
  BY DEF Choose
<1>1. PICK p \in DOMAIN h : peer' = p /\ seen' = h[p]
  BY <1>0
<1>2. /\ tip0' = committed /\ UNCHANGED committed /\ lo' = 1 /\ hi' = 1
      /\ at' = Lesser(Height[committed], seen') /\ pc' = "Overlap"
  BY DEF Choose, node
<1>3. p \in Peers /\ (p \in Steady => h[p] = Height[ChainOf[p]]) /\ h[p] \in Nat
  <2>1. PICK some \in SUBSET Peers, said \in [Peers \ Steady -> Claims] :
           h = [x \in some |-> IF x \in Steady THEN Height[ChainOf[x]] ELSE said[x]]
    BY DEF Surveys
  <2>2. p \in some
    BY <2>1
  <2>3. CASE p \in Steady
    BY <2>1, <2>2, <2>3, HeightIs, SyncAssumption
  <2>4. CASE p \notin Steady
    BY <2>1, <2>2, <2>4, SyncAssumption
  <2>5. QED  BY <2>2, <2>3, <2>4
<1>4. at' \in Nat /\ at' = Highest'
  <2>1. Height[committed] \in Nat
    BY HeightIs DEF SearchInv, Typed
  <2>2. QED  BY <1>1, <1>2, <1>3, <2>1 DEF Lesser, Highest
<1>5. Typed'
  BY <1>1, <1>2, <1>3, <1>4 DEF SearchInv, Typed, Stages
<1>6. PeerSeen' /\ Moved' /\ Overlapping' /\ Closing'
  BY <1>1, <1>2, <1>3, <1>4 DEF PeerSeen, Moved, Overlapping, Closing
<1>7. QED  BY <1>5, <1>6 DEF SearchInv

\* Waiting changes nothing the search reads.
LEMMA WaitStep ==
    ASSUME SearchInv, NobodyUsable PROVE SearchInv'
<1>1. pc = "Choose" /\ UNCHANGED <<committed, pc, peer, seen, tip0, lo, hi, at>>
  BY DEF NobodyUsable, node, cycle
<1>2. Typed' /\ PeerSeen' /\ Moved' /\ Overlapping' /\ Closing'
  BY <1>1 DEF SearchInv, Typed, PeerSeen, Moved, Overlapping, Closing
<1>3. QED  BY <1>2 DEF SearchInv

LEMMA OverlapStep ==
    ASSUME SearchInv, Overlap PROVE SearchInv'
<1>1. /\ pc = "Overlap" /\ pc' = "Compare" /\ got' \in Answers(at)
      /\ UNCHANGED <<committed, peer, seen, tip0, lo, hi, at>>
  BY DEF Overlap, node, cycle
<1>2. Typed' /\ PeerSeen' /\ Moved' /\ Closing'
  BY <1>1 DEF SearchInv, Typed, Stages, PeerSeen, Moved, Closing
<1>3. Overlapping'
  BY <1>1 DEF SearchInv, Overlapping, Highest, Answers
<1>4. QED  BY <1>2, <1>3 DEF SearchInv

LEMMA CompareStep ==
    ASSUME SearchInv, Compare PROVE SearchInv'
<1>1. /\ pc = "Compare" /\ UNCHANGED <<committed, peer, seen, tip0, hi>>
      /\ \/ pc' = "Choose" /\ UNCHANGED <<at, lo>>
         \/ pc' = "Start" /\ lo' = Height[tip0] /\ UNCHANGED at
         \/ pc' = "ReadHigh" /\ at' = Highest /\ UNCHANGED lo /\ ~(Lowest(tip0) > Highest)
  BY DEF Compare, node, EndWith, FailWith
<1>2. /\ Height[tip0] \in Nat /\ Highest \in Nat /\ Lowest(tip0) \in Nat
  BY Bounds DEF SearchInv
<1>3. Typed'
  BY <1>1, <1>2 DEF SearchInv, Typed, Stages
<1>4. CASE pc' = "ReadHigh"
  <2>1. at' = Highest /\ Lowest(tip0) <= Highest
    BY <1>1, <1>2, <1>4
  <2>2. Highest' = Highest /\ Lowest(tip0)' = Lowest(tip0)
    BY <1>1 DEF Highest, Lowest
  <2>3. Closing'
    BY <1>4, <2>1, <2>2 DEF Closing
  <2>4. PeerSeen' /\ Moved' /\ Overlapping'
    BY <1>1, <1>4 DEF SearchInv, PeerSeen, Moved, Overlapping
  <2>5. QED  BY <1>3, <2>3, <2>4 DEF SearchInv
<1>5. CASE pc' # "ReadHigh"
  BY <1>1, <1>3, <1>5, Outside DEF NodeMoves
<1>6. QED  BY <1>4, <1>5

LEMMA ReadStep ==
    ASSUME SearchInv, ReadLocal PROVE SearchInv'
<1>1. /\ pc \in Reads /\ UNCHANGED <<committed, peer, seen, tip0, lo, hi, at>>
      /\ \/ pc' = "Choose"
         \/ /\ mine' = BlockAt(committed, at)
            /\ \/ pc = "ReadHigh" /\ pc' = "AskHigh"
               \/ pc = "ReadLow" /\ pc' = "AskLow"
               \/ pc = "ReadMiddle" /\ pc' = "AskMiddle"
  BY DEF ReadLocal, node, cycle, EndWith, FailWith, AskAfter, Reads
<1>2. Typed'
  BY <1>1 DEF SearchInv, Typed, Stages
<1>3. CASE pc' = "Choose"
  BY <1>1, <1>2, <1>3, Outside DEF NodeMoves, Reads
<1>4. CASE pc' # "Choose"
  <2>1. PeerSeen' /\ Moved' /\ Overlapping'
    BY <1>1 DEF SearchInv, PeerSeen, Moved, Overlapping, Reads
  <2>2. Highest' = Highest /\ Lowest(tip0)' = Lowest(tip0) /\ Fork(peer)' = Fork(peer)
    BY <1>1 DEF Highest, Lowest, Fork
  <2>3. ASSUME peer \in Steady, committed = tip0 PROVE Closing'
    <3>1. Closing
      BY <2>3 DEF SearchInv
    <3>2. mine' = BlockAt(tip0, at)
      BY <1>1, <1>4, <2>3
    <3>3. QED  BY <1>1, <1>4, <2>2, <3>1, <3>2 DEF Closing
  <2>4. QED  BY <1>1, <1>2, <2>1, <2>3 DEF SearchInv
<1>5. QED  BY <1>3, <1>4

\* The bracket after a probe.
LEMMA NarrowStep ==
    ASSUME SearchInv, pc \in {"AskHigh", "AskLow", "AskMiddle"}, Ask,
           NEW l \in Nat, NEW h \in Nat, Narrow(l, h),
           peer \in Steady /\ committed = tip0 =>
               /\ 1 <= l /\ l <= Fork(peer) /\ h <= Highest
               /\ Fork(peer) < h \/ l = Fork(peer)
    PROVE  SearchInv'
<1>1. UNCHANGED <<node, peer, seen, tip0, committed>>
  BY DEF Ask, node
<1>2. Typed' /\ pc' \in {"ReadMiddle", "Recheck"} /\ (peer \in Steady /\ committed = tip0 => Closing')
  BY <1>1, NarrowKeeps DEF SearchInv
<1>3. PeerSeen' /\ Moved' /\ Overlapping'
  BY <1>1, <1>2 DEF SearchInv, PeerSeen, Moved, Overlapping
<1>4. QED  BY <1>1, <1>2, <1>3 DEF SearchInv

LEMMA AskHighStep ==
    ASSUME SearchInv, AskHigh PROVE SearchInv'
<1>1. /\ pc = "AskHigh" /\ Ask /\ got' \in Answers(at)
      /\ UNCHANGED <<committed, peer, seen, tip0>>
  BY DEF AskHigh, Ask, node
<1>2. /\ at \in Nat /\ Highest \in Nat /\ Lowest(tip0) \in Nat \ {0}
  BY Bounds DEF SearchInv, Typed
<1>3. ASSUME peer \in Steady, committed = tip0
      PROVE  /\ at = Highest /\ Lowest(tip0) <= Highest /\ (got' = mine <=> at <= Fork(peer))
             /\ Fork(peer) \in Nat /\ Fork(peer) <= Highest
  <2>1. at = Highest /\ Lowest(tip0) <= Highest /\ mine = BlockAt(tip0, at)
    BY <1>1, <1>3 DEF SearchInv, Closing
  <2>2. 1 <= at /\ at <= Highest
    BY <1>2, <2>1
  <2>3. QED  BY <1>1, <1>3, <2>1, <2>2, ProbeSays, ForkBounds DEF SearchInv
<1>4. CASE got' = mine /\ Narrow(at, at)
  <2>1. peer \in Steady /\ committed = tip0 =>
           /\ 1 <= at /\ at <= Fork(peer) /\ at <= Highest
           /\ Fork(peer) < at \/ at = Fork(peer)
    BY <1>2, <1>3, <1>4
  <2>2. QED  BY <1>1, <1>2, <1>4, <2>1, NarrowStep
<1>5. CASE pc' = "Choose" /\ UNCHANGED <<lo, hi, at>>
  <2>1. Typed'
    BY <1>1, <1>5 DEF SearchInv, Typed, Stages
  <2>2. QED  BY <1>1, <1>5, <2>1, Outside DEF NodeMoves
<1>6. CASE /\ got' # mine /\ pc' = "ReadLow" /\ at' = Lowest(tip0) /\ UNCHANGED <<lo, hi>>
           /\ Lowest(tip0) # Highest
  <2>1. Typed'
    BY <1>1, <1>2, <1>6 DEF SearchInv, Typed, Stages
  <2>2. PeerSeen' /\ Moved' /\ Overlapping'
    BY <1>1, <1>6 DEF SearchInv, PeerSeen, Moved, Overlapping
  <2>3. Highest' = Highest /\ Lowest(tip0)' = Lowest(tip0) /\ Fork(peer)' = Fork(peer)
    BY <1>1 DEF Highest, Lowest, Fork
  <2>4. ASSUME peer \in Steady, committed = tip0 PROVE Closing'
    <3>1. Lowest(tip0) < Highest /\ Fork(peer) < Highest
      BY <1>2, <1>3, <1>6, <2>4
    <3>2. QED  BY <1>6, <2>3, <3>1 DEF Closing
  <2>5. QED  BY <1>1, <2>1, <2>2, <2>4 DEF SearchInv
<1>7. QED  BY <1>4, <1>5, <1>6 DEF AskHigh, EndWith, FailWith

LEMMA AskLowStep ==
    ASSUME SearchInv, AskLow PROVE SearchInv'
<1>1. /\ pc = "AskLow" /\ Ask /\ got' \in Answers(at)
      /\ UNCHANGED <<committed, peer, seen, tip0>>
  BY DEF AskLow, Ask, node
<1>2. /\ at \in Nat /\ Highest \in Nat /\ Lowest(tip0) \in Nat \ {0}
  BY Bounds DEF SearchInv, Typed
<1>3. CASE got' = mine /\ Narrow(at, Highest)
  <2>1. ASSUME peer \in Steady, committed = tip0
        PROVE  /\ 1 <= at /\ at <= Fork(peer) /\ Fork(peer) < Highest
    <3>1. /\ at = Lowest(tip0) /\ Lowest(tip0) < Highest /\ mine = BlockAt(tip0, at)
          /\ Fork(peer) < Highest
      BY <1>1, <2>1 DEF SearchInv, Closing
    <3>2. 1 <= at /\ at <= Highest
      BY <1>2, <3>1
    <3>3. QED  BY <1>1, <1>3, <2>1, <3>1, <3>2, ProbeSays DEF SearchInv
  <2>2. QED  BY <1>1, <1>2, <1>3, <2>1, NarrowStep
<1>4. CASE pc' = "Choose" /\ UNCHANGED <<lo, hi, at>>
  <2>1. Typed'
    BY <1>1, <1>4 DEF SearchInv, Typed, Stages
  <2>2. QED  BY <1>1, <1>4, <2>1, Outside DEF NodeMoves
<1>5. QED  BY <1>3, <1>4 DEF AskLow, EndWith, FailWith

LEMMA AskMiddleStep ==
    ASSUME SearchInv, AskMiddle PROVE SearchInv'
<1>1. /\ pc = "AskMiddle" /\ Ask /\ got' \in Answers(at)
  BY DEF AskMiddle, Ask
<1>2. at \in Nat /\ lo \in Nat /\ hi \in Nat /\ Highest \in Nat
  BY Bounds DEF SearchInv, Typed
<1>3. ASSUME peer \in Steady, committed = tip0
      PROVE  /\ 1 <= lo /\ lo < at /\ at < hi /\ hi <= Highest
             /\ lo <= Fork(peer) /\ Fork(peer) < hi
             /\ (got' = mine <=> at <= Fork(peer)) /\ Fork(peer) \in Nat
  <2>1. /\ 1 <= lo /\ lo < at /\ at < hi /\ hi <= Highest
        /\ lo <= Fork(peer) /\ Fork(peer) < hi /\ mine = BlockAt(tip0, at)
    BY <1>1, <1>3 DEF SearchInv, Closing
  <2>2. 1 <= at /\ at <= Highest
    BY <1>2, <2>1
  <2>3. QED  BY <1>1, <1>3, <2>1, <2>2, ProbeSays, ForkBounds DEF SearchInv
<1>4. CASE got' = mine /\ Narrow(at, hi)
  <2>1. peer \in Steady /\ committed = tip0 =>
           /\ 1 <= at /\ at <= Fork(peer) /\ hi <= Highest
           /\ Fork(peer) < hi \/ at = Fork(peer)
    BY <1>2, <1>3, <1>4
  <2>2. QED  BY <1>1, <1>2, <1>4, <2>1, NarrowStep
<1>5. CASE got' # mine /\ Narrow(lo, at)
  <2>1. peer \in Steady /\ committed = tip0 =>
           /\ 1 <= lo /\ lo <= Fork(peer) /\ at <= Highest
           /\ Fork(peer) < at \/ lo = Fork(peer)
    BY <1>2, <1>3, <1>5
  <2>2. QED  BY <1>1, <1>2, <1>5, <2>1, NarrowStep
<1>6. QED  BY <1>4, <1>5 DEF AskMiddle

\* Everything after the search.
LEMMA LaterSteps ==
    ASSUME SearchInv, Recheck \/ Start \/ Fetch \/ Submit \/ SubmitRejected \/ RequestFails
    PROVE  SearchInv'
<1>1. /\ UNCHANGED <<peer, seen, tip0, lo, hi>> /\ pc # "Choose"
      /\ pc' \in {"Choose", "Start", "Fetch", "Submit"}
  BY DEF Recheck, Start, Fetch, Submit, SubmitRejected, RequestFails, EndWith, FailWith, cycle
<1>2. /\ at \in Nat /\ lo \in Nat
      /\ UNCHANGED at \/ at' = lo + 1 \/ at' = at + 1
  BY DEF SearchInv, Typed, Recheck, Start, Fetch, Submit, SubmitRejected, RequestFails, cycle
<1>3. NodeMoves
  <2>1. CASE Submit
    BY <2>1, ExtendMoves DEF Submit, Accept, node, SearchInv
  <2>2. CASE Recheck \/ Start \/ Fetch \/ SubmitRejected \/ RequestFails
    BY <2>2 DEF Recheck, Start, Fetch, SubmitRejected, RequestFails, node, NodeMoves
  <2>3. QED  BY <2>1, <2>2
<1>4. committed' \in Blocks
  BY <1>1, <1>3, MovedStays DEF SearchInv
<1>5. at' \in Nat
  BY <1>2
<1>6. Typed'
  BY <1>1, <1>4, <1>5 DEF SearchInv, Typed, Stages
<1>7. QED  BY <1>1, <1>3, <1>6, Outside

LEMMA ArriveStep ==
    ASSUME SearchInv, NEW b \in Blocks, Arrive(b) PROVE SearchInv'
<1>1. UNCHANGED <<pc, peer, seen, tip0, lo, hi, at, mine, got>>
  BY DEF Arrive, cycle
<1>2. NodeMoves
  BY ExtendMoves DEF Arrive, SearchInv
<1>3. Moved' /\ committed' \in Blocks /\ (committed' = tip0 => committed' = committed)
  BY <1>1, <1>2, MovedStays DEF SearchInv
<1>4. Typed' /\ PeerSeen'
  BY <1>1, <1>3 DEF SearchInv, Typed, PeerSeen
<1>5. Overlapping'
  BY <1>1 DEF SearchInv, Overlapping, Highest, Answers
<1>6. Closing => Closing'
  BY <1>1 DEF Closing, Highest, Lowest, Fork
<1>7. QED  BY <1>1, <1>3, <1>4, <1>5, <1>6 DEF SearchInv

LEMMA InitSearch == Init => SearchInv
<1> SUFFICES ASSUME Init PROVE SearchInv
  OBVIOUS
<1>1. /\ committed = Genesis /\ tip0 = Genesis /\ peer \in Peers
      /\ pc = "Choose" /\ seen = 1 /\ at = 1 /\ lo = 1 /\ hi = 1
  BY DEF Init, LedgerInit
<1>2. Typed
  BY <1>1, TreeTyping DEF Typed, Stages
<1>3. PeerSeen /\ Moved /\ Overlapping /\ Closing
  BY <1>1 DEF PeerSeen, Moved, Overlapping, Closing
<1>4. QED  BY <1>2, <1>3 DEF SearchInv

LEMMA SearchKept == SearchInv /\ [Next]_vars => SearchInv'
<1> SUFFICES ASSUME SearchInv, [Next]_vars PROVE SearchInv'
  OBVIOUS
<1>1. CASE Thread
  BY <1>1, ChooseStep, WaitStep, OverlapStep, CompareStep, ReadStep, AskHighStep, AskLowStep,
     AskMiddleStep, LaterSteps DEF Thread
<1>2. CASE RequestFails
  BY <1>2, LaterSteps
<1>3. CASE \E b \in Blocks : Arrive(b)
  BY <1>3, ArriveStep
<1>4. CASE UNCHANGED vars
  <2>1. UNCHANGED <<committed, pc, peer, seen, tip0, lo, hi, at, mine, got>>
    BY <1>4 DEF vars, node, cycle
  <2>2. Typed' /\ PeerSeen' /\ Moved'
    BY <2>1 DEF SearchInv, Typed, PeerSeen, Moved
  <2>3. Overlapping'
    BY <2>1 DEF SearchInv, Overlapping, Highest, Answers
  <2>4. Closing => Closing'
    BY <2>1 DEF Closing, Highest, Lowest, Fork
  <2>5. QED  BY <2>1, <2>2, <2>3, <2>4 DEF SearchInv
<1>5. QED  BY <1>1, <1>2, <1>3, <1>4 DEF Next

LEMMA AlwaysSearch == Spec => []SearchInv
BY InitSearch, SearchKept, PTL DEF Spec

----------------------------------------------------------------------------

\* The search against a peer that keeps its chain ends at the last common block, unless the
\* tip moved, for every tree and every window (findAncestor).
THEOREM SearchFindsFork == Spec => []FoundIsHighest
<1>1. SearchInv => FoundIsHighest
  BY DEF SearchInv, Closing, FoundIsHighest
<1>2. QED  BY <1>1, AlwaysSearch, PTL

\* "Recovery required" is only said of a chain that forks deeper than a reorg can go
\* (findAncestor, MAX_SIDE_FORK_DEPTH).
THEOREM BeyondIsTrue == Spec => BeyondIsBeyond
<1> DEFINE Said == status # "beyond" /\ status' = "beyond" /\ peer \in Steady /\ committed = tip0
                     => Height[tip0] - Fork(peer) > MaxForkDepth
<1>1. ASSUME SearchInv, [Next]_vars PROVE [Said]_vars
  <2> SUFFICES ASSUME Next, status # "beyond", status' = "beyond", peer \in Steady,
                      committed = tip0
               PROVE  Height[tip0] - Fork(peer) > MaxForkDepth
    BY <1>1
  <2>1. /\ Lowest(tip0) \in Nat \ {0} /\ Highest \in Nat
        /\ \A n \in Nat \ {0} : n < Lowest(tip0) => Height[tip0] - n > MaxForkDepth
    BY <1>1, Bounds DEF SearchInv
  <2>2. ASSUME pc # "Choose" PROVE Fork(peer) \in Nat \ {0} /\ Fork(peer) <= Highest
    BY <1>1, <2>2, ForkBounds DEF SearchInv
  <2>3. CASE Compare
    <3>1. pc # "Choose" /\ Lowest(tip0) > Highest
      BY <2>3 DEF Compare, EndWith, FailWith
    <3>2. QED  BY <2>1, <2>2, <3>1
  <2>4. CASE AskHigh
    <3>1. pc = "AskHigh" /\ got' \in Answers(at) /\ got' # mine /\ Lowest(tip0) = Highest
      BY <2>4 DEF AskHigh, Ask, EndWith, FailWith
    <3>2. at = Highest /\ mine = BlockAt(tip0, at)
      BY <1>1, <3>1 DEF SearchInv, Closing
    <3>3. ~(at <= Fork(peer))
      BY <1>1, <2>1, <3>1, <3>2, ProbeSays DEF SearchInv
    <3>4. QED  BY <2>1, <2>2, <3>1, <3>2, <3>3
  <2>5. CASE AskLow
    <3>1. pc = "AskLow" /\ got' \in Answers(at) /\ got' # mine
      BY <2>5 DEF AskLow, Ask, EndWith, FailWith
    <3>2. at = Lowest(tip0) /\ Lowest(tip0) < Highest /\ mine = BlockAt(tip0, at)
      BY <1>1, <3>1 DEF SearchInv, Closing
    <3>3. ~(at <= Fork(peer))
      BY <1>1, <2>1, <3>1, <3>2, ProbeSays DEF SearchInv
    <3>4. QED  BY <2>1, <2>2, <3>1, <3>2, <3>3
  <2>6. ~(\/ Choose \/ NobodyUsable
          \/ Overlap \/ ReadLocal \/ AskMiddle \/ Recheck \/ Start \/ Fetch \/ Submit
          \/ SubmitRejected \/ RequestFails \/ \E b \in Blocks : Arrive(b))
    BY DEF Choose, NobodyUsable, Overlap, ReadLocal, AskMiddle, Recheck, Start, Fetch, Submit,
           SubmitRejected, RequestFails, Arrive, EndWith, FailWith
  <2>7. QED  BY <2>3, <2>4, <2>5, <2>6 DEF Next, Thread
<1>2. QED  BY <1>1, AlwaysSearch, PTL DEF Spec, BeyondIsBeyond

\* "Synchronized" is only said when the peer's whole chain is the node's own
\* (syncWithPeers compares identities, never heights alone).
THEOREM SyncedIsTrue == Spec => SyncedIsPrefix
<1> DEFINE Said == status # "synced" /\ status' = "synced" /\ peer \in Steady
                     => ChainOf[peer] \in Anc[committed]
<1>1. ASSUME SearchInv, [Next]_vars PROVE [Said]_vars
  <2> SUFFICES ASSUME Next, status # "synced", status' = "synced", peer \in Steady
               PROVE  ChainOf[peer] \in Anc[committed]
    BY <1>1
  <2>1. Compare
    BY DEF Next, Thread, Choose, NobodyUsable, Overlap, ReadLocal, AskHigh, AskLow, AskMiddle,
           Recheck, Start, Fetch, Submit, SubmitRejected, RequestFails, Arrive, EndWith, FailWith
  <2>2. /\ pc = "Compare" /\ at <= Height[committed] /\ SameBlock(at, got)
        /\ seen <= Height[tip0]
    BY <2>1 DEF Compare, EndWith, FailWith
  <2>3. /\ seen = Height[ChainOf[peer]] /\ at = Highest /\ got \in Answers(at)
        /\ ChainOf[peer] \in Blocks /\ committed \in Blocks /\ tip0 \in Blocks
    BY <1>1, <2>2, SyncAssumption DEF SearchInv, PeerSeen, Overlapping, Typed
  <2>4. at = Height[ChainOf[peer]]
    BY <2>2, <2>3, HeightIs DEF Highest, Lesser
  <2>5. got = ChainOf[peer]
    <3>1. BlockAt(ChainOf[peer], at) = ChainOf[peer]
      BY <2>3, <2>4, HeightIs, BlockAtIs
    <3>2. QED  BY <2>3, <3>1 DEF Answers
  <2>6. at \in 1..Height[committed]
    BY <2>2, <2>3, <2>4, HeightIs
  <2>7. QED  BY <2>2, <2>3, <2>5, <2>6, BlockAtHas DEF SameBlock
<1>2. QED  BY <1>1, AlwaysSearch, PTL DEF Spec, SyncedIsPrefix

----------------------------------------------------------------------------
(* The number of probes *)

\* The definition of ^ (Naturals) for the base 2, which the provers do not expand.
PowersOfTwo == 2 ^ 0 = 1 /\ \A n \in Nat : 2 ^ n \in Nat /\ 2 ^ (n + 1) = 2 * 2 ^ n

\* The bracket l..h after p probes: its inner heights, doubled by every probe
\* of a middle height, stay within the window.
Halved(l, h, p) ==
    /\ l \in Nat /\ h \in Nat /\ p \in Nat /\ 2 <= p /\ h - l > 1
    /\ 2 ^ (p - 2) * (h - l - 1) < MaxForkDepth

Probing ==
    /\ probes \in Nat
    /\ pc \in {"ReadHigh", "AskHigh"} =>
          probes = 0 /\ at = Highest /\ Lowest(tip0) <= Highest
    /\ pc \in {"ReadLow", "AskLow"} =>
          probes = 1 /\ at = Lowest(tip0) /\ Lowest(tip0) < Highest
    /\ pc \in {"ReadMiddle", "AskMiddle"} => Halved(lo, hi, probes) /\ at = Middle(lo, hi)
    /\ pc \in {"Overlap", "Compare"} => probes = 0

ProbeInv == Probing /\ SearchIsLogarithmic

\* Half a bracket has at most half its inner heights.
LEMMA HalfBracket ==
    ASSUME NEW l \in Nat, NEW h \in Nat, h - l > 1
    PROVE  LET m == Middle(l, h)
           IN  /\ m \in Nat /\ l < m /\ m < h
               /\ 2 * (h - m - 1) <= h - l - 1 /\ 2 * (m - l - 1) <= h - l - 1
BY DEF Middle

LEMMA Times ==
    ASSUME NEW a \in Nat, NEW x \in Nat, NEW y \in Nat, x <= y
    PROVE  a * x \in Nat /\ a * y \in Nat /\ a * x <= a * y
OBVIOUS

\* A probe of the middle height of a bracket.
LEMMA Halves ==
    ASSUME PowersOfTwo, MaxForkDepth \in Nat, NEW l \in Nat, NEW h \in Nat, NEW p \in Nat,
           Halved(l, h, p), NEW d \in Nat, 2 * d <= h - l - 1
    PROVE  2 ^ (p - 1) * d < MaxForkDepth /\ 2 ^ (p - 2) < MaxForkDepth
<1> DEFINE w == h - l - 1
<1>1. w \in Nat /\ 1 <= w /\ 2 <= p
  BY DEF Halved
<1>2. 2 ^ (p - 2) * w < MaxForkDepth
  BY DEF Halved
<1> HIDE DEF w
<1>3. PICK n \in Nat : n = p - 2 /\ n + 1 = p - 1
  BY <1>1
<1>4. 2 ^ n \in Nat /\ 2 ^ (n + 1) = 2 * 2 ^ n
  BY DEF PowersOfTwo
<1>5. PICK a \in Nat : 2 ^ (p - 2) = a /\ 2 ^ (p - 1) = 2 * a
  BY <1>3, <1>4
<1>6. 2 * d \in Nat /\ 2 * d <= w
  BY DEF w
<1>7. a * (2 * d) \in Nat /\ a * (2 * d) <= a * w
  BY <1>1, <1>6, Times
<1>8. a * 1 <= a * w
  BY <1>1, Times
<1>9. (2 * a) * d = a * (2 * d) /\ a * 1 = a /\ a * w \in Nat
  BY <1>1
<1> QED
  BY <1>2, <1>5, <1>7, <1>8, <1>9

\* The window of the search.
LEMMA Window ==
    ASSUME Typed, Lowest(tip0) < Highest
    PROVE  Highest - Lowest(tip0) \in Nat /\ Highest - Lowest(tip0) <= MaxForkDepth
<1>1. /\ Height[tip0] \in Nat \ {0} /\ MaxForkDepth \in Nat
      /\ Highest \in Nat /\ Highest <= Height[tip0] /\ Lowest(tip0) \in Nat \ {0}
  BY Bounds
<1>2. Lowest(tip0) =
         IF Height[tip0] > MaxForkDepth THEN Height[tip0] - MaxForkDepth ELSE 1
  BY DEF Lowest
<1> QED
  BY <1>1, <1>2

\* A step of the thread that asks nothing.
LEMMA Unasked ==
    ASSUME ProbeInv, UNCHANGED probes,
           pc' \notin {"Overlap", "Compare", "ReadHigh", "AskHigh", "ReadLow", "AskLow",
                       "ReadMiddle", "AskMiddle"}
    PROVE  ProbeInv'
BY DEF ProbeInv, Probing, SearchIsLogarithmic

\* A probe of a middle height leaves a bracket that is halved or closed.
LEMMA MiddleProbe ==
    ASSUME PowersOfTwo, Typed, ProbeInv, pc = "AskMiddle", probes' = probes + 1,
           Narrow(at, hi) \/ Narrow(lo, at)
    PROVE  ProbeInv'
<1>1. /\ probes \in Nat /\ Halved(lo, hi, probes) /\ at = Middle(lo, hi)
      /\ lo \in Nat /\ hi \in Nat /\ hi - lo > 1 /\ 2 <= probes /\ MaxForkDepth \in Nat
  BY SyncAssumption DEF ProbeInv, Probing, Halved
<1>2. /\ at \in Nat /\ lo < at /\ at < hi
      /\ 2 * (hi - at - 1) <= hi - lo - 1 /\ 2 * (at - lo - 1) <= hi - lo - 1
  BY <1>1, HalfBracket
<1>3. PICK l \in Nat, h \in Nat :
         Narrow(l, h) /\ h - l - 1 \in Nat /\ 2 * (h - l - 1) <= hi - lo - 1
  BY <1>1, <1>2
<1>4. /\ 2 ^ (probes - 1) * (h - l - 1) < MaxForkDepth
      /\ 2 ^ (probes - 2) < MaxForkDepth
  BY <1>1, <1>3, Halves
<1>5. /\ probes' \in Nat /\ 2 <= probes' /\ probes' - 2 = probes - 1
      /\ probes' - 3 = probes - 2
  BY <1>1
<1>6. SearchIsLogarithmic'
  BY <1>4, <1>5 DEF SearchIsLogarithmic
<1>7. CASE h - l > 1
  <2>1. pc' = "ReadMiddle" /\ at' = Middle(l, h) /\ lo' = l /\ hi' = h
    BY <1>3, <1>7 DEF Narrow
  <2>2. Halved(lo, hi, probes)'
    BY <1>4, <1>5, <1>7, <2>1 DEF Halved
  <2>3. Middle(lo, hi)' = Middle(l, h)
    BY <2>1 DEF Middle
  <2> QED
    BY <1>5, <1>6, <2>1, <2>2, <2>3 DEF ProbeInv, Probing
<1>8. CASE ~(h - l > 1)
  <2>1. pc' = "Recheck"
    BY <1>3, <1>8 DEF Narrow
  <2> QED
    BY <1>5, <1>6, <2>1 DEF ProbeInv, Probing
<1> QED
  BY <1>7, <1>8

LEMMA HighProbe ==
    ASSUME Typed, ProbeInv, AskHigh PROVE ProbeInv'
<1>1. /\ pc = "AskHigh" /\ probes' = probes + 1 /\ UNCHANGED <<peer, seen, tip0>>
  BY DEF AskHigh, Ask
<1>2. probes' = 1 /\ at = Highest /\ Lowest(tip0) <= Highest /\ at \in Nat
  BY <1>1 DEF ProbeInv, Probing, Typed
<1>3. SearchIsLogarithmic' /\ probes' \in Nat
  BY <1>2 DEF SearchIsLogarithmic
<1>4. CASE Narrow(at, at)
  <2>1. pc' = "Recheck"
    BY <1>2, <1>4 DEF Narrow
  <2> QED
    BY <1>3, <2>1 DEF ProbeInv, Probing
<1>5. CASE pc' = "Choose"
  BY <1>3, <1>5 DEF ProbeInv, Probing
<1>6. CASE pc' = "ReadLow" /\ at' = Lowest(tip0) /\ Lowest(tip0) # Highest
  <2>1. Highest' = Highest /\ Lowest(tip0)' = Lowest(tip0)
    BY <1>1 DEF Highest, Lowest
  <2>2. Lowest(tip0) < Highest
    BY <1>2, <1>6, Bounds
  <2> QED
    BY <1>2, <1>3, <1>6, <2>1, <2>2 DEF ProbeInv, Probing
<1> QED
  BY <1>4, <1>5, <1>6 DEF AskHigh, EndWith, FailWith

LEMMA LowProbe ==
    ASSUME PowersOfTwo, Typed, ProbeInv, AskLow PROVE ProbeInv'
<1>1. /\ pc = "AskLow" /\ probes' = probes + 1 /\ UNCHANGED <<peer, seen, tip0>>
  BY DEF AskLow, Ask
<1>2. probes' = 2 /\ at = Lowest(tip0) /\ Lowest(tip0) < Highest
  BY <1>1 DEF ProbeInv, Probing
<1>3. SearchIsLogarithmic' /\ probes' \in Nat
  BY <1>2 DEF SearchIsLogarithmic
<1>4. CASE pc' = "Choose"
  BY <1>3, <1>4 DEF ProbeInv, Probing
<1>5. CASE Narrow(at, Highest) /\ Highest - at > 1
  <2>1. pc' = "ReadMiddle" /\ at' = Middle(at, Highest) /\ lo' = at /\ hi' = Highest
    BY <1>5 DEF Narrow
  <2>2. /\ at \in Nat /\ Highest \in Nat /\ MaxForkDepth \in Nat
        /\ Highest - at <= MaxForkDepth
    BY <1>2, Bounds, Window
  <2>3. Highest - at - 1 < MaxForkDepth /\ Highest - at - 1 \in Nat
    BY <1>5, <2>2
  <2>4. 2 ^ (2 - 2) = 1
    BY DEF PowersOfTwo
  <2>5. Halved(lo, hi, probes)'
    BY <1>2, <1>5, <2>1, <2>2, <2>3, <2>4 DEF Halved
  <2>6. Middle(lo, hi)' = Middle(at, Highest)
    BY <2>1 DEF Middle
  <2> QED
    BY <1>3, <2>1, <2>5, <2>6 DEF ProbeInv, Probing
<1>6. CASE Narrow(at, Highest) /\ ~(Highest - at > 1)
  <2>1. pc' = "Recheck"
    BY <1>6 DEF Narrow
  <2> QED
    BY <1>3, <2>1 DEF ProbeInv, Probing
<1> QED
  BY <1>4, <1>5, <1>6 DEF AskLow, EndWith, FailWith

\* The steps that ask nothing.
LEMMA OtherProbeSteps ==
    ASSUME Typed, ProbeInv, [Next]_vars, ~AskHigh, ~AskLow, ~AskMiddle PROVE ProbeInv'
<1>1. CASE Choose
  BY <1>1 DEF Choose, ProbeInv, Probing, SearchIsLogarithmic
<1>2. CASE Overlap
  BY <1>2 DEF Overlap, cycle, ProbeInv, Probing, SearchIsLogarithmic
<1>3. CASE Compare
  <2>1. /\ pc = "Compare" /\ UNCHANGED <<seen, tip0, probes>>
        /\ \/ pc' \in {"Choose", "Start"}
           \/ pc' = "ReadHigh" /\ at' = Highest /\ ~(Lowest(tip0) > Highest)
    BY <1>3 DEF Compare, EndWith, FailWith
  <2>2. Highest' = Highest /\ Lowest(tip0)' = Lowest(tip0)
    BY <2>1 DEF Highest, Lowest
  <2>3. ~(Lowest(tip0) > Highest) => Lowest(tip0) <= Highest
    BY Bounds
  <2> QED
    BY <2>1, <2>2, <2>3, Unasked DEF ProbeInv, Probing, SearchIsLogarithmic
<1>4. CASE ReadLocal
  <2>1. /\ pc \in Reads /\ UNCHANGED <<seen, tip0, probes, lo, hi, at>>
        /\ \/ pc' = "Choose"
           \/ pc = "ReadHigh" /\ pc' = "AskHigh"
           \/ pc = "ReadLow" /\ pc' = "AskLow"
           \/ pc = "ReadMiddle" /\ pc' = "AskMiddle"
    BY <1>4 DEF ReadLocal, cycle, EndWith, FailWith, AskAfter, Reads
  <2>2. Highest' = Highest /\ Lowest(tip0)' = Lowest(tip0)
    BY <2>1 DEF Highest, Lowest
  <2>3. Middle(lo, hi)' = Middle(lo, hi) /\ Halved(lo, hi, probes)' = Halved(lo, hi, probes)
    BY <2>1 DEF Middle, Halved
  <2> QED
    BY <2>1, <2>2, <2>3 DEF ProbeInv, Probing, SearchIsLogarithmic
<1>5. CASE Recheck \/ Start \/ Fetch \/ Submit \/ SubmitRejected \/ RequestFails
  BY <1>5, Unasked
     DEF Recheck, Start, Fetch, Submit, SubmitRejected, RequestFails, EndWith, FailWith, cycle
<1>6. CASE UNCHANGED vars \/ NobodyUsable \/ \E b \in Blocks : Arrive(b)
  <2>1. UNCHANGED <<pc, seen, tip0, probes, lo, hi, at>>
    BY <1>6 DEF vars, cycle, NobodyUsable, Arrive
  <2>2. Highest' = Highest /\ Lowest(tip0)' = Lowest(tip0)
    BY <2>1 DEF Highest, Lowest
  <2>3. Middle(lo, hi)' = Middle(lo, hi) /\ Halved(lo, hi, probes)' = Halved(lo, hi, probes)
    BY <2>1 DEF Middle, Halved
  <2> QED
    BY <2>1, <2>2, <2>3 DEF ProbeInv, Probing, SearchIsLogarithmic
<1> QED
  BY <1>1, <1>2, <1>3, <1>4, <1>5, <1>6 DEF Next, Thread

\* The search takes at most two probes and the logarithm of its window, however a peer
\* answers and whatever arrives meanwhile (findAncestor, MAX_SIDE_FORK_DEPTH).
THEOREM SearchHalves == PowersOfTwo => (Spec => []SearchIsLogarithmic)
<1> SUFFICES ASSUME PowersOfTwo PROVE Spec => []SearchIsLogarithmic
  OBVIOUS
<1>1. Init => ProbeInv
  BY DEF Init, ProbeInv, Probing, SearchIsLogarithmic
<1>2. SearchInv /\ ProbeInv /\ [Next]_vars => ProbeInv'
  <2> SUFFICES ASSUME SearchInv, ProbeInv, [Next]_vars PROVE ProbeInv'
    OBVIOUS
  <2>1. Typed
    BY DEF SearchInv
  <2>2. CASE AskMiddle
    BY <2>1, <2>2, MiddleProbe DEF AskMiddle, Ask
  <2> QED
    BY <2>1, <2>2, HighProbe, LowProbe, OtherProbeSteps
<1>3. ProbeInv => SearchIsLogarithmic
  BY DEF ProbeInv
<1> QED
  BY <1>1, <1>2, <1>3, AlwaysSearch, PTL DEF Spec
=============================================================================
