---------------------------- MODULE MCChainNode ----------------------------
(***************************************************************************)
(* Trees and bounds for ChainNode.  A tree is a function from its blocks   *)
(* to their parents; block 1 is the genesis, a block's number its rank.    *)
(***************************************************************************)
EXTENDS ChainNode, TLC

AncestorsIn(parent) ==
    LET anc[b \in {1} \cup DOMAIN parent] ==
          IF b = 1 THEN {1} ELSE anc[parent[b]] \cup {b}
    IN  anc

HeightsIn(parent) == [b \in {1} \cup DOMAIN parent |-> Cardinality(AncestorsIn(parent)[b])]

\* Two branches of two blocks, the second heavier, and a block that forks off
\* the first:   1 - 2 - 3,   1 - 4 - 5,   2 - 6.
ForkBlocks == 1..6
ForkParent == (2 :> 1) @@ (3 :> 2) @@ (4 :> 1) @@ (5 :> 4) @@ (6 :> 2)
ForkHeight == HeightsIn(ForkParent)
ForkAnc    == AncestorsIn(ForkParent)
ForkWork   == (1 :> 1) @@ (2 :> 2) @@ (3 :> 3) @@ (4 :> 2) @@ (5 :> 4) @@ (6 :> 3)
ForkRank   == [b \in ForkBlocks |-> b]

\* A trunk of three blocks on the genesis, a heavier branch of two beside it, and a block
\* on the first, heavier still, that is not valid:   1 - 2 - 3 - 4,   1 - 5 - 6,   2 - 7.
TrapBlocks == 1..7
TrapParent == (2 :> 1) @@ (3 :> 2) @@ (4 :> 3) @@ (5 :> 1) @@ (6 :> 5) @@ (7 :> 2)
TrapHeight == HeightsIn(TrapParent)
TrapAnc    == AncestorsIn(TrapParent)
TrapWork   == [b \in 1..4 |-> b] @@ (5 :> 2) @@ (6 :> 5) @@ (7 :> 6)
TrapRank   == [b \in TrapBlocks |-> b]
TrapValid  == TrapBlocks \ {7}

\* A trunk 1 - 2 - 3 - 4 - 5 - 6; side blocks 7 and 8 on block 3 and 9 - 10 on
\* block 4, the last one the heaviest.
GroveBlocks == 1..10
GroveParent == (2 :> 1) @@ (3 :> 2) @@ (4 :> 3) @@ (5 :> 4) @@ (6 :> 5)
               @@ (7 :> 3) @@ (8 :> 3) @@ (9 :> 4) @@ (10 :> 9)
GroveHeight == HeightsIn(GroveParent)
GroveAnc    == AncestorsIn(GroveParent)
GroveWork   == [b \in 1..6 |-> b] @@ (7 :> 4) @@ (8 :> 5) @@ (9 :> 6) @@ (10 :> 8)
GroveRank   == [b \in GroveBlocks |-> b]

Armed     == {TRUE}
EitherWay == {TRUE, FALSE}
OnePeer   == {"p"}
TwoPeers  == {"p", "q"}
=============================================================================
