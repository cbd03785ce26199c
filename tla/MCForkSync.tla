----------------------------- MODULE MCForkSync -----------------------------
(***************************************************************************)
(* Trees and peers for ForkSync.  Blocks are numbered so that a block's    *)
(* ancestors have smaller numbers; block 1 is the genesis.                 *)
(***************************************************************************)
EXTENDS ForkSync, TLC

AncestorsIn(parent) ==
    LET anc[b \in {1} \cup DOMAIN parent] ==
          IF b = 1 THEN {1} ELSE anc[parent[b]] \cup {b}
    IN  anc

HeightsIn(parent) == [b \in {1} \cup DOMAIN parent |-> Cardinality(AncestorsIn(parent)[b])]

\* A line of eight blocks and a branch that leaves it at 3, shorter and with more work at
\* its end: in reach of a reorg from block 7, one block too deep from block 8.
RaceBlocks == 1..11
RaceParent == [b \in 2..8 |-> b - 1] @@ (9 :> 3) @@ [b \in 10..11 |-> b - 1]
RaceHeight == HeightsIn(RaceParent)
RaceAnc    == AncestorsIn(RaceParent)
RaceWork   == [b \in RaceBlocks |-> RaceHeight[b] + (IF b = 11 THEN 3 ELSE 0)]

\* Two steady peers, one of them without block 8, and one that answers whatever it likes
\* and may share a place in the list with either.
ThreePeers == {"p", "q", "r"}
Two        == {"p", "q"}
RaceEnds   == ("p" :> 7) @@ ("q" :> 11)
Addresses  == ("p" :> 1) @@ ("r" :> 2) @@ ("q" :> 3)
=============================================================================
