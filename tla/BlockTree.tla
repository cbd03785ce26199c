----------------------------- MODULE BlockTree -----------------------------
(***************************************************************************)
(* The tree of blocks every module speaks about.  A block is identified by *)
(* its hash, which commits to its parent, so parent, height, cumulative    *)
(* work and ancestors never change: they are constants.  Blocks holds the  *)
(* blocks that miners and peers may produce, Valid those that pass the     *)
(* stateful validation of validateBlock on top of their parent.            *)
(***************************************************************************)
EXTENDS Integers, FiniteSets

CONSTANTS
    Blocks,     \* every block of the instance
    Genesis,    \* the root, at height 1
    Parent,     \* header.prevHash
    Height,     \* header.height
    Work,       \* cumulative work of the chain that ends in the block
    Anc,        \* the block and all its ancestors
    Valid,      \* blocks that pass stateful validation on their parent
    NoBlock     \* the absence of a durable record, or of an argument

NonGenesis == Blocks \ {Genesis}

ASSUME TreeTyping ==
    /\ IsFiniteSet(Blocks) /\ Genesis \in Blocks
    /\ Parent \in [NonGenesis -> Blocks]
    /\ Height \in [Blocks -> Nat]
    /\ Work   \in [Blocks -> Nat]
    /\ Anc    \in [Blocks -> SUBSET Blocks]
    /\ Valid  \in SUBSET Blocks
    /\ Genesis \in Valid
    /\ NoBlock \notin Blocks

ASSUME TreeShape ==
    /\ Height[Genesis] = 1
    /\ Anc[Genesis] = {Genesis}
    /\ \A b \in NonGenesis :
         /\ Height[b] = Height[Parent[b]] + 1
         /\ Work[b] > Work[Parent[b]]
         /\ Anc[b] = Anc[Parent[b]] \cup {b}

\* What the recurrences above imply on a finite tree.
ASSUME TreeClosure ==
    \A b \in Blocks :
      /\ Genesis \in Anc[b]
      /\ \A c \in Anc[b] : /\ Anc[c] \subseteq Anc[b]
                           /\ Height[c] <= Height[b]
                           /\ Height[c] = Height[b] => c = b
      /\ \A c, d \in Anc[b] : Height[c] = Height[d] => c = d

Children(b) == {c \in NonGenesis : Parent[c] = b}

\* The block at height h on the chain that ends in b, if there is one.
BlockAt(b, h) ==
    IF \E c \in Anc[b] : Height[c] = h
      THEN CHOOSE c \in Anc[b] : Height[c] = h
      ELSE NoBlock

\* The last block the chains of a and b share.
ForkOf(a, b) ==
    CHOOSE c \in Anc[a] \cap Anc[b] :
      \A d \in Anc[a] \cap Anc[b] : Height[d] <= Height[c]

\* The blocks a node on a leaves, and the blocks it joins, to move to b.
Leaving(a, b) == Anc[a] \ Anc[b]
Joining(a, b) == Anc[b] \ Anc[a]

ValidChain(b) == Anc[b] \subseteq Valid
============================================================================
