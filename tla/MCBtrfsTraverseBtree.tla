------------------------ MODULE MCBtrfsTraverseBtree ------------------------
(* The small trees, in images with one or two blocks missing or none.      *)
EXTENDS BtrfsTraverseBtree, MCSmallTrees

MCTwoMissing == {MCBlocks \ {b, c} : b, c \in MCBlocks}
MCTraverseMappings == {MCBlocks} \cup MCTwoMissing
=============================================================================
