------------------------ MODULE MCBtrfsFindInBtree ------------------------
(* The small trees, searched for the keys in, between, below and above the *)
(* ones they store, in images with one block missing or none.              *)
EXTENDS BtrfsFindInBtree, MCSmallTrees

MCQueries == ToSet(KeySeq) \cup
    {K(1, 1, 0), K(1, 1, 2), K(1, 3, 0), K(2, 0, 4), K(3, 0, 0)}
=============================================================================
