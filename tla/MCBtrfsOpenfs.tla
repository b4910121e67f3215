--------------------------- MODULE MCBtrfsOpenfs ---------------------------
(***************************************************************************)
(* Images with one or two chunks in the sys array, chunks of one, three    *)
(* and four stripes in a chunk tree of two leaves, and the ways an image   *)
(* can be broken that btrfs_openfs looks for.                              *)
(***************************************************************************)
EXTENDS BtrfsOpenfs

C(start, length, stripeLen, stripes) ==
    [start |-> start, length |-> length, stripeLen |-> stripeLen, stripes |-> stripes]

System == C(10, 4, 2, <<100>>)
System3 == C(14, 6, 2, <<110, 114, 118>>)
Metadata == C(20, 7, 2, <<204, 200, 210>>)
Data == C(40, 9, 1, <<300, 310, 320, 330>>)
Tail1 == C(50, 3, 4, <<400>>)

Leaf(block, chunks) == [block |-> block, chunks |-> chunks]

Ordinary ==
    [superblock |-> TRUE, sys |-> <<System>>, chunkRoot |-> 10,
     chunkLeaves |-> <<Leaf(11, <<System, Metadata>>), Leaf(13, <<Data, Tail1>>)>>,
     rootPath |-> <<20, 41>>, fsRoot |-> 24]

\* Metadata and system chunks that are kept twice, as chunks of two stripes.
Twice == C(20, 6, 2, <<200, 210>>)
SystemTwice == C(10, 4, 2, <<100, 105>>)

MCTwoStripes ==
    {[Ordinary EXCEPT !.chunkLeaves[1].chunks = <<System, Twice>>],
     [Ordinary EXCEPT !.chunkLeaves[1].chunks = <<System, Twice>>, !.rootPath = <<20, 23>>],
     [Ordinary EXCEPT !.sys = <<SystemTwice>>, !.chunkLeaves[1].chunks = <<SystemTwice>>],
     [Ordinary EXCEPT !.sys = <<SystemTwice>>, !.chunkLeaves[1].chunks = <<SystemTwice>>,
        !.chunkRoot = 12]}

MCImages == MCTwoStripes \cup
    {Ordinary,
     [Ordinary EXCEPT !.superblock = FALSE],
     [Ordinary EXCEPT !.sys = <<>>],
     [Ordinary EXCEPT !.sys = <<System3, System>>, !.chunkRoot = 16],
     [Ordinary EXCEPT !.sys = <<System3, System>>,
        !.chunkLeaves = <<Leaf(15, <<System, System3>>), Leaf(19, <<>>), Leaf(11, <<Metadata, Data>>)>>],
     [Ordinary EXCEPT !.chunkRoot = 99],
     [Ordinary EXCEPT !.chunkRoot = 99, !.rootPath = <<12, 13>>],
     [Ordinary EXCEPT !.chunkLeaves[2].block = 99, !.rootPath = <<20, 22>>],
     [Ordinary EXCEPT !.rootPath = <<60>>],
     [Ordinary EXCEPT !.rootPath = <<50, 20, 44>>],
     [Ordinary EXCEPT !.fsRoot = 0]}
=============================================================================
