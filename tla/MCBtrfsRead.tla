----------------------------- MODULE MCBtrfsRead -----------------------------
(***************************************************************************)
(* Trees with a few files each: inline, with holes, of several extents,    *)
(* empty, with gaps, preallocated, shared in part, overwritten at the end, *)
(* in a chunk that is not mapped or in ones of two and three stripes, with *)
(* a leaf that is not mapped; a tree of other things; and every read of up *)
(* to nine bytes at every offset up to two bytes past the end.             *)
(***************************************************************************)
EXTENDS BtrfsRead, TLC

Key3(file, type, at) == [objectid |-> file, type |-> type, offset |-> at]
Inode(file) == Key3(file, INODE_ITEM, 0)
Data(file, at) == Key3(file, EXTENT_DATA, at)

Ext(type, ram, disk, off, num, at) ==
    [type |-> type, ramBytes |-> ram, diskBytenr |-> disk, offset |-> off,
     numBytes |-> num, inlineAt |-> at]
Reg(n, disk) == Ext("reg", n, disk, 0, n, 0)
Part(n, disk, off, num) == Ext("reg", n, disk, off, num, 0)
Inline(n, at) == Ext("inline", n, 0, 0, 0, at)

OneStripe == NewNode([start |-> 100, length |-> 60, stripeLen |-> 8, stripes |-> <<1000>>], 1, 2)
ThreeStripes ==
    NewNode([start |-> 200, length |-> 24, stripeLen |-> 4, stripes |-> <<2000, 2100, 2200>>], 3, 4)
TwoStripes ==
    NewNode([start |-> 300, length |-> 16, stripeLen |-> 4, stripes |-> <<3000, 3100>>], 5, 6)

Image(tree, sizes) ==
    [tree |-> tree, lost |-> {}, inner |-> FALSE, sizes |-> sizes,
     chunks |-> <<OneStripe, ThreeStripes, TwoStripes>>]

\* An inline file, a file of three extents with slack at its end, an empty file.
Plain == Image(
    (Inode(256) :> OtherItem) @@ (Inode(257) :> OtherItem) @@ (Data(257, 0) :> Inline(3, 50))
        @@ (Inode(258) :> OtherItem) @@ (Data(258, 0) :> Reg(4, 100)) @@ (Data(258, 4) :> Reg(3, 0))
        @@ (Data(258, 7) :> Reg(4, 104)) @@ (Inode(259) :> OtherItem),
    (257 :> 3) @@ (258 :> 10) @@ (259 :> 0))

\* An extent that crosses stripes, one in a stripe, one that is not mapped, one in
\* a stripe that was not kept and one that is preallocated.
Scattered == Image(
    (Inode(256) :> OtherItem) @@ (Data(257, 0) :> Reg(6, 202)) @@ (Data(258, 0) :> Reg(4, 204))
        @@ (Data(258, 4) :> Reg(4, 900)) @@ (Data(258, 8) :> Reg(2, 304)) @@ (Data(259, 0) :> Ext("prealloc", 4, 108, 0, 4, 0))
        @@ (Data(259, 4) :> Ext("unknown", 4, 108, 0, 4, 0)),
    (257 :> 6) @@ (258 :> 10) @@ (259 :> 8))

\* Gaps in the middle and at the start.
Gaps == Image(
    (Inode(256) :> OtherItem) @@ (Data(257, 0) :> Reg(4, 100)) @@ (Data(257, 6) :> Reg(4, 104))
        @@ (Data(258, 4) :> Reg(4, 110)) @@ (Inode(259) :> OtherItem),
    (257 :> 10) @@ (258 :> 8) @@ (259 :> 0))

\* One extent of eight bytes, overwritten in the middle, and a clone of its tail.
Shared == Image(
    (Inode(256) :> OtherItem) @@ (Data(257, 0) :> Part(8, 100, 0, 3)) @@ (Data(257, 3) :> Reg(2, 110))
        @@ (Data(257, 5) :> Part(8, 100, 5, 3)) @@ (Data(258, 0) :> Part(8, 100, 4, 4))
        @@ (Inode(259) :> OtherItem),
    (257 :> 8) @@ (258 :> 4) @@ (259 :> 0))

\* The plain one when the leaf with the end of its third file is not mapped.
LeafLost == [Plain EXCEPT !.lost = {Data(258, 7), Inode(259)}, !.inner = TRUE]

\* Extents of eight bytes and of four, each overwritten from its second byte on.
Overwritten == Image(
    (Inode(256) :> OtherItem) @@ (Data(257, 0) :> Part(8, 100, 0, 1)) @@ (Data(257, 1) :> Part(4, 110, 0, 1))
        @@ (Data(257, 2) :> Reg(2, 120)) @@ (Inode(258) :> OtherItem) @@ (Inode(259) :> OtherItem),
    (257 :> 4) @@ (258 :> 0) @@ (259 :> 0))

\* The tree of checksums, where a walk may be led (BtrfsLocateFile).
Checksums ==
    [Image((Key3(1000, 128, 0) :> OtherItem) @@ (Key3(1000, 128, 8) :> OtherItem),
           [file \in 257 .. 259 |-> 0]) EXCEPT !.inner = TRUE]

MCFiles == {Plain, Scattered, Gaps, Shared, LeafLost, Overwritten, Checksums}
MCSharedFiles == {Shared}

MCRequests == [file : 257 .. 259, offset : 0 .. 12, length : 0 .. 9]
=============================================================================
