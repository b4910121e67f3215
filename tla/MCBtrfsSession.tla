--------------------------- MODULE MCBtrfsSession ---------------------------
(***************************************************************************)
(* A disk with three chunks behind the one of the sys array: two with the  *)
(* blocks of trees, one with data in three stripes.  The tree at 24 has a  *)
(* directory d, a file x and a symbolic link d/y in it and two subvolumes; *)
(* the one below d is a snapshot, whose root item has an offset.  The same *)
(* names and inode numbers come back in each, and x and y have one hash.   *)
(* The tree at 62 has the checksums, with keys above all of files.  Then   *)
(* that disk with damage that is not the chunks': an item that packs x and *)
(* y and an entry of another type; the root item of the snapshot gone,     *)
(* with the back reference that is before it and without; that of the      *)
(* other subvolume gone, so that the checksums' is the one before it; and  *)
(* a disk with a gap and an extent that is shared in part.                 *)
(***************************************************************************)
EXTENDS BtrfsSession

MCNames == {"", "d", "s", "x", "y"}
MCHash == ("" :> 9) @@ ("d" :> 1) @@ ("s" :> 3) @@ ("x" :> 4) @@ ("y" :> 4)

ROOT_BACKREF == 144
CSUM_TREE == 7
EXTENT_CSUM == 128
K(o, t, f) == [objectid |-> o, type |-> t, offset |-> f]
DirInode(o, nlink) == K(o, INODE_ITEM, 0) :> [dir |-> TRUE, nlink |-> nlink, size |-> 0]
FileInode(o, nlink, size) == K(o, INODE_ITEM, 0) :> [dir |-> FALSE, nlink |-> nlink, size |-> size]
File(name, o) == [name |-> name, type |-> INODE_ITEM, objectid |-> o]
Subvolume(name, o) == [name |-> name, type |-> ROOT_ITEM, objectid |-> o]
Broken(name) == [name |-> name, type |-> 0, objectid |-> 0]
DirItem(o, entries) == K(o, DIR_ITEM, MCHash[entries[1].name]) :> entries
Dir(o, entry1) == DirItem(o, <<entry1>>)
FileExtent(o, position, type, ram, disk1, at) ==
    K(o, EXTENT_DATA, position) :>
        [type |-> type, ramBytes |-> ram, diskBytenr |-> disk1, offset |-> 0, numBytes |-> ram,
         inlineAt |-> at]

Leaf(block, items) == [block |-> block, items |-> items]
LeafOfChunks(block, chunks) == [block |-> block, chunks |-> chunks]
C(start, length, stripeLen, stripes) ==
    [start |-> start, length |-> length, stripeLen |-> stripeLen, stripes |-> stripes]

System == C(10, 4, 2, <<100>>)
Metadata == C(20, 20, 4, <<200>>)
Metadata2 == C(50, 20, 4, <<250>>)
Data == C(80, 24, 8, <<800, 900, 1000>>)

Roots == (K(FS_TREE, ROOT_ITEM, 0) :> 24) @@ (K(CSUM_TREE, ROOT_ITEM, 0) :> 62)
RootTree ==
    {Leaf(21, Roots @@ (K(300, ROOT_ITEM, 0) :> 52) @@ (K(300, ROOT_BACKREF, 5) :> OtherItem)),
      Leaf(51, K(301, ROOT_ITEM, 7) :> 54)}
Checksums ==
    {Leaf(63, K(1000, EXTENT_CSUM, 80) :> OtherItem), Leaf(64, K(1000, EXTENT_CSUM, 92) :> OtherItem)}
TopLeaf1 ==
    DirInode(256, 1) @@ Dir(256, File("d", 257)) @@ Dir(256, Subvolume("s", 300))
        @@ Dir(256, File("x", 258))
TopLeaf2 ==
    DirInode(257, 1) @@ Dir(257, Subvolume("s", 301)) @@ Dir(257, File("y", 259))
        @@ FileInode(258, 1, 10) @@ FileExtent(258, 0, "reg", 4, 84, 0) @@ FileExtent(258, 4, "reg", 4, 0, 0)
        @@ FileExtent(258, 8, "reg", 4, 92, 0)
        @@ FileInode(259, 1, 3) @@ FileExtent(259, 0, "inline", 3, 0, 3000)
Volume ==
    DirInode(256, 1) @@ Dir(256, File("d", 258)) @@ Dir(256, File("x", 257))
        @@ FileInode(257, 2, 2) @@ FileExtent(257, 0, "inline", 2, 0, 3100)
        @@ DirInode(258, 1) @@ Dir(258, File("y", 257))
Snapshot ==
    DirInode(256, 1) @@ Dir(256, File("y", 257)) @@ FileInode(257, 1, 4)
        @@ FileExtent(257, 0, "reg", 4, 100, 0)

Whole ==
    [sys |-> <<System>>, chunkRoot |-> 10,
     chunkLeaves |-> <<LeafOfChunks(11, <<System, Metadata, Metadata2>>), LeafOfChunks(13, <<Data>>)>>,
     root |-> 20,
     trees |-> (20 :> RootTree) @@ (24 :> {Leaf(25, TopLeaf1), Leaf(58, TopLeaf2)})
                 @@ (52 :> {Leaf(52, Volume)}) @@ (54 :> {Leaf(54, Snapshot)}) @@ (62 :> Checksums)]

WithTop(leaf1, leaf2) == [Whole EXCEPT !.trees[24] = {Leaf(25, leaf1), Leaf(58, leaf2)}]

Packed ==
    [WithTop(DirItem(256, <<File("x", 258), File("y", 257)>>) @@ TopLeaf1, TopLeaf2) EXCEPT
        !.trees[54] = {Leaf(54, Dir(256, Broken("d")) @@ Snapshot)}]
RootLost == [Whole EXCEPT !.trees[20] = {l \in RootTree : l.block = 21}]
BackrefLost ==
    [Whole EXCEPT !.trees[20] = {Leaf(20, Roots @@ (K(300, ROOT_ITEM, 0) :> 52))}]
VolumeLost ==
    [Whole EXCEPT !.trees[20] = {Leaf(21, Roots), Leaf(51, K(301, ROOT_ITEM, 7) :> 54)}]
Part == K(258, EXTENT_DATA, 4)
Shared ==
    WithTop(TopLeaf1,
        [FileExtent(258, 4, "reg", 8, 84, 0) EXCEPT ![Part].offset = 4, ![Part].numBytes = 2] @@ TopLeaf2)

MCDisks ==
    [whole |-> Whole, packed |-> Packed, rootLost |-> RootLost, backrefLost |-> BackrefLost,
     volumeLost |-> VolumeLost, shared |-> Shared]

\* What Whole holds.  A byte is the place of the image where it lies.
Object(kind, ino, links, entries, bytes) ==
    [kind |-> kind, ino |-> ino, links |-> links, entries |-> entries, bytes |-> bytes]
NoNames == [n \in {} |-> 0]
NoContents == [n \in {} |-> 0]
At(b, o) == [tree |-> b, objectid |-> o]
MCContents ==
    [whole |->
        [root |-> "top",
         places |->
            [top |-> At(24, 256), dir |-> At(24, 257), file |-> At(24, 258), link |-> At(24, 259),
             volume |-> At(52, 256), inner |-> At(52, 258), two |-> At(52, 257),
             snapshot |-> At(54, 256), other |-> At(54, 257)],
         objects |->
            [top   |-> Object("dir", 256, 2, [d |-> "dir", s |-> "volume", x |-> "file"], <<>>),
             dir   |-> Object("dir", 257, 2, [s |-> "snapshot", y |-> "link"], <<>>),
             file  |-> Object("file", 258, 1, NoNames,
                              <<804, 805, 806, 807, -1, -1, -1, -1, 904, 905>>),
             link  |-> Object("link", 259, 1, NoNames, <<3000, 3001, 3002>>),
             volume |-> Object("dir", 256, 2, [d |-> "inner", x |-> "two"], <<>>),
             inner |-> Object("dir", 258, 2, [y |-> "two"], <<>>),
             two   |-> Object("file", 257, 2, NoNames, <<3100, 3101>>),
             snapshot |-> Object("dir", 256, 2, [y |-> "other"], <<>>),
             other |-> Object("file", 257, 1, NoNames, <<1004, 1005, 1006, 1007>>)]]]

Plain(op, path) == [op |-> op, slash |-> TRUE, path |-> path, offset |-> 0, length |-> 0]
Paths ==
    (UNION {[1 .. n -> MCNames] : n \in 0 .. 2} \ {<<"">>})
        \cup {<<"d", "s", "y">>, <<"d", "s", "x">>, <<"d", "s", "d">>, <<"s", "d", "y">>,
              <<"s", "d", "x">>, <<"s", "x", "x">>, <<"x", "", "d">>, <<"d", "s", "">>}
MCCalls ==
    {Plain(op, path) : op \in {"exists", "stat"}, path \in Paths}
        \cup {Plain("readdir", path) :
                path \in {<<>>, <<"d">>, <<"s">>, <<"s", "d">>, <<"d", "s">>, <<"x">>, <<"y">>}}
        \cup [op : {"read"}, slash : {TRUE}, path : {<<"x">>}, offset : {0, 3, 9, 14}, length : {0, 6, 13}]
        \cup [op : {"read"}, slash : {TRUE}, path : {<<"s", "x">>, <<"d", "s", "y">>, <<"d">>, <<"s">>, <<"y">>},
              offset : {1}, length : {3}]
        \cup [op : {"readlink"}, slash : {TRUE}, path : {<<"d", "y">>}, offset : {0}, length : {0, 2, 3, 5}]
        \cup [op : {"readlink"}, slash : {TRUE}, path : {<<>>, <<"x">>}, offset : {0}, length : {4}]
        \cup {[Plain("stat", <<"d">>) EXCEPT !.slash = FALSE]}
=============================================================================
