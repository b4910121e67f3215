---------------------------- MODULE BtrfsSession ----------------------------
(***************************************************************************)
(* The library as its client sees it: an image is opened, any calls are    *)
(* made on the handle, one after the other, and it is closed.  The module  *)
(* composes BtrfsOpenfs, BtrfsLocateFile and BtrfsRead over one disk, and  *)
(* adds what is left of btrfs_readdir, btrfs_read and btrfs_readlink.      *)
(*                                                                         *)
(* A disk has the chunks of the sys array, the chunk tree, the address     *)
(* root of the root tree and all trees but the chunk tree.  A tree is      *)
(* known by the address of its root, and each of its leaves has an address *)
(* and items; that of a tree with one leaf is the tree's.  What the calls  *)
(* find of it is decided by the chunk list of the handle: an open that ran *)
(* out of memory goes on with a part of the chunks.  A call that has gone  *)
(* astray (BtrfsLocateFile) is the last that a session tells of.           *)
(***************************************************************************)
EXTENDS BtrfsLocateFile, BtrfsChunkList

CONSTANTS
    Disks,      \* the disks by name
    Contents,   \* the file systems that some of them hold, as ReadOnlyFs has it,
                \* and the places on the disk of their objects
    IntLimit,   \* one more than the greatest int
    NoImage, NoCall, NoRequest, NoListing, NoAnswer, NoObject, Crashed

FS_TREE == 5
EXTENT_DATA == 108
ENOMEM == -12
Nul == -2      \* the byte that ends a string

Extent == [type : {"inline", "reg", "prealloc", "unknown"},
           ramBytes : Nat, diskBytenr : Nat, offset : Nat, numBytes : Nat, inlineAt : Nat]

Item(k, value) ==
    CASE k.type = INODE_ITEM -> value \in Inode
      [] k.type = DIR_ITEM ->
            /\ value \in Seq(Entry) \ {<<>>}
            /\ \A n \in DOMAIN value :
                /\ Hash[value[n].name] = k.offset
                /\ value[n].type \in {INODE_ITEM, ROOT_ITEM} =>
                     value[n].objectid >= FIRST_FREE_OBJECTID
            /\ \A m, n \in DOMAIN value : value[m].name = value[n].name => m = n
      [] k.type = EXTENT_DATA -> value \in Extent
      [] k.type = ROOT_ITEM -> value \in Nat \ {NoTree}
      [] OTHER -> value = OtherItem

KeysIn(leaves) == UNION {DOMAIN l.items : l \in leaves}
FsTreeKey == [objectid |-> FS_TREE, type |-> ROOT_ITEM, offset |-> 0]

ASSUME DisksAssumption ==
    \A name \in DOMAIN Disks : LET d == Disks[name] IN
        /\ d.sys \in Seq(Chunk)
        /\ d.chunkLeaves \in Seq([block : Nat, chunks : Seq(Chunk)])
        /\ {d.chunkRoot, d.root} \subseteq Nat
        /\ DOMAIN d.trees \subseteq Nat \ {NoTree}
        /\ d.root \in DOMAIN d.trees /\ FsTreeKey \in KeysIn(d.trees[d.root])
        /\ \A b \in DOMAIN d.trees :
            /\ IsFiniteSet(KeysIn(d.trees[b]))
            /\ \A l \in d.trees[b] :
                /\ l.block \in Nat
                /\ \A k \in DOMAIN l.items :
                    k \in Key /\ k.offset <= MaxOffset /\ Item(k, l.items[k])
        /\ \A l \in d.trees[d.root] : \A k \in DOMAIN l.items :
            k.type = ROOT_ITEM => l.items[k] \in DOMAIN d.trees
ASSUME IntLimitAssumption == IntLimit \in Nat \ {0}

\* A client asks for no more bytes than btrfs_read can say it has read.
ASSUME ReadCallsAssumption ==
    /\ NoCall \notin Calls
    /\ \A c \in Calls : c.op \in {"read", "readlink"} => c.offset \in Nat /\ c.length \in 0 .. IntLimit - 1

VARIABLES
    disk,
    handle, chunkList, sysList, leaf, item, heap, last, outOfMemory, errno, openPc,
    request, key, offset, bytesRead, buf, readRet, readPc,
    names,      \* what a listing gives to the caller
    listed      \* the last listing, until something else is called: see ListedNamesExist

openVars == <<handle, chunkList, sysList, leaf, item, heap, last, outOfMemory, errno, openPc>>
readVars == <<request, key, offset, bytesRead, buf, readRet, readPc>>
sessionVars == <<disk, openVars, vars, readVars, names, listed>>

ItemsOf(leaves) == [k \in KeysIn(leaves) |-> (CHOOSE l \in leaves : k \in DOMAIN l.items).items[k]]

\* The root tree as the open searches it.
RootLeaf(d) == CHOOSE l \in d.trees[d.root] : FsTreeKey \in DOMAIN l.items
OpenImage(d) ==
    [superblock |-> TRUE, sys |-> d.sys, chunkRoot |-> d.chunkRoot, chunkLeaves |-> d.chunkLeaves,
     rootPath |-> IF RootLeaf(d).block = d.root THEN <<d.root>> ELSE <<d.root, RootLeaf(d).block>>,
     fsRoot |-> RootLeaf(d).items[FsTreeKey]]

\* The trees of a disk as the calls see them through a chunk list.
IsMapped(list, address) == Resolve(list, address) \notin {Unmapped, Fault}
LostKeys(list, leaves) == KeysIn({l \in leaves : ~ IsMapped(list, l.block)})
InnerTrees(d) == {b \in DOMAIN d.trees : \E l \in d.trees[b] : l.block /= b}
View(d, list) ==
    LET mapped == {b \in DOMAIN d.trees : IsMapped(list, b)}
    IN  [roots |-> ItemsOf(d.trees[d.root]), lostRoots |-> LostKeys(list, d.trees[d.root]),
         trees |-> [b \in mapped |-> ItemsOf(d.trees[b])],
         lost |-> [b \in mapped |-> LostKeys(list, d.trees[b])],
         inner |-> InnerTrees(d) \cap mapped,
         fsRoot |-> OpenImage(d).fsRoot]

opening == INSTANCE BtrfsOpenfs WITH
    Images <- {}, image <- OpenImage(Disks[disk]), pc <- openPc
reading == INSTANCE BtrfsRead WITH
    Files <- {}, Requests <- {}, IntLimit <- IntLimit,
    image <- [tree |-> IF fsTree \in DOMAIN image.trees THEN image.trees[fsTree] ELSE <<>>,
              lost |-> LostOf(image, fsTree), inner |-> IsInner(image, fsTree),
              chunks |-> chunkList],
    ret <- readRet, pc <- readPc

\* The chunks of a disk have no byte in common, and each block of a tree lies in one of
\* them, which is not of two stripes (btrfs_chunk_list.c:31).
ASSUME ChunksAssumption ==
    \A name \in DOMAIN Disks : LET chunks == opening!ChunksOf(OpenImage(Disks[name])) IN
        /\ \A c, e \in chunks :
            c = e \/ c.start + c.length <= e.start \/ e.start + e.length <= c.start
        /\ \A b \in DOMAIN Disks[name].trees :
            /\ \E c \in chunks : opening!Within(c, b) /\ Len(c.stripes) /= 2
            /\ \A l \in Disks[name].trees[b] :
                \E c \in chunks : opening!Within(c, l.block) /\ Len(c.stripes) /= 2

(***************************************************************************)
(* What it is for a disk to hold a file system: each object has a place,   *)
(* where its inode, its entries and its extents are.                       *)
(***************************************************************************)
FullView(d) ==
    [roots |-> ItemsOf(d.trees[d.root]), lostRoots |-> {},
     trees |-> [b \in DOMAIN d.trees |-> ItemsOf(d.trees[b])],
     lost |-> [b \in DOMAIN d.trees |-> {}],
     inner |-> InnerTrees(d),
     fsRoot |-> OpenImage(d).fsRoot]

\* A file system tree begins with its root directory, or with lower keys: what is looked
\* for in it is not below its first key.
RootDirKey == [objectid |-> FIRST_FREE_OBJECTID, type |-> INODE_ITEM, offset |-> 0]

ASSUME RangeAssumption ==
    \A name \in DOMAIN Disks : LET im == FullView(Disks[name]) IN
        \A b \in FsTrees(im) \cap im.inner : \E k \in KeysOf(im, b) : KeyLeq(k, RootDirKey)

HoldsInode(items, ino, o) ==
    LET k == [objectid |-> ino, type |-> INODE_ITEM, offset |-> 0]
    IN  /\ k \in DOMAIN items
        /\ StatOf(ino, items[k]) =
             [ino |-> o.ino, dir |-> o.kind = "dir", size |-> Len(o.bytes), nlink |-> o.links]

\* An extent is in its file as it was written, from the byte after the first at ones on:
\* whole, and in one piece of a chunk.
HoldsExtent(d, e, at, bytes) ==
    LET from == bytes[at + 1]
        InFile == {n \in 0 .. e.ramBytes - 1 : at + n < Len(bytes)}
    IN  /\ at < Len(bytes)
        /\ \/ /\ e.type = "inline"
              /\ \A n \in InFile : bytes[at + n + 1] = e.inlineAt + n
           \/ /\ e.type = "reg" /\ e.offset = 0 /\ e.numBytes = e.ramBytes
              /\ IF e.diskBytenr = 0 THEN \A n \in InFile : bytes[at + n + 1] = reading!Zero
                 ELSE \E c \in opening!ChunksOf(OpenImage(d)) :
                        /\ \A n \in 0 .. e.ramBytes - 1 :
                            /\ opening!Within(c, e.diskBytenr + n)
                            /\ HoldsByte(c, from + n, e.diskBytenr + n - c.start)
                        /\ \A n \in InFile : bytes[at + n + 1] = from + n

\* Every byte is in one extent; those of a link do not reach beyond its end.
ExtentsIn(items) == {k \in DOMAIN items : k.type = EXTENT_DATA}
Reach(items, k) == k.offset + reading!Length(items[k])
HoldsBytes(d, items, ino, o) ==
    LET extents == {k \in ExtentsIn(items) : k.objectid = ino}
    IN  /\ o.bytes \in Seq(Int)
        /\ \A k \in extents : HoldsExtent(d, items[k], k.offset, o.bytes)
        /\ \A n \in 0 .. Len(o.bytes) - 1 :
            \E k \in extents : k.offset <= n /\ n < Reach(items, k)
        /\ o.kind = "link" =>
            o.bytes /= <<>> /\ \A k \in extents : Reach(items, k) <= Len(o.bytes)

HoldsEntries(d, place, o, places) ==
    /\ DOMAIN o.entries = {e.name : e \in EntriesOf(FullView(d), place)}
    /\ \A name \in DOMAIN o.entries :
        /\ o.entries[name] \in DOMAIN places
        /\ Enter(FullView(d), place, name) = places[o.entries[name]]

HoldsFs(d, c) ==
    /\ c.root \in DOMAIN c.objects /\ NoObject \notin DOMAIN c.objects
    /\ DOMAIN c.places = DOMAIN c.objects
    /\ c.places[c.root] = RootPlace(FullView(d))
    /\ \A id \in DOMAIN c.objects :
        LET o     == c.objects[id]
            place == c.places[id]
            items == ItemsOf(d.trees[place.tree])
        IN  /\ place \in [tree : DOMAIN d.trees, objectid : Nat]
            /\ HoldsInode(items, place.objectid, o)
            /\ HoldsBytes(d, items, place.objectid, o)
            /\ HoldsEntries(d, place, o, c.places)

\* No two names of a directory have one hash, every subvolume that has an entry has a
\* root item, and no two extents of a file have a byte in common; nor is a chunk of two
\* stripes there (btrfs_chunk_list.c:31).
IsSound(d) ==
    /\ \A b \in DOMAIN d.trees : LET items == ItemsOf(d.trees[b]) IN
        /\ \A k \in DOMAIN items : k.type = DIR_ITEM =>
            Len(items[k]) = 1 /\ items[k][1].name \notin {".", ".."}
        /\ \A k, l \in ExtentsIn(items) :
            k.objectid = l.objectid /\ k.offset < l.offset => Reach(items, k) <= l.offset
    /\ Intact(FullView(d))
    /\ \A c \in opening!ChunksOf(OpenImage(d)) : Len(c.stripes) /= 2

ASSUME ContentsAssumption ==
    \A name \in DOMAIN Contents :
        name \in DOMAIN Disks /\ IsSound(Disks[name]) /\ HoldsFs(Disks[name], Contents[name])

\* What is answered is told apart from no answer.
ASSUME AnswersAssumption ==
    /\ Crashed \notin Int
    /\ NoAnswer \notin [ret : Int \cup {Crashed},
                       stat : [ino : Nat, dir : BOOLEAN, size : Nat, nlink : Nat] \cup {NoStat},
                       names : Seq(Names \cup {".", ".."}), data : Seq(Int)]

SessionInit ==
    /\ disk \in DOMAIN Disks
    /\ handle = NullPtr /\ chunkList = <<>> /\ sysList = <<>> /\ leaf = 1 /\ item = 1
    /\ heap = {} /\ last = NullPtr /\ outOfMemory = FALSE /\ errno = "none" /\ openPc = "start"
    /\ image = NoImage /\ call = NoCall
    /\ walked = 0 /\ fsTree = NoTree /\ objectid = FIRST_FREE_OBJECTID
    /\ entry = NoEntry /\ located = 0 /\ stat = NoStat /\ ret = 0 /\ pc = "idle"
    /\ request = NoRequest /\ key = NoRequest /\ offset = 0 /\ bytesRead = 0 /\ buf = <<>>
    /\ readRet = 0 /\ readPc = "done"
    /\ names = <<>> /\ listed = NoListing

\* btrfs_openfs, and btrfs_delete once the client calls it.
Opening ==
    /\ UNCHANGED <<disk, call, walked, fsTree, objectid, entry, located, stat, ret, pc>>
    /\ UNCHANGED <<readVars, names, listed>>
    /\ opening!Step
    /\ image' = IF openPc' = "open" THEN View(Disks[disk], chunkList') ELSE image

Close ==
    /\ pc = "idle"
    /\ UNCHANGED <<disk, call, walked, fsTree, objectid, entry, located, stat, ret, pc>>
    /\ UNCHANGED <<readVars, names>>
    /\ opening!Delete
    /\ image' = NoImage /\ listed' = NoListing

\* The client calls a function, which starts at the root directory.
ListedPaths == IF listed = NoListing THEN {} ELSE {Append(listed.path, n) : n \in ToSet(listed.names)}

Call ==
    /\ openPc = "open" /\ pc = "idle"
    /\ call' \in Calls
    /\ fsTree' = image.fsRoot
    /\ pc' = "start"
    /\ listed' = IF call'.op = "exists" /\ call'.slash /\ call'.path \in ListedPaths
                  THEN listed ELSE NoListing
    /\ UNCHANGED <<disk, openVars, image, walked, objectid, entry, located, stat, ret>>
    /\ UNCHANGED <<readVars, names>>

Walk == Step /\ UNCHANGED <<disk, openVars, readVars, names, listed>>

Located(ops) == pc = "located" /\ located = 0 /\ call.op \in ops

\* btrfs_low_list_files, with its traversal as ItemScan and its memory as
\* BtrfsListFiles shows them: the first names of the items of the directory, in key
\* order.  (Wrong without the test of the object.)
IsAnyDirItem(k) == k.type = DIR_ITEM
IsItemOfDir(k) == k.type = DIR_ITEM /\ k.objectid = objectid
ItemsOfDir == {k \in KeysOf(image, fsTree) \ LostOf(image, fsTree) : IsItemOfDir(k)}
FirstName(k) == image.trees[fsTree][k][1].name

ListDir ==
    /\ Located({"readdir"}) /\ fsTree /= Elsewhere
    /\ \/ /\ \E items \in [1 .. Cardinality(ItemsOfDir) -> ItemsOfDir] :
                /\ Sorted(items)
                /\ names' = <<".", "..">> \o [n \in DOMAIN items |-> FirstName(items[n])]
          /\ listed' = [path |-> call.path, names |-> names']
          /\ ret' = 0
       \/ ret' = ENOMEM /\ UNCHANGED <<names, listed>>
    /\ pc' = "done"
    /\ UNCHANGED <<disk, openVars, image, call, walked, fsTree, objectid, entry, located, stat>>
    /\ UNCHANGED readVars

\* The traversal starts at bytes that are no tree.
ListStrays ==
    /\ Located({"readdir"}) /\ fsTree = Elsewhere
    /\ pc' = "astray"
    /\ UNCHANGED <<disk, openVars, image, call, walked, fsTree, objectid, entry, located, stat, ret>>
    /\ UNCHANGED <<readVars, names, listed>>

\* A symbolic link is read from its start on.
StartRead ==
    /\ Located({"read", "readlink"})
    /\ request' = [file |-> objectid, length |-> call.length,
                   offset |-> IF call.op = "read" THEN call.offset ELSE 0]
    /\ key' = [objectid |-> objectid, type |-> EXTENT_DATA, offset |-> 0]
    /\ offset' = request'.offset
    /\ bytesRead' = 0 /\ buf' = <<>> /\ readRet' = 0 /\ readPc' = "loop"
    /\ pc' = "read"
    /\ UNCHANGED <<disk, openVars, image, call, walked, fsTree, objectid, entry, located, stat, ret>>
    /\ UNCHANGED <<names, listed>>

Reading ==
    /\ pc = "read"
    /\ UNCHANGED <<disk, openVars, vars, names, listed>>
    /\ reading!Step

ReadReturns ==
    /\ pc = "read" /\ readPc = "done" /\ call.op = "read"
    /\ ret' = readRet
    /\ pc' = "done"
    /\ UNCHANGED <<disk, openVars, image, call, walked, fsTree, objectid, entry, located, stat>>
    /\ UNCHANGED <<readVars, names, listed>>

\* Wrong: a terminator behind a target that fills the buffer.
TerminatesAlways == readRet <= call.length

\* btrfs_readlink after its read: the terminator, if there is room for one.
Terminates == readRet < call.length
ReadlinkReturns ==
    /\ pc = "read" /\ readPc = "done" /\ call.op = "readlink"
    /\ IF readRet < 0
       THEN ret' = readRet /\ UNCHANGED buf
       ELSE /\ ret' = 0
            /\ buf' = IF Terminates THEN Append(SubSeq(buf, 1, readRet), Nul) ELSE buf
    /\ pc' = "done"
    /\ UNCHANGED <<disk, openVars, image, call, walked, fsTree, objectid, entry, located, stat>>
    /\ UNCHANGED <<request, key, offset, bytesRead, readRet, readPc, names, listed>>

\* The read has run into a block that is not mapped, or gone astray.
ReadFaults ==
    /\ pc = "read" /\ readPc \in {"crash", "astray"}
    /\ pc' = readPc
    /\ UNCHANGED <<disk, openVars, image, call, walked, fsTree, objectid, entry, located, stat, ret>>
    /\ UNCHANGED <<readVars, names, listed>>

\* The client has its answer; of the call nothing stays but the history of listings.
Return ==
    /\ pc = "done"
    /\ call' = NoCall
    /\ walked' = 0 /\ fsTree' = NoTree /\ objectid' = FIRST_FREE_OBJECTID
    /\ entry' = NoEntry /\ located' = 0 /\ stat' = NoStat /\ ret' = 0 /\ pc' = "idle"
    /\ request' = NoRequest /\ key' = NoRequest /\ offset' = 0 /\ bytesRead' = 0 /\ buf' = <<>>
    /\ readRet' = 0 /\ readPc' = "done"
    /\ names' = <<>>
    /\ UNCHANGED <<disk, openVars, image, listed>>

CallStep ==
    \/ Walk \/ ListDir \/ ListStrays
    \/ StartRead \/ Reading \/ ReadReturns \/ ReadlinkReturns \/ ReadFaults

SessionOver ==
    /\ openPc \in {"failed", "deleted", "crash"} \/ pc \in {"crash", "astray"}
    /\ UNCHANGED sessionVars

SessionNext == Opening \/ Close \/ Call \/ CallStep \/ Return \/ SessionOver

\* A call runs on until it returns, as the open does in BtrfsOpenfs; the client need
\* not call anything.
SessionSpec == SessionInit /\ [][SessionNext]_sessionVars /\ WF_sessionVars(CallStep)

----------------------------------------------------------------------------

SessionTypeOK ==
    /\ openPc = "open" /\ pc = "idle" => image = View(Disks[disk], chunkList)
    /\ call \in Calls \cup {NoCall}
    /\ walked \in Nat /\ walked <= IF call = NoCall THEN 0 ELSE Len(call.path)
    /\ fsTree \in Nat \cup {Elsewhere} /\ objectid \in Nat
    /\ entry \in Entry \cup {NoEntry}
    /\ located \in {0, ENOENT, EIO}
    /\ ret \in {ENOENT, EINVAL, ENOMEM} \cup Nat
    /\ pc = "idle" => call = NoCall
    /\ pc \in {"idle", "start", "find", "scan", "enter", "located", "read", "done", "crash", "astray"}
    /\ readPc \in {"loop", "done", "crash", "astray"}

\* Two calls agree: whatever name a listing has given is found when it is asked for
\* behind the path that was listed, on the same handle, however much of the image
\* that handle maps.  (An entry that is neither a file nor a subvolume is listed and
\* not found; the code takes it that there is none.)
ListedNamesExist ==
    pc = "done" /\ listed /= NoListing /\ call.op = "exists" =>
        \/ ret = 0
        \/ Last(call.path) \in {".", ".."}
        \/ located = EIO
        \/ ~ Intact(image)

\* Where a call ends that does not return.  It runs into a block that is not mapped only
\* on a handle that lost chunks for want of memory when it was opened (btrfs_low.c:95-97),
\* or, as an open, in the second stripe of a chunk of two.  It goes astray, by a pointer
\* that was never set or bytes that are no address (btrfs_find_in_btree.c:162-171,
\* btrfs_low.c:134), only on an image with an entry whose subvolume has no root item, and
\* there on a whole handle, too.
FaultsNeedLostChunks ==
    /\ pc = "crash" => outOfMemory \/ \E i \in DOMAIN chunkList : chunkList[i].numStripes = 2
    /\ pc = "astray" => ~ Intact(image)

Answered == pc \in {"done", "crash", "astray"}
Known == disk \in DOMAIN Contents
Fs == INSTANCE ReadOnlyFs WITH
    Terminator <- Nul, Blank <- reading!Zero, Success <- 0, NotFound <- ENOENT, NotAbsolute <- EINVAL,
    NoMemory <- ENOMEM, Unreturned <- Crashed,
    fs <- IF Known /\ openPc = "open"
          THEN [whole |-> ~ outOfMemory, root |-> Contents[disk].root, objects |-> Contents[disk].objects]
          ELSE NoObject,
    answer <- IF Answered
              THEN [ret |-> IF pc = "done" THEN ret ELSE Crashed,
                    stat |-> stat, names |-> names, data |-> buf]
              ELSE NoAnswer

\* On a disk whose file system is known, each call answers as the abstract file system
\* does: the answer is right, complete, terminated, within the caller's buffer, and
\* the same whatever was called before.  A handle that lost chunks when it was opened
\* may find less and read zeros, but never another file, name or byte.
ImplementsReadOnlyFs == [][Known => [Fs!Next]_Fs!fsVars]_sessionVars

\* Every call returns, or ends in a block that is not mapped, or goes astray.
CallReturns == pc = "start" ~> pc \in {"done", "crash", "astray"}
=============================================================================
