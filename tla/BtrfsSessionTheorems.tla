------------------------ MODULE BtrfsSessionTheorems ------------------------
(***************************************************************************)
(* Proofs about BtrfsSession, for every set of disks and calls.  The       *)
(* theorems about opening are instantiated, for the image on the disk of   *)
(* the session (openProofs).                                               *)
(***************************************************************************)
EXTENDS BtrfsSession, BtrfsKeysTheorems, SequenceTheorems

openProofs == INSTANCE BtrfsOpenfsTheorems WITH
    Images <- {OpenImage(Disks[name]) : name \in DOMAIN Disks},
    image <- OpenImage(Disks[disk]), pc <- openPc

----------------------------------------------------------------------------

\* What a disk is assumed to be.
LEMMA DiskFacts ==
    ASSUME NEW name \in DOMAIN Disks
    PROVE  LET d == Disks[name] IN
           /\ d.sys \in Seq(Chunk)
           /\ d.chunkLeaves \in Seq([block : Nat, chunks : Seq(Chunk)])
           /\ d.chunkRoot \in Nat /\ d.root \in Nat
           /\ DOMAIN d.trees \subseteq Nat \ {NoTree}
           /\ d.root \in DOMAIN d.trees
           /\ FsTreeKey \in KeysIn(d.trees[d.root])
           /\ \A b \in DOMAIN d.trees :
                /\ IsFiniteSet(KeysIn(d.trees[b]))
                /\ \A l \in d.trees[b] :
                    /\ l.block \in Nat
                    /\ \A k \in DOMAIN l.items :
                        k \in Key /\ k.offset <= MaxOffset /\ Item(k, l.items[k])
BY DisksAssumption, Zenon

\* The items of the leaves of a tree are those of one leaf or another.
LEMMA TreeItems ==
    ASSUME NEW name \in DOMAIN Disks, NEW b \in DOMAIN Disks[name].trees
    PROVE  LET items == ItemsOf(Disks[name].trees[b]) IN
           /\ DOMAIN items = KeysIn(Disks[name].trees[b])
           /\ DOMAIN items \in SUBSET Key /\ IsFiniteSet(DOMAIN items)
           /\ \A k \in DOMAIN items : k.offset <= MaxOffset /\ Item(k, items[k])
<1> DEFINE leaves == Disks[name].trees[b]
           items == ItemsOf(leaves)
<1>1. /\ IsFiniteSet(KeysIn(leaves))
      /\ \A l \in leaves : \A k \in DOMAIN l.items :
           k \in Key /\ k.offset <= MaxOffset /\ Item(k, l.items[k])
  BY DiskFacts, Zenon
<1> HIDE DEF leaves
<1>2. DOMAIN items = KeysIn(leaves)
  BY DEF ItemsOf
<1>3. ASSUME NEW k \in KeysIn(leaves)
      PROVE  k \in Key /\ k.offset <= MaxOffset /\ Item(k, items[k])
  <2>1. PICK l \in leaves : k \in DOMAIN l.items
    BY DEF KeysIn
  <2> DEFINE holder == CHOOSE m \in leaves : k \in DOMAIN m.items
  <2>2. holder \in leaves /\ k \in DOMAIN holder.items
    BY <2>1
  <2>3. items[k] = holder.items[k]
    BY DEF ItemsOf
  <2> HIDE DEF holder, items
  <2>. QED  BY <1>1, <2>2, <2>3, Zenon
<1>. QED  BY <1>1, <1>2, <1>3, Zenon DEF leaves

\* The leaf of the root tree in which an open ends.
LEMMA RootLeafFacts ==
    ASSUME NEW name \in DOMAIN Disks
    PROVE  LET d == Disks[name] IN
           /\ RootLeaf(d) \in d.trees[d.root] /\ RootLeaf(d).block \in Nat
           /\ OpenImage(d).fsRoot \in Nat \ {NoTree}
<1> DEFINE d == Disks[name]
           leaves == d.trees[d.root]
<1>1. /\ FsTreeKey \in KeysIn(leaves)
      /\ \A l \in leaves : l.block \in Nat /\ \A k \in DOMAIN l.items : Item(k, l.items[k])
  BY DiskFacts, Zenon
<1>2. RootLeaf(d) \in leaves /\ FsTreeKey \in DOMAIN RootLeaf(d).items
  BY <1>1, Zenon DEF RootLeaf, KeysIn
<1>3. Item(FsTreeKey, RootLeaf(d).items[FsTreeKey]) /\ RootLeaf(d).block \in Nat
  BY <1>1, <1>2, Zenon
<1>4. RootLeaf(d).items[FsTreeKey] \in Nat \ {NoTree}
  BY <1>3 DEF Item, FsTreeKey, INODE_ITEM, DIR_ITEM, EXTENT_DATA, ROOT_ITEM
<1>. QED  BY <1>2, <1>3, <1>4 DEF OpenImage

\* They are images as BtrfsOpenfs has them.
LEMMA ImagesAreImages == {OpenImage(Disks[name]) : name \in DOMAIN Disks} \subseteq openProofs!Image
<1> SUFFICES ASSUME NEW name \in DOMAIN Disks
             PROVE  OpenImage(Disks[name]) \in openProofs!Image
  OBVIOUS
<1> DEFINE d == Disks[name]
           path == IF RootLeaf(d).block = d.root THEN <<d.root>> ELSE <<d.root, RootLeaf(d).block>>
           fsRoot == RootLeaf(d).items[FsTreeKey]
<1>1. /\ d.sys \in Seq(Chunk)
      /\ d.chunkLeaves \in Seq([block : Nat, chunks : Seq(Chunk)])
      /\ d.chunkRoot \in Nat /\ d.root \in Nat
  BY DiskFacts, Zenon
<1>2. RootLeaf(d).block \in Nat /\ OpenImage(d).fsRoot \in Nat
  BY RootLeafFacts, Zenon
<1>3. fsRoot \in Nat
  BY <1>2 DEF OpenImage
<1>4. path \in Seq(Nat) \ {<<>>}
  BY <1>1, <1>2
<1>5. OpenImage(d) = [superblock |-> TRUE, sys |-> d.sys, chunkRoot |-> d.chunkRoot,
                      chunkLeaves |-> d.chunkLeaves, rootPath |-> path, fsRoot |-> fsRoot]
  BY DEF OpenImage
<1> HIDE DEF path, fsRoot, d
<1>6. OpenImage(d) \in openProofs!Image
  BY <1>1, <1>3, <1>4, <1>5 DEF openProofs!Image, openProofs!Chunk, Chunk
<1>. QED  BY <1>6 DEF d

\* The chunks that an open of the session reads are those of its disk, and lie apart.
LEMMA SameChunks ==
    /\ \A im : openProofs!ChunksOf(im) = opening!ChunksOf(im)
    /\ \A c, a : openProofs!Within(c, a) <=> opening!Within(c, a)
BY DEF openProofs!ChunksOf, opening!ChunksOf, openProofs!SysChunks, opening!SysChunks,
       openProofs!TreeChunks, opening!TreeChunks, openProofs!Bootstrapped, opening!Bootstrapped,
       openProofs!Within, opening!Within

\* The chunks of an image lie apart.
LEMMA ImagesChunksApart ==
    \A im \in {OpenImage(Disks[name]) : name \in DOMAIN Disks} :
        \A c, d \in openProofs!ChunksOf(im) :
            c = d \/ c.start + c.length <= d.start \/ d.start + d.length <= c.start
BY ChunksAssumption, SameChunks, Zenon

\* When an open finds the root of the root tree it finds the whole way to the root of
\* the file system tree.
LEMMA ImagesRootPaths ==
    \A im \in {OpenImage(Disks[name]) : name \in DOMAIN Disks} :
        (\E c \in openProofs!ChunksOf(im) : openProofs!Within(c, im.rootPath[1])) =>
            \A i \in DOMAIN im.rootPath :
                \E c \in openProofs!ChunksOf(im) : openProofs!Within(c, im.rootPath[i])
<1> SUFFICES ASSUME NEW name \in DOMAIN Disks,
                    NEW c \in openProofs!ChunksOf(OpenImage(Disks[name])),
                    openProofs!Within(c, OpenImage(Disks[name]).rootPath[1]),
                    NEW i \in DOMAIN OpenImage(Disks[name]).rootPath
             PROVE  \E e \in openProofs!ChunksOf(OpenImage(Disks[name])) :
                        openProofs!Within(e, OpenImage(Disks[name]).rootPath[i])
  OBVIOUS
<1> DEFINE d == Disks[name]
           path == OpenImage(d).rootPath
<1>1. path = <<d.root>> \/ path = <<d.root, RootLeaf(d).block>>
  BY DEF OpenImage
<1>2. \E e \in openProofs!ChunksOf(OpenImage(d)) : openProofs!Within(e, RootLeaf(d).block)
  <2>1. RootLeaf(d) \in d.trees[d.root] /\ d.root \in DOMAIN d.trees
    BY RootLeafFacts, DiskFacts, Zenon
  <2>. QED  BY <2>1, ChunksAssumption, SameChunks, Zenon
<1>3. path[i] = path[1] \/ path[i] = RootLeaf(d).block
  BY <1>1
<1>. QED  BY <1>2, <1>3, Zenon

----------------------------------------------------------------------------

\* The two instances have the same operators, and those of the chunk list are the
\* session's.
LEMMA SameOperators ==
    /\ \A list, a : openProofs!Resolve(list, a) = Resolve(list, a)
    /\ \A list, a : opening!Resolve(list, a) = Resolve(list, a)
    /\ \A c, at, moreAt : openProofs!NewNode(c, at, moreAt) = opening!NewNode(c, at, moreAt)
    /\ \A c : openProofs!KeepsMore(c) <=> opening!KeepsMore(c)
<1>1. ASSUME NEW list, NEW a
      PROVE  /\ openProofs!Resolve(list, a) = Resolve(list, a)
             /\ opening!Resolve(list, a) = Resolve(list, a)
  BY DEF openProofs!Resolve, opening!Resolve, Resolve,
         openProofs!FirstCovering, opening!FirstCovering, FirstCovering,
         openProofs!ResolveStripe, opening!ResolveStripe, ResolveStripe,
         openProofs!Covers, opening!Covers, Covers,
         openProofs!NullPtr, opening!NullPtr, NullPtr
<1>. QED  BY <1>1
  DEF openProofs!NewNode, opening!NewNode, openProofs!KeepsMore, opening!KeepsMore,
      openProofs!NumAdditionalStripes, opening!NumAdditionalStripes,
      openProofs!NullPtr, opening!NullPtr

\* So have the conditions and the parts of their actions.
LEMMA SameParts ==
    /\ \A c : opening!PrependNode(c) => openProofs!PrependNode(c)
    /\ \A c : opening!NodeFails(c) => openProofs!NodeFails(c)
    /\ openProofs!BlockFaults <=> opening!BlockFaults
    /\ openProofs!InLeaf <=> opening!InLeaf
    /\ openProofs!RootTreeRoot = opening!RootTreeRoot
    /\ openProofs!RootPathMapped <=> opening!RootPathMapped
<1>1. \A c : opening!PrependNode(c) => openProofs!PrependNode(c)
  BY SameOperators DEF opening!PrependNode, openProofs!PrependNode, openProofs!NullPtr, opening!NullPtr
<1>2. \A c : opening!NodeFails(c) => openProofs!NodeFails(c)
  BY SameOperators DEF opening!NodeFails, openProofs!NodeFails
<1>3. openProofs!BlockFaults <=> opening!BlockFaults
  BY SameOperators DEF opening!BlockFaults, openProofs!BlockFaults
<1>4. openProofs!InLeaf <=> opening!InLeaf
  BY <1>3, SameOperators DEF opening!InLeaf, openProofs!InLeaf, opening!LeafMapped, openProofs!LeafMapped
<1>. QED  BY <1>1, <1>2, <1>3, <1>4, SameOperators
  DEF opening!RootTreeRoot, openProofs!RootTreeRoot, opening!RootPathMapped, openProofs!RootPathMapped

\* The steps of an open and a close are those that the theorems of BtrfsOpenfs are about.
LEMMA OpeningSteps ==
    /\ opening!Step => openProofs!Step
    /\ opening!Delete => openProofs!Delete
<1>1. opening!AllocateHandle => openProofs!AllocateHandle
  BY DEF opening!AllocateHandle, openProofs!AllocateHandle
<1>2. opening!NoHandle => openProofs!NoHandle
  BY DEF opening!NoHandle, openProofs!NoHandle
<1>3. opening!FindSuperblock => openProofs!FindSuperblock
  BY DEF opening!FindSuperblock, openProofs!FindSuperblock
<1>4. opening!ReadSysChunk => openProofs!ReadSysChunk
  BY SameParts DEF opening!ReadSysChunk, openProofs!ReadSysChunk
<1>5. opening!SysChunkFails => openProofs!SysChunkFails
  BY SameParts DEF opening!SysChunkFails, openProofs!SysChunkFails
<1>6. opening!SysArrayRead => openProofs!SysArrayRead
  BY SameOperators DEF opening!SysArrayRead, openProofs!SysArrayRead
<1>7. opening!ReadChunk => openProofs!ReadChunk
  BY SameParts DEF opening!ReadChunk, openProofs!ReadChunk
<1>8. opening!ChunkFails => openProofs!ChunkFails
  BY SameParts DEF opening!ChunkFails, openProofs!ChunkFails
<1>9. opening!NextLeaf => openProofs!NextLeaf
  BY SameParts DEF opening!NextLeaf, openProofs!NextLeaf
<1>10. opening!ChunkTreeFaults => openProofs!ChunkTreeFaults
  BY SameParts DEF opening!ChunkTreeFaults, openProofs!ChunkTreeFaults
<1>11. opening!FindFsTree => openProofs!FindFsTree
  BY SameParts DEF opening!FindFsTree, openProofs!FindFsTree
<1>12. opening!NoFsTree => openProofs!NoFsTree
  BY SameParts DEF opening!NoFsTree, openProofs!NoFsTree
<1>13. opening!RootTreeFaults => openProofs!RootTreeFaults
  BY SameParts DEF opening!RootTreeFaults, openProofs!RootTreeFaults
<1>14. opening!FreeNode => openProofs!FreeNode
  BY DEF opening!FreeNode, openProofs!FreeNode, opening!NullPtr, openProofs!NullPtr
<1>15. opening!FreeHandle => openProofs!FreeHandle
  BY DEF opening!FreeHandle, openProofs!FreeHandle, opening!NullPtr, openProofs!NullPtr
<1>. QED  BY <1>1, <1>2, <1>3, <1>4, <1>5, <1>6, <1>7, <1>8,
            <1>9, <1>10, <1>11, <1>12, <1>13, <1>14, <1>15
  DEF opening!Step, openProofs!Step, opening!Delete, openProofs!Delete

\* What is known of the handle and its list, while the image is opened, while it is
\* open and when it is closed.
OpenInv == disk \in DOMAIN Disks /\ openProofs!IInv /\ openProofs!MapInv

\* It holds before the open.
LEMMA InitOpenInv == SessionInit => OpenInv
<1> SUFFICES ASSUME SessionInit PROVE OpenInv
  OBVIOUS
<1>1. openProofs!Init
  BY DEF SessionInit, openProofs!Init, NullPtr, openProofs!NullPtr
<1>2. disk \in DOMAIN Disks
  BY DEF SessionInit
<1>. QED  BY <1>1, <1>2, openProofs!InitIInv, openProofs!InitMapInv, ImagesAreImages,
             ImagesChunksApart, ImagesRootPaths, PointersAssumption DEF OpenInv

\* A step of the open and of the close keeps it.
LEMMA OpeningKeepsInv ==
    ASSUME OpenInv, opening!Step \/ opening!Delete, disk' = disk
    PROVE  OpenInv'
<1>1. openProofs!Next
  BY OpeningSteps DEF openProofs!Next
<1>2. openProofs!IInv'
  BY <1>1, openProofs!NextIInv, ImagesAreImages, ImagesChunksApart, ImagesRootPaths,
     PointersAssumption DEF OpenInv
<1>3. openProofs!MapInv'
  BY <1>1, openProofs!NextMapInv, ImagesAreImages, ImagesChunksApart, ImagesRootPaths,
     PointersAssumption DEF OpenInv
<1>. QED  BY <1>2, <1>3 DEF OpenInv

\* The calls leave it alone.
LEMMA CallsKeepOpenInv ==
    ASSUME OpenInv, UNCHANGED <<disk, openVars>>
    PROVE  OpenInv'
<1>1. UNCHANGED openProofs!vars
  BY DEF openVars, openProofs!vars
<1>2. openProofs!IInv'
  BY <1>1, openProofs!NextIInv, ImagesAreImages, ImagesChunksApart, ImagesRootPaths,
     PointersAssumption DEF OpenInv
<1>3. openProofs!MapInv'
  BY <1>1, openProofs!NextMapInv, ImagesAreImages, ImagesChunksApart, ImagesRootPaths,
     PointersAssumption DEF OpenInv
<1>. QED  BY <1>2, <1>3 DEF OpenInv

----------------------------------------------------------------------------

\* What an item is, by the type of its key.
LEMMA ItemFacts ==
    ASSUME NEW k, NEW value, Item(k, value)
    PROVE  /\ k.type = INODE_ITEM => value \in Inode
           /\ k.type = DIR_ITEM =>
                /\ value \in Seq(Entry) \ {<<>>}
                /\ \A n \in DOMAIN value : Hash[value[n].name] = k.offset
                /\ \A n \in DOMAIN value : value[n].type \in {INODE_ITEM, ROOT_ITEM} =>
                     value[n].objectid >= FIRST_FREE_OBJECTID
                /\ \A m, n \in DOMAIN value : value[m].name = value[n].name => m = n
           /\ k.type = EXTENT_DATA => value \in Extent
           /\ k.type = ROOT_ITEM => value \in Nat \ {NoTree}
<1>1. CASE k.type = INODE_ITEM
  BY <1>1 DEF Item, INODE_ITEM, DIR_ITEM, EXTENT_DATA, ROOT_ITEM
<1>2. CASE k.type = DIR_ITEM
  BY <1>2 DEF Item, INODE_ITEM, DIR_ITEM, EXTENT_DATA, ROOT_ITEM
<1>3. CASE k.type = EXTENT_DATA
  BY <1>3 DEF Item, INODE_ITEM, DIR_ITEM, EXTENT_DATA, ROOT_ITEM
<1>4. CASE k.type = ROOT_ITEM
  BY <1>4 DEF Item, INODE_ITEM, DIR_ITEM, EXTENT_DATA, ROOT_ITEM
<1>. QED  BY <1>1, <1>2, <1>3, <1>4

\* The handle of an open image sees the disk through its chunk list.
SeesDisk == openPc = "open" => image = View(Disks[disk], chunkList)

\* What it sees.
LEMMA ViewFacts ==
    ASSUME OpenInv, SeesDisk, openPc = "open"
    PROVE  /\ image.fsRoot \in Nat
           /\ DOMAIN image.roots \in SUBSET Key /\ IsFiniteSet(DOMAIN image.roots)
           /\ \A k \in DOMAIN image.roots : k.offset <= MaxOffset /\ Item(k, image.roots[k])
           /\ image.lostRoots = LostKeys(chunkList, Disks[disk].trees[Disks[disk].root])
           /\ DOMAIN image.trees \subseteq DOMAIN Disks[disk].trees
           /\ DOMAIN image.trees \subseteq Nat \ {NoTree}
           /\ \A b \in DOMAIN image.trees :
                /\ DOMAIN image.trees[b] \in SUBSET Key /\ IsFiniteSet(DOMAIN image.trees[b])
                /\ \A k \in DOMAIN image.trees[b] :
                     k.offset <= MaxOffset /\ Item(k, image.trees[b][k])
                /\ image.lost[b] = LostKeys(chunkList, Disks[disk].trees[b])
<1> DEFINE d == Disks[disk]
           mapped == {b \in DOMAIN d.trees : IsMapped(chunkList, b)}
<1>1. disk \in DOMAIN Disks
  BY DEF OpenInv
<1>2. /\ image.fsRoot = OpenImage(d).fsRoot
      /\ image.roots = ItemsOf(d.trees[d.root])
      /\ image.lostRoots = LostKeys(chunkList, d.trees[d.root])
      /\ image.trees = [b \in mapped |-> ItemsOf(d.trees[b])]
      /\ image.lost = [b \in mapped |-> LostKeys(chunkList, d.trees[b])]
  BY DEF SeesDisk, View
<1>3. image.fsRoot \in Nat
  BY <1>1, <1>2, RootLeafFacts, Zenon
<1>4. d.root \in DOMAIN d.trees /\ DOMAIN d.trees \subseteq Nat \ {NoTree}
  BY <1>1, DiskFacts, Zenon
<1> HIDE DEF d
<1>5. /\ DOMAIN image.roots \in SUBSET Key /\ IsFiniteSet(DOMAIN image.roots)
      /\ \A k \in DOMAIN image.roots : k.offset <= MaxOffset /\ Item(k, image.roots[k])
  BY <1>1, <1>2, <1>4, TreeItems, Zenon DEF d
<1>6. DOMAIN image.trees = mapped /\ mapped \subseteq DOMAIN d.trees
  BY <1>2
<1>7. ASSUME NEW b \in mapped
      PROVE  /\ DOMAIN image.trees[b] \in SUBSET Key /\ IsFiniteSet(DOMAIN image.trees[b])
             /\ \A k \in DOMAIN image.trees[b] :
                  k.offset <= MaxOffset /\ Item(k, image.trees[b][k])
             /\ image.lost[b] = LostKeys(chunkList, d.trees[b])
  <2>1. image.trees[b] = ItemsOf(d.trees[b]) /\ image.lost[b] = LostKeys(chunkList, d.trees[b])
    BY <1>2
  <2>2. b \in DOMAIN d.trees
    BY <1>6
  <2> HIDE DEF mapped
  <2>. QED  BY <1>1, <2>1, <2>2, TreeItems, Zenon DEF d
<1>8. mapped \subseteq Nat \ {NoTree}
  BY <1>4
<1> HIDE DEF mapped
<1>. QED  BY <1>2, <1>3, <1>5, <1>6, <1>7, <1>8, Zenon DEF d

----------------------------------------------------------------------------

\* A chunk was left out, or lost its second stripe.
LostChunks == outOfMemory \/ \E i \in DOMAIN chunkList : chunkList[i].numStripes = 2

\* The list is one of nodes.
LEMMA ListType == OpenInv => chunkList \in Seq(Node)
<1>1. openProofs!Node = Node
  BY DEF openProofs!Node, Node, openProofs!NullPtr, NullPtr
<1>. QED  BY <1>1 DEF OpenInv, openProofs!IInv, openProofs!TypeOK

\* Only an address in a chunk of two stripes is looked for in an array that was not
\* allocated.
LEMMA FaultsInTwoStripes ==
    ASSUME OpenInv, NEW a \in Nat, Resolve(chunkList, a) = Fault
    PROVE  \E i \in DOMAIN chunkList : chunkList[i].numStripes = 2
<1> DEFINE chunks == openProofs!ChunksOf(OpenImage(Disks[disk]))
<1>1. chunks \subseteq openProofs!Chunk
  BY openProofs!ImageFacts, ImagesAreImages, ImagesChunksApart, ImagesRootPaths,
     PointersAssumption DEF OpenInv, openProofs!IInv
<1>2. openProofs!MadeOf(chunkList, chunks)
  BY DEF OpenInv, openProofs!MapInv, openProofs!NothingElse
<1>3. chunkList \in Seq(openProofs!Node)
  BY DEF OpenInv, openProofs!IInv, openProofs!TypeOK
<1>4. openProofs!Resolve(chunkList, a) = Fault
  BY SameOperators
<1> HIDE DEF chunks
<1>. QED  BY <1>1, <1>2, <1>3, <1>4, openProofs!ResolveResult, ImagesAreImages,
             ImagesChunksApart, ImagesRootPaths, PointersAssumption

\* An open image of which no chunk was left out has all leaves of its trees.
LEMMA LeavesAreMapped ==
    ASSUME OpenInv, openPc = "open", ~ LostChunks,
           NEW b \in DOMAIN Disks[disk].trees, NEW l \in Disks[disk].trees[b]
    PROVE  IsMapped(chunkList, l.block)
<1> DEFINE chunks == openProofs!ChunksOf(OpenImage(Disks[disk]))
<1>0. disk \in DOMAIN Disks /\ l.block \in Nat
  BY DiskFacts, Zenon DEF OpenInv
<1>1. chunks \subseteq openProofs!Chunk
  BY openProofs!ImageFacts, ImagesAreImages, ImagesChunksApart, ImagesRootPaths,
     PointersAssumption DEF OpenInv, openProofs!IInv
<1>2. openProofs!MadeOf(chunkList, chunks)
  BY DEF OpenInv, openProofs!MapInv, openProofs!NothingElse
<1>3. chunkList \in Seq(openProofs!Node)
  BY DEF OpenInv, openProofs!IInv, openProofs!TypeOK
<1>4. \A c \in chunks : openProofs!KeptIn(chunkList, c)
  BY openProofs!EverythingKept, ImagesAreImages, ImagesChunksApart, ImagesRootPaths,
     PointersAssumption DEF OpenInv, LostChunks
<1>5. \E c \in chunks : openProofs!Within(c, l.block)
  BY <1>0, ChunksAssumption, SameChunks, Zenon
<1> HIDE DEF chunks
<1>6. openProofs!Resolve(chunkList, l.block) /= Unmapped
  <2>1. \E i \in DOMAIN chunkList : openProofs!Covers(chunkList[i], l.block)
    BY <1>0, <1>1, <1>2, <1>3, <1>4, <1>5, openProofs!UnmappedIsOutside,
       ImagesAreImages, ImagesChunksApart, ImagesRootPaths, PointersAssumption
  <2>. QED  BY <1>0, <1>1, <1>2, <1>3, <2>1, openProofs!ResolveResult,
                ImagesAreImages, ImagesChunksApart, ImagesRootPaths, PointersAssumption
<1>7. Resolve(chunkList, l.block) /= Fault
  BY <1>0, FaultsInTwoStripes DEF LostChunks
<1>. QED  BY <1>6, <1>7, SameOperators DEF IsMapped

\* So nothing of its trees is lost.
LEMMA NothingIsLost ==
    ASSUME OpenInv, SeesDisk, openPc = "open", ~ LostChunks
    PROVE  image.lostRoots = {} /\ \A b : LostOf(image, b) = {}
<1>1. \A b \in DOMAIN Disks[disk].trees : LostKeys(chunkList, Disks[disk].trees[b]) = {}
  BY LeavesAreMapped DEF LostKeys, KeysIn
<1>2. Disks[disk].root \in DOMAIN Disks[disk].trees
  BY DiskFacts, Zenon DEF OpenInv
<1>. QED  BY <1>1, <1>2, ViewFacts, Zenon DEF LostOf

----------------------------------------------------------------------------
(***************************************************************************)
(* The inductive invariant of a call.  What the properties do not say is   *)
(* what the walk knows at each of its places: the search in FindHash has   *)
(* shown that the item with the hash is there and can be read, and the     *)
(* entry it enters is the first of that item and has the name.             *)
(***************************************************************************)
NameIsThere == NameKey \in KeysOf(image, fsTree) \ LostOf(image, fsTree)

AtPc ==
    /\ pc /= "idle" => openPc = "open" /\ call \in Calls
    /\ pc = "idle" =>
        /\ call = NoCall /\ walked = 0 /\ fsTree = NoTree
        /\ objectid = FIRST_FREE_OBJECTID /\ located = 0
    /\ pc = "start" =>
        /\ walked = 0 /\ located = 0
        /\ fsTree = image.fsRoot /\ objectid = FIRST_FREE_OBJECTID
    /\ pc \in {"find", "scan", "enter"} => call.slash /\ located = 0 /\ walked < Len(call.path)
    /\ pc \in {"scan", "enter"} => NameIsThere
    /\ pc = "enter" => entry = image.trees[fsTree][NameKey][1] /\ entry.name = Name
    /\ pc = "located" =>
        call.slash /\ IF located = 0 THEN walked = Len(call.path) ELSE walked < Len(call.path)

\* What a read in the session adds: the walk has reached a file, it asks for what the
\* call asks for, it looks for an extent of the file, and it stops for good only where
\* chunks are lost or a subvolume has no root item.
AtRead ==
    /\ pc = "read" =>
        /\ located = 0
        /\ call.op \in {"read", "readlink"}
        /\ request = [file |-> objectid, length |-> call.length,
                      offset |-> IF call.op = "read" THEN call.offset ELSE 0]
        /\ key \in Key /\ offset \in Nat /\ bytesRead \in 0 .. call.length
        /\ readRet \in {ENOENT, EINVAL} \cup Nat
        /\ readPc = "loop" => key.objectid = objectid /\ key.type = EXTENT_DATA
        /\ readPc = "crash" => LostChunks
        /\ readPc = "astray" => ~ Intact(image)

\* On an image with a root item for every subvolume the walk is in a tree of files, at
\* an object that may be a file: nothing it looks for there is below the first key.
InFsTree ==
    pc /= "idle" /\ Intact(image) =>
        fsTree \in FsTrees(image) /\ objectid >= FIRST_FREE_OBJECTID

IInv ==
    /\ OpenInv /\ SeesDisk /\ SessionTypeOK /\ AtPc /\ AtRead /\ InFsTree
    /\ FaultsNeedLostChunks

----------------------------------------------------------------------------

\* The walk begins at nothing.
LEMMA InitIInv == SessionInit => IInv
<1> SUFFICES ASSUME SessionInit PROVE IInv
  OBVIOUS
<1>1. OpenInv
  BY InitOpenInv
<1>2. openPc = "start" /\ pc = "idle"
  BY DEF SessionInit
<1>3. SessionTypeOK
  BY <1>2 DEF SessionInit, SessionTypeOK, NoTree, FIRST_FREE_OBJECTID
<1>4. AtPc /\ AtRead /\ InFsTree
  BY <1>2 DEF SessionInit, AtPc, AtRead, InFsTree
<1>. QED  BY <1>1, <1>2, <1>3, <1>4 DEF IInv, SeesDisk, FaultsNeedLostChunks

\* A step of the open is not one of an open image, and a close is.
LEMMA OpeningAt ==
    /\ opening!Step => openPc /= "open"
    /\ opening!Delete => openPc' = "delete"
BY DEF opening!Step, opening!Delete, opening!AllocateHandle, opening!NoHandle,
       opening!FindSuperblock, opening!ReadSysChunk, opening!SysChunkFails,
       opening!SysArrayRead, opening!InLeaf, opening!ReadChunk, opening!ChunkFails,
       opening!NextLeaf, opening!ChunkTreeFaults, opening!FindFsTree, opening!NoFsTree,
       opening!RootTreeFaults, opening!FreeNode, opening!FreeHandle

\* The open and the close keep the invariant of the calls, which are not under way.
LEMMA OpeningKeeps ==
    ASSUME IInv, Opening \/ Close
    PROVE  IInv'
<1>1. OpenInv'
  BY OpeningKeepsInv DEF IInv, Opening, Close
<1>2. /\ UNCHANGED <<disk, call, walked, fsTree, objectid, entry, located, stat, ret, pc>>
      /\ UNCHANGED readVars
  BY DEF Opening, Close
<1>3. pc = "idle"
  BY OpeningAt DEF IInv, AtPc, Opening, Close
<1>4. SeesDisk'
  BY <1>2, OpeningAt DEF Opening, Close, SeesDisk
<1>5. SessionTypeOK'
  BY <1>2, <1>3, <1>4 DEF IInv, SessionTypeOK, SeesDisk, readVars
<1>6. AtPc' /\ AtRead' /\ InFsTree' /\ FaultsNeedLostChunks'
  BY <1>2, <1>3 DEF IInv, AtPc, AtRead, InFsTree, FaultsNeedLostChunks
<1>. QED  BY <1>1, <1>4, <1>5, <1>6 DEF IInv

\* What is known of a call while it runs.
LEMMA CallFacts ==
    ASSUME IInv, pc /= "idle"
    PROVE  /\ openPc = "open" /\ call \in Calls /\ call /= NoCall
           /\ call.op \in Ops /\ call.path \in Seq(Names)
           /\ Len(call.path) \in Nat
           /\ walked \in Nat /\ walked <= Len(call.path)
           /\ fsTree \in Nat \cup {Elsewhere} /\ objectid \in Nat
BY CallsAssumption, ReadCallsAssumption DEF IInv, AtPc, SessionTypeOK

\* The name that comes next, and its key.
LEMMA NameFacts ==
    ASSUME IInv, pc \in {"find", "scan", "enter"}
    PROVE  /\ Name \in Names /\ Hash[Name] \in Nat /\ NameKey \in Key
           /\ walked + 1 \in 1 .. Len(call.path)
<1>1. walked < Len(call.path) /\ pc /= "idle"
  BY DEF IInv, AtPc
<1>2. walked + 1 \in 1 .. Len(call.path) /\ call.path \in Seq(Names)
  BY <1>1, CallFacts
<1>3. Name \in Names
  BY <1>2 DEF Name
<1>. QED  BY <1>1, <1>2, <1>3, CallFacts, HashAssumption DEF NameKey, Key, DIR_ITEM

\* The keys of a tree of the open image, and its entries.
LEMMA TreeFacts ==
    ASSUME OpenInv, SeesDisk, openPc = "open", NEW b
    PROVE  /\ KeysOf(image, b) \in SUBSET Key /\ IsFiniteSet(KeysOf(image, b))
           /\ \A k \in KeysOf(image, b) :
                b \in DOMAIN image.trees /\ k.offset <= MaxOffset /\ Item(k, image.trees[b][k])
<1>1. CASE b \in DOMAIN image.trees
  BY <1>1, ViewFacts, Zenon DEF KeysOf
<1>2. CASE b \notin DOMAIN image.trees
  BY <1>2, FS_EmptySet DEF KeysOf
<1>. QED  BY <1>1, <1>2, Zenon

\* The entries in an item of a directory.
LEMMA EntryFacts ==
    ASSUME OpenInv, SeesDisk, openPc = "open", NEW b, NEW k \in KeysOf(image, b),
           k.type = DIR_ITEM
    PROVE  LET entries == image.trees[b][k] IN
           /\ entries \in Seq(Entry) /\ 1 \in DOMAIN entries /\ entries[1] \in Entry
           /\ \A n \in DOMAIN entries : entries[n] \in Entry /\ Hash[entries[n].name] = k.offset
           /\ \A n \in DOMAIN entries : entries[n].type \in {INODE_ITEM, ROOT_ITEM} =>
                entries[n].objectid >= FIRST_FREE_OBJECTID
           /\ \A m, n \in DOMAIN entries : entries[m].name = entries[n].name => m = n
<1> DEFINE entries == image.trees[b][k]
<1>1. Item(k, entries)
  BY TreeFacts, Zenon
<1> HIDE DEF entries
<1>2. /\ entries \in Seq(Entry) \ {<<>>}
      /\ \A n \in DOMAIN entries : Hash[entries[n].name] = k.offset
      /\ \A n \in DOMAIN entries : entries[n].type \in {INODE_ITEM, ROOT_ITEM} =>
           entries[n].objectid >= FIRST_FREE_OBJECTID
      /\ \A m, n \in DOMAIN entries : entries[m].name = entries[n].name => m = n
  BY <1>1, ItemFacts, Zenon
<1>3. 1 \in DOMAIN entries /\ \A n \in DOMAIN entries : entries[n] \in Entry
  BY <1>2
<1>. QED  BY <1>2, <1>3, Zenon DEF entries

\* A search finds the greatest key not above the one it looks for, so the key itself,
\* when the tree has it.
LEMMA SearchEnds ==
    ASSUME NEW keys \in SUBSET Key, IsFiniteSet(keys), NEW k \in Key, SearchFinds(keys, k)
    PROVE  /\ Nearest(keys, k) \in keys
           /\ KeyLeq(Nearest(keys, k), k)
           /\ \A l \in keys : KeyLeq(l, k) => KeyLeq(l, Nearest(keys, k))
<1> DEFINE below == NotAbove(keys, k)
<1>1. below \in SUBSET Key /\ below \subseteq keys /\ below /= {}
  BY DEF SearchFinds, NotAbove
<1>2. IsFiniteSet(below)
  BY <1>1, FS_Subset
<1>3. \E m \in below : \A l \in below : KeyLeq(l, m)
  BY <1>1, <1>2, GreatestKey
<1>4. Nearest(keys, k) \in below /\ \A l \in below : KeyLeq(l, Nearest(keys, k))
  BY <1>3 DEF Nearest
<1>. QED  BY <1>4 DEF NotAbove

\* A key that a search finds without a fault is not in a leaf that is lost.
LEMMA SearchHits ==
    ASSUME NEW keys \in SUBSET Key, IsFiniteSet(keys), NEW k \in keys, NEW lost,
           ~ SearchFaults(keys, lost, k)
    PROVE  k \notin lost
<1>1. SearchFinds(keys, k)
  BY LeqOrder DEF SearchFinds, NotAbove
<1>2. Nearest(keys, k) \in keys /\ KeyLeq(Nearest(keys, k), k) /\ KeyLeq(k, Nearest(keys, k))
  BY <1>1, SearchEnds, LeqOrder
<1>3. Nearest(keys, k) = k
  BY <1>2, LeqOrder
<1>. QED  BY <1>1, <1>3 DEF SearchFaults

\* A search of a tree faults only where chunks are lost.
LEMMA TreeFaultsAreLost ==
    ASSUME IInv, openPc = "open"
    PROVE  /\ \A k : TreeFaults(k) => LostChunks
           /\ \A o : RootsFault(o) => LostChunks
BY NothingIsLost DEF IInv, TreeFaults, RootsFault, SearchFaults

\* The handle sees a part of what is on the disk.
LEMMA ViewInFull ==
    ASSUME OpenInv, SeesDisk, openPc = "open"
    PROVE  LET full == FullView(Disks[disk]) IN
           /\ image.roots = full.roots /\ image.fsRoot = full.fsRoot
           /\ DOMAIN image.trees \subseteq DOMAIN full.trees
           /\ \A b \in DOMAIN image.trees : image.trees[b] = full.trees[b]
           /\ image.inner = full.inner \cap DOMAIN image.trees
<1> DEFINE d == Disks[disk]
           mapped == {b \in DOMAIN d.trees : IsMapped(chunkList, b)}
<1>1. /\ image.fsRoot = OpenImage(d).fsRoot /\ image.roots = ItemsOf(d.trees[d.root])
      /\ image.trees = [b \in mapped |-> ItemsOf(d.trees[b])]
      /\ image.inner = InnerTrees(d) \cap mapped
  BY DEF SeesDisk, View
<1>2. /\ FullView(d).fsRoot = OpenImage(d).fsRoot
      /\ FullView(d).roots = ItemsOf(d.trees[d.root])
      /\ FullView(d).trees = [b \in DOMAIN d.trees |-> ItemsOf(d.trees[b])]
      /\ FullView(d).inner = InnerTrees(d)
  BY DEF FullView
<1>3. mapped \subseteq DOMAIN d.trees
  OBVIOUS
<1> HIDE DEF mapped, d
<1>. QED  BY <1>1, <1>2, <1>3 DEF d

\* Its trees of files are trees of files of the disk.
LEMMA FsTreesInFull ==
    ASSUME OpenInv, SeesDisk, openPc = "open"
    PROVE  /\ FsTrees(image) \subseteq FsTrees(FullView(Disks[disk]))
           /\ FsTrees(image) \subseteq Nat
<1> DEFINE full == FullView(Disks[disk])
<1>1. /\ image.roots = full.roots /\ image.fsRoot = full.fsRoot
      /\ DOMAIN image.trees \subseteq DOMAIN full.trees
      /\ \A b \in DOMAIN image.trees : image.trees[b] = full.trees[b]
  BY ViewInFull, Zenon
<1> HIDE DEF full
<1>2. ASSUME NEW o, HasEntry(image, o) PROVE HasEntry(full, o)
  <2>1. PICK b \in DOMAIN image.trees : \E k \in DOMAIN image.trees[b] :
          k.type = DIR_ITEM /\ \E n \in DOMAIN image.trees[b][k] :
            image.trees[b][k][n].type = ROOT_ITEM /\ image.trees[b][k][n].objectid = o
    BY <1>2, Zenon DEF HasEntry
  <2>2. b \in DOMAIN full.trees /\ image.trees[b] = full.trees[b]
    BY <1>1
  <2>3. \E k \in DOMAIN full.trees[b] :
          k.type = DIR_ITEM /\ \E n \in DOMAIN full.trees[b][k] :
            full.trees[b][k][n].type = ROOT_ITEM /\ full.trees[b][k][n].objectid = o
    BY <2>1, <2>2
  <2>. QED  BY <2>2, <2>3, Zenon DEF HasEntry
<1>3. FsTrees(image) \subseteq FsTrees(full)
  <2> SUFFICES ASSUME NEW b \in FsTrees(image), b /= image.fsRoot PROVE b \in FsTrees(full)
    BY <1>1, Zenon DEF FsTrees
  <2>1. PICK k \in DOMAIN image.roots :
            b = image.roots[k] /\ k.type = ROOT_ITEM /\ HasEntry(image, k.objectid)
    BY Zenon DEF FsTrees
  <2>2. HasEntry(full, k.objectid)
    BY <1>2, <2>1
  <2>3. k \in DOMAIN full.roots /\ b = full.roots[k]
    BY <1>1, <2>1
  <2>. QED  BY <2>1, <2>2, <2>3, Zenon DEF FsTrees
<1>4. ASSUME NEW b \in FsTrees(image)
      PROVE  b \in Nat
  <2>1. /\ image.fsRoot \in Nat
        /\ \A k \in DOMAIN image.roots : Item(k, image.roots[k])
    BY ViewFacts, Zenon
  <2>2. CASE b = image.fsRoot
    BY <2>1, <2>2
  <2>3. CASE b /= image.fsRoot
    <3>1. PICK k \in DOMAIN image.roots : b = image.roots[k] /\ k.type = ROOT_ITEM
      BY <2>3, Zenon DEF FsTrees
    <3>2. b \in Nat \ {NoTree}
      BY <2>1, <3>1, ItemFacts, Zenon
    <3>. QED  BY <3>2
  <2>. QED  BY <2>2, <2>3
<1>. QED  BY <1>3, <1>4, Zenon DEF full

\* What is looked for in a tree of files is not below its first key.
LEMMA NotBelowFirst ==
    ASSUME OpenInv, SeesDisk, openPc = "open", NEW b \in FsTrees(image),
           NEW k \in Key, KeyLeq(RootDirKey, k)
    PROVE  ~ SearchStrays(KeysOf(image, b), IsInner(image, b), k)
<1> DEFINE full == FullView(Disks[disk])
<1> SUFFICES ASSUME IsInner(image, b) PROVE SearchFinds(KeysOf(image, b), k)
  BY DEF SearchStrays
<1>1. b \in FsTrees(full) /\ b \in Nat
  BY FsTreesInFull, Zenon
<1>2. b /= Elsewhere
  BY <1>1 DEF Elsewhere
<1>3. b \in image.inner
  BY <1>2 DEF IsInner
<1>4. /\ b \in full.inner /\ b \in DOMAIN image.trees /\ b \in DOMAIN full.trees
      /\ image.trees[b] = full.trees[b]
  <2>1. /\ image.inner = full.inner \cap DOMAIN image.trees
        /\ DOMAIN image.trees \subseteq DOMAIN full.trees
        /\ \A c \in DOMAIN image.trees : image.trees[c] = full.trees[c]
    BY ViewInFull, Zenon
  <2>. QED  BY <1>3, <2>1, Zenon
<1>5. KeysOf(image, b) = KeysOf(full, b)
  BY <1>4, Zenon DEF KeysOf
<1>6. PICK first \in KeysOf(full, b) : KeyLeq(first, RootDirKey)
  <2>1. disk \in DOMAIN Disks
    BY DEF OpenInv
  <2>. QED  BY <1>1, <1>4, <2>1, RangeAssumption, Zenon
<1>7. KeysOf(image, b) \in SUBSET Key
  BY TreeFacts, Zenon
<1>8. KeyLeq(first, k)
  <2>1. first \in Key /\ RootDirKey \in Key
    BY <1>5, <1>6, <1>7 DEF RootDirKey, Key, FIRST_FREE_OBJECTID, INODE_ITEM
  <2>. QED  BY <1>6, <2>1, LeqOrder
<1>. QED  BY <1>5, <1>6, <1>8 DEF SearchFinds, NotAbove

\* So a search goes astray only where a subvolume has no root item.
LEMMA StraysAreBroken ==
    ASSUME IInv, pc /= "idle", NEW k \in Key,
           k.objectid = objectid, k.type >= INODE_ITEM, TreeStrays(k)
    PROVE  ~ Intact(image)
<1> SUFFICES ASSUME Intact(image) PROVE FALSE
  OBVIOUS
<1>1. openPc = "open" /\ fsTree \in FsTrees(image) /\ objectid >= FIRST_FREE_OBJECTID
  BY CallFacts DEF IInv, InFsTree
<1>2. KeyLeq(RootDirKey, k)
  BY <1>1 DEF KeyLeq, KeyLess, RootDirKey, Key, FIRST_FREE_OBJECTID, INODE_ITEM
<1>. QED  BY <1>1, <1>2, NotBelowFirst DEF IInv, TreeStrays

\* A step of a call leaves the disk, the handle and what it sees alone.
LEMMA CallsKeepImage ==
    ASSUME IInv, UNCHANGED <<disk, openVars, image>>
    PROVE  OpenInv' /\ SeesDisk' /\ (LostChunks' <=> LostChunks) /\ openPc' = openPc
<1>1. OpenInv'
  BY CallsKeepOpenInv DEF IInv
<1>. QED  BY <1>1 DEF IInv, SeesDisk, LostChunks, openVars

\* A step that stays where the walk is stays in a tree of files.
LEMMA StaysInFsTree ==
    ASSUME IInv, pc /= "idle", UNCHANGED <<image, fsTree, objectid>>
    PROVE  InFsTree'
BY DEF IInv, InFsTree

\* A call starts at the root directory.
LEMMA CallKeeps ==
    ASSUME IInv, Call
    PROVE  IInv'
<1>1. OpenInv' /\ SeesDisk' /\ openPc' = "open" /\ image' = image /\ image.fsRoot \in Nat
  BY CallsKeepImage, ViewFacts DEF IInv, Call
<1>2. /\ pc = "idle" /\ pc' = "start" /\ call' \in Calls /\ fsTree' = image.fsRoot
      /\ UNCHANGED <<walked, objectid, entry, located, stat, ret, readVars>>
  BY DEF Call
<1>3. SessionTypeOK' /\ AtPc'
  <2>1. /\ call = NoCall /\ walked = 0 /\ objectid = FIRST_FREE_OBJECTID /\ located = 0
        /\ entry \in Entry \cup {NoEntry} /\ ret \in {ENOENT, EINVAL, ENOMEM} \cup Nat
        /\ readPc \in {"loop", "done", "crash", "astray"}
    BY <1>2 DEF IInv, AtPc, SessionTypeOK
  <2>2. call' /= NoCall /\ call'.path \in Seq(Names)
    BY <1>2, CallsAssumption, ReadCallsAssumption
  <2>3. Len(call'.path) >= 0
    BY <2>2
  <2>4. walked' = 0 /\ fsTree' \in Nat /\ objectid' \in Nat /\ located' = 0 /\ readPc' = readPc
    BY <1>1, <1>2, <2>1 DEF FIRST_FREE_OBJECTID, readVars
  <2>5. SessionTypeOK'
    BY <1>1, <1>2, <2>1, <2>2, <2>3, <2>4 DEF SessionTypeOK
  <2>6. AtPc'
    BY <1>1, <1>2, <2>1, <2>4 DEF AtPc
  <2>. QED  BY <2>5, <2>6
<1>4. AtRead' /\ FaultsNeedLostChunks'
  BY <1>2 DEF AtRead, FaultsNeedLostChunks
<1>5. InFsTree'
  <2>1. objectid = FIRST_FREE_OBJECTID
    BY <1>2 DEF IInv, AtPc
  <2>. QED  BY <1>1, <1>2, <2>1 DEF InFsTree, FsTrees, FIRST_FREE_OBJECTID
<1>. QED  BY <1>1, <1>3, <1>4, <1>5 DEF IInv

\* What a step of the walk and a return leave as it was.
LEMMA WalkFrame ==
    ASSUME IInv, pc /= "idle", UNCHANGED <<disk, openVars, image, call>>,
           pc' \notin {"idle", "read"},
           walked' \in Nat, walked' <= Len(call.path),
           fsTree' \in Nat \cup {Elsewhere}, objectid' \in Nat,
           entry' \in Entry \cup {NoEntry}, located' \in {0, ENOENT, EIO},
           ret' \in {ENOENT, EINVAL, ENOMEM} \cup Nat,
           readPc' \in {"loop", "done", "crash", "astray"},
           pc' \in {"find", "scan", "enter", "located", "done", "crash", "astray"},
           pc' = "crash" => LostChunks, pc' = "astray" => ~ Intact(image)
    PROVE  OpenInv' /\ SeesDisk' /\ SessionTypeOK' /\ AtRead' /\ FaultsNeedLostChunks'
<1>1. OpenInv' /\ SeesDisk' /\ openPc' = openPc /\ (LostChunks' <=> LostChunks)
  BY CallsKeepImage
<1>2. call \in Calls /\ call /= NoCall
  BY CallFacts
<1>3. SessionTypeOK'
  BY <1>1, <1>2 DEF SessionTypeOK
<1>. QED  BY <1>1, <1>3 DEF AtRead, FaultsNeedLostChunks, LostChunks

\* The first steps of the walk.
LEMMA StartKeeps ==
    ASSUME IInv, Walk, Start
    PROVE  IInv'
<1>1. /\ pc = "start" /\ pc' \in {"done", "located", "find"}
      /\ UNCHANGED <<disk, openVars, readVars, image, call, walked, fsTree, objectid, entry,
                     located, stat>>
      /\ ret' = EINVAL \/ ret' = ret
      /\ pc' /= "done" => call.slash
      /\ pc' = "located" => call.path = <<>>
      /\ pc' = "find" => call.path /= <<>>
  BY DEF Walk, Start
<1>2. /\ entry \in Entry \cup {NoEntry} /\ located \in {0, ENOENT, EIO}
      /\ ret \in {ENOENT, EINVAL, ENOMEM} \cup Nat /\ readPc \in {"loop", "done", "crash", "astray"}
      /\ walked = 0 /\ located = 0
  BY <1>1 DEF IInv, SessionTypeOK, AtPc
<1>3. OpenInv' /\ SeesDisk' /\ SessionTypeOK' /\ AtRead' /\ FaultsNeedLostChunks'
  <2>1. UNCHANGED <<disk, openVars, image, call>> /\ readPc' = readPc
    BY <1>1 DEF readVars
  <2>. QED  BY <1>1, <1>2, <2>1, CallFacts, WalkFrame
<1>4. AtPc'
  <2>1. openPc' = "open" /\ call' \in Calls /\ call'.path \in Seq(Names)
    BY <1>1, CallFacts DEF openVars
  <2>2. pc' = "located" => Len(call'.path) = 0
    BY <1>1, <2>1
  <2>3. pc' = "find" => Len(call'.path) > 0
    BY <1>1, <2>1
  <2>. QED  BY <1>1, <1>2, <2>1, <2>2, <2>3 DEF AtPc
<1>. QED  BY <1>1, <1>3, <1>4, StaysInFsTree DEF IInv

\* The search for the hash, when it ends in a leaf that is mapped.
LEMMA FindHashKeeps ==
    ASSUME IInv, Walk, FindHash
    PROVE  IInv'
<1>1. /\ pc = "find" /\ pc' \in {"scan", "located"} /\ ~ TreeFaults(NameKey)
      /\ UNCHANGED <<disk, openVars, readVars, image, call, walked, fsTree, objectid, stat, ret>>
      /\ entry' = NoEntry
      /\ pc' = "scan" => NameKey \in KeysOf(image, fsTree) /\ located' = located
      /\ pc' = "located" => located' = ENOENT
  BY DEF Walk, FindHash
<1>2. /\ ret \in {ENOENT, EINVAL, ENOMEM} \cup Nat /\ readPc \in {"loop", "done", "crash", "astray"}
      /\ walked < Len(call.path) /\ located = 0 /\ call.slash
  BY <1>1 DEF IInv, SessionTypeOK, AtPc
<1>3. OpenInv' /\ SeesDisk' /\ SessionTypeOK' /\ AtRead' /\ FaultsNeedLostChunks'
  <2>1. UNCHANGED <<disk, openVars, image, call>> /\ readPc' = readPc
    BY <1>1 DEF readVars
  <2>. QED  BY <1>1, <1>2, <2>1, CallFacts, WalkFrame
<1>4. pc' = "scan" => NameIsThere'
  <2> SUFFICES ASSUME pc' = "scan"
               PROVE  NameKey \in KeysOf(image, fsTree) \ LostOf(image, fsTree)
    BY <1>1 DEF NameIsThere, NameKey, Name, KeysOf, LostOf
  <2>1. KeysOf(image, fsTree) \in SUBSET Key /\ IsFiniteSet(KeysOf(image, fsTree))
    BY <1>1, CallFacts, TreeFacts, Zenon DEF IInv
  <2>2. ~ SearchFaults(KeysOf(image, fsTree), LostOf(image, fsTree), NameKey)
    BY <1>1 DEF TreeFaults
  <2>. QED  BY <1>1, <2>1, <2>2, SearchHits
<1>5. AtPc'
  BY <1>1, <1>2, <1>4, CallFacts DEF AtPc, openVars, ENOENT
<1>. QED  BY <1>1, <1>3, <1>5, StaysInFsTree DEF IInv

\* A key is what its three parts are, so the only item of a directory with the hash
\* of a name is that with the key of the name.
LEMMA KeyIsItsParts ==
    ASSUME NEW k \in Key, NEW o, NEW t, NEW f,
           k.objectid = o, k.type = t, k.offset = f
    PROVE  k = [objectid |-> o, type |-> t, offset |-> f]
BY DEF Key

\* The traversal accepts the item of the name only, and only for its first entry.
LEMMA AcceptedFacts ==
    ASSUME IInv, pc = "scan"
    PROVE  /\ \A k \in Accepted : k = NameKey
           /\ Accepted /= {} <=> image.trees[fsTree][NameKey][1].name = Name
           /\ image.trees[fsTree][NameKey][1] \in Entry
<1>1. openPc = "open" /\ NameKey \in KeysOf(image, fsTree) \ LostOf(image, fsTree)
  BY DEF IInv, AtPc, NameIsThere
<1>2. KeysOf(image, fsTree) \in SUBSET Key
  BY <1>1, TreeFacts, Zenon DEF IInv
<1>3. NameKey.type = DIR_ITEM /\ NameKey.objectid = objectid /\ NameKey.offset = Hash[Name]
  BY DEF NameKey
<1>4. image.trees[fsTree][NameKey][1] \in Entry
  BY <1>1, <1>3, EntryFacts, Zenon DEF IInv
<1>5. ASSUME NEW k \in Accepted
      PROVE  k = NameKey /\ image.trees[fsTree][k][1].name = Name
  <2>1. /\ k \in KeysOf(image, fsTree)
        /\ k.type = DIR_ITEM /\ k.objectid = objectid /\ k.offset = Hash[Name]
        /\ image.trees[fsTree][k][1].name = Name
    BY Zenon DEF Accepted, HandlerAccepts
  <2>2. k = NameKey
    BY <1>2, <2>1, KeyIsItsParts DEF NameKey
  <2>. QED  BY <2>1, <2>2
<1>6. image.trees[fsTree][NameKey][1].name = Name => NameKey \in Accepted
  BY <1>1, <1>3, Zenon DEF Accepted, HandlerAccepts
<1>. QED  BY <1>4, <1>5, <1>6, Zenon

\* The traversal for the name.
LEMMA ScanTreeKeeps ==
    ASSUME IInv, Walk, ScanTree
    PROVE  IInv'
<1>1. /\ pc = "scan" /\ pc' \in {"enter", "located"}
      /\ UNCHANGED <<disk, openVars, readVars, image, call, walked, fsTree, objectid, stat, ret>>
      /\ pc' = "located" => located' = ENOENT /\ entry' = entry
      /\ pc' = "enter" => located' = located /\ \E k \in Accepted : entry' = image.trees[fsTree][k][1]
  BY DEF Walk, ScanTree
<1>2. /\ ret \in {ENOENT, EINVAL, ENOMEM} \cup Nat /\ readPc \in {"loop", "done", "crash", "astray"}
      /\ entry \in Entry \cup {NoEntry}
      /\ walked < Len(call.path) /\ located = 0 /\ call.slash /\ NameIsThere
  BY <1>1 DEF IInv, SessionTypeOK, AtPc
<1>3. pc' = "enter" =>
        /\ entry' = image.trees[fsTree][NameKey][1] /\ entry' \in Entry
        /\ entry'.name = Name
  BY <1>1, AcceptedFacts, Zenon
<1>4. OpenInv' /\ SeesDisk' /\ SessionTypeOK' /\ AtRead' /\ FaultsNeedLostChunks'
  <2>1. UNCHANGED <<disk, openVars, image, call>> /\ readPc' = readPc
    BY <1>1 DEF readVars
  <2>2. entry' \in Entry \cup {NoEntry} /\ located' \in {0, ENOENT, EIO}
    BY <1>1, <1>2, <1>3
  <2>. QED  BY <1>1, <1>2, <2>1, <2>2, CallFacts, WalkFrame
<1>5. AtPc'
  <2>1. NameIsThere' /\ Name' = Name /\ NameKey' = NameKey
    BY <1>1, <1>2 DEF NameIsThere, NameKey, Name, KeysOf, LostOf
  <2>2. pc' = "enter" => entry' = (image.trees[fsTree][NameKey][1])' /\ entry'.name = Name'
    BY <1>1, <1>3, <2>1
  <2>. QED  BY <1>1, <1>2, <2>1, <2>2, CallFacts DEF AtPc, openVars, ENOENT
<1>. QED  BY <1>1, <1>4, <1>5, StaysInFsTree DEF IInv

\* The address of a root is one of a tree, or Elsewhere, whatever the item is that is
\* taken for one.
LEMMA TreeRootsType ==
    ASSUME IInv, openPc = "open", NEW subvolume \in Nat
    PROVE  /\ RootQuery(subvolume) \in Key
           /\ TreeRoots(subvolume) \subseteq Nat \cup {Elsewhere}
<1> DEFINE query == RootQuery(subvolume)
           found == Nearest(DOMAIN image.roots, query)
<1>1. query \in Key
  BY DEF RootQuery, Key, ROOT_ITEM, MaxOffset
<1>2. /\ DOMAIN image.roots \in SUBSET Key /\ IsFiniteSet(DOMAIN image.roots)
      /\ \A k \in DOMAIN image.roots : Item(k, image.roots[k])
      /\ DOMAIN image.trees \subseteq Nat
  BY ViewFacts DEF IInv
<1>3. ASSUME SearchFinds(DOMAIN image.roots, query), found.type = ROOT_ITEM
      PROVE  image.roots[found] \in Nat
  <2>1. found \in DOMAIN image.roots
    BY <1>1, <1>2, <1>3, SearchEnds
  <2> HIDE DEF found
  <2>2. image.roots[found] \in Nat \ {NoTree}
    BY <1>2, <1>3, <2>1, ItemFacts, Zenon
  <2>. QED  BY <2>2
<1> HIDE DEF query
<1>4. TreeRoots(subvolume) \subseteq Nat \cup {Elsewhere}
  BY <1>2, <1>3 DEF TreeRoots, NoTree, query
<1>. QED  BY <1>1, <1>4 DEF query

\* The root item of a subvolume that the search of btrfs_low_find_tree_root ends at is
\* the one with the greatest offset, when there is one.
LEMMA RootsAgree ==
    ASSUME IInv, openPc = "open", NEW subvolume \in Nat, RootItems(image, subvolume) /= {}
    PROVE  /\ TreeRoots(subvolume) =
                {image.roots[CHOOSE k \in RootItems(image, subvolume) :
                               \A l \in RootItems(image, subvolume) : l.offset <= k.offset]}
           /\ \E k \in RootItems(image, subvolume) : TreeRoots(subvolume) = {image.roots[k]}
<1> DEFINE keys == DOMAIN image.roots
           items == RootItems(image, subvolume)
           query == RootQuery(subvolume)
           found == Nearest(keys, query)
           greatest == CHOOSE k \in items : \A l \in items : l.offset <= k.offset
<1>1. /\ keys \in SUBSET Key /\ IsFiniteSet(keys)
      /\ \A k \in keys : k.offset <= MaxOffset
  BY ViewFacts, Zenon DEF IInv
<1>2. /\ query \in Key /\ query.objectid = subvolume /\ query.type = ROOT_ITEM
      /\ query.offset = MaxOffset
  BY TreeRootsType DEF RootQuery
<1>3. /\ items \subseteq keys /\ items \in SUBSET Key /\ items /= {}
      /\ \A k \in items : k.type = ROOT_ITEM /\ k.objectid = subvolume
      /\ \A k \in keys : k.type = ROOT_ITEM /\ k.objectid = subvolume => k \in items
  BY <1>1 DEF RootItems
<1>4. TreeRoots(subvolume) = IF ~ SearchFinds(keys, query) THEN {NoTree}
                             ELSE IF found.type = ROOT_ITEM THEN {image.roots[found]}
                             ELSE DOMAIN image.trees \cup {NoTree, Elsewhere}
  BY DEF TreeRoots
<1> HIDE DEF keys, items, query
<1>5. PICK top \in items : \A l \in items : l.offset <= top.offset
  <2> DEFINE offsets == {k.offset : k \in items}
  <2>1. \A k \in items : k.offset \in Nat /\ k.offset <= MaxOffset
    BY <1>1, <1>3 DEF Key
  <2>2. offsets \in SUBSET Nat /\ offsets /= {} /\ \A o \in offsets : o <= MaxOffset
    BY <1>3, <2>1
  <2>3. MaxOffset \in Nat
    BY DEF MaxOffset
  <2>4. PICK o \in offsets : \A p \in offsets : p <= o
    BY <2>2, <2>3, GreatestNat
  <2>. QED  BY <2>4
<1>6. greatest \in items /\ \A l \in items : l.offset <= greatest.offset
  BY <1>5
<1> HIDE DEF greatest
<1>7. \A k \in items : KeyLeq(k, query)
  BY <1>1, <1>2, <1>3 DEF Key, KeyLeq, KeyLess
<1>8. SearchFinds(keys, query)
  BY <1>3, <1>6, <1>7 DEF SearchFinds, NotAbove
<1>9. /\ found \in keys /\ KeyLeq(found, query)
      /\ \A l \in keys : KeyLeq(l, query) => KeyLeq(l, found)
  BY <1>1, <1>2, <1>8, SearchEnds
<1> HIDE DEF found
<1>10. KeyLeq(greatest, found) /\ greatest \in Key /\ found \in Key
  BY <1>1, <1>3, <1>6, <1>7, <1>9
<1>11. found.objectid = subvolume /\ found.type = ROOT_ITEM
  BY <1>2, <1>3, <1>6, <1>9, <1>10 DEF Key, KeyLeq, KeyLess, ROOT_ITEM
<1>12. found = greatest
  <2>1. found \in items
    BY <1>3, <1>9, <1>11
  <2>2. found.offset <= greatest.offset
    BY <1>6, <2>1
  <2>3. greatest.objectid = found.objectid /\ greatest.type = found.type
    BY <1>3, <1>6, <1>11
  <2>. QED  BY <1>10, <2>2, <2>3 DEF Key, KeyLeq, KeyLess
<1>13. TreeRoots(subvolume) = {image.roots[greatest]}
  BY <1>4, <1>8, <1>11, <1>12
<1>. QED  BY <1>6, <1>13 DEF greatest, items

\* The steps into what an entry names.
LEMMA EnterKeeps ==
    ASSUME IInv, Walk, EnterInode \/ EnterSubvolume
    PROVE  IInv'
<1>1. /\ pc = "enter" /\ NextName
      /\ UNCHANGED <<disk, openVars, readVars, image, call, entry, located, stat, ret>>
      /\ entry.type \in {INODE_ITEM, ROOT_ITEM}
      /\ entry.type = INODE_ITEM => objectid' = entry.objectid /\ fsTree' = fsTree
      /\ entry.type = ROOT_ITEM =>
            objectid' = FIRST_FREE_OBJECTID /\ fsTree' \in TreeRoots(entry.objectid)
  BY DEF Walk, EnterInode, EnterSubvolume, INODE_ITEM, ROOT_ITEM
<1>2. /\ ret \in {ENOENT, EINVAL, ENOMEM} \cup Nat /\ readPc \in {"loop", "done", "crash", "astray"}
      /\ entry \in Entry \cup {NoEntry}
      /\ walked < Len(call.path) /\ located = 0 /\ call.slash /\ NameIsThere
      /\ entry = image.trees[fsTree][NameKey][1] /\ openPc = "open"
  BY <1>1 DEF IInv, SessionTypeOK, AtPc
<1>3. /\ entry \in Entry /\ entry.objectid >= FIRST_FREE_OBJECTID
      /\ NameKey.type = DIR_ITEM /\ NameKey \in KeysOf(image, fsTree)
      /\ 1 \in DOMAIN image.trees[fsTree][NameKey]
  <2>1. NameKey.type = DIR_ITEM /\ NameKey \in KeysOf(image, fsTree)
    BY <1>2 DEF NameKey, NameIsThere
  <2>. QED  BY <1>1, <1>2, <2>1, EntryFacts, Zenon DEF IInv
<1>4. fsTree' \in Nat \cup {Elsewhere} /\ objectid' \in Nat
  <2>1. entry.objectid \in Nat /\ entry.type \in Nat
    BY <1>3 DEF Entry
  <2>. QED  BY <1>1, <1>2, <2>1, CallFacts, TreeRootsType DEF FIRST_FREE_OBJECTID
<1>5. /\ walked' = walked + 1 /\ walked' \in Nat /\ walked' <= Len(call.path)
      /\ pc' = IF walked' = Len(call.path) THEN "located" ELSE "find"
  BY <1>1, <1>2, CallFacts DEF NextName
<1>6. OpenInv' /\ SeesDisk' /\ SessionTypeOK' /\ AtRead' /\ FaultsNeedLostChunks'
  <2>1. UNCHANGED <<disk, openVars, image, call>> /\ readPc' = readPc
    BY <1>1 DEF readVars
  <2>. QED  BY <1>1, <1>2, <1>4, <1>5, <2>1, WalkFrame
<1>7. AtPc'
  <2>1. openPc' = "open" /\ call' = call /\ call \in Calls /\ located' = 0 /\ Len(call.path) \in Nat
    BY <1>1, <1>2, CallFacts DEF openVars
  <2>. QED  BY <1>2, <1>5, <2>1 DEF AtPc
<1>8. InFsTree'
  <2> SUFFICES ASSUME Intact(image)
               PROVE  fsTree' \in FsTrees(image) /\ objectid' >= FIRST_FREE_OBJECTID
    BY <1>1 DEF InFsTree
  <2>1. CASE entry.type = INODE_ITEM
    BY <1>1, <1>3, <2>1 DEF IInv, InFsTree
  <2>2. CASE entry.type = ROOT_ITEM
    <3>1. /\ fsTree \in DOMAIN image.trees /\ NameKey \in DOMAIN image.trees[fsTree]
          /\ entry.objectid \in Nat
      BY <1>3 DEF KeysOf, Entry
    <3>2. RootItems(image, entry.objectid) /= {}
      BY <1>2, <1>3, <2>2, <3>1, Zenon DEF Intact
    <3>3. PICK k \in RootItems(image, entry.objectid) : TreeRoots(entry.objectid) = {image.roots[k]}
      BY <1>2, <3>1, <3>2, RootsAgree
    <3>4. /\ k \in DOMAIN image.roots /\ fsTree' = image.roots[k]
          /\ k.type = ROOT_ITEM /\ k.objectid = entry.objectid
      BY <1>1, <2>2, <3>3 DEF RootItems
    <3>5. HasEntry(image, entry.objectid)
      BY <1>2, <1>3, <2>2, <3>1, Zenon DEF HasEntry
    <3>6. fsTree' \in FsTrees(image)
      BY <3>4, <3>5 DEF FsTrees
    <3>. QED  BY <1>1, <2>2, <3>6 DEF FIRST_FREE_OBJECTID
  <2>. QED  BY <1>1, <2>1, <2>2
<1>. QED  BY <1>6, <1>7, <1>8 DEF IInv

\* The ends of the walk.
LEMMA WalkEndKeeps ==
    ASSUME IInv, Walk,
           EnterOther \/ NotFound \/ Exists \/ StatInode \/ WalkFaults \/ WalkStrays
    PROVE  IInv'
<1>1. /\ pc \in {"find", "enter", "located"} /\ pc' \in {"located", "done", "crash", "astray"}
      /\ UNCHANGED <<disk, openVars, readVars, image, call, walked, fsTree, objectid, entry>>
      /\ pc' = "located" => pc = "enter" /\ located' = EIO
      /\ pc' /= "located" => located' = located
      /\ ret' \in {ret, ENOENT, 0}
      /\ pc' = "crash" => LostChunks
      /\ pc' = "astray" => ~ Intact(image)
  <2>1. openPc = "open"
    BY CallFacts DEF Walk, EnterOther, NotFound, Exists, StatInode, WalkFaults, WalkStrays
  <2>2. /\ pc \in {"find", "enter", "located"} /\ pc' \in {"located", "done", "crash", "astray"}
        /\ UNCHANGED <<disk, openVars, readVars, image, call, walked, fsTree, objectid, entry>>
        /\ pc' = "located" => pc = "enter" /\ located' = EIO
        /\ pc' /= "located" => located' = located
        /\ ret' \in {ret, ENOENT, 0}
    BY Zenon DEF Walk, EnterOther, NotFound, Exists, StatInode, WalkFaults, WalkStrays
  <2>3. /\ pc' = "crash" => TreeFaults(NameKey) \/ RootsFault(entry.objectid) \/ TreeFaults(InodeKey)
        /\ pc' = "astray" => (pc = "find" /\ TreeStrays(NameKey)) \/ TreeStrays(InodeKey)
    BY DEF Walk, EnterOther, NotFound, Exists, StatInode, WalkFaults, WalkStrays
  <2>4. pc' = "crash" => LostChunks
    BY <2>1, <2>3, TreeFaultsAreLost, Zenon
  <2>5. pc' = "astray" => ~ Intact(image)
    <3>1. pc /= "idle" /\ objectid \in Nat
      BY <2>2, CallFacts
    <3>2. /\ InodeKey \in Key /\ InodeKey.objectid = objectid /\ InodeKey.type >= INODE_ITEM
          /\ NameKey.objectid = objectid /\ NameKey.type >= INODE_ITEM
          /\ pc = "find" => NameKey \in Key
      BY <3>1, NameFacts DEF InodeKey, NameKey, Key, INODE_ITEM, DIR_ITEM
    <3>. QED  BY <2>3, <3>1, <3>2, StraysAreBroken
  <2>. QED  BY <2>2, <2>4, <2>5, Zenon
<1>2. /\ ret \in {ENOENT, EINVAL, ENOMEM} \cup Nat /\ readPc \in {"loop", "done", "crash", "astray"}
      /\ entry \in Entry \cup {NoEntry} /\ located \in {0, ENOENT, EIO}
      /\ pc = "enter" => call.slash /\ walked < Len(call.path)
  BY <1>1 DEF IInv, SessionTypeOK, AtPc
<1>3. OpenInv' /\ SeesDisk' /\ SessionTypeOK' /\ AtRead' /\ FaultsNeedLostChunks'
  <2>1. UNCHANGED <<disk, openVars, image, call>> /\ readPc' = readPc
    BY <1>1 DEF readVars
  <2>2. located' \in {0, ENOENT, EIO} /\ ret' \in {ENOENT, EINVAL, ENOMEM} \cup Nat
    BY <1>1, <1>2
  <2>. QED  BY <1>1, <1>2, <2>1, <2>2, CallFacts, WalkFrame
<1>4. AtPc'
  <2>1. openPc' = "open" /\ call' = call /\ call \in Calls /\ walked' = walked
    BY <1>1, CallFacts DEF openVars
  <2>2. EIO /= 0
    BY DEF EIO
  <2>. QED  BY <1>1, <1>2, <2>1, <2>2 DEF AtPc
<1>. QED  BY <1>1, <1>3, <1>4, StaysInFsTree DEF IInv

\* Every step of the walk keeps the invariant.
LEMMA WalkKeeps ==
    ASSUME IInv, Walk
    PROVE  IInv'
BY StartKeeps, FindHashKeeps, ScanTreeKeeps, EnterKeeps, WalkEndKeeps DEF Walk, Step

----------------------------------------------------------------------------

\* A listing ends its call, and goes astray only where there is no tree.
LEMMA ListDirKeeps ==
    ASSUME IInv, ListDir \/ ListStrays
    PROVE  IInv'
<1>1. /\ pc = "located" /\ pc' \in {"done", "astray"} /\ ret' \in {ret, 0, ENOMEM}
      /\ UNCHANGED <<disk, openVars, readVars, image, call, walked, fsTree, objectid, entry, located>>
      /\ pc' = "astray" => fsTree = Elsewhere
  BY DEF ListDir, ListStrays, Located
<1>2. /\ readPc \in {"loop", "done", "crash", "astray"}
      /\ entry \in Entry \cup {NoEntry} /\ located \in {0, ENOENT, EIO}
      /\ ret' \in {ENOENT, EINVAL, ENOMEM} \cup Nat
      /\ pc' = "astray" => ~ Intact(image)
  <2>1. Intact(image) => fsTree \in Nat
    BY <1>1, CallFacts, FsTreesInFull DEF IInv, InFsTree
  <2>2. Elsewhere \notin Nat
    BY DEF Elsewhere
  <2>. QED  BY <1>1, <2>1, <2>2 DEF IInv, SessionTypeOK
<1>3. OpenInv' /\ SeesDisk' /\ SessionTypeOK' /\ AtRead' /\ FaultsNeedLostChunks'
  <2>1. UNCHANGED <<disk, openVars, image, call>> /\ readPc' = readPc
    BY <1>1 DEF readVars
  <2>. QED  BY <1>1, <1>2, <2>1, CallFacts, WalkFrame
<1>4. AtPc'
  BY <1>1, CallFacts DEF AtPc, openVars
<1>. QED  BY <1>1, <1>3, <1>4, StaysInFsTree DEF IInv

\* A read asks for no more than an int can count.
LEMMA ReadCall ==
    ASSUME NEW c \in Calls, c.op \in {"read", "readlink"}
    PROVE  c.offset \in Nat /\ c.length \in 0 .. IntLimit - 1 /\ c.length \in Nat
BY ReadCallsAssumption, IntLimitAssumption

\* It starts at the file that was located.
LEMMA StartReadKeeps ==
    ASSUME IInv, StartRead
    PROVE  IInv'
<1>1. /\ pc = "located" /\ pc' = "read" /\ located = 0 /\ call.op \in {"read", "readlink"}
      /\ UNCHANGED <<disk, openVars, image, call, walked, fsTree, objectid, entry, located, ret>>
      /\ request' = [file |-> objectid, length |-> call.length,
                     offset |-> IF call.op = "read" THEN call.offset ELSE 0]
      /\ key' = [objectid |-> objectid, type |-> EXTENT_DATA, offset |-> 0]
      /\ offset' = IF call.op = "read" THEN call.offset ELSE 0
      /\ bytesRead' = 0 /\ readRet' = 0 /\ readPc' = "loop"
  BY DEF StartRead, Located
<1>2. /\ openPc = "open" /\ call \in Calls /\ call /= NoCall /\ objectid \in Nat
      /\ call.offset \in Nat /\ call.length \in Nat
  BY <1>1, CallFacts, ReadCall
<1>3. OpenInv' /\ SeesDisk' /\ openPc' = "open"
  BY <1>1, <1>2, CallsKeepImage
<1>4. SessionTypeOK'
  BY <1>1, <1>2, <1>3 DEF IInv, SessionTypeOK
<1>5. AtPc'
  BY <1>1, <1>2, <1>3 DEF AtPc
<1>6. AtRead' /\ FaultsNeedLostChunks'
  BY <1>1, <1>2 DEF AtRead, FaultsNeedLostChunks, Key, EXTENT_DATA
<1>. QED  BY <1>1, <1>3, <1>4, <1>5, <1>6, StaysInFsTree DEF IInv

\* What a step of the read does to the session.
LEMMA ReadingFrame ==
    ASSUME IInv, Reading, pc = "read",
           key' \in Key, offset' \in Nat, bytesRead' \in 0 .. call.length,
           readRet' \in {ENOENT, EINVAL} \cup Nat, request' = request,
           readPc' \in {"loop", "done", "crash", "astray"}, readPc' = "crash" => LostChunks,
           readPc' = "loop" => key'.objectid = objectid /\ key'.type = EXTENT_DATA,
           readPc' = "astray" => ~ Intact(image)
    PROVE  IInv'
<1>1. UNCHANGED <<disk, openVars, image, call, walked, fsTree, objectid, entry, located, stat, ret, pc>>
  BY DEF Reading, vars
<1>2. OpenInv' /\ SeesDisk' /\ openPc' = openPc /\ (LostChunks' <=> LostChunks)
  BY <1>1, CallsKeepImage
<1>3. SessionTypeOK'
  BY <1>1, <1>2 DEF IInv, SessionTypeOK
<1>4. AtPc'
  BY <1>1, <1>2 DEF IInv, AtPc
<1>5. AtRead' /\ FaultsNeedLostChunks'
  BY <1>1, <1>2 DEF IInv, AtRead, FaultsNeedLostChunks
<1>. QED  BY <1>1, <1>2, <1>3, <1>4, <1>5, StaysInFsTree DEF IInv

\* A count of bytes that fits into an int stays what it is.
LEMMA CountFits ==
    ASSUME NEW n \in Nat, n < IntLimit
    PROVE  reading!ToInt(n) = n
BY IntLimitAssumption DEF reading!ToInt

\* The copy of an extent gives at most what is asked for, wherever in it it starts.
LEMMA CopiedBounds ==
    ASSUME NEW extent \in Extent, NEW length \in Nat, NEW from \in Int
    PROVE  reading!Copied(extent, length, from) \in 0 .. length
BY DEF reading!Copied, Extent

\* What a read knows in its loop, of the tree of its file and of its search.
LEMMA ReadFacts ==
    ASSUME IInv, pc = "read"
    PROVE  /\ openPc = "open" /\ call \in Calls
           /\ call.length \in Nat /\ call.length < IntLimit
           /\ request.length = call.length
           /\ key \in Key /\ offset \in Nat /\ bytesRead \in 0 .. call.length
           /\ readRet \in {ENOENT, EINVAL} \cup Nat
           /\ reading!Query \in Key /\ reading!KeyAfter \in Key
           /\ reading!FindsExtent =>
                /\ reading!Found \in Key /\ reading!Found.type = EXTENT_DATA
                /\ reading!Found.objectid = objectid /\ reading!KeyAfter = reading!Found
                /\ reading!Found \in KeysOf(image, fsTree)
                /\ image.trees[fsTree][reading!Found] \in Extent
<1>1. /\ openPc = "open" /\ call \in Calls /\ call.op \in {"read", "readlink"}
      /\ request.length = call.length
      /\ key \in Key /\ offset \in Nat /\ bytesRead \in 0 .. call.length
      /\ readRet \in {ENOENT, EINVAL} \cup Nat
  BY DEF IInv, AtPc, AtRead
<1>2. call.length \in Nat /\ call.length < IntLimit
  BY <1>1, ReadCall, IntLimitAssumption
<1>3. reading!Query \in Key
  BY <1>1 DEF reading!Query, Key
<1> DEFINE keys == KeysOf(image, fsTree)
<1>4. /\ keys \in SUBSET Key /\ IsFiniteSet(keys)
      /\ \A k \in keys : Item(k, image.trees[fsTree][k])
  BY <1>1, TreeFacts, Zenon DEF IInv
<1>5. /\ reading!Finds <=> SearchFinds(keys, reading!Query)
      /\ reading!Found = Nearest(keys, reading!Query)
  BY DEF reading!Finds, reading!Found, reading!SearchFinds, reading!Nearest, reading!NotAbove,
         SearchFinds, Nearest, NotAbove, reading!KeyLeq, KeyLeq, reading!KeyLess, KeyLess, KeysOf
<1> HIDE DEF keys
<1>6. reading!Finds => reading!Found \in keys
  BY <1>3, <1>4, <1>5, SearchEnds
<1>7. reading!KeyAfter \in Key
  BY <1>3, <1>4, <1>6 DEF reading!KeyAfter
<1>8. ASSUME reading!FindsExtent
      PROVE  /\ reading!Found \in keys /\ reading!Found.type = EXTENT_DATA
             /\ reading!Found.objectid = objectid /\ reading!KeyAfter = reading!Found
             /\ image.trees[fsTree][reading!Found] \in Extent
  <2>1. /\ reading!Found \in keys /\ reading!Found.type = EXTENT_DATA
        /\ reading!Found.objectid = objectid /\ reading!KeyAfter = reading!Found
    <3>1. request.file = objectid
      BY DEF IInv, AtRead
    <3>. QED  BY <1>6, <1>8, <3>1
         DEF reading!FindsExtent, reading!KeyAfter, reading!EXTENT_DATA, EXTENT_DATA
  <2>. QED  BY <1>4, <2>1, ItemFacts, Zenon
<1>. QED  BY <1>1, <1>2, <1>3, <1>4, <1>7, <1>8 DEF keys

\* A read faults only where chunks are lost: in a search, or at an extent.
LEMMA ReadFaultsAreLost ==
    ASSUME IInv, pc = "read", reading!ResolveFaults \/ reading!SearchFaultsInLeaf
    PROVE  LostChunks
<1>1. CASE reading!SearchFaultsInLeaf
  <2> SUFFICES ASSUME ~ LostChunks PROVE FALSE
    OBVIOUS
  <2>1. LostOf(image, fsTree) = {}
    BY ReadFacts, NothingIsLost, Zenon DEF IInv
  <2>. QED  BY <1>1, <2>1 DEF reading!SearchFaultsInLeaf, reading!LeafIsLost, reading!SearchFaults
<1>2. CASE reading!ResolveFaults
  <2> DEFINE extent == image.trees[fsTree][reading!Found]
  <2>1. /\ reading!FindsExtent
        /\ reading!Source(IF fsTree \in DOMAIN image.trees
                          THEN image.trees[fsTree][reading!Found] ELSE <<>>[reading!Found]) = Fault
    BY <1>2 DEF reading!ResolveFaults
  <2>2. extent \in Extent /\ fsTree \in DOMAIN image.trees
    BY <2>1, ReadFacts DEF KeysOf
  <2>3. reading!Source(extent) = Fault
    BY <2>1, <2>2
  <2> HIDE DEF extent
  <2>4. extent.diskBytenr \in Nat /\ extent.inlineAt \in Nat
    BY <2>2 DEF Extent
  <2>5. reading!Resolve(chunkList, extent.diskBytenr) = Resolve(chunkList, extent.diskBytenr)
    BY DEF reading!Resolve, Resolve, reading!FirstCovering, FirstCovering,
           reading!ResolveStripe, ResolveStripe, reading!Covers, Covers, reading!NullPtr, NullPtr
  <2>6. Resolve(chunkList, extent.diskBytenr) = Fault
    BY <2>3, <2>4, <2>5, PointersAssumption DEF reading!Source
  <2>. QED  BY <2>4, <2>6, FaultsInTwoStripes DEF IInv, LostChunks
<1>. QED  BY <1>1, <1>2

\* And it goes astray only where a subvolume has no root item.
LEMMA ReadStraysAreBroken ==
    ASSUME IInv, pc = "read", reading!SearchGoesAstray
    PROVE  ~ Intact(image)
<1>1. readPc = "loop" /\ reading!OutOfRange
  BY DEF reading!SearchGoesAstray, reading!InLoop
<1>2. key.objectid = objectid /\ key.type = EXTENT_DATA
  BY <1>1 DEF IInv, AtRead
<1>3. /\ reading!Query \in Key /\ reading!Query.objectid = objectid
      /\ reading!Query.type >= INODE_ITEM
  <2>1. key \in Key /\ reading!Query \in Key
    BY ReadFacts
  <2>. QED  BY <1>2, <2>1 DEF reading!Query, Key, EXTENT_DATA, INODE_ITEM
<1>4. TreeStrays(reading!Query)
  BY <1>1 DEF reading!OutOfRange, TreeStrays, reading!SearchStrays, SearchStrays,
              reading!SearchFinds, SearchFinds, reading!NotAbove, NotAbove,
              reading!KeyLeq, KeyLeq, reading!KeyLess, KeyLess, KeysOf
<1>. QED  BY <1>3, <1>4, StraysAreBroken

\* A copy goes on by what it has copied.
LEMMA CopyKeeps ==
    ASSUME IInv, Reading, reading!CopyExtent
    PROVE  IInv'
<1> DEFINE extent == (IF fsTree \in DOMAIN image.trees
                      THEN image.trees[fsTree] ELSE <<>>)[reading!Found]
           from == offset - reading!Found.offset
           count == reading!Copied(extent, request.length - bytesRead, from)
<1>1. /\ pc = "read" /\ reading!FindsExtent /\ key' = reading!KeyAfter /\ request' = request
      /\ readPc = "loop"
      /\ IF reading!GoesOn(reading!ToInt(count))
         THEN /\ offset' = offset + reading!ToInt(count)
              /\ bytesRead' = bytesRead + reading!ToInt(count)
              /\ UNCHANGED <<readRet, readPc>>
         ELSE /\ readRet' = IF reading!ToInt(count) < 0 THEN reading!ToInt(count)
                            ELSE reading!ToInt(bytesRead)
              /\ readPc' = "done" /\ UNCHANGED <<offset, bytesRead>>
  BY DEF Reading, reading!CopyExtent, reading!Searched, reading!InLoop
<1>2. extent \in Extent
  BY <1>1, ReadFacts DEF KeysOf
<1> HIDE DEF extent
<1>3. from \in Int
  BY <1>1, ReadFacts DEF Key
<1> HIDE DEF from
<1>4. request.length - bytesRead \in Nat /\ bytesRead \in Nat /\ bytesRead < IntLimit
  BY <1>1, ReadFacts, IntLimitAssumption
<1>5. count \in 0 .. request.length - bytesRead
  BY <1>2, <1>3, <1>4, CopiedBounds, Zenon
<1> HIDE DEF count
<1>6. count \in Nat /\ count < IntLimit
  BY <1>1, <1>4, <1>5, ReadFacts, IntLimitAssumption
<1>7. reading!ToInt(count) = count /\ reading!ToInt(bytesRead) = bytesRead
  BY <1>4, <1>6, CountFits
<1>8. /\ key' \in Key /\ offset' \in Nat /\ bytesRead' \in 0 .. call.length
      /\ readRet' \in {ENOENT, EINVAL} \cup Nat /\ readPc' \in {"loop", "done"}
      /\ key'.objectid = objectid /\ key'.type = EXTENT_DATA
  BY <1>1, <1>4, <1>5, <1>6, <1>7, ReadFacts
<1>. QED  BY <1>1, <1>8, ReadingFrame

\* Every step of the read keeps the invariant.
LEMMA ReadingKeeps ==
    ASSUME IInv, Reading
    PROVE  IInv'
<1>1. pc = "read" /\ readPc \in {"loop", "done", "crash", "astray"}
  BY DEF IInv, SessionTypeOK, Reading
<1>2. CASE reading!NoExtent \/ reading!UnknownExtent
  <2>1. /\ UNCHANGED <<request, offset, bytesRead>> /\ key' = reading!KeyAfter
        /\ readRet' \in {ENOENT, EINVAL} /\ readPc' = "done"
    BY <1>2 DEF reading!NoExtent, reading!UnknownExtent, reading!Searched,
                reading!ENOENT, reading!EINVAL, ENOENT, EINVAL
  <2>. QED  BY <1>1, <2>1, ReadFacts, ReadingFrame
<1>3. CASE reading!ResolveFaults \/ reading!SearchFaultsInLeaf
  <2>1. /\ UNCHANGED <<request, offset, bytesRead, readRet>> /\ key' \in {key, reading!KeyAfter}
        /\ readPc' = "crash"
    BY <1>3 DEF reading!ResolveFaults, reading!SearchFaultsInLeaf, reading!Searched
  <2>2. LostChunks
    BY <1>1, <1>3, ReadFaultsAreLost
  <2>. QED  BY <1>1, <2>1, <2>2, ReadFacts, ReadingFrame
<1>4. CASE reading!ReturnAll
  <2>1. /\ UNCHANGED <<request, key, offset, bytesRead>> /\ readRet' = reading!ToInt(bytesRead)
        /\ readPc' = "done"
    BY <1>4 DEF reading!ReturnAll
  <2>2. bytesRead \in Nat /\ bytesRead < IntLimit
    BY <1>1, ReadFacts, IntLimitAssumption
  <2>3. readRet' \in Nat
    BY <2>1, <2>2, CountFits
  <2>. QED  BY <1>1, <2>1, <2>3, ReadFacts, ReadingFrame
<1>5. CASE reading!SearchGoesAstray
  <2>1. UNCHANGED <<request, key, offset, bytesRead, readRet>> /\ readPc' = "astray"
    BY <1>5 DEF reading!SearchGoesAstray
  <2>2. ~ Intact(image)
    BY <1>1, <1>5, ReadStraysAreBroken
  <2>. QED  BY <1>1, <2>1, <2>2, ReadFacts, ReadingFrame
<1>. QED  BY <1>2, <1>3, <1>4, <1>5, CopyKeeps DEF Reading, reading!Step

\* The end of a read, and of a call.
LEMMA ReadEndKeeps ==
    ASSUME IInv, ReadReturns \/ ReadlinkReturns \/ ReadFaults
    PROVE  IInv'
<1>1. /\ pc = "read" /\ pc' \in {"done", "crash", "astray"}
      /\ UNCHANGED <<disk, openVars, image, call, walked, fsTree, objectid, entry, located, readPc>>
      /\ ret' \in {ret, readRet, 0}
      /\ pc' \in {"crash", "astray"} => readPc = pc'
  BY DEF ReadReturns, ReadlinkReturns, ReadFaults, readVars
<1>2. /\ entry \in Entry \cup {NoEntry} /\ located \in {0, ENOENT, EIO}
      /\ ret \in {ENOENT, EINVAL, ENOMEM} \cup Nat /\ readRet \in {ENOENT, EINVAL} \cup Nat
      /\ readPc \in {"loop", "done", "crash", "astray"}
      /\ readPc = "crash" => LostChunks
      /\ readPc = "astray" => ~ Intact(image)
  BY <1>1 DEF IInv, SessionTypeOK, AtRead
<1>3. OpenInv' /\ SeesDisk' /\ SessionTypeOK' /\ AtRead' /\ FaultsNeedLostChunks'
  <2>1. ret' \in {ENOENT, EINVAL, ENOMEM} \cup Nat
    BY <1>1, <1>2
  <2>. QED  BY <1>1, <1>2, <2>1, CallFacts, WalkFrame
<1>4. AtPc'
  BY <1>1, CallFacts DEF AtPc, openVars
<1>. QED  BY <1>1, <1>3, <1>4, StaysInFsTree DEF IInv

\* Nothing of a call stays when it has returned.
LEMMA ReturnKeeps ==
    ASSUME IInv, Return
    PROVE  IInv'
<1>1. /\ pc = "done" /\ pc' = "idle" /\ call' = NoCall
      /\ UNCHANGED <<disk, openVars, image>>
      /\ walked' = 0 /\ fsTree' = NoTree /\ objectid' = FIRST_FREE_OBJECTID
      /\ entry' = NoEntry /\ located' = 0 /\ ret' = 0 /\ readPc' = "done"
  BY DEF Return
<1>2. OpenInv' /\ SeesDisk' /\ openPc' = openPc
  BY <1>1, CallsKeepImage
<1>3. SessionTypeOK'
  BY <1>1, <1>2 DEF SessionTypeOK, SeesDisk, NoTree, FIRST_FREE_OBJECTID
<1>. QED  BY <1>1, <1>2, <1>3 DEF IInv, AtPc, AtRead, InFsTree, FaultsNeedLostChunks

\* A step that changes nothing.
LEMMA StutterKeeps ==
    ASSUME IInv, UNCHANGED sessionVars
    PROVE  IInv'
<1>1. /\ UNCHANGED <<disk, openVars, image, call, walked, fsTree, objectid, entry, located, stat, ret, pc>>
      /\ UNCHANGED readVars
  BY DEF sessionVars, vars
<1>2. OpenInv' /\ SeesDisk' /\ openPc' = openPc /\ (LostChunks' <=> LostChunks)
  BY <1>1, CallsKeepImage
<1>3. SessionTypeOK'
  BY <1>1, <1>2 DEF IInv, SessionTypeOK, SeesDisk, readVars
<1>4. AtPc'
  BY <1>1, <1>2 DEF IInv, AtPc, NameIsThere, NameKey, Name, KeysOf, LostOf
<1>5. AtRead' /\ InFsTree' /\ FaultsNeedLostChunks'
  BY <1>1, <1>2 DEF IInv, AtRead, InFsTree, FaultsNeedLostChunks, LostChunks, readVars
<1>. QED  BY <1>2, <1>3, <1>4, <1>5 DEF IInv

\* Every step of the session keeps the invariant.
LEMMA NextIInv == IInv /\ [SessionNext]_sessionVars => IInv'
BY OpeningKeeps, CallKeeps, WalkKeeps, ListDirKeeps, StartReadKeeps, ReadingKeeps,
   ReadEndKeeps, ReturnKeeps, StutterKeeps
DEF SessionNext, CallStep, SessionOver

\* The invariant holds throughout every session.
THEOREM SpecIInv == SessionSpec => []IInv
BY InitIInv, NextIInv, PTL DEF SessionSpec

\* Every variable of a session keeps to its type, whatever is called in whatever order:
\* in particular a handle sees one view of its disk from its open to its close, and
\* the error codes of a call are those that btrfs.c hands on.
THEOREM SessionTypeCorrect == SessionSpec => []SessionTypeOK
<1>1. IInv => SessionTypeOK
  BY DEF IInv
<1>. QED  BY <1>1, SpecIInv, PTL

\* A call runs into a block that is not mapped only on a handle that lost chunks when
\* it was opened (btrfs_low.c:95-97), or into a stripe that was not kept; and it follows
\* a pointer that was never set, or bytes that are no address, only on an image with an
\* entry whose subvolume has no root item (btrfs_low.c:134).
THEOREM FaultsOnlyWhereChunksAreLost == SessionSpec => []FaultsNeedLostChunks
<1>1. IInv => FaultsNeedLostChunks
  BY DEF IInv
<1>. QED  BY <1>1, SpecIInv, PTL

----------------------------------------------------------------------------
(***************************************************************************)
(* What a path leads to.                                                   *)
(***************************************************************************)

\* The places on a path are well defined: each is entered from the one before it.
LEMMA PlacesFacts ==
    ASSUME NEW im, NEW path, Len(path) \in Nat
    PROVE  /\ PlacesOn(im, path)[0] = RootPlace(im)
           /\ \A n \in 1 .. Len(path) :
                PlacesOn(im, path)[n] = Enter(im, PlacesOn(im, path)[n - 1], path[n])
<1> DEFINE Makes(f, m) ==
             f = [n \in 0 .. m |-> IF n = 0 THEN RootPlace(im) ELSE Enter(im, f[n - 1], path[n])]
           Failing == {m \in 0 .. Len(path) : ~ \E f : Makes(f, m)}
<1>1. \E f : Makes(f, Len(path))
  <2> SUFFICES ASSUME ~ \E f : Makes(f, Len(path)) PROVE FALSE
    OBVIOUS
  <2>1. Failing \in SUBSET Nat /\ Len(path) \in Failing
    OBVIOUS
  <2>2. PICK m \in Failing : \A l \in Failing : m <= l
    BY <2>1, LeastNat
  <2>3. m \in 0 .. Len(path) /\ ~ \E f : Makes(f, m)
    OBVIOUS
  <2>4. m /= 0
    <3>1. Makes([n \in 0 .. 0 |-> RootPlace(im)], 0)
      OBVIOUS
    <3>. QED  BY <2>3, <3>1
  <2>5. m - 1 \in 0 .. Len(path) /\ m - 1 \notin Failing
    <3>1. m - 1 \in 0 .. Len(path) /\ ~ m <= m - 1
      BY <2>3, <2>4
    <3> HIDE DEF Failing
    <3>. QED  BY <2>2, <3>1
  <2>6. PICK f : Makes(f, m - 1)
    BY <2>5
  <2> DEFINE g == [n \in 0 .. m |-> IF n = m THEN Enter(im, f[m - 1], path[m]) ELSE f[n]]
  <2>7. \A n \in 0 .. m - 1 : g[n] = f[n]
    BY <2>3
  <2>8. g[m] = Enter(im, g[m - 1], path[m])
    BY <2>3, <2>4, <2>7
  <2>9. f[0] = RootPlace(im) /\ \A n \in 1 .. m - 1 : f[n] = Enter(im, f[n - 1], path[n])
    BY <2>3, <2>4, <2>6
  <2>10. g[0] = RootPlace(im) /\ \A n \in 1 .. m : g[n] = Enter(im, g[n - 1], path[n])
    BY <2>3, <2>4, <2>7, <2>8, <2>9
  <2>11. g = [n \in 0 .. m |-> g[n]]
    OBVIOUS
  <2> HIDE DEF g
  <2>12. Makes(g, m)
    <3>1. \A n \in 0 .. m : g[n] = IF n = 0 THEN RootPlace(im) ELSE Enter(im, g[n - 1], path[n])
      BY <2>3, <2>10
    <3>2. [n \in 0 .. m |-> g[n]] =
          [n \in 0 .. m |-> IF n = 0 THEN RootPlace(im) ELSE Enter(im, g[n - 1], path[n])]
      BY <3>1
    <3>. QED  BY <2>11, <3>2
  <2>. QED  BY <2>3, <2>12
<1> DEFINE places == PlacesOn(im, path)
<1>2. PlacesOn(im, path) = CHOOSE f : Makes(f, Len(path))
  BY DEF PlacesOn
<1>3. Makes(places, Len(path))
  BY <1>1, <1>2
<1> HIDE DEF places
<1>4. /\ places[0] = RootPlace(im)
      /\ \A n \in 1 .. Len(path) : places[n] = Enter(im, places[n - 1], path[n])
  BY <1>3
<1>. QED  BY <1>4 DEF places

\* A path that leads nowhere after some of its names leads nowhere.
LEMMA NowhereStays ==
    ASSUME NEW im, NEW path, Len(path) \in Nat, NEW n \in 0 .. Len(path),
           PlacesOn(im, path)[n] = Nowhere
    PROVE  PlacesOn(im, path)[Len(path)] = Nowhere
<1> DEFINE places == PlacesOn(im, path)
           Back == {m \in n .. Len(path) : places[m] /= Nowhere}
<1> SUFFICES ASSUME places[Len(path)] /= Nowhere PROVE FALSE
  OBVIOUS
<1> HIDE DEF places
<1>1. Back \in SUBSET Nat /\ Len(path) \in Back
  OBVIOUS
<1>2. PICK m \in Back : \A l \in Back : m <= l
  BY <1>1, LeastNat
<1>3. m \in n .. Len(path) /\ places[m] /= Nowhere /\ m /= n
  BY DEF places
<1>4. m - 1 \in n .. Len(path) /\ m - 1 \notin Back
  BY <1>2, <1>3
<1>5. places[m - 1] = Nowhere
  BY <1>4
<1>6. places[m] = Enter(im, Nowhere, path[m])
  BY <1>3, <1>5, PlacesFacts DEF places
<1>. QED  BY <1>3, <1>6 DEF Enter

\* A path and the same path with one name more lead to the same places.
LEMMA SamePrefix ==
    ASSUME NEW im, NEW S, NEW path \in Seq(S), NEW x \in S, NEW n \in 0 .. Len(path)
    PROVE  PlacesOn(im, Append(path, x))[n] = PlacesOn(im, path)[n]
<1> DEFINE longer == Append(path, x)
           p == PlacesOn(im, path)
           q == PlacesOn(im, longer)
           Differ == {m \in 0 .. Len(path) : q[m] /= p[m]}
<1>1. /\ Len(path) \in Nat /\ Len(longer) = Len(path) + 1
      /\ \A m \in 1 .. Len(path) : longer[m] = path[m]
  OBVIOUS
<1>2. /\ p[0] = RootPlace(im) /\ \A m \in 1 .. Len(path) : p[m] = Enter(im, p[m - 1], path[m])
      /\ q[0] = RootPlace(im)
      /\ \A m \in 1 .. Len(longer) : q[m] = Enter(im, q[m - 1], longer[m])
  <2> HIDE DEF longer
  <2>. QED  BY <1>1, PlacesFacts
<1> HIDE DEF longer, p, q
<1> SUFFICES ASSUME q[n] /= p[n] PROVE FALSE
  BY DEF longer, p, q
<1>3. Differ \in SUBSET Nat /\ n \in Differ
  BY <1>1
<1>4. PICK m \in Differ : \A l \in Differ : m <= l
  BY <1>3, LeastNat
<1>5. m \in 0 .. Len(path) /\ q[m] /= p[m] /\ m /= 0
  BY <1>2
<1>6. m - 1 \in 0 .. Len(path) /\ m - 1 \notin Differ
  BY <1>1, <1>4, <1>5
<1>7. q[m - 1] = p[m - 1] /\ m \in 1 .. Len(path) /\ m \in 1 .. Len(longer) /\ longer[m] = path[m]
  BY <1>1, <1>5, <1>6
<1>. QED  BY <1>2, <1>5, <1>7

\* The key of a name in a directory.
DirKey(place, name) == [objectid |-> place.objectid, type |-> DIR_ITEM, offset |-> Hash[name]]

\* A name is an entry of a directory in the item with its hash only, and only once.
LEMMA EntryHasPlace ==
    ASSUME OpenInv, SeesDisk, openPc = "open", NEW place, NEW k \in DirItems(image, place),
           NEW n \in DOMAIN image.trees[place.tree][k]
    PROVE  LET e == image.trees[place.tree][k][n] IN
           /\ e \in Entry /\ e.name \in Names
           /\ k = DirKey(place, e.name)
           /\ \A m \in DOMAIN image.trees[place.tree][k] :
                image.trees[place.tree][k][m].name = e.name => m = n
<1> DEFINE e == image.trees[place.tree][k][n]
<1>1. k \in KeysOf(image, place.tree) /\ k.type = DIR_ITEM /\ k.objectid = place.objectid
  BY DEF DirItems
<1>2. /\ e \in Entry /\ Hash[e.name] = k.offset
      /\ \A m \in DOMAIN image.trees[place.tree][k] :
           image.trees[place.tree][k][m].name = e.name => m = n
  <2> DEFINE entries == image.trees[place.tree][k]
  <2>1. /\ \A i \in DOMAIN entries : entries[i] \in Entry /\ Hash[entries[i].name] = k.offset
        /\ \A m, i \in DOMAIN entries : entries[m].name = entries[i].name => m = i
    BY <1>1, EntryFacts, Zenon
  <2>2. n \in DOMAIN entries /\ e = entries[n]
    OBVIOUS
  <2> HIDE DEF entries, e
  <2>3. /\ e \in Entry /\ Hash[e.name] = k.offset
        /\ \A m \in DOMAIN entries : entries[m].name = e.name => m = n
    BY <2>1, <2>2
  <2>. QED  BY <2>3 DEF entries
<1>3. k \in Key
  BY <1>1, TreeFacts, Zenon
<1> HIDE DEF e
<1>4. k = DirKey(place, e.name)
  BY <1>1, <1>2, <1>3, KeyIsItsParts DEF DirKey
<1>5. e.name \in Names
  BY <1>2 DEF Entry
<1>. QED  BY <1>2, <1>4, <1>5 DEF e

\* The entries of a directory, by the items they are in.
LEMMA EntriesByItem ==
    ASSUME NEW place, NEW e
    PROVE  e \in EntriesOf(image, place) <=>
             \E k \in DirItems(image, place) : \E n \in DOMAIN image.trees[place.tree][k] :
                e = image.trees[place.tree][k][n]
<1>1. e \in EntriesOf(image, place) <=>
        \E k \in DirItems(image, place) : e \in ToSet(image.trees[place.tree][k])
  BY DEF EntriesOf
<1>2. ASSUME NEW k
      PROVE  e \in ToSet(image.trees[place.tree][k]) <=>
                \E n \in DOMAIN image.trees[place.tree][k] : e = image.trees[place.tree][k][n]
  BY DEF ToSet
<1>. QED  BY <1>1, <1>2, Zenon

\* So two entries of a directory that have the same name are the same.
LEMMA OneEntry ==
    ASSUME OpenInv, SeesDisk, openPc = "open", NEW place,
           NEW e \in EntriesOf(image, place), NEW f \in EntriesOf(image, place),
           e.name = f.name
    PROVE  e = f
<1>1. PICK k \in DirItems(image, place) : \E n \in DOMAIN image.trees[place.tree][k] :
            e = image.trees[place.tree][k][n]
  BY EntriesByItem
<1>2. PICK n \in DOMAIN image.trees[place.tree][k] : e = image.trees[place.tree][k][n]
  BY <1>1
<1>3. PICK l \in DirItems(image, place) : \E m \in DOMAIN image.trees[place.tree][l] :
            f = image.trees[place.tree][l][m]
  BY EntriesByItem
<1>4. PICK m \in DOMAIN image.trees[place.tree][l] : f = image.trees[place.tree][l][m]
  BY <1>3
<1>5. k = DirKey(place, e.name) /\ l = DirKey(place, f.name)
  BY <1>2, <1>4, EntryHasPlace, Zenon
<1>6. k = l
  BY <1>5
<1>7. m = n
  BY <1>2, <1>4, <1>6, EntryHasPlace, Zenon
<1>. QED  BY <1>2, <1>4, <1>6, <1>7

\* The place that a name leads to, when it is an entry of the directory, and when not.
LEMMA EnterEntry ==
    ASSUME OpenInv, SeesDisk, openPc = "open", NEW place, place /= Nowhere,
           NEW k \in DirItems(image, place), NEW n \in DOMAIN image.trees[place.tree][k],
           NEW name, image.trees[place.tree][k][n].name = name
    PROVE  Enter(image, place, name) = Target(image, place, image.trees[place.tree][k][n])
<1> DEFINE e == image.trees[place.tree][k][n]
           f == CHOOSE f \in EntriesOf(image, place) : f.name = name
<1>1. e \in EntriesOf(image, place)
  BY EntriesByItem, Zenon
<1> HIDE DEF e
<1>2. e.name = name
  BY DEF e
<1>3. f \in EntriesOf(image, place) /\ f.name = name
  BY <1>1, <1>2
<1>4. Enter(image, place, name) = Target(image, place, f)
  BY <1>1, <1>2 DEF Enter
<1>5. f = e
  BY <1>1, <1>2, <1>3, OneEntry
<1>. QED  BY <1>4, <1>5 DEF e

\* A name without an item leads nowhere, nor does one that is not in its item.
LEMMA EnterNothing ==
    ASSUME OpenInv, SeesDisk, openPc = "open", NEW place, NEW name,
           \A n \in DOMAIN image.trees[place.tree][DirKey(place, name)] :
                DirKey(place, name) \in DirItems(image, place) =>
                    image.trees[place.tree][DirKey(place, name)][n].name /= name
    PROVE  Enter(image, place, name) = Nowhere
<1> SUFFICES ASSUME NEW e \in EntriesOf(image, place), e.name = name PROVE FALSE
  BY DEF Enter
<1>1. PICK k \in DirItems(image, place) : \E n \in DOMAIN image.trees[place.tree][k] :
            e = image.trees[place.tree][k][n]
  BY EntriesByItem
<1>2. PICK n \in DOMAIN image.trees[place.tree][k] : e = image.trees[place.tree][k][n]
  BY <1>1
<1>3. k = DirKey(place, name)
  BY <1>2, EntryHasPlace, Zenon
<1>. QED  BY <1>2, <1>3

----------------------------------------------------------------------------
(***************************************************************************)
(* The walk and the path.  PathInv adds to FollowsPath and FindsFile what  *)
(* joins them: when the walk has given up, the path leads nowhere.         *)
(***************************************************************************)
PathInv ==
    /\ FollowsPath
    /\ pc = "located" /\ located /= 0 =>
        \/ PlacesOn(image, call.path)[Len(call.path)] = Nowhere
        \/ Behind(Name)
        \/ ~ Intact(image)
    /\ FindsFile

\* Where the walk is, is a place and not nowhere; the item of the next name is in the
\* directory there.
LEMMA PlaceFacts ==
    ASSUME IInv, pc /= "idle"
    PROVE  /\ Place /= Nowhere /\ Place.tree = fsTree /\ Place.objectid = objectid
           /\ NameKey = DirKey(Place, Name)
           /\ \A k : k \in DirItems(image, Place) <=>
                k \in KeysOf(image, fsTree) /\ k.type = DIR_ITEM /\ k.objectid = objectid
           /\ NameKey \in KeysOf(image, fsTree) => NameKey \in DirItems(image, Place)
<1>1. Place \in [tree : Nat \cup {Elsewhere}, objectid : Nat] /\ Place.tree = fsTree /\ Place.objectid = objectid
  BY CallFacts DEF Place
<1>2. Place /= Nowhere
  BY <1>1, NowhereAssumption
<1>3. \A k : k \in DirItems(image, Place) <=>
        k \in KeysOf(image, fsTree) /\ k.type = DIR_ITEM /\ k.objectid = objectid
  BY <1>1 DEF DirItems
<1>4. NameKey = DirKey(Place, Name) /\ NameKey.type = DIR_ITEM /\ NameKey.objectid = objectid
  BY <1>1 DEF NameKey, DirKey
<1>. QED  BY <1>1, <1>2, <1>3, <1>4

\* The next place of the path is entered from where the walk is.
LEMMA NextPlace ==
    ASSUME IInv, FollowsPath, Intact(image), pc \in {"find", "scan", "enter"}
    PROVE  /\ PlacesOn(image, call.path)[walked + 1] = Enter(image, Place, Name)
           /\ Enter(image, Place, Name) = Nowhere =>
                PlacesOn(image, call.path)[Len(call.path)] = Nowhere
<1>1. located = 0 /\ walked + 1 \in 1 .. Len(call.path) /\ Len(call.path) \in Nat /\ walked \in Nat
  BY NameFacts, CallFacts DEF IInv, AtPc
<1>2. Place = PlacesOn(image, call.path)[walked]
  BY <1>1 DEF FollowsPath, Walking
<1>3. PlacesOn(image, call.path)[walked + 1] =
        Enter(image, PlacesOn(image, call.path)[walked], call.path[walked + 1])
  <2>1. walked + 1 - 1 = walked
    BY <1>1
  <2>. QED  BY <1>1, <2>1, PlacesFacts
<1>4. PlacesOn(image, call.path)[walked + 1] = Enter(image, Place, Name)
  BY <1>2, <1>3 DEF Name
<1>5. walked + 1 \in 0 .. Len(call.path)
  BY <1>1
<1>. QED  BY <1>1, <1>4, <1>5, NowhereStays

\* The search for the hash gives up only when there is no entry with the name ...
LEMMA FindHashIsRight ==
    ASSUME IInv, FollowsPath, pc = "find", NameKey \notin KeysOf(image, fsTree), Intact(image)
    PROVE  PlacesOn(image, call.path)[Len(call.path)] = Nowhere
<1>1. DirKey(Place, Name) \notin DirItems(image, Place)
  BY PlaceFacts
<1>2. Enter(image, Place, Name) = Nowhere
  BY <1>1, CallFacts, EnterNothing, Zenon DEF IInv
<1>. QED  BY <1>2, NextPlace

\* ... the traversal only when there is none, or it is behind another ...
LEMMA ScanTreeIsRight ==
    ASSUME IInv, FollowsPath, pc = "scan", Accepted = {}, Intact(image), ~ Behind(Name)
    PROVE  PlacesOn(image, call.path)[Len(call.path)] = Nowhere
<1>1. NameKey = DirKey(Place, Name) /\ NameKey \in DirItems(image, Place) /\ Place.tree = fsTree
  BY PlaceFacts DEF IInv, AtPc, NameIsThere
<1>2. openPc = "open"
  BY CallFacts
<1>3. image.trees[fsTree][NameKey] \in Seq(Entry)
  <2>1. OpenInv /\ SeesDisk
    BY DEF IInv
  <2>2. NameKey \in KeysOf(image, fsTree) /\ NameKey.type = DIR_ITEM
    BY <1>1, Zenon DEF DirItems
  <2>. QED  BY <1>2, <2>1, <2>2, EntryFacts, Zenon
<1>4. image.trees[fsTree][NameKey][1].name /= Name
  BY AcceptedFacts
<1>5. ASSUME NEW n \in DOMAIN image.trees[fsTree][NameKey]
      PROVE  image.trees[fsTree][NameKey][n].name /= Name
  <2>1. n = 1 \/ n > 1
    BY <1>3
  <2>. QED  BY <1>1, <1>4, <2>1 DEF Behind
<1>6. Enter(image, Place, Name) = Nowhere
  BY <1>1, <1>2, <1>5, EnterNothing, Zenon DEF IInv
<1>. QED  BY <1>6, NextPlace

\* ... and the entry that it has found is the one of the name.
LEMMA EntryIsRight ==
    ASSUME IInv, pc = "enter"
    PROVE  Enter(image, Place, Name) = Target(image, Place, entry)
<1>1. NameKey \in DirItems(image, Place) /\ Place.tree = fsTree /\ Place /= Nowhere
  BY PlaceFacts DEF IInv, AtPc, NameIsThere
<1>2. entry = image.trees[fsTree][NameKey][1] /\ entry.name = Name /\ openPc = "open"
  BY CallFacts DEF IInv, AtPc
<1>3. 1 \in DOMAIN image.trees[fsTree][NameKey]
  <2>1. NameKey \in KeysOf(image, fsTree) /\ NameKey.type = DIR_ITEM
    BY <1>1, PlaceFacts
  <2>. QED  BY <1>2, <2>1, EntryFacts, Zenon DEF IInv
<1>. QED  BY <1>1, <1>2, <1>3, EnterEntry, Zenon DEF IInv

\* The entry is one of the directory, so when nothing of the image is broken its
\* subvolume has a root item.
LEMMA EntryIntact ==
    ASSUME IInv, pc = "enter"
    PROVE  /\ entry \in Entry /\ entry.objectid \in Nat
           /\ Intact(image) /\ entry.type = ROOT_ITEM => RootItems(image, entry.objectid) /= {}
<1>1. /\ NameKey \in DirItems(image, Place) /\ fsTree \in DOMAIN image.trees
      /\ NameKey \in DOMAIN image.trees[fsTree] /\ NameKey.type = DIR_ITEM
      /\ entry = image.trees[fsTree][NameKey][1] /\ openPc = "open"
  BY PlaceFacts, CallFacts DEF IInv, AtPc, NameIsThere, KeysOf
<1>2. 1 \in DOMAIN image.trees[fsTree][NameKey] /\ entry \in Entry
  BY <1>1, EntryFacts, PlaceFacts, Zenon DEF IInv
<1>3. Intact(image) /\ entry.type = ROOT_ITEM => RootItems(image, entry.objectid) /= {}
  BY <1>1, <1>2, Zenon DEF Intact
<1>. QED  BY <1>2, <1>3 DEF Entry

\* A step that leaves the walk where it is keeps what is known of it.
LEMMA SamePlace ==
    ASSUME UNCHANGED <<image, call, walked, fsTree, objectid>>
    PROVE  /\ Place' = Place /\ Name' = Name /\ (Behind(Name)' <=> Behind(Name))
           /\ PlacesOn(image, call.path)' = PlacesOn(image, call.path)
           /\ (Intact(image)' <=> Intact(image))
           /\ InodeKey' = InodeKey /\ KeysOf(image, fsTree)' = KeysOf(image, fsTree)
BY DEF Place, Name, Behind, InodeKey, KeysOf

\* Between the calls, and when a call starts, there is nothing to show.
LEMMA NotWalkingKeeps ==
    ASSUME pc' \in {"idle", "start", "read", "crash", "astray"}
    PROVE  PathInv'
BY DEF PathInv, FollowsPath, FindsFile, Walking

\* The root directory is where every path starts.
LEMMA StartFollows ==
    ASSUME IInv, Walk, Start
    PROVE  PathInv'
<1>1. /\ pc = "start" /\ UNCHANGED <<image, call, walked, fsTree, objectid, located>>
      /\ pc' \in {"done", "located", "find"} /\ (pc' = "done" => ~ call.slash)
  BY DEF Walk, Start
<1>2. /\ walked = 0 /\ located = 0 /\ fsTree = image.fsRoot /\ objectid = FIRST_FREE_OBJECTID
      /\ Len(call.path) \in Nat
  BY <1>1, CallFacts DEF IInv, AtPc
<1>3. Place = PlacesOn(image, call.path)[walked]
  BY <1>2, PlacesFacts DEF Place, RootPlace
<1>4. FollowsPath'
  BY <1>1, <1>3, SamePlace DEF FollowsPath
<1>. QED  BY <1>1, <1>2, <1>4 DEF PathInv, FindsFile

\* The search and the traversal for a name.
LEMMA SearchFollows ==
    ASSUME IInv, PathInv, Walk, FindHash \/ ScanTree
    PROVE  PathInv'
<1>1. /\ pc \in {"find", "scan"} /\ pc' \in {"scan", "enter", "located"}
      /\ UNCHANGED <<image, call, walked, fsTree, objectid>>
      /\ pc' = "located" => located' = ENOENT
      /\ pc' /= "located" => located' = located
      /\ pc = "find" /\ pc' = "located" => NameKey \notin KeysOf(image, fsTree)
      /\ pc = "scan" /\ pc' = "located" => Accepted = {}
  BY Zenon DEF Walk, FindHash, ScanTree
<1>2. FollowsPath'
  <2>1. Walking' => Walking
    BY <1>1 DEF Walking, ENOENT
  <2>. QED  BY <1>1, <2>1, SamePlace DEF PathInv, FollowsPath
<1>3. pc' = "located" /\ Intact(image) /\ ~ Behind(Name) =>
        PlacesOn(image, call.path)[Len(call.path)] = Nowhere
  BY <1>1, FindHashIsRight, ScanTreeIsRight DEF PathInv
<1>4. pc' = "located" /\ located' /= 0 =>
        \/ PlacesOn(image, call.path)'[Len(call.path)'] = Nowhere
        \/ Behind(Name)'
        \/ ~ Intact(image)'
  BY <1>1, <1>3, SamePlace
<1>. QED  BY <1>1, <1>2, <1>4 DEF PathInv, FindsFile

\* The step to what the entry names.
LEMMA EnterFollows ==
    ASSUME IInv, PathInv, Walk, EnterInode \/ EnterSubvolume
    PROVE  PathInv'
<1>1. /\ pc = "enter" /\ UNCHANGED <<image, call, located>>
      /\ walked' = walked + 1 /\ pc' \in {"find", "located"}
      /\ \/ entry.type = INODE_ITEM /\ objectid' = entry.objectid /\ fsTree' = fsTree
         \/ /\ entry.type = ROOT_ITEM
            /\ objectid' = FIRST_FREE_OBJECTID /\ fsTree' \in TreeRoots(entry.objectid)
  BY DEF Walk, EnterInode, EnterSubvolume, NextName
<1>2. located = 0 /\ openPc = "open"
  BY <1>1, CallFacts DEF IInv, AtPc
<1>3. ASSUME Intact(image)
      PROVE  Place' = Target(image, Place, entry)
  <2>1. CASE entry.type = INODE_ITEM
    <3>1. ROOT_ITEM /= INODE_ITEM
      BY DEF ROOT_ITEM, INODE_ITEM
    <3>. QED  BY <1>1, <2>1, <3>1 DEF Target, Place
  <2>2. CASE entry.type = ROOT_ITEM
    <3>1. RootItems(image, entry.objectid) /= {} /\ entry.objectid \in Nat
      BY <1>1, <1>3, <2>2, EntryIntact
    <3>2. ROOT_ITEM /= INODE_ITEM
      BY DEF ROOT_ITEM, INODE_ITEM
    <3>3. /\ objectid' = FIRST_FREE_OBJECTID
          /\ fsTree' = image.roots[CHOOSE k \in RootItems(image, entry.objectid) :
                            \A l \in RootItems(image, entry.objectid) : l.offset <= k.offset]
      BY <1>1, <1>2, <2>2, <3>1, <3>2, RootsAgree
    <3>4. Target(image, Place, entry) =
            [tree |-> image.roots[CHOOSE k \in RootItems(image, entry.objectid) :
                            \A l \in RootItems(image, entry.objectid) : l.offset <= k.offset],
             objectid |-> FIRST_FREE_OBJECTID]
      BY <2>2, <3>1, <3>2 DEF Target
    <3>5. Place' = [tree |-> fsTree', objectid |-> objectid']
      BY DEF Place
    <3>. QED  BY <3>3, <3>4, <3>5
  <2>. QED  BY <1>1, <2>1, <2>2
<1>4. ASSUME Intact(image)
      PROVE  PlacesOn(image, call.path)[walked + 1] = Target(image, Place, entry)
  BY <1>1, <1>4, NextPlace, EntryIsRight DEF PathInv
<1>5. FollowsPath'
  BY <1>1, <1>3, <1>4 DEF FollowsPath
<1>. QED  BY <1>1, <1>2, <1>5 DEF PathInv, FindsFile

\* An entry that is neither a file nor a subvolume leads nowhere.
LEMMA EnterOtherFollows ==
    ASSUME IInv, PathInv, Walk, EnterOther
    PROVE  PathInv'
<1>1. /\ pc = "enter" /\ UNCHANGED <<image, call, walked, fsTree, objectid>>
      /\ pc' = "located" /\ located' = EIO
      /\ entry.type /= INODE_ITEM /\ entry.type /= ROOT_ITEM
  BY DEF Walk, EnterOther
<1>2. Target(image, Place, entry) = Nowhere
  BY <1>1 DEF Target
<1>3. Intact(image) => PlacesOn(image, call.path)[Len(call.path)] = Nowhere
  BY <1>1, <1>2, NextPlace, EntryIsRight DEF PathInv
<1>4. located' /= 0
  BY <1>1 DEF EIO
<1>5. FollowsPath'
  BY <1>4 DEF FollowsPath, Walking
<1>6. PlacesOn(image, call.path)'[Len(call.path)'] = Nowhere \/ ~ Intact(image)'
  BY <1>1, <1>3, SamePlace
<1>. QED  BY <1>1, <1>5, <1>6 DEF PathInv, FindsFile

\* What is answered when the walk is over.
LEMMA AnswerFollows ==
    ASSUME IInv, PathInv,
           \/ Walk /\ (NotFound \/ Exists \/ StatInode)
           \/ ListDir \/ ReadReturns \/ ReadlinkReturns
    PROVE  PathInv'
<1>1. /\ pc \in {"located", "read"} /\ pc' = "done"
      /\ UNCHANGED <<image, call, walked, fsTree, objectid, located>>
  BY DEF Walk, NotFound, Exists, StatInode, ListDir, Located, ReadReturns, ReadlinkReturns
<1>2. ret' = ENOENT /\ located = 0 =>
        \/ call.op = "stat" /\ InodeKey \notin KeysOf(image, fsTree)
        \/ call.op \in {"read", "readlink"}
  BY DEF Walk, NotFound, Exists, StatInode, ListDir, Located, ReadReturns, ReadlinkReturns,
         ENOENT, ENOMEM
<1>3. located /= 0 => pc = "located"
  BY <1>1 DEF IInv, AtRead
<1>4. located /= 0 =>
        \/ PlacesOn(image, call.path)[Len(call.path)] = Nowhere
        \/ Behind(Name)
        \/ ~ Intact(image)
  BY <1>3 DEF PathInv
<1>5. FindsFile'
  BY <1>1, <1>2, <1>4, SamePlace DEF FindsFile
<1>6. FollowsPath'
  BY <1>1 DEF FollowsPath, Walking
<1>. QED  BY <1>1, <1>5, <1>6 DEF PathInv

\* Every step keeps it.
LEMMA NextPathInv == IInv /\ PathInv /\ [SessionNext]_sessionVars => PathInv'
<1> SUFFICES ASSUME IInv, PathInv, [SessionNext]_sessionVars PROVE PathInv'
  OBVIOUS
<1>1. CASE Opening \/ Close
  <2>1. pc' = pc /\ pc = "idle"
    BY <1>1, OpeningAt DEF IInv, AtPc, Opening, Close
  <2>. QED  BY <2>1, NotWalkingKeeps
<1>2. CASE \/ Call \/ ListStrays \/ StartRead \/ Reading \/ ReadFaults \/ Return
           \/ Walk /\ (WalkFaults \/ WalkStrays)
  <2>1. pc' \in {"idle", "start", "read", "crash", "astray"}
    BY <1>2 DEF Call, ListStrays, StartRead, Reading, vars, ReadFaults, Return, WalkFaults, WalkStrays
  <2>. QED  BY <2>1, NotWalkingKeeps
<1>3. CASE UNCHANGED sessionVars
  <2>1. UNCHANGED <<image, call, walked, fsTree, objectid, located, ret, pc>>
    BY <1>3 DEF sessionVars, vars
  <2>2. FollowsPath'
    BY <2>1, SamePlace DEF PathInv, FollowsPath, Walking
  <2>3. FindsFile'
    BY <2>1, SamePlace DEF PathInv, FindsFile
  <2>. QED  BY <2>1, <2>2, <2>3, SamePlace DEF PathInv
<1>4. CASE Walk
  <2>1. Step
    BY <1>4 DEF Walk
  <2>. QED  BY <1>2, <1>4, <2>1, StartFollows, SearchFollows, EnterFollows, EnterOtherFollows,
                AnswerFollows
            DEF Step
<1>5. CASE ListDir \/ ReadReturns \/ ReadlinkReturns
  BY <1>5, AnswerFollows
<1>. QED  BY <1>1, <1>2, <1>3, <1>4, <1>5 DEF SessionNext, CallStep, SessionOver

\* And it holds before the open.
LEMMA InitPathInv == SessionInit => PathInv
BY DEF SessionInit, PathInv, FollowsPath, FindsFile, Walking

\* The inductive invariants of the walk hold throughout every session.
THEOREM SpecPathInv == SessionSpec => []PathInv
BY SpecIInv, InitPathInv, NextPathInv, PTL DEF SessionSpec

\* btrfs_low_locate_file: after each name the walk is where the names of the path lead,
\* through directories and subvolumes, whatever has the same hash, stands in the same
\* leaf or is lost.
THEOREM WalkFollowsPath == SessionSpec => []FollowsPath
<1>1. PathInv => FollowsPath
  BY DEF PathInv
<1>. QED  BY <1>1, SpecPathInv, PTL

\* And a call answers ENOENT only when the path leads nowhere, when a name of it is in
\* an item behind another one, or when what it wants of the file is not there.
THEOREM FilesAreFound == SessionSpec => []FindsFile
<1>1. PathInv => FindsFile
  BY DEF PathInv
<1>. QED  BY <1>1, SpecPathInv, PTL

----------------------------------------------------------------------------
(***************************************************************************)
(* What was listed is found.  ListInv remembers of a listing that the walk *)
(* can take each step of its path and one more to each of its names.       *)
(***************************************************************************)
Dots == {".", ".."}

\* The item with the hash of the name can be read and its first entry has the name.
HasFirst(im, place, name) ==
    LET k == DirKey(place, name)
    IN  /\ k \in KeysOf(im, place.tree) \ LostOf(im, place.tree)
        /\ im.trees[place.tree][k][1].name = name

CanFollow(im, path, n) == HasFirst(im, PlacesOn(im, path)[n - 1], path[n])

WalkedAlong == Walking /\ Intact(image) => \A n \in 1 .. walked : CanFollow(image, call.path, n)

ListedIsThere ==
    listed /= NoListing =>
        /\ openPc = "open" /\ listed.path \in Seq(Names)
        /\ Intact(image) =>
            /\ \A n \in 1 .. Len(listed.path) : CanFollow(image, listed.path, n)
            /\ \A name \in ToSet(listed.names) \ Dots :
                /\ name \in Names
                /\ HasFirst(image, PlacesOn(image, listed.path)[Len(listed.path)], name)

AsksForListed == pc /= "idle" /\ listed /= NoListing /\ call.op = "exists"

ListInv ==
    /\ WalkedAlong
    /\ ListedIsThere
    /\ AsksForListed => call.slash /\ call.path \in ListedPaths
    /\ AsksForListed /\ pc = "located" /\ Intact(image) =>
        located \in {0, EIO} \/ Last(call.path) \in Dots
    /\ ListedNamesExist

\* On the way to a name that was listed the next step can be taken.
LEMMA ListedNext ==
    ASSUME IInv, FollowsPath, ListInv, AsksForListed, Intact(image), pc \in {"find", "scan"},
           Last(call.path) \notin Dots
    PROVE  HasFirst(image, Place, Name)
<1> DEFINE path == listed.path
<1>1. PICK name \in ToSet(listed.names) : call.path = Append(path, name)
  BY Zenon DEF ListInv, AsksForListed, ListedPaths
<1>2. /\ path \in Seq(Names)
      /\ \A n \in 1 .. Len(path) : HasFirst(image, PlacesOn(image, path)[n - 1], path[n])
      /\ \A m \in ToSet(listed.names) \ Dots :
            m \in Names /\ HasFirst(image, PlacesOn(image, path)[Len(path)], m)
  BY DEF ListInv, AsksForListed, ListedIsThere, CanFollow
<1> HIDE DEF path
<1>3. walked \in Nat /\ walked + 1 \in 1 .. Len(call.path) /\ located = 0
  BY CallFacts, NameFacts DEF IInv, AtPc
<1>4. Place = PlacesOn(image, call.path)[walked] /\ Name = call.path[walked + 1]
  BY <1>3 DEF FollowsPath, Walking, Name
<1>5. /\ Len(path) \in Nat /\ Len(call.path) = Len(path) + 1 /\ call.path[Len(path) + 1] = name
      /\ \A n \in 1 .. Len(path) : call.path[n] = path[n]
  BY <1>1, <1>2
<1>6. name \notin Dots
  <2>1. Last(call.path) = name
    BY <1>5 DEF Last
  <2>. QED  BY <2>1
<1>7. name \in Names /\ HasFirst(image, PlacesOn(image, path)[Len(path)], name)
  BY <1>2, <1>6
<1>8. walked \in 0 .. Len(path)
  BY <1>3, <1>5
<1>9. Place = PlacesOn(image, path)[walked]
  BY <1>1, <1>2, <1>4, <1>7, <1>8, SamePrefix
<1>10. CASE walked = Len(path)
  BY <1>4, <1>5, <1>7, <1>9, <1>10
<1>11. CASE walked /= Len(path)
  <2>1. walked + 1 \in 1 .. Len(path) /\ (walked + 1) - 1 = walked
    BY <1>3, <1>5, <1>8, <1>11
  <2>2. HasFirst(image, PlacesOn(image, path)[(walked + 1) - 1], path[walked + 1])
    BY <1>2, <2>1
  <2>. QED  BY <1>4, <1>5, <1>9, <2>1, <2>2
<1>. QED  BY <1>10, <1>11

\* What was listed stays there while nothing else is listed or opened.
LEMMA ListedStays ==
    ASSUME ListedIsThere, UNCHANGED <<image, openPc>>, listed' = listed \/ listed' = NoListing
    PROVE  ListedIsThere'
BY DEF ListedIsThere

\* A call to find what was listed starts with it.
LEMMA CallLists ==
    ASSUME IInv, ListInv, Call
    PROVE  ListInv'
<1>1. /\ pc' = "start" /\ UNCHANGED <<image, openPc>>
      /\ listed' = IF call'.op = "exists" /\ call'.slash /\ call'.path \in ListedPaths
                   THEN listed ELSE NoListing
  BY DEF Call, openVars
<1>2. ListedIsThere'
  BY <1>1, ListedStays DEF ListInv
<1>3. AsksForListed' => call'.slash /\ call'.path \in ListedPaths'
  BY <1>1 DEF AsksForListed, ListedPaths
<1>. QED  BY <1>1, <1>2, <1>3 DEF ListInv, WalkedAlong, Walking, ListedNamesExist

\* An open and a close know of no listing.
LEMMA OpeningLists ==
    ASSUME IInv, ListInv, Opening \/ Close
    PROVE  ListInv'
<1>1. pc' = "idle"
  BY OpeningAt DEF IInv, AtPc, Opening, Close
<1>2. listed' = NoListing
  BY OpeningAt DEF ListInv, ListedIsThere, Opening, Close
<1>. QED  BY <1>1, <1>2 DEF ListInv, WalkedAlong, Walking, ListedIsThere, AsksForListed, ListedNamesExist

\* The first step of a call.
LEMMA StartLists ==
    ASSUME IInv, ListInv, Walk, Start
    PROVE  ListInv'
<1>1. /\ pc = "start" /\ UNCHANGED <<image, openPc, call, walked, located, listed>>
      /\ pc' \in {"done", "located", "find"} /\ (pc' = "done" => ~ call.slash)
  BY DEF Walk, Start, openVars
<1>2. walked = 0 /\ located = 0
  BY <1>1 DEF IInv, AtPc
<1>3. ListedIsThere' /\ WalkedAlong'
  BY <1>1, <1>2, ListedStays DEF ListInv, WalkedAlong
<1>4. AsksForListed' => call'.slash /\ call'.path \in ListedPaths'
  BY <1>1 DEF ListInv, AsksForListed, ListedPaths
<1>5. ListedNamesExist'
  BY <1>1, <1>4 DEF ListedNamesExist, AsksForListed
<1>. QED  BY <1>1, <1>2, <1>3, <1>4, <1>5 DEF ListInv

\* The search and the traversal for a name that was listed find it.
LEMMA SearchLists ==
    ASSUME IInv, FollowsPath, ListInv, Walk, FindHash \/ ScanTree
    PROVE  ListInv'
<1>1. /\ pc \in {"find", "scan"} /\ pc' \in {"scan", "enter", "located"}
      /\ UNCHANGED <<image, openPc, call, walked, fsTree, objectid, listed>>
      /\ pc' = "located" => located' = ENOENT
      /\ pc' /= "located" => located' = located
      /\ pc = "find" /\ pc' = "located" => NameKey \notin KeysOf(image, fsTree)
      /\ pc = "scan" /\ pc' = "located" => Accepted = {}
  BY Zenon DEF Walk, FindHash, ScanTree, openVars
<1>2. ListedIsThere'
  BY <1>1, ListedStays DEF ListInv
<1>3. WalkedAlong'
  <2>1. Walking' => Walking
    BY <1>1 DEF Walking, ENOENT
  <2>. QED  BY <1>1, <2>1 DEF ListInv, WalkedAlong
<1>4. AsksForListed' => AsksForListed /\ call'.slash /\ call'.path \in ListedPaths'
  BY <1>1 DEF ListInv, AsksForListed, ListedPaths
<1>5. ASSUME AsksForListed, pc' = "located", Intact(image), Last(call.path) \notin Dots
      PROVE  FALSE
  <2>1. HasFirst(image, Place, Name)
    BY <1>1, <1>5, ListedNext
  <2>2. NameKey = DirKey(Place, Name) /\ Place.tree = fsTree
    BY <1>1, PlaceFacts
  <2>3. NameKey \in KeysOf(image, fsTree) /\ image.trees[fsTree][NameKey][1].name = Name
    BY <2>1, <2>2 DEF HasFirst
  <2>. QED  BY <1>1, <1>5, <2>3, AcceptedFacts
<1>6. AsksForListed' /\ pc' = "located" /\ Intact(image') => Last(call'.path) \in Dots
  BY <1>1, <1>4, <1>5
<1>. QED  BY <1>1, <1>2, <1>3, <1>4, <1>6 DEF ListInv, ListedNamesExist

\* A step into what an entry names adds a step that can be taken.
LEMMA EnterLists ==
    ASSUME IInv, FollowsPath, ListInv, Walk, EnterInode \/ EnterSubvolume
    PROVE  ListInv'
<1>1. /\ pc = "enter" /\ UNCHANGED <<image, openPc, call, located, listed>>
      /\ walked' = walked + 1 /\ pc' \in {"find", "located"}
  BY DEF Walk, EnterInode, EnterSubvolume, NextName, openVars
<1>2. located = 0 /\ NameIsThere /\ image.trees[fsTree][NameKey][1].name = Name /\ walked \in Nat
  BY <1>1, CallFacts DEF IInv, AtPc
<1>3. ListedIsThere'
  BY <1>1, ListedStays DEF ListInv
<1>4. WalkedAlong'
  <2> SUFFICES ASSUME Intact(image), NEW n \in 1 .. walked + 1
               PROVE  CanFollow(image, call.path, n)
    BY <1>1 DEF WalkedAlong
  <2>1. CASE n \in 1 .. walked
    BY <1>1, <1>2, <2>1 DEF ListInv, WalkedAlong, Walking
  <2>2. CASE n = walked + 1
    <3>1. Place = PlacesOn(image, call.path)[walked] /\ n - 1 = walked /\ Name = call.path[n]
      BY <1>1, <1>2, <2>2 DEF FollowsPath, Walking, Name
    <3>2. NameKey = DirKey(Place, Name) /\ Place.tree = fsTree
      BY <1>1, PlaceFacts
    <3>3. HasFirst(image, Place, Name)
      BY <1>2, <3>2 DEF HasFirst, NameIsThere
    <3>. QED  BY <3>1, <3>3 DEF CanFollow
  <2>. QED  BY <1>2, <2>1, <2>2
<1>5. AsksForListed' => call'.slash /\ call'.path \in ListedPaths'
  BY <1>1 DEF ListInv, AsksForListed, ListedPaths
<1>. QED  BY <1>1, <1>2, <1>3, <1>4, <1>5 DEF ListInv, ListedNamesExist

\* The ends of a walk: what was listed is not there only when its entry is of another
\* type.
LEMMA WalkEndLists ==
    ASSUME IInv, ListInv, Walk,
           EnterOther \/ NotFound \/ Exists \/ StatInode \/ WalkFaults \/ WalkStrays
    PROVE  ListInv'
<1>1. /\ pc \in {"find", "enter", "located"} /\ pc' \in {"located", "done", "crash", "astray"}
      /\ UNCHANGED <<image, openPc, call, listed>>
      /\ pc' = "located" => located' = EIO
      /\ pc' = "done" => located' = located /\ pc = "located"
      /\ pc' = "done" /\ call.op = "exists" => located /= 0 \/ ret' = 0
  BY DEF Walk, EnterOther, NotFound, Exists, StatInode, WalkFaults, WalkStrays, openVars
<1>2. ListedIsThere'
  BY <1>1, ListedStays DEF ListInv
<1>3. WalkedAlong'
  BY <1>1 DEF WalkedAlong, Walking, EIO
<1>4. AsksForListed' => AsksForListed /\ call'.slash /\ call'.path \in ListedPaths'
  BY <1>1 DEF ListInv, AsksForListed, ListedPaths
<1>5. pc' = "done" /\ AsksForListed /\ Intact(image) =>
        ret' = 0 \/ located = EIO \/ Last(call.path) \in Dots
  BY <1>1 DEF ListInv, AsksForListed
<1>6. ListedNamesExist'
  BY <1>1, <1>4, <1>5 DEF ListedNamesExist, AsksForListed, Dots
<1>. QED  BY <1>1, <1>2, <1>3, <1>4, <1>6 DEF ListInv

\* Every step of the walk.
LEMMA WalkLists ==
    ASSUME IInv, FollowsPath, ListInv, Walk
    PROVE  ListInv'
<1>1. Step
  BY DEF Walk
<1>. QED  BY <1>1, StartLists, SearchLists, EnterLists, WalkEndLists DEF Step

\* A listing has the first names of items that can be read, and the walk to its
\* directory has taken every step of the path.
LEMMA ListDirLists ==
    ASSUME IInv, FollowsPath, ListInv, ListDir
    PROVE  ListInv'
<1>1. /\ pc = "located" /\ located = 0 /\ pc' = "done" /\ call.op = "readdir"
      /\ UNCHANGED <<image, openPc, call>>
  BY DEF ListDir, Located, openVars
<1>2. /\ openPc = "open" /\ call.path \in Seq(Names) /\ Len(call.path) \in Nat
      /\ walked = Len(call.path)
  BY <1>1, CallFacts DEF IInv, AtPc
<1>3. CASE listed' = listed
  BY <1>1, <1>3, ListedStays
     DEF ListInv, WalkedAlong, Walking, AsksForListed, ListedNamesExist
<1>4. CASE ret' = 0
  <2>0. ret' /= ENOMEM
    BY <1>4 DEF ENOMEM
  <2>1. PICK items \in [1 .. Cardinality(ItemsOfDir) -> ItemsOfDir] :
            names' = <<".", "..">> \o [n \in DOMAIN items |-> FirstName(items[n])]
    BY <2>0, Zenon DEF ListDir
  <2>2. listed' = [path |-> call.path, names |-> names']
    BY <1>4 DEF ListDir, ENOMEM
  <2>3. ASSUME NEW name \in ToSet(names') \ Dots
        PROVE  name \in Names /\ HasFirst(image, Place, name)
    <3>1. PICK k \in ItemsOfDir : name = FirstName(k)
      <4>1. IsFiniteSet(ItemsOfDir)
        <5>1. IsFiniteSet(KeysOf(image, fsTree))
          BY <1>2, TreeFacts, Zenon DEF IInv
        <5>. QED  BY <5>1, FS_Subset DEF ItemsOfDir
      <4>2. Cardinality(ItemsOfDir) \in Nat
        BY <4>1, FS_CardinalityType
      <4> DEFINE m == Cardinality(ItemsOfDir)
                 firsts == [n \in DOMAIN items |-> FirstName(items[n])]
                 firstNames == {FirstName(l) : l \in ItemsOfDir}
      <4>3. firsts \in Seq(firstNames) /\ m \in Nat
        <5> HIDE DEF m
        <5>1. items \in [1 .. m -> ItemsOfDir]
          BY DEF m
        <5>2. firsts \in [1 .. m -> firstNames]
          BY <5>1
        <5>3. m \in Nat
          BY <4>2 DEF m
        <5> HIDE DEF firsts, firstNames
        <5>. QED  BY <5>2, <5>3, SeqDef
      <4> HIDE DEF firsts, firstNames
      <4>4. names' = <<".", "..">> \o firsts
        BY <2>1 DEF firsts
      <4>5. ToSet(names') \subseteq Dots \cup firstNames
        BY <4>3, <4>4 DEF ToSet, Dots
      <4>. QED  BY <4>5 DEF firstNames
    <3>2. /\ k \in KeysOf(image, fsTree) \ LostOf(image, fsTree)
          /\ k.type = DIR_ITEM /\ k.objectid = objectid
          /\ name = image.trees[fsTree][k][1].name
      BY <3>1 DEF ItemsOfDir, IsItemOfDir, FirstName
    <3>3. k \in DirItems(image, Place) /\ Place.tree = fsTree
      BY <1>1, <3>2, PlaceFacts
    <3>4. 1 \in DOMAIN image.trees[fsTree][k]
      BY <1>2, <3>2, EntryFacts, Zenon DEF IInv
    <3>5. k = DirKey(Place, name) /\ name \in Names
      BY <1>2, <3>2, <3>3, <3>4, EntryHasPlace, Zenon DEF IInv
    <3>. QED  BY <3>2, <3>3, <3>5 DEF HasFirst
  <2>4. Intact(image) =>
          /\ Place = PlacesOn(image, call.path)[Len(call.path)]
          /\ \A n \in 1 .. Len(call.path) : CanFollow(image, call.path, n)
    BY <1>1, <1>2 DEF FollowsPath, ListInv, WalkedAlong, Walking
  <2>5. listed'.path = call.path /\ listed'.names = names'
    BY <2>2
  <2>6. ListedIsThere'
    BY <1>1, <1>2, <2>3, <2>4, <2>5 DEF ListedIsThere
  <2>. QED  BY <1>1, <2>6 DEF ListInv, WalkedAlong, Walking, AsksForListed, ListedNamesExist
<1>5. ret' = 0 \/ listed' = listed
  BY DEF ListDir
<1>. QED  BY <1>3, <1>4, <1>5

\* The rest of the steps neither walk nor list.
LEMMA OtherLists ==
    ASSUME IInv, ListInv,
           \/ ListStrays \/ StartRead \/ Reading \/ ReadReturns \/ ReadlinkReturns
           \/ ReadFaults \/ Return
    PROVE  ListInv'
<1>1. /\ pc' \in {"read", "done", "crash", "astray", "idle"}
      /\ UNCHANGED <<image, openPc, listed>>
      /\ pc' = "done" => call' = call /\ call.op /= "exists"
      /\ pc' \in {"read", "crash", "astray"} => call' = call /\ call.op /= "exists"
  BY DEF IInv, AtRead, ListStrays, StartRead, Located, Reading, vars, ReadReturns, ReadlinkReturns, ReadFaults,
         Return, openVars
<1>2. ListedIsThere'
  BY <1>1, ListedStays DEF ListInv
<1>3. ~ AsksForListed'
  BY <1>1 DEF AsksForListed
<1>. QED  BY <1>1, <1>2, <1>3 DEF ListInv, WalkedAlong, Walking, AsksForListed, ListedNamesExist

\* Every step keeps what is known of a listing.
LEMMA NextListInv == IInv /\ PathInv /\ ListInv /\ [SessionNext]_sessionVars => ListInv'
<1> SUFFICES ASSUME IInv, FollowsPath, ListInv, [SessionNext]_sessionVars PROVE ListInv'
  BY DEF PathInv
<1>1. CASE UNCHANGED sessionVars
  <2>1. UNCHANGED <<image, openPc, call, walked, located, ret, pc, listed>>
    BY <1>1 DEF sessionVars, vars, openVars
  <2>2. ListedIsThere' /\ WalkedAlong'
    BY <2>1, ListedStays DEF ListInv, WalkedAlong, Walking
  <2>. QED  BY <2>1, <2>2 DEF ListInv, AsksForListed, ListedPaths, ListedNamesExist
<1>. QED  BY <1>1, OpeningLists, CallLists, WalkLists, ListDirLists, OtherLists
  DEF SessionNext, CallStep, SessionOver

\* And it holds before the open.
LEMMA InitListInv == SessionInit => ListInv
BY DEF SessionInit, ListInv, WalkedAlong, Walking, ListedIsThere, AsksForListed, ListedNamesExist

\* btrfs_readdir and btrfs_stat agree: a name that a listing has given is found behind
\* the path that was listed, however much of the image the handle maps, unless its
\* entry is of a type the walk does not enter.
THEOREM ListedNamesAreFound == SessionSpec => []ListedNamesExist
<1>1. ListInv => ListedNamesExist
  BY DEF ListInv
<1>2. SessionSpec => []ListInv
  BY SpecIInv, SpecPathInv, InitListInv, NextListInv, PTL DEF SessionSpec
<1>. QED  BY <1>1, <1>2, PTL

=============================================================================
