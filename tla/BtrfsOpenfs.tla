---------------------------- MODULE BtrfsOpenfs ----------------------------
(***************************************************************************)
(* btrfs_openfs and btrfs_delete: the life of the handle of an open image, *)
(* with every allocation that may fail on the way, the list of chunks that *)
(* is built from the superblock and then from the chunk tree, and the two  *)
(* clean-up paths.                                                         *)
(*                                                                         *)
(* An image is a record: superblock says whether one is found; sys holds   *)
(* the chunks of its sys_chunk_array; chunkRoot is the address of the      *)
(* chunk tree and chunkLeaves its leaves in order, each with its address   *)
(* and its chunk items (items of other types are skipped by the handler);  *)
(* rootPath holds the blocks from the root of the root tree down to the    *)
(* leaf with the root item of the file system tree, and fsRoot the address *)
(* in that item, 0 when there is none.  Each of the trees is read as       *)
(* BtrfsTraverseBtree and BtrfsFindInBtree show: a traversal skips a block *)
(* that is not mapped, a search ends at an unmapped root and faults at any *)
(* other unmapped block.                                                   *)
(***************************************************************************)
EXTENDS BtrfsChunkList, FiniteSets

CONSTANT Images

Image == [superblock  : BOOLEAN,
          sys         : Seq(Chunk),
          chunkRoot   : Nat,
          chunkLeaves : Seq([block : Nat, chunks : Seq(Chunk)]),
          rootPath    : Seq(Nat) \ {<<>>},
          fsRoot      : Nat]

\* The chunks of the superblock, and those of the leaves of the chunk tree that
\* can be read with them.
Within(c, a) == a \in c.start .. c.start + c.length - 1
SysChunks(im) == {im.sys[i] : i \in DOMAIN im.sys}
Bootstrapped(im, a) == \E c \in SysChunks(im) : Within(c, a)
TreeChunks(im) ==
    {c \in UNION {{im.chunkLeaves[l].chunks[i] : i \in DOMAIN im.chunkLeaves[l].chunks}
                     : l \in {l \in DOMAIN im.chunkLeaves :
                                 Bootstrapped(im, im.chunkLeaves[l].block)}}
        : Bootstrapped(im, im.chunkRoot)}
ChunksOf(im) == SysChunks(im) \cup TreeChunks(im)

ASSUME ImagesAssumption == Images \subseteq Image

\* A logical address belongs to one chunk: chunks may be repeated, as the chunk
\* tree repeats those of the superblock, but two that differ have no byte in common.
ASSUME ChunksAssumption ==
    \A im \in Images : \A c, d \in ChunksOf(im) :
        c = d \/ c.start + c.length <= d.start \/ d.start + d.length <= c.start

\* An image whose root tree can be read at all holds every block of the path.
ASSUME RootPathAssumption ==
    \A im \in Images :
        (\E c \in ChunksOf(im) : Within(c, im.rootPath[1])) =>
            \A i \in DOMAIN im.rootPath : \E c \in ChunksOf(im) : Within(c, im.rootPath[i])

VARIABLES
    image,
    handle,     \* the address of struct btrfs, NullPtr when there is none
    chunkList,  \* its chunk_list, first node first
    sysList,    \* the list that the traversal of the chunk tree resolves with
    leaf, item, \* where the reading of the chunks is
    heap,       \* the addresses that are allocated
    last,       \* the last address that malloc returned
    outOfMemory,\* whether some allocation has failed
    errno,
    pc

vars == <<image, handle, chunkList, sysList, leaf, item, heap, last, outOfMemory, errno, pc>>

Init ==
    /\ image \in Images
    /\ handle = NullPtr
    /\ chunkList = <<>>
    /\ sysList = <<>>
    /\ leaf = 1 /\ item = 1
    /\ heap = {}
    /\ last = NullPtr
    /\ outOfMemory = FALSE
    /\ errno = "none"
    /\ pc = "start"

AllocateHandle ==
    /\ pc = "start"
    /\ handle' = last + 1 /\ last' = last + 1 /\ heap' = heap \cup {last + 1}
    /\ pc' = "superblock"
    /\ UNCHANGED <<image, chunkList, sysList, leaf, item, outOfMemory, errno>>

NoHandle ==
    /\ pc = "start"
    /\ outOfMemory' = TRUE
    /\ errno' = "ENOMEM"
    /\ pc' = "failed"
    /\ UNCHANGED <<image, handle, chunkList, sysList, leaf, item, heap, last>>

FindSuperblock ==
    /\ pc = "superblock"
    /\ IF image.superblock
       THEN pc' = "sys" /\ UNCHANGED errno
       ELSE pc' = "freeHandle" /\ errno' = "EINVAL"
    /\ UNCHANGED <<image, handle, chunkList, sysList, leaf, item, heap, last, outOfMemory>>

\* btrfs_chunk_list_new, when its allocations succeed ...
PrependNode(c) ==
    LET node == NewNode(c, last + 1, last + 2)
    IN  /\ chunkList' = <<node>> \o chunkList
        /\ heap' = heap \cup ({node.at, node.moreAt} \ {NullPtr})
        /\ last' = last + 2
        /\ UNCHANGED outOfMemory

\* Wrong: the node is not freed when the array for its stripes is not allocated.
NodeFailsLeaking(c) ==
    /\ outOfMemory' = TRUE
    /\ \E allocated \in IF KeepsMore(c) THEN {0, 1} ELSE {0} :
        /\ last' = last + allocated
        /\ heap' = heap \cup (last + 1 .. last')
    /\ UNCHANGED chunkList

\* ... and when the first or the second fails: the node is freed again.
NodeFails(c) ==
    /\ outOfMemory' = TRUE
    /\ \E allocated \in IF KeepsMore(c) THEN {0, 1} ELSE {0} :
        /\ last' = last + allocated
        /\ heap' = (heap \cup (last + 1 .. last')) \ {last + 1}
    /\ UNCHANGED chunkList

\* btrfs_low_read_sys_array
ReadSysChunk ==
    /\ pc = "sys"
    /\ item <= Len(image.sys)
    /\ PrependNode(image.sys[item])
    /\ item' = item + 1
    /\ UNCHANGED <<image, handle, sysList, leaf, errno, pc>>

SysChunkFails ==
    /\ pc = "sys"
    /\ item <= Len(image.sys)
    /\ NodeFails(image.sys[item])
    /\ errno' = "EIO"
    /\ pc' = "freeChunks"
    /\ UNCHANGED <<image, handle, sysList, leaf, item>>

SysArrayRead ==
    /\ pc = "sys"
    /\ item > Len(image.sys)
    /\ sysList' = chunkList
    /\ item' = 1
    /\ IF chunkList = <<>>
       THEN pc' = "freeHandle" /\ errno' = "EIO"
       ELSE /\ pc' = IF Resolve(chunkList, image.chunkRoot) = Unmapped
                     THEN "lookup" ELSE "chunks"
            /\ UNCHANGED errno
    /\ UNCHANGED <<image, handle, chunkList, leaf, heap, last, outOfMemory>>

\* btrfs_low_read_chunk_tree: the traversal calls the handler for every item of
\* every leaf that the list from the sys array maps.
BlockFaults ==
    \/ Resolve(sysList, image.chunkRoot) = Fault
    \/ leaf <= Len(image.chunkLeaves) /\ Resolve(sysList, image.chunkLeaves[leaf].block) = Fault
LeafMapped == Resolve(sysList, image.chunkLeaves[leaf].block) /= Unmapped
\* Wrong: the last chunk of a leaf is left out.
InLeafButLast ==
    /\ pc = "chunks"
    /\ ~ BlockFaults
    /\ leaf <= Len(image.chunkLeaves)
    /\ LeafMapped
    /\ item < Len(image.chunkLeaves[leaf].chunks)

InLeaf ==
    /\ pc = "chunks"
    /\ ~ BlockFaults
    /\ leaf <= Len(image.chunkLeaves)
    /\ LeafMapped
    /\ item <= Len(image.chunkLeaves[leaf].chunks)

ReadChunk ==
    /\ InLeaf
    /\ PrependNode(image.chunkLeaves[leaf].chunks[item])
    /\ item' = item + 1
    /\ UNCHANGED <<image, handle, sysList, leaf, errno, pc>>

\* The handler breaks the traversal, and nobody learns why it ended.
ChunkFails ==
    /\ InLeaf
    /\ NodeFails(image.chunkLeaves[leaf].chunks[item])
    /\ pc' = "lookup"
    /\ UNCHANGED <<image, handle, sysList, leaf, item, errno>>

NextLeaf ==
    /\ pc = "chunks"
    /\ ~ InLeaf
    /\ ~ BlockFaults
    /\ IF leaf <= Len(image.chunkLeaves)
       THEN leaf' = leaf + 1 /\ item' = 1 /\ UNCHANGED pc
       ELSE pc' = "lookup" /\ UNCHANGED <<leaf, item>>
    /\ UNCHANGED <<image, handle, chunkList, sysList, heap, last, outOfMemory, errno>>

\* The next block of the chunk tree lies in a stripe that was not kept.
ChunkTreeFaults ==
    /\ pc = "chunks"
    /\ BlockFaults
    /\ pc' = "crash"
    /\ UNCHANGED <<image, handle, chunkList, sysList, leaf, item, heap, last, outOfMemory, errno>>

\* btrfs_low_find_root_fs_tree_root: the search ends at a root that is not
\* mapped, and faults at any other block that is not.
RootTreeRoot == Resolve(chunkList, image.rootPath[1])
RootPathMapped ==
    \A i \in DOMAIN image.rootPath : Resolve(chunkList, image.rootPath[i]) \notin {Unmapped, Fault}

FindFsTree ==
    /\ pc = "lookup"
    /\ RootPathMapped
    /\ image.fsRoot /= 0
    /\ pc' = "open"
    /\ UNCHANGED <<image, handle, chunkList, sysList, leaf, item, heap, last, outOfMemory, errno>>

NoFsTree ==
    /\ pc = "lookup"
    /\ RootTreeRoot = Unmapped \/ (RootPathMapped /\ image.fsRoot = 0)
    /\ errno' = "EIO"
    /\ pc' = "freeChunks"
    /\ UNCHANGED <<image, handle, chunkList, sysList, leaf, item, heap, last, outOfMemory>>

RootTreeFaults ==
    /\ pc = "lookup"
    /\ RootTreeRoot /= Unmapped
    /\ ~ RootPathMapped
    /\ pc' = "crash"
    /\ UNCHANGED <<image, handle, chunkList, sysList, leaf, item, heap, last, outOfMemory, errno>>

\* Wrong: the array of a node is not freed, or the loop stays at the node.
FreeNodeOnly ==
    /\ pc \in {"freeChunks", "delete"}
    /\ chunkList /= <<>>
    /\ heap' = heap \ {chunkList[1].at}
    /\ chunkList' = Tail(chunkList)
    /\ UNCHANGED <<image, handle, sysList, leaf, item, last, outOfMemory, errno, pc>>

FreeNodeAgain ==
    /\ pc \in {"freeChunks", "delete"}
    /\ chunkList /= <<>>
    /\ heap' = heap \ {chunkList[1].at, chunkList[1].moreAt}
    /\ UNCHANGED <<image, handle, chunkList, sysList, leaf, item, last, outOfMemory, errno, pc>>

\* One iteration of btrfs_chunk_list_delete.
FreeNode ==
    /\ pc \in {"freeChunks", "delete"}
    /\ chunkList /= <<>>
    /\ heap' = heap \ {chunkList[1].at, chunkList[1].moreAt}
    /\ chunkList' = Tail(chunkList)
    /\ UNCHANGED <<image, handle, sysList, leaf, item, last, outOfMemory, errno, pc>>

FreeHandle ==
    /\ \/ pc = "freeHandle"
       \/ pc \in {"freeChunks", "delete"} /\ chunkList = <<>>
    /\ heap' = heap \ {handle}
    /\ handle' = NullPtr
    /\ pc' = IF pc = "delete" THEN "deleted" ELSE "failed"
    /\ UNCHANGED <<image, chunkList, sysList, leaf, item, last, outOfMemory, errno>>

\* The client of the library closes the image.
Delete ==
    /\ pc = "open"
    /\ pc' = "delete"
    /\ UNCHANGED <<image, handle, chunkList, sysList, leaf, item, heap, last, outOfMemory, errno>>

Step ==
    \/ AllocateHandle \/ NoHandle \/ FindSuperblock
    \/ ReadSysChunk \/ SysChunkFails \/ SysArrayRead
    \/ ReadChunk \/ ChunkFails \/ NextLeaf \/ ChunkTreeFaults
    \/ FindFsTree \/ NoFsTree \/ RootTreeFaults \/ FreeNode \/ FreeHandle

Returned == pc \in {"open", "failed", "deleted", "crash"} /\ UNCHANGED vars

Next == Step \/ Delete \/ Returned

\* A call runs on until it returns; the client need not ever close the image.
Spec == Init /\ [][Next]_vars /\ WF_vars(Step)

----------------------------------------------------------------------------

TypeOK ==
    /\ image \in Images
    /\ handle \in Nat
    /\ chunkList \in Seq(Node)
    /\ sysList \in Seq(Node)
    /\ leaf \in Nat \ {0} /\ item \in Nat \ {0}
    /\ heap \subseteq Nat
    /\ last \in Nat
    /\ outOfMemory \in BOOLEAN
    /\ errno \in {"none", "ENOMEM", "EINVAL", "EIO"}
    /\ pc \in {"start", "superblock", "sys", "chunks", "lookup", "open", "crash",
               "freeChunks", "freeHandle", "delete", "failed", "deleted"}

Reachable ==
    ({handle} \cup UNION {{chunkList[i].at, chunkList[i].moreAt} : i \in DOMAIN chunkList})
        \ {NullPtr}

\* Whatever fails, what is allocated is what the handle and its list still
\* reach: nothing is lost, nothing is freed twice or used after it was freed.
HeapIsReachable == heap = Reachable

\* An open that fails and a close leave nothing allocated.
NothingLeaks == pc \in {"failed", "deleted"} => heap = {}

\* Once an image is open, and no allocation failed, every byte of every chunk of
\* the image is found at the place of the image that holds it, unless the
\* chunk is one of exactly two stripes (btrfs_chunk_list.c:31).
OpenMapsImage ==
    pc = "open" /\ ~ outOfMemory =>
        \A c \in ChunksOf(image) : Len(c.stripes) /= 2 =>
            \A offset \in 0 .. c.length - 1 :
                HoldsByte(c, Resolve(chunkList, c.start + offset), offset)

\* The chunks that the chunk tree adds never move an address that the list
\* already maps: blocks found through the sys array stay where they are.
PrependKeepsMap ==
    [][ReadChunk =>
         \A i \in DOMAIN chunkList : \A m \in 0 .. chunkList[i].length - 1 :
            LET a == chunkList[i].start + m
            IN  Resolve(chunkList', a) = Resolve(chunkList, a)]_vars

\* An open faults only for two reasons: the handler ran out of memory and left
\* chunks out (btrfs_low.c:95-97), after which the open goes on as if the list
\* were complete, or a chunk of two stripes lost its second.
CrashNeedsLostChunks ==
    pc = "crash" =>
        \/ outOfMemory
        \/ \E i \in DOMAIN chunkList : chunkList[i].numStripes = 2

\* Every open returns, and every close.
OpenAndCloseReturn ==
    /\ <>(pc \in {"open", "failed", "crash"})
    /\ pc = "delete" ~> pc = "deleted"

\* src/struct/btrfs_chunk.h:38 "the first of one or more stripes that map to device
\* extents": every byte of a chunk of the list is in one of its stripes.
EveryStripeResolves ==
    \A i \in DOMAIN chunkList : \A m \in 0 .. chunkList[i].length - 1 :
        Resolve(chunkList, chunkList[i].start + m) /= Fault
=============================================================================
