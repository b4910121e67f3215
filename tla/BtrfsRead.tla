----------------------------- MODULE BtrfsRead -----------------------------
(***************************************************************************)
(* btrfs_low_read: a read of a piece of a file, extent after extent.       *)
(*                                                                         *)
(* A tree maps the keys of a file system tree to their items: an extent,   *)
(* or an item that the read has no use for; those of its keys that lie in  *)
(* leaves that are not mapped are lost, and it is inner when its root is   *)
(* no leaf.  Each lookup is a search with exact = false (BtrfsSearch),     *)
(* which takes key for the query and leaves the key that it found there.   *)
(* A byte is named by its place in the image, Zero is the byte that is     *)
(* made up for a hole, and the data of an inline extent lies at a place of *)
(* its own, in the leaf.  A call that has gone astray is over as far as    *)
(* this module goes: whatever it does then is not of its making.           *)
(***************************************************************************)
EXTENDS BtrfsSearch, BtrfsChunkList, FiniteSets

CONSTANTS
    Files,      \* what is read from: a tree, its lost keys, whether it is inner, the
                \* chunk list, the files' sizes
    Requests,   \* what is asked for: a file, an offset and a length
    IntLimit    \* one more than the greatest int

INODE_ITEM == 1
EXTENT_DATA == 108

Extent == [type : {"inline", "reg", "prealloc", "unknown"},
           ramBytes : Nat, diskBytenr : Nat, offset : Nat, numBytes : Nat, inlineAt : Nat]
OtherItem == "other item"

\* How many bytes of a file an extent holds.
Length(extent) == IF extent.type = "inline" THEN extent.ramBytes ELSE extent.numBytes

ASSUME FilesAssumption ==
    \A f \in Files :
        /\ DOMAIN f.tree \subseteq Key /\ IsFiniteSet(DOMAIN f.tree)
        /\ \A k \in DOMAIN f.tree : k.type = EXTENT_DATA => f.tree[k] \in Extent
        /\ f.lost \subseteq DOMAIN f.tree
        /\ f.inner \in BOOLEAN
        /\ f.chunks \in Seq(Node)
ASSUME RequestsAssumption ==
    /\ Requests \subseteq [file : Nat, offset : Nat, length : Nat]
    /\ \A f \in Files, r \in Requests : f.sizes[r.file] \in Nat
ASSUME IntLimitAssumption == IntLimit \in Nat \ {0}

\* No byte of a file is in two extents.
ASSUME ExtentsAssumption ==
    \A f \in Files : \A k, l \in {k \in DOMAIN f.tree : k.type = EXTENT_DATA} :
        k.objectid = l.objectid /\ k.offset < l.offset =>
            k.offset + Length(f.tree[k]) <= l.offset

ENOENT == -2
EINVAL == -22
Zero == -1

VARIABLES image, request, key, offset, bytesRead, buf, ret, pc

vars == <<image, request, key, offset, bytesRead, buf, ret, pc>>

\* The conversion of a size_t to an int.
ToInt(n) == ((n + IntLimit) % (2 * IntLimit)) - IntLimit

\* The search for the item at the position: it takes objectid and type from what
\* the one before has found.
Query == [key EXCEPT !.offset = offset]
Finds == SearchFinds(DOMAIN image.tree, Query)
Found == Nearest(DOMAIN image.tree, Query)
KeyAfter == IF Finds THEN Found ELSE Query

\* Wrong: any extent will do, or only one that starts at the position.
FindsAnyExtent == Finds /\ Found.type = EXTENT_DATA
FindsExactExtent == Finds /\ Found = Query

FindsExtent == Finds /\ Found.type = EXTENT_DATA /\ Found.objectid = request.file

\* Where the data of an extent is, Unmapped for a null src.
Source(extent) ==
    IF extent.type = "inline" THEN extent.inlineAt
    ELSE IF extent.diskBytenr = 0 THEN Unmapped
    ELSE Resolve(image.chunks, extent.diskBytenr)

\* Wrong: all the rest of the extent, and the bytes from its start.
CopiedUnbounded(extent, length, from) ==
    IF from >= extent.ramBytes THEN 0 ELSE extent.ramBytes - from
BytesFromStart(extent, count, from) ==
    [n \in 1 .. count |->
        IF Source(extent) = Unmapped THEN Zero ELSE Source(extent) + n - 1]

\* How many bytes __btrfs_low_read copies, and which ones.
Copied(extent, length, from) ==
    IF from >= extent.ramBytes THEN 0
    ELSE IF from + length > extent.ramBytes THEN extent.ramBytes - from
    ELSE length
Bytes(extent, count, from) ==
    [n \in 1 .. count |->
        IF Source(extent) = Unmapped THEN Zero ELSE Source(extent) + from + n - 1]

Init ==
    /\ image \in Files
    /\ request \in Requests
    /\ key = [objectid |-> request.file, type |-> EXTENT_DATA, offset |-> 0]
    /\ offset = request.offset
    /\ bytesRead = 0
    /\ buf = <<>>
    /\ ret = 0
    /\ pc = "loop"

\* Whether the loop goes on after a call that gave got; wrong when it does so after
\* one that gave nothing.
GoesOnAfterNothing(got) == got >= 0
GoesOn(got) == got > 0

InLoop == pc = "loop" /\ bytesRead < request.length
LeafIsLost == SearchFaults(DOMAIN image.tree, image.lost, Query)
OutOfRange == SearchStrays(DOMAIN image.tree, image.inner, Query)
Searched == InLoop /\ ~ LeafIsLost /\ ~ OutOfRange /\ key' = KeyAfter

NoExtent ==
    /\ Searched
    /\ ~ FindsExtent
    /\ ret' = ENOENT
    /\ pc' = "done"
    /\ UNCHANGED <<image, request, offset, bytesRead, buf>>

UnknownExtent ==
    /\ Searched
    /\ FindsExtent
    /\ image.tree[Found].type = "unknown"
    /\ ret' = EINVAL
    /\ pc' = "done"
    /\ UNCHANGED <<image, request, offset, bytesRead, buf>>

\* btrfs_chunk_list_resolve looks for the extent in a stripe that was not kept.
ResolveFaults ==
    /\ Searched
    /\ FindsExtent
    /\ image.tree[Found].type /= "unknown"
    /\ Source(image.tree[Found]) = Fault
    /\ pc' = "crash"
    /\ UNCHANGED <<image, request, offset, bytesRead, buf, ret>>

\* The search ends in a leaf that is not mapped.
SearchFaultsInLeaf ==
    /\ InLoop
    /\ LeafIsLost
    /\ pc' = "crash"
    /\ UNCHANGED <<image, request, key, offset, bytesRead, buf, ret>>

\* The tree is none that a file's extents are in, and begins with a greater key.
SearchGoesAstray ==
    /\ InLoop
    /\ OutOfRange
    /\ pc' = "astray"
    /\ UNCHANGED <<image, request, key, offset, bytesRead, buf, ret>>

\* The copy of one extent's bytes to buf + bytes_read; an int takes their count.
CopyExtent ==
    /\ Searched
    /\ FindsExtent
    /\ image.tree[Found].type /= "unknown"
    /\ Source(image.tree[Found]) /= Fault
    /\ LET extent == image.tree[Found]
           from   == offset - Found.offset
           count  == Copied(extent, request.length - bytesRead, from)
           got    == ToInt(count)
       IN  /\ buf' = SubSeq(buf, 1, bytesRead) \o Bytes(extent, count, from)
           /\ IF GoesOn(got)
              THEN /\ offset' = offset + got
                   /\ bytesRead' = bytesRead + got
                   /\ UNCHANGED <<ret, pc>>
              ELSE /\ ret' = IF got < 0 THEN got ELSE ToInt(bytesRead)
                   /\ pc' = "done"
                   /\ UNCHANGED <<offset, bytesRead>>
    /\ UNCHANGED <<image, request>>

ReturnAll ==
    /\ pc = "loop"
    /\ bytesRead >= request.length
    /\ ret' = ToInt(bytesRead)
    /\ pc' = "done"
    /\ UNCHANGED <<image, request, key, offset, bytesRead, buf>>

Step ==
    \/ NoExtent \/ UnknownExtent \/ ResolveFaults \/ SearchFaultsInLeaf
    \/ SearchGoesAstray \/ CopyExtent \/ ReturnAll
Stopped == pc \in {"done", "crash", "astray"} /\ UNCHANGED vars
Next == Step \/ Stopped

\* A call runs on until it returns.
Spec == Init /\ [][Next]_vars /\ WF_vars(Step)

----------------------------------------------------------------------------

TypeOK ==
    /\ image \in Files
    /\ request \in Requests
    /\ key \in Key
    /\ offset \in Nat
    /\ bytesRead \in 0 .. request.length
    /\ buf \in Seq(Nat \cup {Zero})
    /\ ret \in Int
    /\ pc \in {"loop", "done", "crash", "astray"}

(***************************************************************************)
(* What a file holds, from the comments of btrfs_file_extent_item.h: the   *)
(* numBytes bytes from the key's offset on are those of the extent from    *)
(* its own offset on; a preallocated extent and a gap hold zeros, and what *)
(* no chunk maps counts as zeros (btrfs_low.c:451).                        *)
(***************************************************************************)
Extents == {k \in DOMAIN image.tree : k.type = EXTENT_DATA /\ k.objectid = request.file}
Holds(k, position) == k.offset <= position /\ position < k.offset + Length(image.tree[k])
Size == image.sizes[request.file]

FileByte(position) ==
    IF \E k \in Extents : Holds(k, position)
    THEN LET k      == CHOOSE k \in Extents : Holds(k, position)
             extent == image.tree[k]
             within == position - k.offset
         IN  IF extent.type = "inline" THEN extent.inlineAt + within
             ELSE IF extent.type = "prealloc" \/ extent.diskBytenr = 0 THEN Zero
             ELSE LET place == Resolve(image.chunks, extent.diskBytenr + extent.offset + within)
                  IN  IF place = Unmapped THEN Zero ELSE place
    ELSE Zero

\* An extent that is in the file as it was written: whole, and in one piece.
Whole(extent) ==
    \/ extent.type = "inline"
    \/ /\ extent.type = "reg"
       /\ extent.offset = 0
       /\ extent.numBytes = extent.ramBytes
       /\ extent.diskBytenr /= 0 =>
            LET place == Resolve(image.chunks, extent.diskBytenr)
            IN  /\ place /= Fault
                /\ \A n \in 0 .. extent.ramBytes - 1 :
                    Resolve(image.chunks, extent.diskBytenr + n) =
                        IF place = Unmapped THEN Unmapped ELSE place + n

WholeExtents == \A k \in Extents : Whole(image.tree[k])

\* A file without gaps: every byte of it is in some extent.
Dense == \A position \in 0 .. Size - 1 : \E k \in Extents : Holds(k, position)

\* What was read is what the file holds from the offset asked for on.
GivesContent ==
    \A n \in 1 .. Len(buf) :
        request.offset + n - 1 < Size => buf[n] = FileByte(request.offset + n - 1)

\* A read of a file whose extents are whole copies the bytes of the file, one
\* after the other from the offset asked for, across the ends of extents.
ReadsContent == WholeExtents => GivesContent

\* A read never copies more than it was asked for, so the caller's buffer is
\* never overrun, and what it reports is what it copied.
StaysInBuffer ==
    /\ Len(buf) <= request.length
    /\ pc = "done" /\ ret >= 0 /\ request.length < IntLimit => ret = Len(buf)

\* Of a file without gaps a read within the file gives what was asked for, or all
\* there is to the end of the file; it is not cut short at the end of an extent.
ReadsToTheEnd ==
    /\ pc = "done" /\ request.length < IntLimit
    /\ WholeExtents /\ Dense /\ request.offset < Size
    => ret = request.length \/ request.offset + ret >= Size

\* The addresses of an extent that is mapped follow one another in the image, too: it
\* does not go on in another stripe.  (Of one that does, the bytes behind the stripe's end
\* are read in place of its own: lines 434 and 449.)
InOnePiece(extent) ==
    extent.type \in {"reg", "prealloc"} /\ Source(extent) \notin {Unmapped, Fault} =>
        \A n \in 0 .. extent.ramBytes - 1 :
            Resolve(image.chunks, extent.diskBytenr + n) = Source(extent) + n

\* Where the bytes of an extent are, each by its own address.
OwnBytes(extent) ==
    IF extent.type = "inline" THEN {extent.inlineAt + n : n \in 0 .. extent.ramBytes - 1}
    ELSE IF extent.diskBytenr = 0 THEN {}
    ELSE {Resolve(image.chunks, extent.diskBytenr + n) : n \in 0 .. extent.ramBytes - 1}

\* Of a file whose extents are each in one piece, whatever else is wrong with them,
\* every byte that is read is zero or lies at an address of an extent of this very
\* file, even when the extents around it in the tree and in the image are those of its
\* neighbours.
NoForeignBytes ==
    (\A k \in Extents : InOnePiece(image.tree[k])) =>
        \A n \in 1 .. Len(buf) :
            buf[n] = Zero \/ \E k \in Extents : buf[n] \in OwnBytes(image.tree[k])

\* Every read returns: each iteration makes progress or is the last.  (Or it faults, or
\* goes astray in a tree that is none of a file's.)
Termination == <>(pc \in {"done", "crash", "astray"})

----------------------------------------------------------------------------

\* struct/btrfs_file_extent_item.h:86 "offset into the extent item. Number of bytes
\* to skip at the beginning (uncompressed)": the first byte of a read that begins in
\* an extent is that byte of the file, whatever the extent's offset.  Where the extent
\* ends plays no part in it.
SkipsOffset ==
    \A k \in Extents :
        /\ buf /= <<>> /\ Holds(k, request.offset)
        /\ image.tree[k].type = "reg" /\ InOnePiece(image.tree[k])
        => buf[1] = FileByte(request.offset)
=============================================================================
