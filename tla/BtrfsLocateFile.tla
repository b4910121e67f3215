-------------------------- MODULE BtrfsLocateFile --------------------------
(***************************************************************************)
(* btrfs_stat with all that is under it: the path of a file is followed    *)
(* from the root directory, one name after the other and from one          *)
(* subvolume into the next, to the file's inode.  The other calls of the   *)
(* library follow their path with the same steps and go on from where it   *)
(* is located (BtrfsSession).                                              *)
(*                                                                         *)
(* A path is the sequence of the names between its slashes; a slash at the *)
(* end or a double one makes an empty name.  A tree maps keys to items.    *)
(* The item of a DIR_ITEM key holds the entries whose names have the hash  *)
(* in the key's offset, that of a ROOT_ITEM key the address of the root of *)
(* a tree.  Of each tree the keys in leaves that are not mapped are lost:  *)
(* a search faults there (BtrfsSearch), a traversal passes them over and   *)
(* calls its handler with the others as ItemScan says.  A tree that is not *)
(* there is one whose root is not mapped.                                  *)
(*                                                                         *)
(* The entry of a subvolume may have outlived its root item.  The walk     *)
(* then goes on in a tree of another kind, or wherever the eight bytes     *)
(* point that it takes for an address: at nothing, at some tree, or at     *)
(* Elsewhere, which is mapped and is no root of a tree.  Searching there,  *)
(* like searching a tree below its first key, goes astray (BtrfsSearch).   *)
(*                                                                         *)
(* The steps here are those of one call; BtrfsSession is the specification *)
(* they are part of.                                                       *)
(***************************************************************************)
EXTENDS BtrfsSearch, SequencesExt

CONSTANTS
    Names,      \* the names of files, and the empty name
    Hash,       \* btrfs_name_hash
    Calls,      \* the calls of the library
    NoEntry,    \* the null pointer in acc.result
    NoStat,     \* a struct stat that was not filled in
    Nowhere     \* where a path leads that names no file

INODE_ITEM == 1
DIR_ITEM == 84
ROOT_ITEM == 132
FIRST_FREE_OBJECTID == 256
MaxOffset == 1000    \* stands for -1ULL, the greatest offset of a key
NoTree == 0
Elsewhere == -1      \* stands for all addresses of bytes that are no root of a tree
OtherItem == "other item"

Entry == [name : Names, type : Nat, objectid : Nat]
Inode == [dir : BOOLEAN, nlink : Nat, size : Nat]

ASSUME HashAssumption == Hash \in [Names -> Nat]
ASSUME NowhereAssumption == Nowhere \notin [tree : Nat \cup {Elsewhere}, objectid : Nat]
\* What is called: btrfs_stat without a struct stat and with one, and the rest.
Ops == {"exists", "stat", "readdir", "read", "readlink"}

ASSUME CallsAssumption ==
    \A c \in Calls : c.op \in Ops /\ c.slash \in BOOLEAN /\ c.path \in Seq(Names)

ENOENT == -2
EIO == -5
EINVAL == -22

VARIABLES
    image,      \* the trees as the handle sees them: roots and lostRoots, trees, lost and
                \* inner (those whose root is no leaf), fsRoot
    call,
    walked,     \* how many names of the path were followed
    fsTree, objectid,   \* where that led
    entry,      \* acc.result
    located,    \* what btrfs_low_locate_file returned
    stat,       \* the caller's struct stat
    ret, pc

vars == <<image, call, walked, fsTree, objectid, entry, located, stat, ret, pc>>

Name == call.path[walked + 1]
NameKey == [objectid |-> objectid, type |-> DIR_ITEM, offset |-> Hash[Name]]
KeysOf(im, b) == IF b \in DOMAIN im.trees THEN DOMAIN im.trees[b] ELSE {}
LostOf(im, b) == IF b \in DOMAIN im.trees THEN im.lost[b] ELSE {}
IsInner(im, b) == b = Elsewhere \/ b \in im.inner
TreeFaults(key) == SearchFaults(KeysOf(image, fsTree), LostOf(image, fsTree), key)
TreeStrays(key) == SearchStrays(KeysOf(image, fsTree), IsInner(image, fsTree), key)

\* btrfs_get_file_id wants an absolute path.
Start ==
    /\ pc = "start"
    /\ IF ~ call.slash THEN ret' = EINVAL /\ pc' = "done"
       ELSE pc' = (IF call.path = <<>> THEN "located" ELSE "find") /\ UNCHANGED ret
    /\ UNCHANGED <<image, call, walked, fsTree, objectid, entry, located, stat>>

\* Whether there is any DIR_ITEM with the hash of the name.
FindHash ==
    /\ pc = "find"
    /\ ~ TreeFaults(NameKey) /\ ~ TreeStrays(NameKey)
    /\ IF NameKey \in KeysOf(image, fsTree)
       THEN pc' = "scan" /\ UNCHANGED located
       ELSE pc' = "located" /\ located' = ENOENT
    /\ entry' = NoEntry
    /\ UNCHANGED <<image, call, walked, fsTree, objectid, stat, ret>>

\* The traversal with __btrfs_low_locate_file_handler: it stops at the first item
\* of the directory with that hash whose first entry has that name.
\* (Wrong without the comparison of the name.)
HandlerAcceptsHash(k) ==
    /\ k.type = DIR_ITEM
    /\ k.objectid = objectid
    /\ k.offset = Hash[Name]

HandlerAccepts(k) ==
    /\ k.type = DIR_ITEM
    /\ k.objectid = objectid
    /\ k.offset = Hash[Name]
    /\ image.trees[fsTree][k][1].name = Name
Accepted == {k \in KeysOf(image, fsTree) \ LostOf(image, fsTree) : HandlerAccepts(k)}

ScanTree ==
    /\ pc = "scan"
    /\ IF Accepted = {}
       THEN pc' = "located" /\ located' = ENOENT /\ UNCHANGED entry
       ELSE /\ \E k \in Accepted :
                /\ \A l \in Accepted : KeyLeq(k, l)
                /\ entry' = image.trees[fsTree][k][1]
            /\ pc' = "enter"
            /\ UNCHANGED located
    /\ UNCHANGED <<image, call, walked, fsTree, objectid, stat, ret>>

\* Wrong: the root item of a snapshot has a greater offset.
RootQueryAtZero(subvolume) == [objectid |-> subvolume, type |-> ROOT_ITEM, offset |-> 0]

\* btrfs_low_find_tree_root: the item with the greatest key that is not above the
\* root items of the subvolume is taken for one, whatever it is.  That of another tree
\* leads there; of any other item some eight bytes are taken for an address.
RootQuery(subvolume) == [objectid |-> subvolume, type |-> ROOT_ITEM, offset |-> MaxOffset]
TreeRoots(subvolume) ==
    LET found == Nearest(DOMAIN image.roots, RootQuery(subvolume))
    IN  IF ~ SearchFinds(DOMAIN image.roots, RootQuery(subvolume)) THEN {NoTree}
        ELSE IF found.type = ROOT_ITEM THEN {image.roots[found]}
        ELSE DOMAIN image.trees \cup {NoTree, Elsewhere}
RootsFault(subvolume) == SearchFaults(DOMAIN image.roots, image.lostRoots, RootQuery(subvolume))

NextName ==
    /\ walked' = walked + 1
    /\ pc' = IF walked' = Len(call.path) THEN "located" ELSE "find"

EnterInode ==
    /\ pc = "enter"
    /\ entry.type = INODE_ITEM
    /\ objectid' = entry.objectid
    /\ NextName
    /\ UNCHANGED <<image, call, fsTree, entry, located, stat, ret>>

EnterSubvolume ==
    /\ pc = "enter"
    /\ entry.type = ROOT_ITEM
    /\ ~ RootsFault(entry.objectid)
    /\ fsTree' \in TreeRoots(entry.objectid)
    /\ objectid' = FIRST_FREE_OBJECTID
    /\ NextName
    /\ UNCHANGED <<image, call, entry, located, stat, ret>>

\* Wrong: the loop goes round again without a step along the path.
EnterOtherAgain ==
    /\ pc = "enter"
    /\ entry.type \notin {INODE_ITEM, ROOT_ITEM}
    /\ pc' = "find"
    /\ UNCHANGED <<image, call, walked, fsTree, objectid, entry, located, stat, ret>>

EnterOther ==
    /\ pc = "enter"
    /\ entry.type \notin {INODE_ITEM, ROOT_ITEM}
    /\ located' = EIO
    /\ pc' = "located"
    /\ UNCHANGED <<image, call, walked, fsTree, objectid, entry, stat, ret>>

\* Back in btrfs_get_file_id: whatever the error, it becomes ENOENT (wrong: it is
\* handed on).
NotFoundAsIs ==
    /\ pc = "located" /\ located /= 0
    /\ ret' = located
    /\ pc' = "done"
    /\ UNCHANGED <<image, call, walked, fsTree, objectid, entry, located, stat>>

NotFound ==
    /\ pc = "located" /\ located /= 0
    /\ ret' = ENOENT
    /\ pc' = "done"
    /\ UNCHANGED <<image, call, walked, fsTree, objectid, entry, located, stat>>

\* The caller of btrfs_stat only wants to know whether the file is there ...
Exists ==
    /\ pc = "located" /\ located = 0 /\ call.op = "exists"
    /\ ret' = 0
    /\ pc' = "done"
    /\ UNCHANGED <<image, call, walked, fsTree, objectid, entry, located, stat>>

\* ... or what its inode says (btrfs_low_stat).
StatOf(ino, inode) ==
    [ino |-> ino, dir |-> inode.dir, size |-> inode.size,
     nlink |-> inode.nlink + IF inode.dir THEN 1 ELSE 0]
InodeKey == [objectid |-> objectid, type |-> INODE_ITEM, offset |-> 0]

StatInode ==
    /\ pc = "located" /\ located = 0 /\ call.op = "stat"
    /\ ~ TreeFaults(InodeKey) /\ ~ TreeStrays(InodeKey)
    /\ IF InodeKey \in KeysOf(image, fsTree)
       THEN stat' = StatOf(objectid, image.trees[fsTree][InodeKey]) /\ ret' = 0
       ELSE ret' = ENOENT /\ UNCHANGED stat
    /\ pc' = "done"
    /\ UNCHANGED <<image, call, walked, fsTree, objectid, entry, located>>

\* A search ends in a leaf that is not mapped.
WalkFaults ==
    /\ \/ pc = "find" /\ TreeFaults(NameKey)
       \/ pc = "enter" /\ entry.type = ROOT_ITEM /\ RootsFault(entry.objectid)
       \/ pc = "located" /\ located = 0 /\ call.op = "stat" /\ TreeFaults(InodeKey)
    /\ pc' = "crash"
    /\ UNCHANGED <<image, call, walked, fsTree, objectid, entry, located, stat, ret>>

\* A search in a tree that is none of a file system: what becomes of the call is not
\* for this code to say.
WalkStrays ==
    /\ \/ pc = "find" /\ TreeStrays(NameKey)
       \/ pc = "located" /\ located = 0 /\ call.op = "stat" /\ TreeStrays(InodeKey)
    /\ pc' = "astray"
    /\ UNCHANGED <<image, call, walked, fsTree, objectid, entry, located, stat, ret>>

Step ==
    \/ Start \/ FindHash \/ ScanTree
    \/ EnterInode \/ EnterSubvolume \/ EnterOther
    \/ NotFound \/ Exists \/ StatInode \/ WalkFaults \/ WalkStrays

----------------------------------------------------------------------------

(***************************************************************************)
(* What a path leads to, with no hashes and no searches: in the directory  *)
(* reached so far, the entry that has the name; the root directory of the  *)
(* subvolume, when the entry is one, and the entry's inode otherwise.      *)
(***************************************************************************)
DirItems(im, place) ==
    {k \in KeysOf(im, place.tree) : k.type = DIR_ITEM /\ k.objectid = place.objectid}
EntriesOf(im, place) == UNION {ToSet(im.trees[place.tree][k]) : k \in DirItems(im, place)}
RootItems(im, subvolume) ==
    {k \in DOMAIN im.roots : k.type = ROOT_ITEM /\ k.objectid = subvolume}

Target(im, place, e) ==
    IF e.type = INODE_ITEM THEN [tree |-> place.tree, objectid |-> e.objectid]
    ELSE IF e.type = ROOT_ITEM /\ RootItems(im, e.objectid) /= {}
    THEN [tree |-> im.roots[CHOOSE k \in RootItems(im, e.objectid) :
                              \A l \in RootItems(im, e.objectid) : l.offset <= k.offset],
          objectid |-> FIRST_FREE_OBJECTID]
    ELSE Nowhere

Enter(im, place, name) ==
    IF place /= Nowhere /\ \E e \in EntriesOf(im, place) : e.name = name
    THEN Target(im, place, CHOOSE e \in EntriesOf(im, place) : e.name = name)
    ELSE Nowhere

\* Where a path is after each number of its names.
RootPlace(im) == [tree |-> im.fsRoot, objectid |-> FIRST_FREE_OBJECTID]
PlacesOn(im, path) ==
    LET after[n \in 0 .. Len(path)] ==
            IF n = 0 THEN RootPlace(im) ELSE Enter(im, after[n - 1], path[n])
    IN  after

\* Every subvolume that has an entry has a root item.
Intact(im) ==
    \A b \in DOMAIN im.trees : \A k \in DOMAIN im.trees[b] :
        k.type = DIR_ITEM => \A n \in DOMAIN im.trees[b][k] :
            im.trees[b][k][n].type = ROOT_ITEM => RootItems(im, im.trees[b][k][n].objectid) /= {}

\* The trees of files: that at the root of the file system, and those of the subvolumes
\* that have an entry.
HasEntry(im, subvolume) ==
    \E b \in DOMAIN im.trees : \E k \in DOMAIN im.trees[b] :
        k.type = DIR_ITEM /\ \E n \in DOMAIN im.trees[b][k] :
            LET e == im.trees[b][k][n] IN e.type = ROOT_ITEM /\ e.objectid = subvolume
FsTrees(im) ==
    {im.fsRoot} \cup
        {im.roots[k] : k \in {k \in DOMAIN im.roots : k.type = ROOT_ITEM /\ HasEntry(im, k.objectid)}}

Walking == pc \in {"find", "scan", "enter", "located"} /\ located = 0
Place == [tree |-> fsTree, objectid |-> objectid]

\* After each name, and when the call has found the file, the walk is where the
\* names lead, in whatever subvolume that is: no entry of another directory, of
\* another name with the same hash or of another subvolume was followed.
FollowsPath ==
    Walking => Place = PlacesOn(image, call.path)[walked] \/ ~ Intact(image)

\* The name is in an item behind another one with the same hash.
Behind(name) ==
    \E k \in DirItems(image, Place) : \E n \in DOMAIN image.trees[fsTree][k] :
        n > 1 /\ image.trees[fsTree][k][n].name = name

\* A call says that a file is not there only if its path leads nowhere, if a name of it
\* stands behind another in a packed item (where __btrfs_low_locate_file_handler does
\* not look), or if the inode or the extent that was asked for is missing: never
\* because of leaves that are not mapped, or of what has the same hash in another
\* directory, or in another tree.
FindsFile ==
    pc = "done" /\ ret = ENOENT /\ call.slash =>
        \/ IF located /= 0
           THEN PlacesOn(image, call.path)[Len(call.path)] = Nowhere \/ Behind(Name)
           ELSE \/ call.op = "stat" /\ InodeKey \notin KeysOf(image, fsTree)
                \/ call.op \in {"read", "readlink"}
        \/ ~ Intact(image)
=============================================================================
