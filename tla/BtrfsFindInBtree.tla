-------------------------- MODULE BtrfsFindInBtree --------------------------
(***************************************************************************)
(* btrfs_find_in_btree: the descent from the root of a tree to the leaf    *)
(* that holds a key, with the local variables of the C function.           *)
(*                                                                         *)
(* Each step searches one node; BtrfsBinarySearch proves of that search    *)
(* that it keeps SearchContract, and this module uses no more than that.   *)
(* The code ignores what the search of an internal node returns.  When it  *)
(* returns -1 the variable key_ptr keeps what it held: at the root that is *)
(* whatever an earlier call left on the stack.                             *)
(***************************************************************************)
EXTENDS BtrfsTree

CONSTANTS
    Trees,     \* the trees of the image
    Mappings,  \* the sets of blocks that a chunk list may resolve
    Queries,   \* the keys that are looked up
    Wild,      \* a key_ptr that points to no key pointer
    Null,      \* the null header of a block the chunk list does not map
    NotFound,  \* the null pointer that the function returns
    Pending    \* no answer yet, for the abstract lookup

ASSUME TreesAssumption == \A t \in Trees : WellFormed(t)
ASSUME MappingsAssumption == Mappings \subseteq SUBSET Blocks
ASSUME FindQueriesAssumption == Queries \subseteq Key
ASSUME WildAssumption == Wild \notin Blocks
ASSUME NullAssumption == Null \notin Blocks
ASSUME NotFoundAssumption == NotFound \notin Key
ASSUME PendingAssumption == Pending \notin Key \cup {NotFound}

VARIABLES
    tree,      \* the tree that is searched
    mapped,    \* the blocks that the chunk list resolves
    key,
    exact,
    header,    \* the block of the current node
    keyPtr,    \* the block that key_ptr points to
    result,    \* the key of the item that is returned
    pc

vars == <<tree, mapped, key, exact, header, keyPtr, result, pc>>
call == <<tree, mapped, key, exact>>

\* btrfs_chunk_list_resolve, as far as the descent can tell.
Resolve(b) == IF b \in mapped THEN b ELSE Null

Level(b) == tree.level[b]
Keys(b) == tree.keys[b]
Items(b) == tree.items[b]

Init ==
    /\ tree \in Trees
    /\ mapped \in Mappings
    /\ key \in Queries
    /\ exact \in BOOLEAN
    /\ header = Null
    /\ keyPtr \in Blocks \cup {Wild}
    /\ result = NotFound
    /\ pc = "start"

\* Wrong: the root is not checked for null.
ResolveRootUnchecked ==
    /\ pc = "start"
    /\ header' = Resolve(tree.root)
    /\ pc' = "descend"
    /\ UNCHANGED <<call, keyPtr, result>>

ResolveRoot ==
    /\ pc = "start"
    /\ header' = Resolve(tree.root)
    /\ pc' = IF header' = Null THEN "done" ELSE "descend"
    /\ UNCHANGED <<call, keyPtr, result>>

\* Wrong: the descent takes the child after the key, does not move to the child,
\* or overwrites key_ptr with the pointer it resolves.
DescendPastKey ==
    /\ pc = "descend"
    /\ header /= Null
    /\ Level(header) > 0
    /\ \E ret \in {-1, 0, 1}, at \in 0 .. Len(Keys(header)) :
        /\ SearchContract(Keys(header), key, ret, at)
        /\ keyPtr' = IF ret > 0 /\ at + 2 <= Len(Keys(header)) THEN tree.ptrs[header][at + 2]
                     ELSE IF ret >= 0 THEN tree.ptrs[header][at + 1] ELSE keyPtr
    /\ IF keyPtr' = Wild
       THEN pc' = "crash" /\ header' = header
       ELSE pc' = "descend" /\ header' = Resolve(keyPtr')
    /\ UNCHANGED <<call, result>>

DescendNowhere ==
    /\ pc = "descend"
    /\ header /= Null
    /\ Level(header) > 0
    /\ \E ret \in {-1, 0, 1}, at \in 0 .. Len(Keys(header)) :
        /\ SearchContract(Keys(header), key, ret, at)
        /\ keyPtr' = IF ret >= 0 THEN tree.ptrs[header][at + 1] ELSE keyPtr
    /\ pc' = IF keyPtr' = Wild THEN "crash" ELSE "descend"
    /\ UNCHANGED <<call, header, result>>

DescendOverwriting ==
    /\ pc = "descend"
    /\ header /= Null
    /\ Level(header) > 0
    /\ \E ret \in {-1, 0, 1}, at \in 0 .. Len(Keys(header)) :
        /\ SearchContract(Keys(header), key, ret, at)
        /\ keyPtr' = IF ret >= 0 THEN Resolve(tree.ptrs[header][at + 1]) ELSE keyPtr
    /\ IF keyPtr' = Wild
       THEN pc' = "crash" /\ header' = header
       ELSE pc' = "descend" /\ header' = keyPtr'
    /\ UNCHANGED <<call, result>>

\* One iteration of the loop: search an internal node and go to the child.
Descend ==
    /\ pc = "descend"
    /\ header /= Null
    /\ Level(header) > 0
    /\ \E ret \in {-1, 0, 1}, at \in 0 .. Len(Keys(header)) :
        /\ SearchContract(Keys(header), key, ret, at)
        /\ keyPtr' = IF ret >= 0 THEN tree.ptrs[header][at + 1] ELSE keyPtr
    /\ IF keyPtr' = Wild
       THEN pc' = "crash" /\ header' = header
       ELSE pc' = "descend" /\ header' = Resolve(keyPtr')
    /\ UNCHANGED <<call, result>>

\* The loop condition reads the level of the header without looking at it.
ReadNullHeader ==
    /\ pc = "descend"
    /\ header = Null
    /\ pc' = "crash"
    /\ UNCHANGED <<call, header, keyPtr, result>>

\* Wrong: the lower item is an answer to an exact search, too.
SearchLeafInexactly ==
    /\ pc = "descend"
    /\ header /= Null
    /\ Level(header) = 0
    /\ \E ret \in {-1, 0, 1}, at \in 0 .. Len(Keys(header)) :
        /\ SearchContract(Keys(header), key, ret, at)
        /\ result' = IF ret >= 0 THEN Keys(header)[at + 1] ELSE NotFound
    /\ pc' = "done"
    /\ UNCHANGED <<call, header, keyPtr>>

SearchLeaf ==
    /\ pc = "descend"
    /\ header /= Null
    /\ Level(header) = 0
    /\ \E ret \in {-1, 0, 1}, at \in 0 .. Len(Keys(header)) :
        /\ SearchContract(Keys(header), key, ret, at)
        /\ result' = IF ret = 0 \/ (ret > 0 /\ ~ exact)
                     THEN Keys(header)[at + 1] ELSE NotFound
    /\ pc' = "done"
    /\ UNCHANGED <<call, header, keyPtr>>

Stopped == pc \in {"done", "crash"} /\ UNCHANGED vars

Step == ResolveRoot \/ Descend \/ ReadNullHeader \/ SearchLeaf
Next == Step \/ Stopped

\* A call with any key on any image; a function call runs on until it returns.
Spec == Init /\ [][Next]_vars /\ WF_vars(Step)

\* The key is not below the first key of an internal root, so key_ptr is set.
InRange == Level(tree.root) > 0 => KeyLeq(Keys(tree.root)[1], key)

\* The calls of btrfs_low.c, as long as they search the tree they mean: they ask the
\* root tree for a root item and a file system tree for an inode number taken from it,
\* and those trees begin with lower keys.  A walk that an entry of a subvolume which
\* is gone has led elsewhere is out of this range (BtrfsLocateFile).
RangeInit == Init /\ InRange
RangeSpec == RangeInit /\ [][Next]_vars /\ WF_vars(Step)

----------------------------------------------------------------------------

TypeOK ==
    /\ tree \in Tree
    /\ mapped \in Mappings
    /\ key \in Queries
    /\ exact \in BOOLEAN
    /\ header \in Blocks \cup {Null}
    /\ keyPtr \in Blocks \cup {Wild}
    /\ result \in Key \cup {NotFound}
    /\ pc \in {"start", "descend", "done", "crash"}

Matches(k) == IF exact THEN k = key ELSE KeyLeq(k, key)

IsAnswer(items, a) ==
    IF \E k \in items : Matches(k)
    THEN a \in items /\ Matches(a) /\ \A k \in items : Matches(k) => KeyLeq(k, a)
    ELSE a = NotFound

\* The descent never leaves the subtree that holds the answer: what answers the
\* query in the current node's subtree answers it in the whole tree.
SubtreeHoldsAnswer ==
    InRange /\ pc = "descend" /\ header /= Null =>
        \A a \in Items(tree.root) \cup {NotFound} :
            IsAnswer(Items(header), a) => IsAnswer(Items(tree.root), a)

\* A call that returns returns the answer, even when some of the image's blocks
\* are not mapped: it never takes a wrong item for the one it looks for.  What the
\* answer is goes by the code (line 175) and by what its callers ask it for: exact for
\* the key alone, not exact for the greatest key up to it, of whatever object and type.
\* This is not what lines 19-20 of the header say, "if exact is true finds not exactly
\* key but item with maximal key that obejectid and type is equals to query": exact is
\* taken there the other way round, and no code compares the object and the type alone.
ReturnsAnswer ==
    InRange /\ pc = "done" =>
        IF tree.root \in mapped THEN IsAnswer(Items(tree.root), result)
                                ELSE result = NotFound

\* The only thing that stops a call within the range of the tree is a block on
\* the way to the answer that the chunk list does not map (lines 161, 171).
CrashMeansUnmapped ==
    InRange /\ pc = "crash" =>
        /\ keyPtr \in Blocks \ mapped
        /\ \E k \in Items(keyPtr) : KeyLeq(k, key)

\* Every iteration goes one level down, so a node is never searched twice.
DescendsOneLevel ==
    [][InRange /\ Descend /\ header' /= Null => Level(header') = Level(header) - 1]_vars

\* Every lookup in the range of the tree is answered when the chunk list maps
\* the blocks of the image.
Termination == mapped = Blocks => <>(pc = "done")

\* The abstract lookup, and the descent as an implementation of it.  A tree whose
\* root the chunk list does not map counts as empty.
Lookup == INSTANCE OrderedLookup WITH
    stored <- IF tree.root \in mapped THEN Items(tree.root) ELSE {},
    answer <- IF pc = "done" THEN result ELSE Pending

\* A call in the range of the tree gives the one answer that a lookup in the
\* tree's set of keys would give, or crashes before it gives any.  The lookup takes
\* exact as the code does, not as the comment of the header does.
ImplementsLookup == Lookup!LookupSafeSpec

\* btrfs_find_in_btree.h:16-17 "if item with specified key is present in tree,
\* returns item ..., otherwise returns NULL": an exact search for an absent key
\* in an image whose blocks are all mapped does not fail.
AbsentKeyReturnsNull ==
    exact /\ mapped = Blocks /\ key \notin Items(tree.root) => pc /= "crash"
=============================================================================
