----------------------------- MODULE BtrfsTree -----------------------------
(***************************************************************************)
(* A B-tree as the code reads it from the image.  A block (a logical       *)
(* address) holds a header with the level of the node and then, in a leaf, *)
(* its items, or, in an internal node, key pointers to the blocks one      *)
(* level below.  The module says what a well formed tree is; the images    *)
(* that the reader is given were written by the kernel driver, and nothing *)
(* in the code checks them.                                                *)
(***************************************************************************)
EXTENDS BtrfsKeys

CONSTANT Blocks    \* the logical addresses of tree blocks

\* keys: of the items of a leaf, or of the key pointers of an internal node.
\* ptrs: the blocknr of each key pointer.
\* items: the keys of all the leaves below a block.
Tree == [root  : Blocks,
         level : [Blocks -> Nat],
         keys  : [Blocks -> Seq(Key)],
         ptrs  : [Blocks -> Seq(Blocks)],
         items : [Blocks -> SUBSET Key]]

KeySet(keys) == {keys[i] : i \in 1 .. Len(keys)}

LeafOk(t, b) == t.items[b] = KeySet(t.keys[b])

\* A key pointer holds the first key of its child, and all the keys of the
\* child are below the next key pointer.
ChildOk(t, b, i) ==
    LET child == t.ptrs[b][i]
    IN  /\ t.level[child] = t.level[b] - 1
        /\ t.keys[b][i] \in t.items[child]
        /\ \A k \in t.items[child] :
            /\ KeyLeq(t.keys[b][i], k)
            /\ i < Len(t.keys[b]) => KeyLess(k, t.keys[b][i + 1])

NodeOk(t, b) ==
    /\ Len(t.keys[b]) > 0
    /\ Len(t.ptrs[b]) = Len(t.keys[b])
    /\ \A i \in 1 .. Len(t.keys[b]) : ChildOk(t, b, i)
    /\ \A k \in t.items[b] :
        \E i \in 1 .. Len(t.keys[b]) : k \in t.items[t.ptrs[b][i]]
    /\ \A i \in 1 .. Len(t.keys[b]) : t.items[t.ptrs[b][i]] \subseteq t.items[b]

WellFormed(t) ==
    /\ t \in Tree
    /\ \A b \in Blocks :
        /\ Sorted(t.keys[b])
        /\ IF t.level[b] = 0 THEN LeafOk(t, b) ELSE NodeOk(t, b)
=============================================================================
