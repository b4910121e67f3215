---------------------------- MODULE BtrfsSearch ----------------------------
(***************************************************************************)
(* What btrfs_find_in_btree answers, as BtrfsFindInBtree shows it, for the *)
(* modules whose functions call it: the item with the key or, of the items *)
(* below it, the nearest.  keys are all keys of a tree that has a mapped   *)
(* root and none for a tree that has not; those in leaves that the chunk   *)
(* list does not map are lost.  The search ends in the leaf of the nearest *)
(* key, and faults when that is a lost one.                                *)
(*                                                                         *)
(* A search for a key below the first of a tree finds nothing in a root    *)
(* that is a leaf.  In one that is not, inner, it goes astray: the descent *)
(* follows a key_ptr that was never set.  It may fault, end in a block of  *)
(* another tree and answer whatever it finds there, or not end; nothing is *)
(* said of a call after that.                                              *)
(***************************************************************************)
EXTENDS BtrfsKeys

NotAbove(keys, key) == {k \in keys : KeyLeq(k, key)}

Nearest(keys, key) ==
    CHOOSE k \in NotAbove(keys, key) : \A l \in NotAbove(keys, key) : KeyLeq(l, k)

SearchFinds(keys, key) == NotAbove(keys, key) /= {}

SearchFaults(keys, lost, key) == SearchFinds(keys, key) /\ Nearest(keys, key) \in lost

SearchStrays(keys, inner, key) == inner /\ ~ SearchFinds(keys, key)
=============================================================================
