----------------------------- MODULE BtrfsKeys -----------------------------
(***************************************************************************)
(* The keys that order every B-tree of the file system, the comparison the *)
(* search uses (btrfs_comp_keys) and the contract the binary search of one *)
(* node promises to its caller.  objectid, type and offset are unsigned    *)
(* integers that the code only compares, so Nat stands for u64 and u8.     *)
(***************************************************************************)
EXTENDS Integers, Sequences

Key == [objectid : Nat, type : Nat, offset : Nat]

KeyLess(a, b) ==
    \/ a.objectid < b.objectid
    \/ /\ a.objectid = b.objectid
       /\ \/ a.type < b.type
          \/ a.type = b.type /\ a.offset < b.offset

KeyLeq(a, b) == a = b \/ KeyLess(a, b)

\* btrfs_comp_keys: the sign of a - b.
CompKeys(a, b) ==
    IF KeyLess(b, a) THEN 1 ELSE IF KeyLess(a, b) THEN -1 ELSE 0

\* The order of the items of a node.  It is strict: a tree holds a key once.
Sorted(keys) ==
    \A i, j \in 1 .. Len(keys) : i < j => KeyLess(keys[i], keys[j])

(***************************************************************************)
(* What the comment over __btrfs_binary_search promises: 0 and the item    *)
(* with the key; 1 and the item with the greatest lower key; or -1, with   *)
(* the result left undefined, when every key is greater.  at counts items  *)
(* from 0 as the code does.                                                *)
(***************************************************************************)
SearchContract(keys, key, ret, at) ==
    \/ /\ ret = 0
       /\ at \in 0 .. Len(keys) - 1
       /\ keys[at + 1] = key
    \/ /\ ret = 1
       /\ at \in 0 .. Len(keys) - 1
       /\ \A i \in 1 .. Len(keys) :
            IF i <= at + 1 THEN KeyLess(keys[i], key) ELSE KeyLess(key, keys[i])
    \/ /\ ret = -1
       /\ \A i \in 1 .. Len(keys) : KeyLess(key, keys[i])
=============================================================================
