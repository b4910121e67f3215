--------------------------- MODULE OrderedLookup ---------------------------
(***************************************************************************)
(* What a lookup in a B-tree promises, with no tree in sight: a set of     *)
(* keys is asked for a key, and answers it, or the greatest key below it   *)
(* unless the question is exact, or that there is none.  That is what      *)
(* exact means in line 175 of btrfs_find_in_btree.c and to every caller;   *)
(* lines 19-20 of its header, which turn the flag round and keep to one    *)
(* object and type, are not what is specified here.                        *)
(***************************************************************************)
EXTENDS BtrfsKeys

CONSTANTS
    NotFound,  \* the answer when there is no such item
    Pending    \* no answer yet

VARIABLES
    stored,    \* the keys in the tree
    key,       \* the key asked for
    exact,     \* whether only the key itself will do
    answer

lookupVars == <<stored, key, exact, answer>>

Matches(k) == IF exact THEN k = key ELSE KeyLeq(k, key)

IsAnswer(a) ==
    IF \E k \in stored : Matches(k)
    THEN /\ a \in stored
         /\ Matches(a)
         /\ \A k \in stored : Matches(k) => KeyLeq(k, a)
    ELSE a = NotFound

LookupInit == answer = Pending

Answer ==
    /\ answer = Pending
    /\ \E a \in stored \cup {NotFound} : IsAnswer(a) /\ answer' = a
    /\ UNCHANGED <<stored, key, exact>>

LookupSafeSpec == LookupInit /\ [][Answer]_lookupVars
=============================================================================
