------------------------------ MODULE ItemScan ------------------------------
(***************************************************************************)
(* What a traversal promises to the handler it calls: the items come in    *)
(* key order, each of them once; some may be lost, but always the lowest   *)
(* of those that are left, so that the order tells nothing wrong; the scan *)
(* ends when none is left, or at once when the handler wants no more.      *)
(***************************************************************************)
EXTENDS BtrfsKeys, SequencesExt

VARIABLES
    stored,    \* the keys in the tree
    handled,   \* the keys the handler was called with, in order
    lost,      \* the keys that were passed over
    status     \* "running", "broken" by the handler, or "done"

scanVars == <<stored, handled, lost, status>>

Rest == stored \ (ToSet(handled) \cup lost)

Least(k, S) == k \in S /\ \A l \in S : KeyLeq(k, l)

ScanInit == handled = <<>> /\ lost = {} /\ status = "running"

Handle ==
    /\ status = "running"
    /\ \E k \in Rest : Least(k, Rest) /\ handled' = Append(handled, k)
    /\ status' \in {"running", "broken"}
    /\ UNCHANGED <<stored, lost>>

Lose ==
    /\ status = "running"
    /\ lost \subseteq lost'
    /\ lost' \ lost \subseteq Rest
    /\ \A k \in lost' \ lost, l \in Rest \ lost' : KeyLess(k, l)
    /\ UNCHANGED <<stored, handled, status>>

Finish ==
    /\ status = "running"
    /\ Rest = {}
    /\ status' = "done"
    /\ UNCHANGED <<stored, handled, lost>>

ScanSafeSpec == ScanInit /\ [][Handle \/ Lose \/ Finish]_scanVars
=============================================================================
