------------------------ MODULE MCBtrfsBinarySearch ------------------------
(* All nodes with up to five of five keys, which differ in every component *)
(* of the key, searched for the keys in, between, below and above them.    *)
EXTENDS BtrfsBinarySearch, FiniteSetsExt, SequencesExt

K(o, t, f) == [objectid |-> o, type |-> t, offset |-> f]

MCKeys == {K(1, 1, 1), K(1, 1, 2), K(1, 2, 0), K(2, 0, 0), K(2, 1, 0)}

MCQueries == MCKeys \cup {K(1, 1, 0), K(1, 1, 3), K(1, 3, 0), K(2, 0, 9), K(3, 0, 0)}

MCArrays == {SetToSortSeq(S, KeyLess) : S \in SUBSET MCKeys}
=============================================================================
