---------------------------- MODULE MCSmallTrees ----------------------------
(***************************************************************************)
(* Every tree of one, two and three levels over every set of at most four  *)
(* keys.  A tree is given by the set of stored keys, the keys among them   *)
(* that start a leaf and the keys among these that start a node above the  *)
(* leaves.  The leaf that starts with the i-th key is block i, the node    *)
(* above the leaves that starts with it is block 4 + i, and the root of a  *)
(* tree of three levels is block 9.                                        *)
(***************************************************************************)
EXTENDS Integers, FiniteSetsExt, SequencesExt

K(o, t, f) == [objectid |-> o, type |-> t, offset |-> f]

KeySeq == <<K(1, 1, 1), K(1, 2, 0), K(2, 0, 3), K(2, 1, 0)>>

MCBlocks == 1 .. 9

MCMappings == {MCBlocks} \cup {MCBlocks \ {b} : b \in MCBlocks}

KeysAt(order) == [i \in 1 .. Len(order) |-> KeySeq[order[i]]]
Ascending(S) == SetToSortSeq(S, <)

\* The members of S in the part that b starts.
Part(S, starts, b) == {x \in S : x >= b /\ \A c \in starts : c > b => x < c}

\* The keys stored under block b, and the keys that start its children.
Under(S, L, M, b) ==
    IF b \in L THEN Part(S, L, b)
    ELSE IF b - 4 \in M THEN Part(S, M, b - 4)
    ELSE IF b = 9 /\ Cardinality(M) > 1 THEN S
    ELSE {}

Starts(S, L, M, b) ==
    IF b \in L THEN Part(S, L, b)
    ELSE IF b - 4 \in M THEN Part(L, M, b - 4)
    ELSE IF b = 9 /\ Cardinality(M) > 1 THEN M
    ELSE {}

MCTree(S, L, M) ==
    [root  |-> IF S = {} THEN 1
               ELSE IF M = {} THEN Min(L)
               ELSE IF Cardinality(M) = 1 THEN 4 + Min(M) ELSE 9,
     level |-> [b \in MCBlocks |-> IF b - 4 \in M THEN 1
                                   ELSE IF b = 9 /\ Cardinality(M) > 1 THEN 2 ELSE 0],
     keys  |-> [b \in MCBlocks |-> KeysAt(Ascending(Starts(S, L, M, b)))],
     ptrs  |-> [b \in MCBlocks |->
                  CASE b - 4 \in M -> Ascending(Starts(S, L, M, b))
                    [] b = 9 -> Ascending({4 + m : m \in Starts(S, L, M, b)})
                    [] OTHER -> <<>>],
     items |-> [b \in MCBlocks |-> {KeySeq[x] : x \in Under(S, L, M, b)}]]

\* The empty tree, a leaf that is the root, and nodes above leaves.
Shape(S, L, M) ==
    /\ M \subseteq L /\ L \subseteq S
    /\ S /= {} => Min(S) \in L
    /\ IF M = {} THEN Cardinality(L) <= 1 ELSE Min(L) \in M

MCTrees ==
    LET Sets == SUBSET (1 .. 4)
    IN  {MCTree(x[1], x[2], x[3]) : x \in {x \in Sets \X Sets \X Sets : Shape(x[1], x[2], x[3])}}
=============================================================================
