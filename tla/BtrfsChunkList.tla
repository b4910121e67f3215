--------------------------- MODULE BtrfsChunkList ---------------------------
(***************************************************************************)
(* btrfs_chunk_list: the list that maps logical addresses to places in the *)
(* image.  The operators are the pure part of its functions; the module    *)
(* BtrfsOpenfs builds a list with them, one allocation after the other.    *)
(*                                                                         *)
(* A chunk starts at the logical address its key gives and spreads its     *)
(* bytes over its stripes in rows of stripeLen bytes.  The image is the    *)
(* only device, so a stripe is the place in the image where it begins.     *)
(***************************************************************************)
EXTENDS Integers, Sequences

CONSTANTS
    Unmapped,  \* the null pointer: no chunk covers the address
    Fault      \* the stripe is looked for in an array that was not allocated

ASSUME PointersAssumption == Unmapped \notin Int /\ Fault \notin Int /\ Unmapped /= Fault

Chunk == [start : Nat, length : Nat, stripeLen : Nat \ {0},
          stripes : Seq(Nat) \ {<<>>}]

NullPtr == 0

\* A node of the list: what it keeps of its chunk, the address at of the node
\* itself and the address moreAt of the array with the stripes but the first.
Node == {n \in [start : Nat, length : Nat, stripeLen : Nat \ {0}, numStripes : Nat \ {0},
                stripe : Nat, more : Seq(Nat), at : Nat \ {NullPtr}, moreAt : Nat] :
            n.moreAt /= NullPtr => Len(n.more) = n.numStripes - 1}

\* The number of stripes for which btrfs_chunk_list_new allocates the array.
NumAdditionalStripes(c) == Len(c.stripes) - 1
KeepsMoreThanTwo(c) == NumAdditionalStripes(c) > 2    \* wrong
KeepsMore(c) == NumAdditionalStripes(c) > 1

\* Wrong: the count is that of the stripes in the array.
NewNodeCountingMore(c, at, moreAt) ==
    [start |-> c.start, length |-> c.length, stripeLen |-> c.stripeLen,
     numStripes |-> NumAdditionalStripes(c), stripe |-> c.stripes[1],
     more |-> IF KeepsMore(c) THEN Tail(c.stripes) ELSE <<>>,
     at |-> at, moreAt |-> IF KeepsMore(c) THEN moreAt ELSE NullPtr]

\* The node that btrfs_chunk_list_new fills in.
NewNode(c, at, moreAt) ==
    [start |-> c.start, length |-> c.length, stripeLen |-> c.stripeLen,
     numStripes |-> Len(c.stripes), stripe |-> c.stripes[1],
     more |-> IF KeepsMore(c) THEN Tail(c.stripes) ELSE <<>>,
     at |-> at, moreAt |-> IF KeepsMore(c) THEN moreAt ELSE NullPtr]

\* Wrong: rows are counted as if the chunk had one stripe.
ResolveStripeSparsely(node, offset) ==
    LET number == offset \div node.stripeLen
        index  == number % node.numStripes
    IN  IF index = 0 THEN node.stripe + offset
        ELSE IF node.moreAt = NullPtr THEN Fault
        ELSE node.more[index] + offset

ResolveStripe(node, offset) ==
    LET number == offset \div node.stripeLen
        index  == number % node.numStripes
        place  == offset - number * node.stripeLen
                    + (number \div node.numStripes) * node.stripeLen
    IN  IF index = 0 THEN node.stripe + place
        ELSE IF node.moreAt = NullPtr THEN Fault
        ELSE node.more[index] + place

\* Wrong: a chunk covers the byte behind its last one, too.
CoversOneMore(node, logical) ==
    node.start <= logical /\ logical - node.start <= node.length

Covers(node, logical) ==
    node.start <= logical /\ logical - node.start < node.length

FirstCovering(list, logical) ==
    CHOOSE i \in 1 .. Len(list) :
        /\ Covers(list[i], logical)
        /\ \A j \in 1 .. i - 1 : ~ Covers(list[j], logical)

Resolve(list, logical) ==
    IF \E i \in 1 .. Len(list) : Covers(list[i], logical)
    THEN LET node == list[FirstCovering(list, logical)]
         IN  ResolveStripe(node, logical - node.start)
    ELSE Unmapped

(***************************************************************************)
(* What the mapping has to be, said the other way round: which byte of the *)
(* chunk a place in the image holds.  Byte r of row number row of stripe s *)
(* is that many bytes into the chunk.                                      *)
(***************************************************************************)
ByteOfChunk(c, s, row, r) == (row * Len(c.stripes) + s - 1) * c.stripeLen + r

HoldsByte(c, place, offset) ==
    \E s \in 1 .. Len(c.stripes), row \in 0 .. offset, r \in 0 .. c.stripeLen - 1 :
        /\ place = c.stripes[s] + row * c.stripeLen + r
        /\ offset = ByteOfChunk(c, s, row, r)
=============================================================================
