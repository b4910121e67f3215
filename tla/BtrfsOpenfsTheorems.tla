------------------------ MODULE BtrfsOpenfsTheorems ------------------------
(***************************************************************************)
(* Proofs about the chunk list, about what btrfs_openfs allocates and      *)
(* about the map it builds, for every image and every sequence of failing  *)
(* allocations.                                                            *)
(***************************************************************************)
EXTENDS BtrfsOpenfs, BtrfsKeysTheorems, SequenceTheorems

----------------------------------------------------------------------------
\* Division as the code uses it.
LEMMA DivMod ==
    ASSUME NEW a \in Nat, NEW b \in Nat \ {0}
    PROVE  /\ a \div b \in Nat
           /\ a % b \in 0 .. b - 1
           /\ a = b * (a \div b) + (a % b)
  OBVIOUS

\* A quotient is not above what is divided.
LEMMA QuotientIsSmaller ==
    ASSUME NEW a \in Nat, NEW b \in Nat \ {0}
    PROVE  a \div b \in 0 .. a
  OBVIOUS

\* Where resolve_stripe looks for a byte of a node.
LEMMA ResolveStripePlace ==
    ASSUME NEW node, NEW offset \in Nat,
           node.stripeLen \in Nat \ {0}, node.numStripes \in Nat \ {0}
    PROVE  \E index \in 0 .. node.numStripes - 1, row \in 0 .. offset,
              r \in 0 .. node.stripeLen - 1 :
             /\ offset = (row * node.numStripes + index) * node.stripeLen + r
             /\ ResolveStripe(node, offset) =
                  IF index = 0 THEN node.stripe + (r + row * node.stripeLen)
                  ELSE IF node.moreAt = NullPtr THEN Fault
                  ELSE node.more[index] + (r + row * node.stripeLen)
<1> DEFINE L == node.stripeLen
           n == node.numStripes
           number == offset \div L
           index == number % n
           row == number \div n
           r == offset - number * L
<1>1. ResolveStripe(node, offset) =
        IF index = 0 THEN node.stripe + (r + row * L)
        ELSE IF node.moreAt = NullPtr THEN Fault
        ELSE node.more[index] + (r + row * L)
  BY DEF ResolveStripe
<1>2. L \in Nat \ {0} /\ n \in Nat \ {0}
  OBVIOUS
<1> HIDE DEF L, n
<1>3. number \in 0 .. offset /\ offset = L * number + (offset % L) /\ offset % L \in 0 .. L - 1
  BY <1>2, DivMod, QuotientIsSmaller
<1> HIDE DEF number
<1>4. index \in 0 .. n - 1 /\ row \in 0 .. number /\ number = n * row + index
  <2>1. number \in Nat
    BY <1>3
  <2>2. QED
    BY <1>2, <2>1, DivMod, QuotientIsSmaller
<1> HIDE DEF index, row
<1>5. L * number = number * L /\ number * L \in Nat /\ n * row = row * n
  BY <1>2, <1>3, <1>4
<1>6. r \in 0 .. L - 1 /\ offset = number * L + r
  BY <1>2, <1>3, <1>5
<1> HIDE DEF r
<1>7. row \in 0 .. offset
  BY <1>3, <1>4
<1>8. offset = (row * n + index) * L + r
  BY <1>4, <1>5, <1>6
<1>9. QED
  BY <1>1, <1>4, <1>6, <1>7, <1>8 DEF L, n

\* The node that btrfs_chunk_list_new makes of a chunk finds every byte of the
\* chunk where the chunk holds it, unless the chunk has exactly two stripes.
THEOREM StripeHoldsByte ==
    ASSUME NEW c \in Chunk, Len(c.stripes) /= 2,
           NEW at, NEW moreAt \in Nat \ {NullPtr}, NEW offset \in Nat
    PROVE  HoldsByte(c, ResolveStripe(NewNode(c, at, moreAt), offset), offset)
<1> DEFINE n == Len(c.stripes)
           node == NewNode(c, at, moreAt)
<1>1. c.stripeLen \in Nat \ {0} /\ n \in Nat \ {0} /\ c.stripes \in Seq(Nat)
  BY DEF Chunk
<1>2. node.stripeLen = c.stripeLen /\ node.numStripes = n /\ node.stripe = c.stripes[1]
  BY DEF NewNode
<1>3. n > 1 => node.moreAt = moreAt /\ node.more = Tail(c.stripes)
  <2> HIDE DEF node
  <2>1. n > 1 => n - 1 > 1
    <3>1. n /= 2
      BY Zenon
    <3> HIDE DEF n
    <3>2. QED
      BY <1>1, <3>1
  <2>2. n > 1 => KeepsMore(c)
    BY <2>1 DEF KeepsMore, NumAdditionalStripes
  <2>3. KeepsMore(c) => node.moreAt = moreAt /\ node.more = Tail(c.stripes)
    BY DEF NewNode, node
  <2>4. QED
    BY <2>2, <2>3
<1> HIDE DEF node
<1>4. PICK index \in 0 .. node.numStripes - 1, row \in 0 .. offset,
           r \in 0 .. node.stripeLen - 1 :
        /\ offset = (row * node.numStripes + index) * node.stripeLen + r
        /\ ResolveStripe(node, offset) =
             IF index = 0 THEN node.stripe + (r + row * node.stripeLen)
             ELSE IF node.moreAt = NullPtr THEN Fault
             ELSE node.more[index] + (r + row * node.stripeLen)
  BY <1>1, <1>2, ResolveStripePlace
<1>5. index \in 0 .. n - 1 /\ r \in 0 .. c.stripeLen - 1
  BY <1>2, <1>4
<1>6. index + 1 \in 1 .. n /\ (index + 1) - 1 = index /\ c.stripes[index + 1] \in Nat
  <2>1. index + 1 \in 1 .. n /\ (index + 1) - 1 = index
    <3> HIDE DEF n
    <3>. QED  BY <1>1, <1>5
  <2>. QED  BY <1>1, <2>1
<1>7. ResolveStripe(node, offset) = c.stripes[index + 1] + (r + row * c.stripeLen)
  <2>1. CASE index = 0
    BY <1>2, <1>4, <2>1
  <2>2. CASE index /= 0
    <3>1. n > 1 /\ index \in 1 .. n - 1
      BY <1>1, <1>5, <2>2
    <3>2. node.moreAt /= NullPtr
      BY <1>3, <3>1
    <3>3. Tail(c.stripes)[index] = c.stripes[index + 1]
      BY <1>1, <3>1
    <3>4. QED
      BY <1>2, <1>3, <1>4, <2>2, <3>1, <3>2, <3>3
  <2>3. QED
    BY <2>1, <2>2
<1>8. row * c.stripeLen \in Nat /\ row * n \in Nat
  <2> DEFINE L == c.stripeLen
  <2>1. row \in Nat /\ L \in Nat /\ n \in Nat
    BY <1>1, <1>4
  <2> HIDE DEF n, L
  <2>2. row * L \in Nat /\ row * n \in Nat
    BY <2>1
  <2>. QED  BY <2>2 DEF L
<1>9. ResolveStripe(node, offset) = c.stripes[index + 1] + row * c.stripeLen + r
  <2> DEFINE stripe == c.stripes[index + 1]
             rows == row * c.stripeLen
  <2>1. stripe \in Nat /\ rows \in Nat /\ r \in Nat
    BY <1>1, <1>5, <1>6, <1>8
  <2> HIDE DEF stripe, rows
  <2>2. stripe + (r + rows) = stripe + rows + r
    BY <2>1
  <2>3. QED
    BY <1>7, <2>2 DEF stripe, rows
<1>10. row * n + (index + 1) - 1 = row * n + index
  BY <1>1, <1>5, <1>8
<1>11. offset = ByteOfChunk(c, index + 1, row, r)
  BY <1>2, <1>4, <1>10 DEF ByteOfChunk
<1>12. QED
  BY <1>4, <1>5, <1>6, <1>9, <1>11 DEF HoldsByte, node
----------------------------------------------------------------------------
\* The addresses that a node of the list owns.
Owned(node) == {node.at, node.moreAt} \ {NullPtr}

\* Nothing is owned twice, and new addresses are new.
Disjoint ==
    /\ handle \in 0 .. last
    /\ \A i \in DOMAIN chunkList :
        Owned(chunkList[i]) \subseteq 1 .. last /\ handle \notin Owned(chunkList[i])
    /\ \A i, j \in DOMAIN chunkList :
        i /= j => Owned(chunkList[i]) \cap Owned(chunkList[j]) = {}

AtPc ==
    /\ pc \in {"start", "failed", "deleted"} => handle = NullPtr /\ chunkList = <<>>
    /\ pc \in {"superblock", "freeHandle"} => chunkList = <<>>

IInv == TypeOK /\ HeapIsReachable /\ Disjoint /\ AtPc

\* What is reachable is what the handle or a node of the list owns.
LEMMA InReachable ==
    \A x : x \in Reachable <=>
            /\ x /= NullPtr
            /\ x = handle \/ \E i \in DOMAIN chunkList : x \in Owned(chunkList[i])
  BY DEF Reachable, Owned

\* What a list with a node in front of it holds at its indices.
LEMMA ConsFacts ==
    ASSUME NEW S, NEW s \in Seq(S), NEW x \in S
    PROVE  /\ <<x>> \o s \in Seq(S)
           /\ 1 \in DOMAIN (<<x>> \o s) /\ (<<x>> \o s)[1] = x
           /\ \A i \in DOMAIN s : /\ i + 1 \in DOMAIN (<<x>> \o s)
                                  /\ (<<x>> \o s)[i + 1] = s[i]
           /\ \A i \in DOMAIN (<<x>> \o s) :
                i /= 1 => i - 1 \in DOMAIN s /\ (<<x>> \o s)[i] = s[i - 1]
  OBVIOUS

\* What a list without its first node holds at its indices.
LEMMA TailFacts ==
    ASSUME NEW S, NEW s \in Seq(S), s /= <<>>
    PROVE  /\ Tail(s) \in Seq(S)
           /\ 1 \in DOMAIN s
           /\ \A i \in DOMAIN Tail(s) : i + 1 \in DOMAIN s /\ Tail(s)[i] = s[i + 1]
           /\ \A i \in DOMAIN s :
                i /= 1 => i - 1 \in DOMAIN Tail(s) /\ s[i] = Tail(s)[i - 1]
  OBVIOUS

\* The node made of a chunk is a node, and owns the addresses it was given.
LEMMA NewNodeType ==
    ASSUME NEW c \in Chunk, NEW at \in Nat \ {0}, NEW moreAt \in Nat
    PROVE  NewNode(c, at, moreAt) \in Node
<1>1. c.stripes \in Seq(Nat) /\ Len(c.stripes) \in Nat \ {0}
  BY DEF Chunk
<1>2. c.stripes[1] \in Nat /\ Tail(c.stripes) \in Seq(Nat)
  BY <1>1
<1>3. <<>> \in Seq(Nat)
  OBVIOUS
<1>4. QED
  BY <1>1, <1>2, <1>3 DEF NewNode, Node, Chunk, NullPtr

\* The invariant holds before the image is opened.
LEMMA InitIInv == Init => IInv
<1> SUFFICES ASSUME Init
             PROVE  IInv
  OBVIOUS
<1>1. TypeOK
  <2>1. <<>> \in Seq(Node)
    OBVIOUS
  <2>2. /\ handle \in Nat /\ leaf \in Nat \ {0} /\ item \in Nat \ {0}
        /\ heap \subseteq Nat /\ last \in Nat
    BY DEF Init, NullPtr
  <2>3. QED
    BY <2>1, <2>2 DEF Init, TypeOK
<1>2. Reachable = {}
  BY InReachable DEF Init
<1>3. QED
  BY <1>1, <1>2 DEF Init, IInv, HeapIsReachable, Disjoint, AtPc, NullPtr

\* Prepending a node keeps the account of the heap.
LEMMA PrependKeeps ==
    ASSUME IInv, NEW c \in Chunk, PrependNode(c), handle' = handle
    PROVE  /\ chunkList' \in Seq(Node)
           /\ heap' \subseteq Nat
           /\ last' \in Nat
           /\ outOfMemory' \in BOOLEAN
           /\ HeapIsReachable'
           /\ Disjoint'
<1> DEFINE node == NewNode(c, last + 1, last + 2)
<1>1. /\ chunkList' = <<node>> \o chunkList
      /\ heap' = heap \cup Owned(node)
      /\ last' = last + 2
      /\ outOfMemory' = outOfMemory
  BY DEF PrependNode, Owned
<1>2. /\ last \in Nat /\ chunkList \in Seq(Node) /\ heap \subseteq Nat
      /\ outOfMemory \in BOOLEAN /\ handle \in Nat
  BY DEF IInv, TypeOK
<1>3. node \in Node /\ Owned(node) \subseteq {last + 1, last + 2}
  <2>1. node \in Node
    BY <1>2, NewNodeType
  <2>2. QED
    BY <2>1 DEF NewNode, Owned
<1> HIDE DEF node
<1>4. chunkList' \in Seq(Node)
  BY <1>1, <1>2, <1>3, ConsFacts
<1>5. /\ 1 \in DOMAIN chunkList' /\ chunkList'[1] = node
      /\ \A i \in DOMAIN chunkList : i + 1 \in DOMAIN chunkList' /\ chunkList'[i + 1] = chunkList[i]
      /\ \A i \in DOMAIN chunkList' :
            i /= 1 => i - 1 \in DOMAIN chunkList /\ chunkList'[i] = chunkList[i - 1]
  BY <1>1, <1>2, <1>3, ConsFacts
<1>6. HeapIsReachable'
  <2>1. ASSUME NEW x
        PROVE  x \in Reachable' <=> x \in heap'
    <3>1. x \in Reachable' <=>
            /\ x /= NullPtr
            /\ x = handle \/ \E i \in DOMAIN chunkList' : x \in Owned(chunkList'[i])
      BY InReachable DEF Reachable, Owned
    <3>2. (\E i \in DOMAIN chunkList' : x \in Owned(chunkList'[i]))
            <=> x \in Owned(node) \/ \E i \in DOMAIN chunkList : x \in Owned(chunkList[i])
      BY <1>5
    <3>3. x \in Owned(node) => x /= NullPtr
      BY DEF Owned
    <3>4. QED
      BY <1>1, <3>1, <3>2, <3>3, InReachable DEF IInv, HeapIsReachable
  <2>2. QED
    BY <2>1 DEF HeapIsReachable
<1>7. Disjoint'
  <2>1. handle' \in 0 .. last'
    BY <1>1, <1>2 DEF IInv, Disjoint
  <2>2. ASSUME NEW i \in DOMAIN chunkList'
        PROVE  Owned(chunkList'[i]) \subseteq 1 .. last' /\ handle' \notin Owned(chunkList'[i])
    <3>1. /\ {last + 1, last + 2} \subseteq 1 .. last' /\ 1 .. last \subseteq 1 .. last'
          /\ handle \notin {last + 1, last + 2} /\ handle' = handle
      BY <1>1, <1>2 DEF IInv, Disjoint
    <3>2. CASE i = 1
      <4>1. chunkList'[i] = node
        BY <1>5, <3>2
      <4>2. QED
        BY <1>3, <3>1, <4>1
    <3>3. CASE i /= 1
      <4>1. i - 1 \in DOMAIN chunkList /\ chunkList'[i] = chunkList[i - 1]
        BY <1>5, <3>3
      <4>2. QED
        BY <3>1, <4>1 DEF IInv, Disjoint
    <3>4. QED
      BY <3>2, <3>3
  <2>3. ASSUME NEW i \in DOMAIN chunkList', NEW j \in DOMAIN chunkList', i /= j
        PROVE  Owned(chunkList'[i]) \cap Owned(chunkList'[j]) = {}
    <3>1. \A k \in DOMAIN chunkList : Owned(chunkList[k]) \cap Owned(node) = {}
      BY <1>2, <1>3 DEF IInv, Disjoint
    <3>2. CASE i = 1 \/ j = 1
      BY <1>5, <2>3, <3>1, <3>2
    <3>3. CASE i /= 1 /\ j /= 1
      <4>1. i - 1 \in DOMAIN chunkList /\ j - 1 \in DOMAIN chunkList /\ i - 1 /= j - 1
        BY <1>4, <1>5, <2>3, <3>3
      <4>2. QED
        BY <1>5, <3>3, <4>1 DEF IInv, Disjoint
    <3>4. QED
      BY <3>2, <3>3
  <2>4. QED
    BY <2>1, <2>2, <2>3 DEF Disjoint, Owned
<1>8. heap' \subseteq Nat /\ last' \in Nat
  <2>1. last + 1 \in Nat /\ last + 2 \in Nat
    BY <1>2
  <2>2. QED
    BY <1>1, <1>2, <1>3, <2>1
<1>9. QED
  BY <1>1, <1>2, <1>4, <1>6, <1>7, <1>8

\* A node that cannot be allocated leaves the heap as it was.
LEMMA NodeFailsKeeps ==
    ASSUME IInv, NEW c, NodeFails(c), handle' = handle
    PROVE  /\ chunkList' = chunkList
           /\ heap' = heap
           /\ last' \in Nat /\ last' >= last
           /\ outOfMemory' \in BOOLEAN
           /\ HeapIsReachable'
           /\ Disjoint'
<1>1. PICK allocated \in {0, 1} :
        /\ last' = last + allocated
        /\ heap' = (heap \cup (last + 1 .. last')) \ {last + 1}
  BY DEF NodeFails
<1>2. chunkList' = chunkList /\ outOfMemory' = TRUE /\ last \in Nat /\ heap \subseteq Nat
  BY DEF NodeFails, IInv, TypeOK
<1>3. \A x \in heap : x <= last
  BY <1>2, InReachable DEF IInv, HeapIsReachable, Disjoint
<1>4. heap' = heap
  BY <1>1, <1>2, <1>3
<1>5. HeapIsReachable'
  BY <1>2, <1>4 DEF IInv, HeapIsReachable, Reachable
<1>6. last' \in Nat /\ last' >= last
  BY <1>1, <1>2
<1>7. Disjoint'
  BY <1>2, <1>6 DEF IInv, Disjoint, Owned
<1>8. QED
  BY <1>2, <1>4, <1>5, <1>6, <1>7
\* The steps that neither allocate nor free.
LEMMA SameHeap ==
    ASSUME IInv, handle' = handle, chunkList' = chunkList, heap' = heap, last' = last
    PROVE  HeapIsReachable' /\ Disjoint'
  BY DEF IInv, HeapIsReachable, Reachable, Disjoint, Owned

\* Freeing the first node frees what it owns and nothing that anyone else does.
LEMMA FreeNodeKeeps == IInv /\ FreeNode => IInv'
<1> SUFFICES ASSUME IInv, FreeNode
             PROVE  IInv'
  OBVIOUS
<1>1. /\ chunkList' = Tail(chunkList) /\ chunkList /= <<>>
      /\ heap' = heap \ {chunkList[1].at, chunkList[1].moreAt}
      /\ handle' = handle /\ last' = last /\ pc' = pc
      /\ pc \in {"freeChunks", "delete"}
  BY DEF FreeNode
<1>2. /\ last \in Nat /\ chunkList \in Seq(Node) /\ heap \subseteq Nat /\ handle \in Nat
  BY DEF IInv, TypeOK
<1>3. /\ chunkList' \in Seq(Node)
      /\ 1 \in DOMAIN chunkList
      /\ \A i \in DOMAIN chunkList' : i + 1 \in DOMAIN chunkList /\ chunkList'[i] = chunkList[i + 1]
      /\ \A i \in DOMAIN chunkList :
            i /= 1 => i - 1 \in DOMAIN chunkList' /\ chunkList[i] = chunkList'[i - 1]
  BY <1>1, <1>2, TailFacts
<1>4. \A i \in DOMAIN chunkList' : i \in Nat /\ i + 1 /= 1
  BY <1>3
<1>5. TypeOK'
  BY <1>1, <1>2, <1>3 DEF FreeNode, IInv, TypeOK
<1>6. HeapIsReachable'
  <2>1. ASSUME NEW x
        PROVE  x \in Reachable' <=> x \in heap'
    <3>1. x \in Reachable' <=>
            /\ x /= NullPtr
            /\ x = handle \/ \E i \in DOMAIN chunkList' : x \in Owned(chunkList'[i])
      BY <1>1, InReachable DEF Reachable, Owned
    <3>2. x \in heap' <=> x \in heap /\ x \notin Owned(chunkList[1])
      BY <1>1, InReachable DEF Owned, IInv, HeapIsReachable
    <3>3. (\E i \in DOMAIN chunkList' : x \in Owned(chunkList'[i]))
            <=> \E i \in DOMAIN chunkList : i /= 1 /\ x \in Owned(chunkList[i])
      BY <1>3, <1>4
    <3>4. handle \notin Owned(chunkList[1])
      BY <1>3 DEF IInv, Disjoint
    <3>5. \A i \in DOMAIN chunkList :
            i /= 1 /\ x \in Owned(chunkList[i]) => x \notin Owned(chunkList[1])
      BY <1>3 DEF IInv, Disjoint
    <3>6. QED
      BY <3>1, <3>2, <3>3, <3>4, <3>5, InReachable DEF IInv, HeapIsReachable
  <2>2. QED
    BY <2>1 DEF HeapIsReachable
<1>7. Disjoint'
  <2>1. ASSUME NEW i \in DOMAIN chunkList', NEW j \in DOMAIN chunkList', i /= j
        PROVE  Owned(chunkList'[i]) \cap Owned(chunkList'[j]) = {}
    <3>1. i + 1 /= j + 1
      BY <1>4, <2>1
    <3>2. QED
      BY <1>3, <3>1 DEF IInv, Disjoint
  <2>2. ASSUME NEW i \in DOMAIN chunkList'
        PROVE  Owned(chunkList'[i]) \subseteq 1 .. last' /\ handle' \notin Owned(chunkList'[i])
    BY <1>1, <1>3 DEF IInv, Disjoint
  <2>3. handle' \in 0 .. last'
    BY <1>1 DEF IInv, Disjoint
  <2>4. QED
    BY <2>1, <2>2, <2>3 DEF Disjoint, Owned
<1>8. AtPc'
  BY <1>1 DEF AtPc
<1>9. QED
  BY <1>5, <1>6, <1>7, <1>8 DEF IInv

\* The handle is freed last, when the list is empty.
LEMMA FreeHandleKeeps == IInv /\ FreeHandle => IInv'
<1> SUFFICES ASSUME IInv, FreeHandle
             PROVE  IInv'
  OBVIOUS
<1>1. /\ chunkList = <<>> /\ chunkList' = <<>> /\ last' = last
      /\ handle' = NullPtr /\ heap' = heap \ {handle}
      /\ pc' \in {"failed", "deleted"}
  BY DEF FreeHandle, IInv, AtPc
<1>2. TypeOK'
  <2>1. <<>> \in Seq(Node)
    OBVIOUS
  <2>2. QED
    BY <1>1, <2>1 DEF FreeHandle, IInv, TypeOK, NullPtr
<1>3. HeapIsReachable'
  <2>1. heap' = {}
    BY <1>1, InReachable DEF IInv, HeapIsReachable
  <2>2. Reachable' = {}
    BY <1>1 DEF Reachable, NullPtr
  <2>3. QED
    BY <2>1, <2>2 DEF HeapIsReachable
<1>4. Disjoint' /\ AtPc'
  BY <1>1, <1>2 DEF Disjoint, AtPc, NullPtr, TypeOK
<1>5. QED
  BY <1>2, <1>3, <1>4 DEF IInv

\* The new handle owns a new address.
LEMMA AllocateHandleKeeps == IInv /\ AllocateHandle => IInv'
<1> SUFFICES ASSUME IInv, AllocateHandle
             PROVE  IInv'
  OBVIOUS
<1>1. /\ handle = NullPtr /\ chunkList = <<>> /\ chunkList' = <<>>
      /\ handle' = last + 1 /\ last' = last + 1 /\ heap' = heap \cup {last + 1}
      /\ pc' = "superblock" /\ last \in Nat
  BY DEF AllocateHandle, IInv, AtPc, TypeOK
<1>2. TypeOK'
  BY <1>1 DEF AllocateHandle, IInv, TypeOK
<1>3. HeapIsReachable'
  <2>1. heap = {}
    BY <1>1, InReachable DEF IInv, HeapIsReachable
  <2>2. Reachable' = {last + 1}
    BY <1>1 DEF Reachable, NullPtr
  <2>3. QED
    BY <1>1, <2>1, <2>2 DEF HeapIsReachable
<1>4. Disjoint' /\ AtPc'
  BY <1>1 DEF Disjoint, AtPc
<1>5. QED
  BY <1>2, <1>3, <1>4 DEF IInv

\* What is read is a chunk.
LEMMA ChunksRead ==
    ASSUME IInv
    PROVE  /\ pc = "sys" /\ item <= Len(image.sys) => image.sys[item] \in Chunk
           /\ InLeaf => image.chunkLeaves[leaf].chunks[item] \in Chunk
<1>1. image \in Image /\ item \in Nat \ {0} /\ leaf \in Nat \ {0}
  BY ImagesAssumption DEF IInv, TypeOK
<1>2. image.sys \in Seq(Chunk) /\ image.chunkLeaves \in Seq([block : Nat, chunks : Seq(Chunk)])
  BY <1>1 DEF Image
<1>3. pc = "sys" /\ item <= Len(image.sys) => image.sys[item] \in Chunk
  BY <1>1, <1>2
<1>4. ASSUME InLeaf
      PROVE  image.chunkLeaves[leaf].chunks[item] \in Chunk
  <2> DEFINE leaves == image.chunkLeaves
             Leaves == [block : Nat, chunks : Seq(Chunk)]
  <2>0. leaves \in Seq(Leaves) /\ leaf \in 1 .. Len(leaves)
    BY <1>1, <1>2, <1>4 DEF InLeaf
  <2>1. leaves[leaf] \in Leaves
    <3> HIDE DEF leaves, Leaves
    <3>1. QED
      BY <2>0
  <2>2. image.chunkLeaves[leaf].chunks \in Seq(Chunk)
    BY <2>1
  <2>3. QED
    BY <1>1, <1>4, <2>2 DEF InLeaf
<1>5. QED
  BY <1>3, <1>4

\* Reading a chunk, from the sys array or the chunk tree, keeps the invariant.
LEMMA ReadKeeps == IInv /\ (ReadSysChunk \/ ReadChunk) => IInv'
<1> SUFFICES ASSUME IInv, ReadSysChunk \/ ReadChunk
             PROVE  IInv'
  OBVIOUS
<1>1. PICK c \in Chunk : PrependNode(c)
  BY ChunksRead DEF ReadSysChunk, ReadChunk
<1>2. /\ handle' = handle /\ image' = image /\ sysList' = sysList /\ leaf' = leaf
      /\ errno' = errno /\ pc' = pc /\ item' = item + 1 /\ pc \in {"sys", "chunks"}
  BY DEF ReadSysChunk, ReadChunk, InLeaf
<1>3. /\ chunkList' \in Seq(Node) /\ heap' \subseteq Nat /\ last' \in Nat
      /\ outOfMemory' \in BOOLEAN /\ HeapIsReachable' /\ Disjoint'
  BY <1>1, <1>2, PrependKeeps
<1>4. TypeOK'
  BY <1>2, <1>3 DEF IInv, TypeOK
<1>5. AtPc'
  BY <1>2 DEF AtPc
<1>6. QED
  BY <1>3, <1>4, <1>5 DEF IInv

\* An allocation of a node that fails keeps the invariant.
LEMMA FailsKeeps == IInv /\ (SysChunkFails \/ ChunkFails) => IInv'
<1> SUFFICES ASSUME IInv, SysChunkFails \/ ChunkFails
             PROVE  IInv'
  OBVIOUS
<1>1. PICK c : NodeFails(c)
  BY DEF SysChunkFails, ChunkFails
<1>2. /\ handle' = handle /\ image' = image /\ sysList' = sysList /\ leaf' = leaf
      /\ errno' \in {errno, "EIO"} /\ pc' \in {"freeChunks", "lookup"} /\ item' = item
  BY DEF SysChunkFails, ChunkFails
<1>3. /\ chunkList' = chunkList /\ heap' = heap /\ last' \in Nat
      /\ outOfMemory' \in BOOLEAN /\ HeapIsReachable' /\ Disjoint'
  BY <1>1, <1>2, NodeFailsKeeps
<1>4. TypeOK'
  BY <1>2, <1>3 DEF IInv, TypeOK
<1>5. AtPc'
  BY <1>2 DEF AtPc
<1>6. QED
  BY <1>3, <1>4, <1>5 DEF IInv

\* Every other step leaves the heap and the list alone.
LEMMA QuietKeeps ==
    IInv /\ (\/ NoHandle \/ FindSuperblock \/ SysArrayRead \/ NextLeaf \/ ChunkTreeFaults
             \/ FindFsTree \/ NoFsTree \/ RootTreeFaults \/ Delete \/ UNCHANGED vars) => IInv'
<1> SUFFICES ASSUME IInv,
                    \/ NoHandle \/ FindSuperblock \/ SysArrayRead \/ NextLeaf
                    \/ ChunkTreeFaults \/ FindFsTree \/ NoFsTree \/ RootTreeFaults
                    \/ Delete \/ UNCHANGED vars
             PROVE  IInv'
  OBVIOUS
<1>1. handle' = handle /\ chunkList' = chunkList /\ heap' = heap /\ last' = last
  BY DEF NoHandle, FindSuperblock, SysArrayRead, NextLeaf, ChunkTreeFaults, FindFsTree,
         NoFsTree, RootTreeFaults, Delete, vars
<1>2. HeapIsReachable' /\ Disjoint'
  BY <1>1, SameHeap
<1>3. TypeOK'
  <2> USE DEF IInv, TypeOK
  <2>1. CASE NoHandle \/ FindSuperblock
    BY <2>1 DEF NoHandle, FindSuperblock
  <2>2. CASE SysArrayRead
    BY <2>2 DEF SysArrayRead
  <2>3. CASE NextLeaf
    BY <2>3 DEF NextLeaf
  <2>4. CASE ChunkTreeFaults \/ FindFsTree \/ NoFsTree \/ RootTreeFaults \/ Delete
    BY <2>4 DEF ChunkTreeFaults, FindFsTree, NoFsTree, RootTreeFaults, Delete
  <2>5. CASE UNCHANGED vars
    BY <2>5 DEF vars
  <2>6. QED
    BY <2>1, <2>2, <2>3, <2>4, <2>5
<1>4. AtPc'
  BY DEF NoHandle, FindSuperblock, SysArrayRead, NextLeaf, ChunkTreeFaults, FindFsTree,
         NoFsTree, RootTreeFaults, Delete, vars, IInv, AtPc
<1>5. QED
  BY <1>2, <1>3, <1>4 DEF IInv

\* Every step keeps the invariant.
LEMMA NextIInv == IInv /\ [Next]_vars => IInv'
  BY AllocateHandleKeeps, ReadKeeps, FailsKeeps, FreeNodeKeeps, FreeHandleKeeps, QuietKeeps
  DEF Next, Step, Returned

\* So it holds in every state.
LEMMA SpecIInv == Spec => []IInv
  BY InitIInv, NextIInv, PTL DEF Spec

\* The state of an open has the types the code gives it.
THEOREM TypeCorrect == Spec => []TypeOK
<1>1. IInv => TypeOK
  BY DEF IInv
<1>2. QED
  BY SpecIInv, <1>1, PTL

\* What is allocated is what the handle and its list reach, for every image and
\* wherever an allocation fails.
THEOREM HeapIsAccounted == Spec => []HeapIsReachable
<1>1. IInv => HeapIsReachable
  BY DEF IInv
<1>2. QED
  BY SpecIInv, <1>1, PTL

\* An open that fails and a close give back everything they allocated.
THEOREM NoLeak == Spec => []NothingLeaks
<1>1. IInv => NothingLeaks
  <2> SUFFICES ASSUME IInv, pc \in {"failed", "deleted"}
               PROVE  heap = {}
    BY DEF NothingLeaks
  <2>1. handle = NullPtr /\ chunkList = <<>>
    BY DEF IInv, AtPc
  <2>2. QED
    BY <2>1, InReachable DEF IInv, HeapIsReachable
<1>2. QED
  BY SpecIInv, <1>1, PTL
----------------------------------------------------------------------------
\* A node of the list that btrfs_chunk_list_new made of a chunk.
IsNodeOf(node, c) ==
    /\ node = NewNode(c, node.at, node.moreAt)
    /\ KeepsMore(c) => node.moreAt /= NullPtr

\* Some node of the list was made of the chunk.
KeptIn(list, c) == \E i \in DOMAIN list : IsNodeOf(list[i], c)

\* Every node of the list was made of a chunk of the set.
MadeOf(list, chunks) == \A i \in DOMAIN list : \E c \in chunks : IsNodeOf(list[i], c)

\* A logical address belongs to one chunk of the set.
Apart(chunks) ==
    \A c, d \in chunks : \A a \in Nat : Within(c, a) /\ Within(d, a) => c = d

\* The lists hold nodes of the chunks that are there to be read, and no others.
NothingElse ==
    /\ MadeOf(chunkList, ChunksOf(image))
    /\ pc = "sys" => MadeOf(chunkList, SysChunks(image))
    /\ MadeOf(sysList, SysChunks(image))

\* The list of the sys array holds all its chunks, and goes on in the list.
SysKept ==
    /\ pc = "sys" => \A j \in DOMAIN image.sys : j < item => KeptIn(chunkList, image.sys[j])
    /\ pc \in {"chunks", "lookup", "open"} =>
        /\ \A c \in SysChunks(image) : KeptIn(sysList, c)
        /\ \A i \in DOMAIN sysList : \E j \in DOMAIN chunkList : chunkList[j] = sysList[i]

\* What of the chunk tree was read so far is in the list.
BeforeHere(l, i) == pc = "chunks" => l < leaf \/ (l = leaf /\ i < item)

TreeKept ==
    /\ pc = "chunks" => Bootstrapped(image, image.chunkRoot)
    /\ pc \in {"chunks", "lookup", "open"} /\ ~ outOfMemory /\ Bootstrapped(image, image.chunkRoot) =>
        \A l \in DOMAIN image.chunkLeaves : Bootstrapped(image, image.chunkLeaves[l].block) =>
            \A i \in DOMAIN image.chunkLeaves[l].chunks :
                BeforeHere(l, i) => KeptIn(chunkList, image.chunkLeaves[l].chunks[i])

\* Where the reading of the chunks begins.
Beginning ==
    /\ pc \in {"start", "superblock", "sys"} => leaf = 1 /\ sysList = <<>>
    /\ pc \in {"start", "superblock"} => item = 1

MapInv == NothingElse /\ SysKept /\ TreeKept /\ Beginning /\ CrashNeedsLostChunks

\* A new node is a node of its chunk.
LEMMA NewNodeIsNode ==
    ASSUME NEW c \in Chunk, NEW at, NEW moreAt \in Nat \ {NullPtr}
    PROVE  IsNodeOf(NewNode(c, at, moreAt), c)
  BY DEF IsNodeOf, NewNode

\* What a node keeps of its chunk.
LEMMA NodeOfFacts ==
    ASSUME NEW c \in Chunk, NEW node, IsNodeOf(node, c)
    PROVE  /\ node.start = c.start /\ node.length = c.length /\ node.stripeLen = c.stripeLen
           /\ node.numStripes = Len(c.stripes) /\ node.stripe = c.stripes[1]
           /\ c.start \in Nat /\ c.length \in Nat /\ c.stripeLen \in Nat \ {0}
           /\ Len(c.stripes) \in Nat \ {0}
           /\ \A a \in Nat : Covers(node, a) <=> Within(c, a)
<1>1. /\ node.start = c.start /\ node.length = c.length /\ node.stripeLen = c.stripeLen
      /\ node.numStripes = Len(c.stripes) /\ node.stripe = c.stripes[1]
  BY DEF IsNodeOf, NewNode
<1>2. /\ c.start \in Nat /\ c.length \in Nat /\ c.stripeLen \in Nat \ {0}
      /\ Len(c.stripes) \in Nat \ {0}
  BY DEF Chunk
<1>3. ASSUME NEW a \in Nat
      PROVE  Covers(node, a) <=> Within(c, a)
  BY <1>1, <1>2 DEF Covers, Within
<1>4. QED
  BY <1>1, <1>2, <1>3

\* A node of a chunk is the new node, at some addresses.
LEMMA NodeIsNew ==
    ASSUME NEW c \in Chunk, NEW node \in Node, IsNodeOf(node, c)
    PROVE  \E moreAt \in Nat \ {NullPtr} : node = NewNode(c, node.at, moreAt)
<1>1. CASE KeepsMore(c)
  BY <1>1 DEF IsNodeOf, Node
<1>2. CASE ~ KeepsMore(c)
  <2>1. NewNode(c, node.at, node.moreAt) = NewNode(c, node.at, 1)
    BY <1>2 DEF NewNode
  <2>2. 1 \in Nat \ {NullPtr}
    BY DEF NullPtr
  <2>3. QED
    BY <2>1, <2>2 DEF IsNodeOf
<1>3. QED
  BY <1>1, <1>2

\* Two nodes of a chunk resolve alike.
LEMMA NodesAgree ==
    ASSUME NEW c \in Chunk, NEW m, NEW n, IsNodeOf(m, c), IsNodeOf(n, c), NEW offset
    PROVE  ResolveStripe(m, offset) = ResolveStripe(n, offset)
<1>1. ASSUME NEW k, IsNodeOf(k, c)
      PROVE  /\ k.stripeLen = c.stripeLen /\ k.numStripes = Len(c.stripes)
             /\ k.stripe = c.stripes[1]
             /\ k.more = IF KeepsMore(c) THEN Tail(c.stripes) ELSE <<>>
             /\ k.moreAt = NullPtr <=> ~ KeepsMore(c)
  <2>1. k = NewNode(c, k.at, k.moreAt) /\ (KeepsMore(c) => k.moreAt /= NullPtr)
    BY <1>1, Zenon DEF IsNodeOf
  <2>2. PICK at, moreAt : k = NewNode(c, at, moreAt) /\ (KeepsMore(c) => k.moreAt /= NullPtr)
    BY <2>1, Zenon
  <2>3. QED
    BY <2>2 DEF NewNode
<1>2. /\ m.stripeLen = n.stripeLen /\ m.numStripes = n.numStripes /\ m.stripe = n.stripe
      /\ m.more = n.more
      /\ m.moreAt = NullPtr <=> n.moreAt = NullPtr
  BY <1>1
<1>3. QED
  BY <1>2 DEF ResolveStripe

\* The search in the list ends at the first node that covers the address.
LEMMA FirstCoveringFacts ==
    ASSUME NEW list \in Seq(Node), NEW a \in Nat,
           \E i \in DOMAIN list : Covers(list[i], a)
    PROVE  /\ FirstCovering(list, a) \in DOMAIN list
           /\ Covers(list[FirstCovering(list, a)], a)
           /\ Resolve(list, a) = ResolveStripe(list[FirstCovering(list, a)],
                                               a - list[FirstCovering(list, a)].start)
<1> DEFINE T == {i \in 1 .. Len(list) : Covers(list[i], a)}
<1>1. DOMAIN list = 1 .. Len(list) /\ Len(list) \in Nat
  OBVIOUS
<1>2. T \in SUBSET Nat /\ T /= {}
  BY <1>1
<1>3. PICK first \in T : \A m \in T : first <= m
  <2> HIDE DEF T
  <2>1. QED
    BY <1>2, LeastNat
<1>4. \A j \in 1 .. first - 1 : ~ Covers(list[j], a)
  <2> SUFFICES ASSUME NEW j \in 1 .. first - 1
               PROVE  j \notin T /\ j \in 1 .. Len(list)
    OBVIOUS
  <2>1. first \in 1 .. Len(list)
    OBVIOUS
  <2>2. j \in 1 .. Len(list) /\ ~ (first <= j)
    BY <1>1, <2>1
  <2>3. QED
    BY <1>3, <2>2
<1>5. /\ FirstCovering(list, a) \in 1 .. Len(list)
      /\ Covers(list[FirstCovering(list, a)], a)
  BY <1>3, <1>4 DEF FirstCovering
<1>6. QED
  BY <1>1, <1>5 DEF Resolve

\* Which of the nodes that cover an address comes first does not matter, as long
\* as the address belongs to one chunk.
LEMMA ResolveIs ==
    ASSUME NEW chunks, chunks \subseteq Chunk, Apart(chunks),
           NEW list \in Seq(Node), MadeOf(list, chunks),
           NEW i \in DOMAIN list, NEW a \in Nat, Covers(list[i], a)
    PROVE  Resolve(list, a) = ResolveStripe(list[i], a - list[i].start)
<1> DEFINE first == FirstCovering(list, a)
<1>1. /\ first \in DOMAIN list
      /\ Covers(list[first], a)
      /\ Resolve(list, a) = ResolveStripe(list[first], a - list[first].start)
  BY FirstCoveringFacts
<1> HIDE DEF first
<1>2. PICK c \in chunks : IsNodeOf(list[i], c)
  BY DEF MadeOf
<1>3. PICK d \in chunks : IsNodeOf(list[first], d)
  BY <1>1 DEF MadeOf
<1>4. c \in Chunk /\ d \in Chunk
  BY <1>2, <1>3
<1>5. Within(c, a) /\ Within(d, a)
  BY <1>1, <1>2, <1>3, <1>4, NodeOfFacts
<1>6. c = d
  BY <1>5 DEF Apart
<1>7. list[i].start = list[first].start
  BY <1>2, <1>3, <1>4, <1>6, NodeOfFacts
<1>8. QED
  BY <1>1, <1>2, <1>3, <1>4, <1>6, <1>7, NodesAgree

\* An address that no chunk of the list holds is not mapped, and no other.
LEMMA UnmappedIsOutside ==
    ASSUME NEW chunks, chunks \subseteq Chunk,
           NEW list \in Seq(Node), MadeOf(list, chunks),
           \A c \in chunks : KeptIn(list, c), NEW a \in Nat
    PROVE  (\E i \in DOMAIN list : Covers(list[i], a)) <=> (\E c \in chunks : Within(c, a))
<1>1. ASSUME NEW i \in DOMAIN list, Covers(list[i], a)
      PROVE  \E c \in chunks : Within(c, a)
  <2>1. PICK c \in chunks : IsNodeOf(list[i], c)
    BY DEF MadeOf
  <2>2. QED
    BY <1>1, <2>1, NodeOfFacts
<1>2. ASSUME NEW c \in chunks, Within(c, a)
      PROVE  \E i \in DOMAIN list : Covers(list[i], a)
  <2>1. PICK i \in DOMAIN list : IsNodeOf(list[i], c)
    BY DEF KeptIn
  <2>2. QED
    BY <1>2, <2>1, NodeOfFacts
<1>3. QED
  BY <1>1, <1>2

\* What resolving gives: nothing when no node covers the address, a place in the
\* image, or a fault, and the last only at a chunk of two stripes.
LEMMA ResolveResult ==
    ASSUME NEW chunks, chunks \subseteq Chunk,
           NEW list \in Seq(Node), MadeOf(list, chunks), NEW a \in Nat
    PROVE  /\ Resolve(list, a) = Unmapped <=> ~ \E i \in DOMAIN list : Covers(list[i], a)
           /\ Resolve(list, a) = Fault => \E i \in DOMAIN list : list[i].numStripes = 2
<1>0. DOMAIN list = 1 .. Len(list)
  OBVIOUS
<1>1. CASE ~ \E i \in DOMAIN list : Covers(list[i], a)
  BY <1>0, <1>1, PointersAssumption DEF Resolve
<1>2. CASE \E i \in DOMAIN list : Covers(list[i], a)
  <2> DEFINE node == list[FirstCovering(list, a)]
             offset == a - node.start
  <2>1. /\ FirstCovering(list, a) \in DOMAIN list
        /\ Covers(node, a)
        /\ Resolve(list, a) = ResolveStripe(node, offset)
    BY <1>2, FirstCoveringFacts
  <2>2. PICK c \in chunks : IsNodeOf(node, c)
    BY <2>1 DEF MadeOf
  <2>3. node \in Node
    BY <2>1
  <2> HIDE DEF node
  <2>4. c \in Chunk
    BY <2>2
  <2>5. offset \in Nat
    <3>1. node.start \in Nat
      BY <2>3 DEF Node
    <3>2. node.start <= a
      BY <2>1 DEF Covers
    <3>3. QED
      BY <3>1, <3>2
  <2> HIDE DEF offset
  <2>6. node.stripeLen \in Nat \ {0} /\ node.numStripes \in Nat \ {0}
    BY <2>2, <2>4, NodeOfFacts
  <2>7. PICK index \in 0 .. node.numStripes - 1, row \in 0 .. offset,
             r \in 0 .. node.stripeLen - 1 :
          ResolveStripe(node, offset) =
             IF index = 0 THEN node.stripe + (r + row * node.stripeLen)
             ELSE IF node.moreAt = NullPtr THEN Fault
             ELSE node.more[index] + (r + row * node.stripeLen)
    BY <2>5, <2>6, ResolveStripePlace
  <2>8. r + row * node.stripeLen \in Nat
    <3>1. row \in Nat /\ r \in Nat
      BY <2>5, <2>6, <2>7
    <3>2. row * node.stripeLen \in Nat
      BY <2>6, <3>1
    <3>3. QED
      BY <3>1, <3>2
  <2>9. CASE index = 0
    <3>1. node.stripe \in Nat
      BY <2>3 DEF Node
    <3>2. ResolveStripe(node, offset) \in Int
      BY <2>7, <2>8, <2>9, <3>1
    <3>3. QED
      BY <1>2, <2>1, <3>2, PointersAssumption
  <2>10. CASE index /= 0 /\ node.moreAt = NullPtr
    <3>1. ResolveStripe(node, offset) = Fault
      BY <2>7, <2>10
    <3>2. node.numStripes >= 2
      BY <2>6, <2>7, <2>10
    <3>3. ~ KeepsMore(c)
      BY <2>2, <2>10 DEF IsNodeOf
    <3>4. node.numStripes = 2
      BY <2>2, <2>4, <3>2, <3>3, NodeOfFacts DEF KeepsMore, NumAdditionalStripes
    <3>5. list[FirstCovering(list, a)].numStripes = 2
      BY <3>4 DEF node
    <3>6. Resolve(list, a) = Fault
      BY <2>1, <3>1
    <3>7. QED
      BY <1>2, <2>1, <3>5, <3>6, PointersAssumption
  <2>11. CASE index /= 0 /\ node.moreAt /= NullPtr
    <3>1. Len(node.more) = node.numStripes - 1 /\ node.more \in Seq(Nat)
      BY <2>3, <2>11 DEF Node
    <3>2. index \in 1 .. node.numStripes - 1
      BY <2>6, <2>7, <2>11
    <3>3. node.more[index] \in Nat
      BY <3>1, <3>2
    <3>4. ResolveStripe(node, offset) \in Int
      BY <2>7, <2>8, <2>11, <3>3
    <3>5. QED
      BY <1>2, <2>1, <3>4, PointersAssumption
  <2>12. QED
    BY <2>9, <2>10, <2>11
<1>3. QED
  BY <1>1, <1>2
\* The chunks of an image are chunks, and an address belongs to one of them.
LEMMA ImageFacts ==
    ASSUME TypeOK
    PROVE  /\ ChunksOf(image) \subseteq Chunk /\ SysChunks(image) \subseteq ChunksOf(image)
           /\ Apart(ChunksOf(image))
           /\ image.chunkRoot \in Nat
           /\ image.sys \in Seq(Chunk)
           /\ image.chunkLeaves \in Seq([block : Nat, chunks : Seq(Chunk)])
           /\ \A l \in DOMAIN image.chunkLeaves :
                image.chunkLeaves[l].block \in Nat /\ image.chunkLeaves[l].chunks \in Seq(Chunk)
           /\ image.rootPath \in Seq(Nat) /\ 1 \in DOMAIN image.rootPath
<1>1. image \in Images /\ image \in Image
  BY ImagesAssumption DEF TypeOK
<1>2. /\ image.chunkRoot \in Nat /\ image.sys \in Seq(Chunk)
      /\ image.chunkLeaves \in Seq([block : Nat, chunks : Seq(Chunk)])
      /\ image.rootPath \in Seq(Nat) /\ image.rootPath /= <<>>
  BY <1>1 DEF Image
<1>3. 1 \in DOMAIN image.rootPath
  BY <1>2
<1>4. ASSUME NEW l \in DOMAIN image.chunkLeaves
      PROVE  image.chunkLeaves[l].block \in Nat /\ image.chunkLeaves[l].chunks \in Seq(Chunk)
  <2> DEFINE leaves == image.chunkLeaves
             Leaves == [block : Nat, chunks : Seq(Chunk)]
  <2>1. leaves[l] \in Leaves
    <3>1. leaves \in Seq(Leaves) /\ l \in DOMAIN leaves
      BY <1>2, <1>4
    <3> HIDE DEF leaves, Leaves
    <3>2. QED
      BY <3>1
  <2>2. QED
    BY <2>1
<1>5. SysChunks(image) \subseteq Chunk /\ SysChunks(image) \subseteq ChunksOf(image)
  BY <1>2 DEF SysChunks, ChunksOf
<1>6. TreeChunks(image) \subseteq Chunk
  <2> SUFFICES ASSUME NEW c \in TreeChunks(image)
               PROVE  c \in Chunk
    OBVIOUS
  <2>1. PICK l \in DOMAIN image.chunkLeaves :
          \E i \in DOMAIN image.chunkLeaves[l].chunks : c = image.chunkLeaves[l].chunks[i]
    BY DEF TreeChunks
  <2>2. image.chunkLeaves[l].chunks \in Seq(Chunk)
    BY <1>4
  <2>3. QED
    BY <2>1, <2>2
<1>7. ChunksOf(image) \subseteq Chunk
  BY <1>5, <1>6 DEF ChunksOf
<1>8. Apart(ChunksOf(image))
  <2> SUFFICES ASSUME NEW c \in ChunksOf(image), NEW d \in ChunksOf(image), NEW a \in Nat,
                      Within(c, a), Within(d, a)
               PROVE  c = d
    BY DEF Apart
  <2>1. c.start \in Nat /\ c.length \in Nat /\ d.start \in Nat /\ d.length \in Nat
    BY <1>7 DEF Chunk
  <2>2. ~ (c.start + c.length <= d.start) /\ ~ (d.start + d.length <= c.start)
    BY <2>1 DEF Within
  <2>3. QED
    BY <1>1, <2>2, ChunksAssumption
<1>9. QED
  BY <1>2, <1>3, <1>4, <1>5, <1>7, <1>8

\* A chunk of a leaf of the chunk tree that can be read is a chunk of the image.
LEMMA LeafChunkIsRead ==
    ASSUME Bootstrapped(image, image.chunkRoot),
           NEW l \in DOMAIN image.chunkLeaves, Bootstrapped(image, image.chunkLeaves[l].block),
           NEW i \in DOMAIN image.chunkLeaves[l].chunks
    PROVE  image.chunkLeaves[l].chunks[i] \in ChunksOf(image)
  BY DEF ChunksOf, TreeChunks

\* What reading the sys array left behind: its list maps exactly what its chunks hold.
LEMMA SysListMaps ==
    ASSUME IInv, MapInv, pc \in {"chunks", "lookup"}, NEW a \in Nat
    PROVE  Resolve(sysList, a) /= Unmapped <=> Bootstrapped(image, a)
<1>1. /\ SysChunks(image) \subseteq Chunk /\ sysList \in Seq(Node)
      /\ MadeOf(sysList, SysChunks(image))
      /\ \A c \in SysChunks(image) : KeptIn(sysList, c)
  BY ImageFacts DEF IInv, TypeOK, MapInv, NothingElse, SysKept
<1>2. (\E i \in DOMAIN sysList : Covers(sysList[i], a)) <=> \E c \in SysChunks(image) : Within(c, a)
  BY <1>1, UnmappedIsOutside
<1>3. Resolve(sysList, a) = Unmapped <=> ~ \E i \in DOMAIN sysList : Covers(sysList[i], a)
  BY <1>1, ResolveResult
<1>4. QED
  BY <1>2, <1>3 DEF Bootstrapped

\* A node in front changes what the list was made of by its chunk, and keeps
\* what was kept.
LEMMA PrependFacts ==
    ASSUME IInv, NEW c \in Chunk, PrependNode(c)
    PROVE  /\ KeptIn(chunkList', c)
           /\ \A d : KeptIn(chunkList, d) => KeptIn(chunkList', d)
           /\ \A chunks : c \in chunks /\ MadeOf(chunkList, chunks) => MadeOf(chunkList', chunks)
           /\ \A i \in DOMAIN chunkList : i + 1 \in DOMAIN chunkList' /\ chunkList'[i + 1] = chunkList[i]
<1> DEFINE node == NewNode(c, last + 1, last + 2)
<1>1. /\ last \in Nat /\ chunkList \in Seq(Node) /\ chunkList' = <<node>> \o chunkList
  BY DEF IInv, TypeOK, PrependNode
<1>2. node \in Node
  BY <1>1, NewNodeType
<1>3. IsNodeOf(node, c)
  BY <1>1, NewNodeIsNode DEF NullPtr
<1> HIDE DEF node
<1>4. /\ 1 \in DOMAIN chunkList' /\ chunkList'[1] = node
      /\ \A i \in DOMAIN chunkList : i + 1 \in DOMAIN chunkList' /\ chunkList'[i + 1] = chunkList[i]
      /\ \A i \in DOMAIN chunkList' :
            i /= 1 => i - 1 \in DOMAIN chunkList /\ chunkList'[i] = chunkList[i - 1]
  BY <1>1, <1>2, ConsFacts
<1>5. KeptIn(chunkList', c)
  BY <1>3, <1>4 DEF KeptIn
<1>6. \A d : KeptIn(chunkList, d) => KeptIn(chunkList', d)
  <2> SUFFICES ASSUME NEW d, KeptIn(chunkList, d)
               PROVE  KeptIn(chunkList', d)
    OBVIOUS
  <2>1. PICK i \in DOMAIN chunkList : IsNodeOf(chunkList[i], d)
    BY DEF KeptIn
  <2>2. i + 1 \in DOMAIN chunkList' /\ IsNodeOf(chunkList'[i + 1], d)
    BY <1>4, <2>1
  <2>3. QED
    BY <2>2 DEF KeptIn
<1>7. ASSUME NEW chunks, c \in chunks, MadeOf(chunkList, chunks), NEW i \in DOMAIN chunkList'
      PROVE  \E d \in chunks : IsNodeOf(chunkList'[i], d)
  <2>1. CASE i = 1
    BY <1>3, <1>4, <1>7, <2>1
  <2>2. CASE i /= 1
    BY <1>4, <1>7, <2>2 DEF MadeOf
  <2>3. QED
    BY <2>1, <2>2
<1>8. QED
  BY <1>4, <1>5, <1>6, <1>7 DEF MadeOf

\* The map is right before the image is opened.
LEMMA InitMapInv == Init => MapInv
  BY DEF Init, MapInv, NothingElse, MadeOf, SysKept, TreeKept, Beginning, CrashNeedsLostChunks

\* Reading a chunk of the sys array keeps it.
LEMMA ReadSysChunkKeepsMap == IInv /\ MapInv /\ ReadSysChunk => MapInv'
<1> SUFFICES ASSUME IInv, MapInv, ReadSysChunk
             PROVE  MapInv'
  OBVIOUS
<1> DEFINE c == image.sys[item]
<1>1. /\ pc = "sys" /\ pc' = "sys" /\ item \in DOMAIN image.sys /\ item' = item + 1
      /\ PrependNode(c) /\ image' = image /\ sysList' = sysList /\ leaf' = leaf
      /\ item \in Nat /\ DOMAIN image.sys \subseteq Nat
  BY ImageFacts DEF ReadSysChunk, IInv, TypeOK
<1>2. c \in Chunk /\ c \in SysChunks(image) /\ c \in ChunksOf(image)
  BY <1>1, ImageFacts DEF IInv, SysChunks
<1> HIDE DEF c
<1>3. NothingElse'
  BY <1>1, <1>2, PrependFacts DEF MapInv, NothingElse
<1>4. SysKept'
  <2> SUFFICES ASSUME NEW j \in DOMAIN image.sys, j < item + 1
               PROVE  KeptIn(chunkList', image.sys[j])
    BY <1>1 DEF SysKept
  <2>1. CASE j = item
    BY <1>1, <1>2, <2>1, PrependFacts DEF c
  <2>2. CASE j /= item
    <3>1. j < item
      BY <1>1, <2>2
    <3>2. KeptIn(chunkList, image.sys[j])
      BY <1>1, <3>1 DEF MapInv, SysKept
    <3>3. QED
      BY <1>1, <1>2, <3>2, PrependFacts
  <2>3. QED
    BY <2>1, <2>2
<1>5. TreeKept' /\ Beginning' /\ CrashNeedsLostChunks'
  BY <1>1 DEF TreeKept, Beginning, CrashNeedsLostChunks, MapInv
<1>6. QED
  BY <1>3, <1>4, <1>5 DEF MapInv

\* So does the end of the sys array, where the list becomes that of the traversal.
LEMMA SysArrayReadKeepsMap == IInv /\ MapInv /\ SysArrayRead => MapInv'
<1> SUFFICES ASSUME IInv, MapInv, SysArrayRead
             PROVE  MapInv'
  OBVIOUS
<1>1. /\ pc = "sys" /\ image' = image /\ chunkList' = chunkList /\ sysList' = chunkList
      /\ item' = 1 /\ leaf' = leaf /\ leaf = 1 /\ outOfMemory' = outOfMemory
      /\ pc' \in {"freeHandle", "lookup", "chunks"}
      /\ pc' = "chunks" => Resolve(chunkList, image.chunkRoot) /= Unmapped
      /\ pc' = "lookup" => Resolve(chunkList, image.chunkRoot) = Unmapped
  BY DEF SysArrayRead, MapInv, Beginning
<1>2. NothingElse'
  BY <1>1 DEF NothingElse, MapInv
<1>3. \A j \in DOMAIN image.sys : j < item
  <2>1. item > Len(image.sys) /\ item \in Nat /\ image.sys \in Seq(Chunk)
    BY ImageFacts DEF SysArrayRead, IInv, TypeOK
  <2>2. QED
    BY <2>1
<1>4. \A c \in SysChunks(image) : KeptIn(chunkList, c)
  BY <1>1, <1>3 DEF SysChunks, MapInv, SysKept
<1>5. SysKept'
  BY <1>1, <1>4 DEF SysKept
<1>6. Resolve(chunkList, image.chunkRoot) /= Unmapped <=> Bootstrapped(image, image.chunkRoot)
  <2>1. /\ SysChunks(image) \subseteq Chunk /\ chunkList \in Seq(Node)
        /\ MadeOf(chunkList, SysChunks(image)) /\ image.chunkRoot \in Nat
    BY <1>1, ImageFacts DEF IInv, TypeOK, MapInv, NothingElse
  <2>2. QED
    BY <1>4, <2>1, UnmappedIsOutside, ResolveResult DEF Bootstrapped
<1>7. TreeKept'
  <2>1. ASSUME pc' = "chunks", NEW l \in DOMAIN image.chunkLeaves,
               NEW i \in DOMAIN image.chunkLeaves[l].chunks
        PROVE  ~ BeforeHere(l, i)'
    <3>1. l \in Nat \ {0} /\ i \in Nat \ {0}
      <4> DEFINE leaves == image.chunkLeaves
                 chunks == leaves[l].chunks
      <4>1. chunks \in Seq(Chunk) /\ leaves \in Seq([block : Nat, chunks : Seq(Chunk)])
        BY ImageFacts DEF IInv
      <4>2. l \in DOMAIN leaves /\ i \in DOMAIN chunks
        BY <2>1
      <4> HIDE DEF leaves, chunks
      <4>3. QED
        BY <4>1, <4>2
    <3>2. QED
      BY <1>1, <2>1, <3>1 DEF BeforeHere
  <2>2. QED
    BY <1>1, <1>6, <2>1 DEF TreeKept
<1>8. Beginning' /\ CrashNeedsLostChunks'
  BY <1>1 DEF Beginning, CrashNeedsLostChunks
<1>9. QED
  BY <1>2, <1>5, <1>7, <1>8 DEF MapInv

\* So does a chunk of the chunk tree ...
LEMMA ReadChunkKeepsMap == IInv /\ MapInv /\ ReadChunk => MapInv'
<1> SUFFICES ASSUME IInv, MapInv, ReadChunk
             PROVE  MapInv'
  OBVIOUS
<1> DEFINE c == image.chunkLeaves[leaf].chunks[item]
<1>1. /\ pc = "chunks" /\ pc' = "chunks" /\ item' = item + 1
      /\ PrependNode(c) /\ image' = image /\ sysList' = sysList /\ leaf' = leaf
      /\ outOfMemory' = outOfMemory /\ item \in Nat \ {0} /\ leaf \in Nat \ {0}
  BY DEF ReadChunk, InLeaf, PrependNode, IInv, TypeOK
<1>2. leaf \in DOMAIN image.chunkLeaves /\ item \in DOMAIN image.chunkLeaves[leaf].chunks
  <2> DEFINE leaves == image.chunkLeaves
             chunks == leaves[leaf].chunks
  <2>1. leaves \in Seq([block : Nat, chunks : Seq(Chunk)])
    BY ImageFacts DEF IInv
  <2>2. leaf <= Len(leaves) /\ item <= Len(chunks)
    BY DEF ReadChunk, InLeaf
  <2>3. leaf \in DOMAIN leaves
    <3> HIDE DEF leaves
    <3>1. QED
      BY <1>1, <2>1, <2>2
  <2>4. chunks \in Seq(Chunk)
    BY <2>3, ImageFacts DEF IInv
  <2>5. item \in DOMAIN chunks
    <3> HIDE DEF chunks
    <3>1. QED
      BY <1>1, <2>2, <2>4
  <2>6. QED
    BY <2>3, <2>5
<1>3. Bootstrapped(image, image.chunkRoot) /\ Bootstrapped(image, image.chunkLeaves[leaf].block)
  <2>1. image.chunkLeaves[leaf].block \in Nat
    BY <1>2, ImageFacts DEF IInv
  <2>2. Resolve(sysList, image.chunkLeaves[leaf].block) /= Unmapped
    BY DEF ReadChunk, InLeaf, LeafMapped
  <2>3. QED
    BY <1>1, <2>1, <2>2, SysListMaps DEF MapInv, TreeKept
<1>4. c \in Chunk /\ c \in ChunksOf(image)
  BY <1>2, <1>3, LeafChunkIsRead, ImageFacts DEF IInv
<1> HIDE DEF c
<1>5. NothingElse'
  BY <1>1, <1>4, PrependFacts DEF MapInv, NothingElse
<1>6. SysKept'
  BY <1>1, <1>4, PrependFacts DEF MapInv, SysKept
<1>7. TreeKept'
  <2> SUFFICES ASSUME ~ outOfMemory, NEW l \in DOMAIN image.chunkLeaves,
                      Bootstrapped(image, image.chunkLeaves[l].block),
                      NEW i \in DOMAIN image.chunkLeaves[l].chunks,
                      l < leaf \/ (l = leaf /\ i < item + 1)
               PROVE  KeptIn(chunkList', image.chunkLeaves[l].chunks[i])
    BY <1>1, <1>3 DEF TreeKept, BeforeHere
  <2>1. CASE l = leaf /\ i = item
    BY <1>1, <1>4, <2>1, PrependFacts DEF c
  <2>2. CASE ~ (l = leaf /\ i = item)
    <3> DEFINE leaves == image.chunkLeaves
               chunks == leaves[l].chunks
    <3>1. chunks \in Seq(Chunk) /\ i \in DOMAIN chunks
      BY ImageFacts DEF IInv
    <3>2. i \in Nat
      <4> HIDE DEF chunks
      <4>1. QED
        BY <3>1
    <3>3. l < leaf \/ (l = leaf /\ i < item)
      BY <1>1, <2>2, <3>2
    <3>4. KeptIn(chunkList, image.chunkLeaves[l].chunks[i])
      BY <1>1, <3>3 DEF MapInv, TreeKept, BeforeHere
    <3>5. QED
      BY <1>1, <1>4, <3>4, PrependFacts
  <2>3. QED
    BY <2>1, <2>2
<1>8. Beginning' /\ CrashNeedsLostChunks'
  BY <1>1 DEF Beginning, CrashNeedsLostChunks
<1>9. QED
  BY <1>5, <1>6, <1>7, <1>8 DEF MapInv

\* ... and the end of a leaf, or of all of them.
LEMMA NextLeafKeepsMap == IInv /\ MapInv /\ NextLeaf => MapInv'
<1> SUFFICES ASSUME IInv, MapInv, NextLeaf
             PROVE  MapInv'
  OBVIOUS
<1>1. /\ pc = "chunks" /\ ~ InLeaf /\ ~ BlockFaults
      /\ image' = image /\ chunkList' = chunkList /\ sysList' = sysList
      /\ outOfMemory' = outOfMemory
      /\ item \in Nat \ {0} /\ leaf \in Nat \ {0}
      /\ \/ leaf <= Len(image.chunkLeaves) /\ leaf' = leaf + 1 /\ item' = 1 /\ pc' = "chunks"
         \/ leaf > Len(image.chunkLeaves) /\ pc' = "lookup"
  <2>1. image.chunkLeaves \in Seq([block : Nat, chunks : Seq(Chunk)])
    BY ImageFacts DEF IInv
  <2>2. Len(image.chunkLeaves) \in Nat
    BY <2>1, LenProperties
  <2>3. QED
    BY <2>2 DEF NextLeaf, IInv, TypeOK
<1>2. NothingElse' /\ SysKept'
  BY <1>1 DEF MapInv, NothingElse, SysKept
<1>3. TreeKept'
  <2>1. (pc = "chunks")' => Bootstrapped(image, image.chunkRoot)'
    BY <1>1 DEF MapInv, TreeKept, Bootstrapped, SysChunks
  <2>2. SUFFICES ASSUME ~ outOfMemory, Bootstrapped(image, image.chunkRoot),
                        NEW l \in DOMAIN image.chunkLeaves,
                        Bootstrapped(image, image.chunkLeaves[l].block),
                        NEW i \in DOMAIN image.chunkLeaves[l].chunks,
                        BeforeHere(l, i)'
                 PROVE  BeforeHere(l, i)
    BY <1>1, <2>1 DEF MapInv, TreeKept
  <2> DEFINE leaves == image.chunkLeaves
             chunks == leaves[l].chunks
  <2>3. /\ leaves \in Seq([block : Nat, chunks : Seq(Chunk)]) /\ l \in DOMAIN leaves
        /\ chunks \in Seq(Chunk) /\ i \in DOMAIN chunks
    BY ImageFacts DEF IInv
  <2>4. l \in 1 .. Len(leaves) /\ i \in 1 .. Len(chunks) /\ Len(leaves) \in Nat /\ Len(chunks) \in Nat
    <3> HIDE DEF leaves, chunks
    <3>1. QED
      BY <2>3
  <2>5. CASE leaf <= Len(leaves)
    <3>1. pc' = "chunks" /\ leaf' = leaf + 1 /\ item' = 1
      BY <1>1, <2>4, <2>5
    <3>2. l < leaf + 1 \/ (l = leaf + 1 /\ i < 1)
      BY <2>2, <3>1 DEF BeforeHere
    <3>3. l < leaf \/ l = leaf
      <4> HIDE DEF leaves, chunks
      <4>1. QED
        BY <1>1, <2>4, <3>2
    <3>4. ASSUME l = leaf
          PROVE  i < item
      <4>1. Resolve(sysList, image.chunkLeaves[l].block) /= Unmapped
        BY <1>1, <2>2, SysListMaps, ImageFacts DEF IInv
      <4>2. ~ (item <= Len(image.chunkLeaves[l].chunks))
        BY <1>1, <2>5, <3>4, <4>1 DEF InLeaf, LeafMapped
      <4>3. ~ (item <= Len(chunks))
        BY <4>2
      <4> HIDE DEF leaves, chunks
      <4>4. QED
        BY <1>1, <2>4, <4>3
    <3>5. QED
      BY <3>3, <3>4 DEF BeforeHere
  <2>6. CASE leaf > Len(leaves)
    <3>1. l < leaf
      <4> HIDE DEF leaves, chunks
      <4>1. QED
        BY <1>1, <2>4, <2>6
    <3>2. QED
      BY <3>1 DEF BeforeHere
  <2>7. QED
    <3> HIDE DEF leaves, chunks
    <3>1. QED
      BY <1>1, <2>4, <2>5, <2>6
<1>4. Beginning' /\ CrashNeedsLostChunks'
  BY <1>1 DEF Beginning, CrashNeedsLostChunks
<1>5. QED
  BY <1>2, <1>3, <1>4 DEF MapInv

\* A fault on a block of the chunk tree is a fault at a chunk of two stripes.
LEMMA ChunkTreeFaultsKeepsMap == IInv /\ MapInv /\ ChunkTreeFaults => MapInv'
<1> SUFFICES ASSUME IInv, MapInv, ChunkTreeFaults
             PROVE  MapInv'
  OBVIOUS
<1>1. /\ pc = "chunks" /\ pc' = "crash" /\ BlockFaults
      /\ image' = image /\ chunkList' = chunkList /\ sysList' = sysList
      /\ outOfMemory' = outOfMemory /\ leaf \in Nat \ {0}
  BY DEF ChunkTreeFaults, IInv, TypeOK
<1>2. NothingElse' /\ SysKept' /\ TreeKept' /\ Beginning'
  BY <1>1 DEF MapInv, NothingElse, SysKept, TreeKept, Beginning
<1>3. PICK a \in Nat : Resolve(sysList, a) = Fault
  <2> DEFINE leaves == image.chunkLeaves
  <2>1. leaves \in Seq([block : Nat, chunks : Seq(Chunk)])
    BY ImageFacts DEF IInv
  <2>2. leaf <= Len(leaves) => leaf \in DOMAIN leaves
    <3> HIDE DEF leaves
    <3>1. QED
      BY <1>1, <2>1
  <2>3. QED
    BY <1>1, <2>2, ImageFacts DEF IInv, BlockFaults
<1>4. PICK i \in DOMAIN sysList : sysList[i].numStripes = 2
  <2>1. /\ SysChunks(image) \subseteq Chunk /\ sysList \in Seq(Node)
        /\ MadeOf(sysList, SysChunks(image))
    BY ImageFacts DEF IInv, TypeOK, MapInv, NothingElse
  <2>2. QED
    BY <1>3, <2>1, ResolveResult
<1>5. \E j \in DOMAIN chunkList : chunkList[j] = sysList[i]
  BY <1>1 DEF MapInv, SysKept
<1>6. CrashNeedsLostChunks'
  BY <1>1, <1>4, <1>5 DEF CrashNeedsLostChunks
<1>7. QED
  BY <1>2, <1>6 DEF MapInv

\* Once the chunk tree is read, every chunk of the image is in the list.
LEMMA EverythingKept ==
    ASSUME IInv, MapInv, pc \in {"lookup", "open"}, ~ outOfMemory, NEW c \in ChunksOf(image)
    PROVE  KeptIn(chunkList, c)
<1>1. CASE c \in SysChunks(image)
  <2>1. PICK i \in DOMAIN sysList : IsNodeOf(sysList[i], c)
    BY <1>1 DEF MapInv, SysKept, KeptIn
  <2>2. QED
    BY <2>1 DEF MapInv, SysKept, KeptIn
<1>2. CASE c \in TreeChunks(image)
  <2>1. PICK l \in DOMAIN image.chunkLeaves :
          /\ Bootstrapped(image, image.chunkLeaves[l].block)
          /\ \E i \in DOMAIN image.chunkLeaves[l].chunks : c = image.chunkLeaves[l].chunks[i]
    BY <1>2 DEF TreeChunks
  <2>2. Bootstrapped(image, image.chunkRoot)
    BY <1>2 DEF TreeChunks
  <2>3. QED
    BY <2>1, <2>2 DEF MapInv, TreeKept, BeforeHere
<1>3. QED
  BY <1>1, <1>2 DEF ChunksOf

\* A fault on a block of the root tree needs a chunk that was left out, or one of
\* two stripes.
LEMMA RootTreeFaultsKeepsMap == IInv /\ MapInv /\ RootTreeFaults => MapInv'
<1> SUFFICES ASSUME IInv, MapInv, RootTreeFaults
             PROVE  MapInv'
  OBVIOUS
<1>1. /\ pc = "lookup" /\ pc' = "crash" /\ RootTreeRoot /= Unmapped /\ ~ RootPathMapped
      /\ image' = image /\ chunkList' = chunkList /\ sysList' = sysList
      /\ outOfMemory' = outOfMemory
  BY DEF RootTreeFaults
<1>2. NothingElse' /\ SysKept' /\ TreeKept' /\ Beginning'
  BY <1>1 DEF MapInv, NothingElse, SysKept, TreeKept, Beginning
<1>3. /\ ChunksOf(image) \subseteq Chunk /\ chunkList \in Seq(Node)
      /\ MadeOf(chunkList, ChunksOf(image)) /\ image.rootPath \in Seq(Nat)
      /\ 1 \in DOMAIN image.rootPath /\ image \in Images
  BY ImageFacts DEF IInv, TypeOK, MapInv, NothingElse
<1>4. \A i \in DOMAIN image.rootPath : image.rootPath[i] \in Nat
  BY <1>3
<1>5. PICK i \in DOMAIN image.rootPath : Resolve(chunkList, image.rootPath[i]) \in {Unmapped, Fault}
  BY <1>1 DEF RootPathMapped
<1>6. CASE Resolve(chunkList, image.rootPath[i]) = Fault
  <2>1. \E j \in DOMAIN chunkList : chunkList[j].numStripes = 2
    BY <1>3, <1>4, <1>6, ResolveResult
  <2>2. QED
    BY <1>1, <1>2, <2>1 DEF CrashNeedsLostChunks, MapInv
<1>7. CASE Resolve(chunkList, image.rootPath[i]) = Unmapped
  <2>1. ASSUME ~ outOfMemory
        PROVE  FALSE
    <3>1. \A c \in ChunksOf(image) : KeptIn(chunkList, c)
      BY <1>1, <2>1, EverythingKept
    <3>2. ASSUME NEW a \in Nat
          PROVE  Resolve(chunkList, a) = Unmapped <=> ~ \E c \in ChunksOf(image) : Within(c, a)
      BY <1>3, <3>1, UnmappedIsOutside, ResolveResult
    <3>3. \E c \in ChunksOf(image) : Within(c, image.rootPath[1])
      BY <1>1, <1>3, <1>4, <3>2 DEF RootTreeRoot
    <3>4. \E c \in ChunksOf(image) : Within(c, image.rootPath[i])
      BY <1>3, <3>3, RootPathAssumption
    <3>5. QED
      BY <1>4, <1>7, <3>2, <3>4
  <2>2. QED
    BY <1>1, <1>2, <2>1 DEF CrashNeedsLostChunks, MapInv
<1>8. QED
  BY <1>5, <1>6, <1>7

\* A list without its first node still has only nodes of the chunks.
LEMMA FreeNodeKeepsMap == IInv /\ MapInv /\ FreeNode => MapInv'
<1> SUFFICES ASSUME IInv, MapInv, FreeNode
             PROVE  MapInv'
  OBVIOUS
<1>1. /\ pc \in {"freeChunks", "delete"} /\ pc' = pc /\ chunkList' = Tail(chunkList)
      /\ chunkList \in Seq(Node) /\ chunkList /= <<>> /\ image' = image /\ sysList' = sysList
  BY DEF FreeNode, IInv, TypeOK
<1>2. \A i \in DOMAIN chunkList' : i + 1 \in DOMAIN chunkList /\ chunkList'[i] = chunkList[i + 1]
  BY <1>1, TailFacts
<1>3. MadeOf(chunkList', ChunksOf(image))
  BY <1>2 DEF MadeOf, MapInv, NothingElse
<1>4. QED
  BY <1>1, <1>3 DEF MapInv, NothingElse, SysKept, TreeKept, Beginning, CrashNeedsLostChunks

\* The other steps leave the lists alone.
LEMMA QuietKeepsMap ==
    IInv /\ MapInv /\ (\/ AllocateHandle \/ NoHandle \/ FindSuperblock \/ SysChunkFails
                       \/ ChunkFails \/ FindFsTree \/ NoFsTree \/ FreeHandle \/ Delete
                       \/ UNCHANGED vars) => MapInv'
<1> SUFFICES ASSUME IInv, MapInv,
                    \/ AllocateHandle \/ NoHandle \/ FindSuperblock \/ SysChunkFails
                    \/ ChunkFails \/ FindFsTree \/ NoFsTree \/ FreeHandle \/ Delete
                    \/ UNCHANGED vars
             PROVE  MapInv'
  OBVIOUS
<1> USE DEF MapInv, NothingElse, SysKept, TreeKept, Beginning, CrashNeedsLostChunks
<1>1. CASE AllocateHandle \/ NoHandle
  BY <1>1 DEF AllocateHandle, NoHandle
<1>2. CASE FindSuperblock
  <2>1. /\ image' = image /\ chunkList' = chunkList /\ sysList' = sysList /\ leaf' = leaf
        /\ item' = item /\ pc' \in {"sys", "freeHandle"} /\ chunkList = <<>>
        /\ pc = "superblock"
    BY <1>2 DEF FindSuperblock, IInv, AtPc
  <2>2. MadeOf(chunkList, SysChunks(image))
    BY <2>1 DEF MadeOf
  <2>3. \A j \in DOMAIN image.sys : ~ (j < item)
    BY <2>1, ImageFacts DEF IInv
  <2>4. QED
    BY <2>1, <2>2, <2>3
<1>3. CASE SysChunkFails
  BY <1>3 DEF SysChunkFails, NodeFails
<1>4. CASE ChunkFails
  BY <1>4 DEF ChunkFails, NodeFails, InLeaf
<1>5. CASE FindFsTree \/ NoFsTree
  <2>1. /\ image' = image /\ chunkList' = chunkList /\ sysList' = sysList
        /\ outOfMemory' = outOfMemory /\ pc = "lookup" /\ pc' \in {"open", "freeChunks"}
    BY <1>5 DEF FindFsTree, NoFsTree
  <2>2. \A l, i : BeforeHere(l, i)
    BY <2>1 DEF BeforeHere
  <2>3. QED
    BY <2>1, <2>2
<1>6. CASE FreeHandle \/ Delete
  BY <1>6 DEF FreeHandle, Delete
<1>7. CASE UNCHANGED vars
  BY <1>7 DEF vars, BeforeHere
<1>8. QED
  BY <1>1, <1>2, <1>3, <1>4, <1>5, <1>6, <1>7

\* So every step keeps the map right ...
LEMMA NextMapInv == IInv /\ MapInv /\ [Next]_vars => MapInv'
  BY ReadSysChunkKeepsMap, SysArrayReadKeepsMap, ReadChunkKeepsMap, NextLeafKeepsMap,
     ChunkTreeFaultsKeepsMap, RootTreeFaultsKeepsMap, FreeNodeKeepsMap, QuietKeepsMap
  DEF Next, Step, Returned

\* ... and it is right in every state.
LEMMA SpecMapInv == Spec => []MapInv
  BY InitMapInv, SpecIInv, NextMapInv, PTL DEF Spec

\* Once an image is open and nothing was left out, every byte of every chunk of the
\* image resolves to the place that holds it, unless its chunk has two stripes: for
\* any number of chunks in any order, repeated or not, and any rows and stripes.
THEOREM OpenMaps == Spec => []OpenMapsImage
<1>1. IInv /\ MapInv => OpenMapsImage
  <2> SUFFICES ASSUME IInv, MapInv, pc = "open", ~ outOfMemory,
                      NEW c \in ChunksOf(image), Len(c.stripes) /= 2,
                      NEW offset \in 0 .. c.length - 1
               PROVE  HoldsByte(c, Resolve(chunkList, c.start + offset), offset)
    BY DEF OpenMapsImage
  <2>1. /\ ChunksOf(image) \subseteq Chunk /\ Apart(ChunksOf(image)) /\ chunkList \in Seq(Node)
        /\ MadeOf(chunkList, ChunksOf(image)) /\ c \in Chunk
    BY ImageFacts DEF IInv, TypeOK, MapInv, NothingElse
  <2>2. PICK i \in DOMAIN chunkList : IsNodeOf(chunkList[i], c)
    BY EverythingKept DEF KeptIn
  <2>3. c.start \in Nat /\ c.length \in Nat /\ chunkList[i].start = c.start
    BY <2>1, <2>2, NodeOfFacts
  <2> DEFINE a == c.start + offset
  <2>4. a \in Nat /\ Within(c, a) /\ a - c.start = offset /\ offset \in Nat
    BY <2>3 DEF Within
  <2> HIDE DEF a
  <2>5. Covers(chunkList[i], a)
    BY <2>1, <2>2, <2>4, NodeOfFacts
  <2>6. Resolve(chunkList, a) = ResolveStripe(chunkList[i], offset)
    BY <2>1, <2>3, <2>4, <2>5, ResolveIs
  <2>7. chunkList[i] \in Node
    BY <2>1, <2>2
  <2>8. PICK moreAt \in Nat \ {NullPtr} : chunkList[i] = NewNode(c, chunkList[i].at, moreAt)
    BY <2>1, <2>2, <2>7, NodeIsNew
  <2>9. HoldsByte(c, ResolveStripe(NewNode(c, chunkList[i].at, moreAt), offset), offset)
    BY <2>1, <2>4, StripeHoldsByte
  <2>10. QED
    BY <2>6, <2>8, <2>9 DEF a
<1>2. QED
  BY SpecIInv, SpecMapInv, <1>1, PTL

\* An open faults only when chunks were left out or a chunk has two stripes.
THEOREM CrashIsExplained == Spec => []CrashNeedsLostChunks
<1>1. MapInv => CrashNeedsLostChunks
  BY DEF MapInv
<1>2. QED
  BY SpecMapInv, <1>1, PTL

\* No address that the list maps is moved by the chunks that are put in front.
THEOREM NothingMoves == Spec => PrependKeepsMap
<1>1. ASSUME IInv, MapInv, MapInv', IInv', ReadChunk,
             NEW i \in DOMAIN chunkList, NEW m \in 0 .. chunkList[i].length - 1
      PROVE  Resolve(chunkList', chunkList[i].start + m) = Resolve(chunkList, chunkList[i].start + m)
  <2> DEFINE a == chunkList[i].start + m
             chunks == ChunksOf(image)
  <2>1. /\ chunks \subseteq Chunk /\ Apart(chunks) /\ chunkList \in Seq(Node)
        /\ MadeOf(chunkList, chunks)
    BY <1>1, ImageFacts DEF IInv, TypeOK, MapInv, NothingElse
  <2>2. chunkList' \in Seq(Node) /\ MadeOf(chunkList', chunks)
    <3>1. image' = image
      BY <1>1 DEF ReadChunk
    <3>2. QED
      BY <1>1, <3>1 DEF IInv, TypeOK, MapInv, NothingElse
  <2>3. i + 1 \in DOMAIN chunkList' /\ chunkList'[i + 1] = chunkList[i]
    BY <1>1, ChunksRead, PrependFacts DEF ReadChunk
  <2>4. chunkList[i].start \in Nat /\ chunkList[i].length \in Nat
    <3>1. chunkList[i] \in Node
      BY <2>1
    <3>2. QED
      BY <3>1 DEF Node
  <2>5. a \in Nat /\ Covers(chunkList[i], a)
    BY <2>4 DEF Covers
  <2> HIDE DEF a, chunks
  <2>6. Resolve(chunkList, a) = ResolveStripe(chunkList[i], a - chunkList[i].start)
    BY <2>1, <2>5, ResolveIs
  <2>7. Resolve(chunkList', a) = ResolveStripe(chunkList'[i + 1], a - chunkList'[i + 1].start)
    BY <2>1, <2>2, <2>3, <2>5, ResolveIs
  <2>8. QED
    BY <2>3, <2>6, <2>7 DEF a
<1>2. IInv /\ IInv' /\ MapInv /\ MapInv' =>
        [ReadChunk =>
           \A i \in DOMAIN chunkList : \A m \in 0 .. chunkList[i].length - 1 :
              LET a == chunkList[i].start + m
              IN  Resolve(chunkList', a) = Resolve(chunkList, a)]_vars
  BY <1>1
<1>3. QED
  BY SpecIInv, SpecMapInv, <1>2, PTL DEF PrependKeepsMap
=============================================================================
