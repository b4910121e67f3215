------------------------- MODULE BtrfsReadTheorems -------------------------
(***************************************************************************)
(* Proofs about btrfs_low_read, for every tree, every chunk list, every    *)
(* request and every width of an int.                                      *)
(***************************************************************************)
EXTENDS BtrfsRead, BtrfsKeysTheorems, SequenceTheorems

----------------------------------------------------------------------------
\* Division as the code uses it.
LEMMA DivMod ==
    ASSUME NEW a \in Nat, NEW b \in Nat \ {0}
    PROVE  /\ a \div b \in Nat
           /\ a % b \in 0 .. b - 1
           /\ a = b * (a \div b) + (a % b)
  OBVIOUS

\* A size that fits keeps its value when it is converted to an int, and no size
\* grows by it: what does not fit comes out lower, possibly negative.
LEMMA ToIntFacts ==
    ASSUME NEW n \in Nat
    PROVE  /\ ToInt(n) \in Int
           /\ ToInt(n) <= n
           /\ n < IntLimit => ToInt(n) = n
<1> DEFINE L == 2 * IntLimit
           a == n + IntLimit
<1>1. IntLimit \in Nat \ {0} /\ L \in Nat \ {0} /\ a \in Nat
  BY IntLimitAssumption
<1> HIDE DEF L, a
<1>2. a % L \in 0 .. L - 1 /\ a = L * (a \div L) + (a % L) /\ a \div L \in Nat
  BY <1>1, DivMod
<1>3. L * (a \div L) \in Nat
  BY <1>1, <1>2
<1>4. ToInt(n) = (a % L) - IntLimit
  BY DEF ToInt, L, a
<1>5. a % L <= a
  BY <1>1, <1>2, <1>3
<1>6. n < IntLimit => a % L = a
  BY <1>1 DEF L, a
<1>. QED  BY <1>1, <1>2, <1>4, <1>5, <1>6 DEF a

\* Of the chunks that cover an address one comes first in the list.
LEMMA FirstCovers ==
    ASSUME NEW list \in Seq(Node), NEW logical \in Nat,
           \E i \in 1 .. Len(list) : Covers(list[i], logical)
    PROVE  /\ FirstCovering(list, logical) \in 1 .. Len(list)
           /\ Covers(list[FirstCovering(list, logical)], logical)
<1> DEFINE T == {i \in 1 .. Len(list) : Covers(list[i], logical)}
<1>1. PICK i \in T : \A j \in T : i <= j
  <2>1. T \in SUBSET Nat /\ T /= {}
    OBVIOUS
  <2>. QED  BY <2>1, LeastNat
<1>2. \A j \in 1 .. i - 1 : ~ Covers(list[j], logical)
  <2> SUFFICES ASSUME NEW j \in 1 .. i - 1, Covers(list[j], logical)
               PROVE  FALSE
    OBVIOUS
  <2>1. i \in 1 .. Len(list) /\ j < i /\ j \in 1 .. Len(list)
    OBVIOUS
  <2>. QED  BY <1>1, <2>1
<1>. QED  BY <1>1, <1>2 DEF FirstCovering

\* A byte of a chunk is found at a place in the image, or not at all when its
\* stripe was not kept.
LEMMA ResolveStripeType ==
    ASSUME NEW node \in Node, NEW at \in Nat
    PROVE  ResolveStripe(node, at) \in Nat \cup {Fault}
<1> DEFINE L == node.stripeLen
           n == node.numStripes
           number == at \div L
           index == number % n
           rows == (number \div n) * L
<1>1. /\ L \in Nat \ {0} /\ n \in Nat \ {0} /\ node.stripe \in Nat
      /\ node.more \in Seq(Nat)
      /\ node.moreAt /= NullPtr => Len(node.more) = n - 1
  BY DEF Node
<1> HIDE DEF L, n
<1>2. number \in Nat /\ at = L * number + (at % L) /\ at % L \in 0 .. L - 1
  BY <1>1, DivMod
<1> HIDE DEF number
<1>3. index \in 0 .. n - 1 /\ number \div n \in Nat
  BY <1>1, <1>2, DivMod
<1> HIDE DEF index
<1> DEFINE row == number \div n
<1> HIDE DEF row
<1>4. rows \in Nat /\ number * L = L * number /\ number * L \in Nat
  <2>1. row \in Nat /\ rows = row * L
    BY <1>3 DEF row
  <2>. QED  BY <1>1, <1>2, <2>1
<1> HIDE DEF rows
<1> DEFINE place == at - number * L + rows
<1>5. place \in Nat
  BY <1>2, <1>4
<1>6. ResolveStripe(node, at) =
        IF index = 0 THEN node.stripe + place
        ELSE IF node.moreAt = NullPtr THEN Fault
        ELSE node.more[index] + place
  BY DEF ResolveStripe, L, n, number, index, rows
<1> HIDE DEF place
<1>7. index /= 0 /\ node.moreAt /= NullPtr => node.more[index] \in Nat
  <2> DEFINE more == node.more
  <2>1. SUFFICES ASSUME index /= 0, node.moreAt /= NullPtr
                 PROVE  more[index] \in Nat
    OBVIOUS
  <2>2. more \in Seq(Nat) /\ Len(more) = n - 1
    BY <1>1, <2>1
  <2> HIDE DEF more
  <2>3. index \in 1 .. n - 1
    BY <1>1, <1>3, <2>1
  <2>. QED  BY <2>2, <2>3
<1>8. CASE index = 0
  <2>1. node.stripe + place \in Nat
    BY <1>1, <1>5
  <2>. QED  BY <1>6, <1>8, <2>1
<1>9. CASE index /= 0 /\ node.moreAt = NullPtr
  BY <1>6, <1>9
<1>10. CASE index /= 0 /\ node.moreAt /= NullPtr
  <2>1. node.more[index] + place \in Nat
    BY <1>5, <1>7, <1>10
  <2>. QED  BY <1>6, <1>10, <2>1
<1>. QED  BY <1>8, <1>9, <1>10

\* btrfs_chunk_list_resolve gives a place in the image, the null pointer, or
\* faults.
LEMMA ResolveType ==
    ASSUME NEW list \in Seq(Node), NEW logical \in Nat
    PROVE  Resolve(list, logical) \in Nat \cup {Unmapped, Fault}
<1>1. CASE \E i \in 1 .. Len(list) : Covers(list[i], logical)
  <2> DEFINE node == list[FirstCovering(list, logical)]
  <2>1. node \in Node /\ Covers(node, logical)
    BY <1>1, FirstCovers
  <2>2. Resolve(list, logical) = ResolveStripe(node, logical - node.start)
    BY <1>1 DEF Resolve
  <2> HIDE DEF node
  <2>3. logical - node.start \in Nat
    BY <2>1 DEF Covers, Node
  <2>. QED  BY <2>1, <2>2, <2>3, ResolveStripeType
<1>. QED  BY <1>1 DEF Resolve

\* What the search for a position in a tree finds: of the keys that are not above
\* it the greatest.
LEMMA NearestFacts ==
    ASSUME NEW keys \in SUBSET Key, IsFiniteSet(keys), NEW k \in Key,
           SearchFinds(keys, k)
    PROVE  /\ Nearest(keys, k) \in keys
           /\ KeyLeq(Nearest(keys, k), k)
           /\ \A l \in keys : KeyLeq(l, k) => KeyLeq(l, Nearest(keys, k))
<1> DEFINE S == NotAbove(keys, k)
<1>1. S \in SUBSET Key /\ IsFiniteSet(S) /\ S /= {} /\ S \subseteq keys
  BY FS_Subset DEF NotAbove, SearchFinds
<1>2. PICK m \in S : \A l \in S : KeyLeq(l, m)
  BY <1>1, GreatestKey
<1>3. /\ Nearest(keys, k) \in S
      /\ \A l \in S : KeyLeq(l, Nearest(keys, k))
  BY <1>2 DEF Nearest
<1>. QED  BY <1>3 DEF NotAbove

\* Among the keys of one object and one type the offsets decide.
LEMMA OffsetsDecide ==
    ASSUME NEW k \in Key, NEW l \in Key, k.objectid = l.objectid, k.type = l.type
    PROVE  KeyLeq(k, l) <=> k.offset <= l.offset
<1>1. k.offset = l.offset => k = l
  BY DEF Key
<1>. QED  BY <1>1 DEF KeyLeq, KeyLess, Key

----------------------------------------------------------------------------
(***************************************************************************)
(* The inductive invariant.  What the loop keeps up, and no property says, *)
(* is that it looks for an extent of the file, at the position behind what *)
(* it has read, and that the bytes it has counted are in the buffer: with  *)
(* it the search is known to have found the extent before the position.    *)
(***************************************************************************)
LooksForExtent ==
    pc = "loop" => key.objectid = request.file /\ key.type = EXTENT_DATA

CountsWhatItCopied ==
    /\ offset = request.offset + bytesRead
    /\ bytesRead <= Len(buf)
    /\ Len(buf) <= request.length

IInv == TypeOK /\ LooksForExtent /\ CountsWhatItCopied

\* What the constants are assumed to be, for the image and the request at hand.
LEMMA ImageFacts ==
    ASSUME TypeOK
    PROVE  /\ DOMAIN image.tree \in SUBSET Key /\ IsFiniteSet(DOMAIN image.tree)
           /\ image.chunks \in Seq(Node)
           /\ Size \in Nat
           /\ request.file \in Nat /\ request.offset \in Nat /\ request.length \in Nat
           /\ Query \in Key
           /\ Query.objectid = key.objectid /\ Query.type = key.type /\ Query.offset = offset
<1>1. image \in Files /\ request \in Requests /\ key \in Key /\ offset \in Nat
  BY DEF TypeOK
<1>2. /\ DOMAIN image.tree \in SUBSET Key /\ IsFiniteSet(DOMAIN image.tree)
      /\ image.chunks \in Seq(Node)
  BY <1>1, FilesAssumption
<1>3. Size \in Nat /\ request \in [file : Nat, offset : Nat, length : Nat]
  BY <1>1, RequestsAssumption DEF Size
<1>4. /\ Query \in Key
      /\ Query.objectid = key.objectid /\ Query.type = key.type /\ Query.offset = offset
  BY <1>1 DEF Query, Key
<1>. QED  BY <1>2, <1>3, <1>4

\* The items of a tree under the keys of extents are extents.
LEMMA ExtentItem ==
    ASSUME TypeOK, NEW k \in Extents
    PROVE  /\ k \in DOMAIN image.tree /\ k \in Key
           /\ k.type = EXTENT_DATA /\ k.objectid = request.file /\ k.offset \in Nat
           /\ image.tree[k] \in Extent
           /\ Length(image.tree[k]) \in Nat
<1>1. k \in DOMAIN image.tree /\ k.type = EXTENT_DATA /\ k.objectid = request.file
  BY DEF Extents
<1>2. k \in Key /\ k.offset \in Nat
  BY <1>1, ImageFacts DEF Key
<1>3. image \in Files
  BY DEF TypeOK
<1>4. image.tree[k] \in Extent
  BY <1>1, <1>3, FilesAssumption
<1>5. Length(image.tree[k]) \in Nat
  BY <1>4 DEF Length, Extent
<1>. QED  BY <1>1, <1>2, <1>4, <1>5

\* A byte of a file is held by one extent at most.
LEMMA HeldOnce ==
    ASSUME TypeOK, NEW k \in Extents, NEW l \in Extents, NEW position \in Nat,
           Holds(k, position), Holds(l, position)
    PROVE  k = l
<1>1. image \in Files
  BY DEF TypeOK
<1>2. /\ k.offset <= position /\ position < k.offset + Length(image.tree[k])
      /\ l.offset <= position /\ position < l.offset + Length(image.tree[l])
  BY DEF Holds
<1>3. /\ k.offset < l.offset => k.offset + Length(image.tree[k]) <= l.offset
      /\ l.offset < k.offset => l.offset + Length(image.tree[l]) <= k.offset
  BY <1>1, ExtentItem, ExtentsAssumption
<1>4. k.offset = l.offset
  BY <1>2, <1>3, ExtentItem
<1>. QED  BY <1>4, ExtentItem DEF Key

\* When the search finds an extent of the file, it is the last one that starts at
\* or before the position.
LEMMA FoundExtent ==
    ASSUME IInv, pc = "loop", FindsExtent
    PROVE  /\ Found \in Extents
           /\ Found.offset <= offset
           /\ \A k \in Extents : k.offset <= offset => k.offset <= Found.offset
<1>1. TypeOK /\ key.objectid = request.file /\ key.type = EXTENT_DATA /\ offset \in Nat
  BY DEF IInv, TypeOK, LooksForExtent
<1>2. SearchFinds(DOMAIN image.tree, Query)
  BY DEF FindsExtent, Finds
<1>3. /\ Found \in DOMAIN image.tree
      /\ KeyLeq(Found, Query)
      /\ \A l \in DOMAIN image.tree : KeyLeq(l, Query) => KeyLeq(l, Found)
  BY <1>1, <1>2, ImageFacts, NearestFacts DEF Found
<1>4. Found \in Extents
  BY <1>3 DEF Extents, FindsExtent
<1>5. Found.offset <= offset
  BY <1>1, <1>3, <1>4, ExtentItem, ImageFacts, OffsetsDecide
<1>6. ASSUME NEW k \in Extents, k.offset <= offset PROVE k.offset <= Found.offset
  <2>1. KeyLeq(k, Query)
    BY <1>1, <1>6, ExtentItem, ImageFacts, OffsetsDecide
  <2>2. KeyLeq(k, Found)
    BY <1>1, <1>3, <2>1, ExtentItem
  <2>. QED  BY <1>1, <1>4, <2>2, ExtentItem, OffsetsDecide
<1>. QED  BY <1>4, <1>5, <1>6

\* Where a file has an extent at or before the position, the search finds one.
LEMMA SearchFindsExtent ==
    ASSUME IInv, pc = "loop", NEW k \in Extents, k.offset <= offset
    PROVE  FindsExtent
<1>1. TypeOK /\ key.objectid = request.file /\ key.type = EXTENT_DATA /\ offset \in Nat
  BY DEF IInv, TypeOK, LooksForExtent
<1>2. KeyLeq(k, Query) /\ k \in DOMAIN image.tree
  BY <1>1, ExtentItem, ImageFacts, OffsetsDecide
<1>3. SearchFinds(DOMAIN image.tree, Query)
  BY <1>2 DEF SearchFinds, NotAbove
<1>4. Found \in Key /\ KeyLeq(Found, Query) /\ KeyLeq(k, Found)
  BY <1>1, <1>2, <1>3, ImageFacts, NearestFacts DEF Found
<1>5. Found.objectid = request.file /\ Found.type = EXTENT_DATA
  <2>1. /\ Query.objectid = k.objectid /\ Query.type = k.type /\ Query \in Key /\ k \in Key
        /\ k.objectid = request.file /\ k.type = EXTENT_DATA
    BY <1>1, ExtentItem, ImageFacts
  <2>. QED  BY <1>4, <2>1 DEF KeyLeq, KeyLess, Key
<1>. QED  BY <1>3, <1>5 DEF FindsExtent, Finds

\* The key that the search leaves is a key, whatever it found.
LEMMA KeyAfterType ==
    ASSUME TypeOK
    PROVE  KeyAfter \in Key
<1>1. CASE Finds
  <2>1. Found \in DOMAIN image.tree
    BY <1>1, ImageFacts, NearestFacts DEF Finds, Found
  <2>. QED  BY <1>1, <2>1, ImageFacts DEF KeyAfter
<1>2. CASE ~ Finds
  BY <1>2, ImageFacts DEF KeyAfter
<1>. QED  BY <1>1, <1>2

\* Where the data of an extent is looked for.
LEMMA SourceType ==
    ASSUME TypeOK, NEW k \in Extents
    PROVE  Source(image.tree[k]) \in Nat \cup {Unmapped, Fault}
<1> DEFINE extent == image.tree[k]
<1>1. extent \in Extent /\ image.chunks \in Seq(Node)
  BY ExtentItem, ImageFacts
<1> HIDE DEF extent
<1>2. extent.inlineAt \in Nat /\ extent.diskBytenr \in Nat
  BY <1>1 DEF Extent
<1>3. Resolve(image.chunks, extent.diskBytenr) \in Nat \cup {Unmapped, Fault}
  BY <1>1, <1>2, ResolveType
<1>4. Source(extent) \in Nat \cup {Unmapped, Fault}
  BY <1>2, <1>3 DEF Source
<1>. QED  BY <1>4 DEF extent

\* How many bytes are copied: no more than are wanted, and none behind the end of
\* the extent.
LEMMA CopiedFacts ==
    ASSUME NEW extent \in Extent, NEW length \in Nat, NEW from \in Nat
    PROVE  /\ Copied(extent, length, from) \in 0 .. length
           /\ Copied(extent, length, from) > 0 =>
                from + Copied(extent, length, from) <= extent.ramBytes
           /\ from < extent.ramBytes /\ length > 0 => Copied(extent, length, from) > 0
<1>1. extent.ramBytes \in Nat
  BY DEF Extent
<1>. QED  BY <1>1 DEF Copied

\* The numbers up to one and up to another are the same only if these are.
LEMMA EqualRanges ==
    ASSUME NEW m \in Nat, NEW n \in Nat, 1 .. m = 1 .. n
    PROVE  m = n
<1>1. m > 0 => m \in 1 .. m
  OBVIOUS
<1>2. n > 0 => n \in 1 .. n
  OBVIOUS
<1>3. (m > 0 => m \in 1 .. n) /\ (n > 0 => n \in 1 .. m)
  BY <1>1, <1>2
<1>. QED  BY <1>3

----------------------------------------------------------------------------
\* What one iteration copies, and what the int makes of the count.
From == offset - Found.offset
Count == Copied(image.tree[Found], request.length - bytesRead, From)
Got == ToInt(Count)

\* The iteration in terms of these: the old bytes stay, Count new ones follow, and
\* each comes from the extent that was found or is zero.
LEMMA CopyFacts ==
    ASSUME IInv, CopyExtent
    PROVE  /\ pc = "loop" /\ FindsExtent /\ bytesRead < request.length
           /\ image' = image /\ request' = request /\ key' = KeyAfter
           /\ Found \in Extents /\ From \in Nat /\ image.tree[Found] \in Extent
           /\ image.tree[Found].type /= "unknown"
           /\ Source(image.tree[Found]) \in Nat \cup {Unmapped}
           /\ Count \in 0 .. request.length - bytesRead
           /\ Count > 0 => From + Count <= image.tree[Found].ramBytes
           /\ From < image.tree[Found].ramBytes => Count > 0
           /\ Got \in Int /\ Got <= Count
           /\ request.length < IntLimit => Got = Count
           /\ buf' \in Seq(Nat \cup {Zero})
           /\ Len(buf') = bytesRead + Count
           /\ \A n \in 1 .. bytesRead : buf'[n] = buf[n]
           /\ \A n \in bytesRead + 1 .. bytesRead + Count :
                buf'[n] = IF Source(image.tree[Found]) = Unmapped THEN Zero
                          ELSE Source(image.tree[Found]) + From + (n - bytesRead) - 1
           /\ Got > 0 => /\ offset' = offset + Got /\ bytesRead' = bytesRead + Got
                         /\ ret' = ret /\ pc' = pc
           /\ Got <= 0 => /\ ret' = IF Got < 0 THEN Got ELSE ToInt(bytesRead)
                          /\ pc' = "done" /\ offset' = offset /\ bytesRead' = bytesRead
<1> DEFINE extent == image.tree[Found]
           place == Source(extent)
           new == [n \in 1 .. Count |->
                    IF place = Unmapped THEN Zero ELSE place + From + n - 1]
<1>1. /\ pc = "loop" /\ FindsExtent /\ bytesRead < request.length
      /\ image' = image /\ request' = request /\ key' = KeyAfter
      /\ extent.type /= "unknown" /\ place /= Fault
  BY DEF CopyExtent, Searched, InLoop
<1>2. /\ TypeOK /\ offset \in Nat /\ bytesRead \in 0 .. request.length
      /\ buf \in Seq(Nat \cup {Zero}) /\ bytesRead <= Len(buf)
      /\ request.length \in Nat
  BY ImageFacts DEF IInv, TypeOK, CountsWhatItCopied
<1>3. Found \in Extents /\ Found.offset \in Nat /\ extent \in Extent /\ From \in Nat
  <2>1. Found \in Extents /\ Found.offset <= offset
    BY <1>1, FoundExtent
  <2>2. Found.offset \in Nat /\ extent \in Extent
    BY <1>2, <2>1, ExtentItem
  <2>. QED  BY <1>2, <2>1, <2>2 DEF From
<1>4. place \in Nat \cup {Unmapped}
  BY <1>1, <1>2, <1>3, SourceType
<1>5. /\ Count \in 0 .. request.length - bytesRead
      /\ Count > 0 => From + Count <= extent.ramBytes
      /\ From < extent.ramBytes => Count > 0
  <2>1. request.length - bytesRead \in Nat /\ request.length - bytesRead > 0
    BY <1>1, <1>2
  <2>. QED  BY <1>3, <2>1, CopiedFacts DEF Count
<1>6. Count \in Nat /\ Count <= request.length
  BY <1>2, <1>5
<1>7. Got \in Int /\ Got <= Count /\ (request.length < IntLimit => Got = Count)
  BY <1>2, <1>6, ToIntFacts, IntLimitAssumption DEF Got
<1>8. buf' = SubSeq(buf, 1, bytesRead) \o new
  BY DEF CopyExtent, Bytes, Count, From
<1>9. /\ Got > 0 => /\ offset' = offset + Got /\ bytesRead' = bytesRead + Got
                    /\ ret' = ret /\ pc' = pc
      /\ ~ (Got > 0) => /\ ret' = IF Got < 0 THEN Got ELSE ToInt(bytesRead)
                        /\ pc' = "done" /\ offset' = offset /\ bytesRead' = bytesRead
  BY DEF CopyExtent, Count, From, Got, GoesOn
<1> HIDE DEF place
<1>10. new \in Seq(Nat \cup {Zero}) /\ Len(new) = Count
  <2>1. ASSUME NEW n \in 1 .. Count PROVE new[n] \in Nat \cup {Zero}
    <3>1. new[n] = IF place = Unmapped THEN Zero ELSE place + From + n - 1
      BY <2>1
    <3>2. n \in Nat /\ n >= 1
      BY <1>6, <2>1
    <3> HIDE DEF new
    <3>. QED  BY <1>3, <1>4, <3>1, <3>2
  <2>2. DOMAIN new = 1 .. Count /\ new = [n \in 1 .. Count |-> new[n]]
    OBVIOUS
  <2> HIDE DEF new
  <2>3. new \in [1 .. Count -> Nat \cup {Zero}]
    BY <2>1, <2>2
  <2>4. new \in Seq(Nat \cup {Zero})
    BY <1>6, <2>3
  <2>5. Len(new) \in Nat /\ 1 .. Len(new) = 1 .. Count
    <3>1. Len(new) \in Nat /\ DOMAIN new = 1 .. Len(new)
      BY <2>4, LenProperties
    <3>. QED  BY <2>2, <3>1
  <2>6. Len(new) = Count
    BY <1>6, <2>5, EqualRanges
  <2>. QED  BY <2>4, <2>6
<1>11. \A n \in 1 .. Count :
        new[n] = IF place = Unmapped THEN Zero ELSE place + From + n - 1
  OBVIOUS
<1> HIDE DEF new, extent
<1>12. /\ buf' \in Seq(Nat \cup {Zero})
       /\ Len(buf') = bytesRead + Count
       /\ \A n \in 1 .. bytesRead : buf'[n] = buf[n]
       /\ \A n \in bytesRead + 1 .. bytesRead + Count : buf'[n] = new[n - bytesRead]
  <2> DEFINE S == Nat \cup {Zero}
             u == SubSeq(buf, 1, bytesRead)
  <2> HIDE DEF S
  <2>1. buf \in Seq(S) /\ new \in Seq(S) /\ Len(new) = Count /\ bytesRead \in 0 .. Len(buf)
    BY <1>2, <1>10 DEF S
  <2>2. /\ u \in Seq(S) /\ Len(u) = bytesRead
        /\ \A n \in 1 .. bytesRead : u[n] = buf[n]
    BY <2>1
  <2>3. buf' = u \o new
    BY <1>8
  <2> HIDE DEF u
  <2>4. buf' \in Seq(S) /\ Len(buf') = bytesRead + Count
    BY <2>1, <2>2, <2>3, ConcatProperties
  <2>5. \A n \in 1 .. bytesRead : buf'[n] = buf[n]
    BY <2>1, <2>2, <2>3
  <2>6. ASSUME NEW n \in bytesRead + 1 .. bytesRead + Count
        PROVE  buf'[n] = new[n - bytesRead]
    <3>1. n \in Nat /\ n - bytesRead \in 1 .. Len(new) /\ n = Len(u) + (n - bytesRead)
      BY <1>2, <1>6, <2>1, <2>2
    <3>2. n \in 1 .. Len(u) + Len(new) /\ ~ (n <= Len(u)) /\ n - Len(u) = n - bytesRead
      BY <1>2, <1>6, <2>1, <2>2
    <3>3. (u \o new)[n] = IF n <= Len(u) THEN u[n] ELSE new[n - Len(u)]
      BY <2>1, <2>2, <3>2, ConcatProperties
    <3>. QED  BY <2>3, <3>2, <3>3
  <2>. QED  BY <2>4, <2>5, <2>6 DEF S
<1>13. ASSUME NEW n \in bytesRead + 1 .. bytesRead + Count
       PROVE  buf'[n] = IF place = Unmapped THEN Zero
                        ELSE place + From + (n - bytesRead) - 1
  <2>1. n - bytesRead \in 1 .. Count
    BY <1>2, <1>6
  <2>. QED  BY <1>11, <1>12, <2>1
<1>14. Got <= 0 => /\ ret' = IF Got < 0 THEN Got ELSE ToInt(bytesRead)
                  /\ pc' = "done" /\ offset' = offset /\ bytesRead' = bytesRead
  <2>1. Got <= 0 => ~ (Got > 0)
    BY <1>7
  <2>. QED  BY <1>9, <2>1
<1> HIDE DEF From, Count, Got
<1>. QED
  BY <1>1, <1>3, <1>4, <1>5, <1>7, <1>9, <1>12, <1>13, <1>14 DEF place, extent

----------------------------------------------------------------------------
\* A call begins with nothing read, at the offset asked for.
LEMMA InitIInv == Init => IInv
<1> SUFFICES ASSUME Init PROVE IInv
  OBVIOUS
<1>1. /\ image \in Files /\ request \in Requests /\ offset = request.offset
      /\ key = [objectid |-> request.file, type |-> EXTENT_DATA, offset |-> 0]
      /\ bytesRead = 0 /\ buf = <<>> /\ ret = 0 /\ pc = "loop"
  BY DEF Init
<1>2. request.file \in Nat /\ request.offset \in Nat /\ request.length \in Nat
  BY <1>1, RequestsAssumption
<1>3. TypeOK
  <2>1. key \in Key
    BY <1>1, <1>2 DEF Key, EXTENT_DATA
  <2>2. buf \in Seq(Nat \cup {Zero}) /\ bytesRead \in 0 .. request.length
    BY <1>1, <1>2
  <2>. QED  BY <1>1, <1>2, <2>1, <2>2 DEF TypeOK
<1>4. LooksForExtent
  BY <1>1 DEF LooksForExtent
<1>5. Len(buf) = 0
  BY <1>1
<1>6. CountsWhatItCopied
  BY <1>1, <1>2, <1>5 DEF CountsWhatItCopied
<1>. QED  BY <1>3, <1>4, <1>6 DEF IInv

\* A step that ends the call, or the program, and copies nothing.
LEMMA StopKeeps ==
    ASSUME IInv, UNCHANGED <<image, request, offset, bytesRead, buf>>,
           key' \in Key, ret' \in Int, pc' \in {"done", "crash", "astray"}
    PROVE  IInv'
<1>1. TypeOK'
  BY DEF IInv, TypeOK
<1>2. LooksForExtent'
  BY DEF LooksForExtent
<1>3. CountsWhatItCopied'
  BY DEF IInv, CountsWhatItCopied
<1>. QED  BY <1>1, <1>2, <1>3 DEF IInv

\* An iteration that copies keeps the invariant: the search for the next position
\* starts from the key of the extent, which is one of the file.
LEMMA CopyExtentKeeps ==
    ASSUME IInv, CopyExtent
    PROVE  IInv'
<1>1. /\ TypeOK /\ image \in Files /\ request \in Requests /\ ret \in Int
      /\ offset \in Nat /\ bytesRead \in 0 .. request.length /\ request.length \in Nat
      /\ request.offset \in Nat /\ bytesRead \in Nat
      /\ offset = request.offset + bytesRead
  BY ImageFacts DEF IInv, TypeOK, CountsWhatItCopied
<1>2. /\ image' = image /\ request' = request /\ pc = "loop"
      /\ key' = Found /\ Found \in Extents
  BY CopyFacts DEF KeyAfter, FindsExtent
<1>3. key' \in Key /\ key'.objectid = request.file /\ key'.type = EXTENT_DATA
  BY <1>1, <1>2, ExtentItem
<1>4. /\ Count \in 0 .. request.length - bytesRead /\ Got \in Int /\ Got <= Count
      /\ buf' \in Seq(Nat \cup {Zero}) /\ Len(buf') = bytesRead + Count
  BY CopyFacts
<1>5. Count \in Nat /\ bytesRead + Count <= request.length
  BY <1>1, <1>4
<1>6. /\ bytesRead' \in Nat /\ bytesRead' <= bytesRead + Count
      /\ offset' = request.offset + bytesRead'
      /\ ret' \in Int /\ pc' \in {"loop", "done", "crash"}
  <2>1. CASE Got > 0
    <3>1. /\ offset' = offset + Got /\ bytesRead' = bytesRead + Got
          /\ ret' = ret /\ pc' = pc
      BY <2>1, CopyFacts
    <3>. QED  BY <1>1, <1>2, <1>4, <1>5, <2>1, <3>1
  <2>2. CASE ~ (Got > 0)
    <3>1. /\ ret' = IF Got < 0 THEN Got ELSE ToInt(bytesRead)
          /\ pc' = "done" /\ offset' = offset /\ bytesRead' = bytesRead
      <4>1. Got <= 0
        BY <1>4, <2>2
      <4>. QED  BY <4>1, CopyFacts
    <3>2. ToInt(bytesRead) \in Int
      BY <1>1, ToIntFacts
    <3>. QED  BY <1>1, <1>4, <1>5, <3>1, <3>2
  <2>. QED  BY <2>1, <2>2
<1>7. bytesRead' \in 0 .. request.length /\ offset' \in Nat
  BY <1>1, <1>5, <1>6
<1>8. TypeOK'
  BY <1>1, <1>2, <1>3, <1>4, <1>6, <1>7 DEF TypeOK
<1>9. LooksForExtent'
  BY <1>2, <1>3 DEF LooksForExtent
<1>10. CountsWhatItCopied'
  BY <1>2, <1>4, <1>5, <1>6 DEF CountsWhatItCopied
<1>. QED  BY <1>8, <1>9, <1>10 DEF IInv

\* Every step keeps the invariant.
LEMMA NextIInv == IInv /\ [Next]_vars => IInv'
<1> SUFFICES ASSUME IInv, [Next]_vars PROVE IInv'
  OBVIOUS
<1>1. TypeOK /\ key \in Key /\ ret \in Int /\ bytesRead \in 0 .. request.length /\ bytesRead \in Nat
  BY ImageFacts DEF IInv, TypeOK
<1>2. KeyAfter \in Key
  BY <1>1, KeyAfterType
<1>3. ASSUME NoExtent PROVE IInv'
  BY <1>1, <1>2, <1>3, StopKeeps DEF NoExtent, Searched, ENOENT
<1>4. ASSUME UnknownExtent PROVE IInv'
  BY <1>1, <1>2, <1>4, StopKeeps DEF UnknownExtent, Searched, EINVAL
<1>5. ASSUME ResolveFaults PROVE IInv'
  BY <1>1, <1>2, <1>5, StopKeeps DEF ResolveFaults, Searched
<1>6. ASSUME SearchFaultsInLeaf PROVE IInv'
  BY <1>1, <1>6, StopKeeps DEF SearchFaultsInLeaf
<1>7. ASSUME ReturnAll PROVE IInv'
  BY <1>1, <1>7, ToIntFacts, StopKeeps DEF ReturnAll
<1>8. ASSUME SearchGoesAstray PROVE IInv'
  BY <1>1, <1>8, StopKeeps DEF SearchGoesAstray
<1>9. ASSUME UNCHANGED vars PROVE IInv'
  BY <1>9 DEF vars, IInv, TypeOK, LooksForExtent, CountsWhatItCopied
<1>. QED
  BY <1>3, <1>4, <1>5, <1>6, <1>7, <1>8, <1>9, CopyExtentKeeps DEF Next, Step, Stopped

\* The search that every iteration starts goes on from the extent before, and the
\* position is as far from the offset asked for as bytes have been read.
THEOREM SpecIInv == Spec => []IInv
  BY InitIInv, NextIInv, PTL DEF Spec

\* Every variable of a read keeps to its type; in particular the count of the bytes
\* never passes the length asked for, and no place that is read is a fault.
THEOREM TypeCorrect == Spec => []TypeOK
<1>1. IInv => TypeOK
  BY DEF IInv
<1>. QED  BY <1>1, SpecIInv, PTL

----------------------------------------------------------------------------
\* The steps but the copy, for what they have in common.
LEMMA OtherSteps ==
    ASSUME IInv, [Next]_vars, ~ CopyExtent
    PROVE  /\ image' = image /\ request' = request /\ buf' = buf
           /\ \/ NoExtent \/ UnknownExtent \/ ReturnAll
              \/ pc' \in {"crash", "astray"}
              \/ UNCHANGED <<pc, ret>>
<1>1. CASE NoExtent
  BY <1>1 DEF NoExtent
<1>2. CASE UnknownExtent
  BY <1>2 DEF UnknownExtent
<1>3. CASE ResolveFaults
  BY <1>3 DEF ResolveFaults
<1>4. CASE SearchFaultsInLeaf
  BY <1>4 DEF SearchFaultsInLeaf
<1>5. CASE ReturnAll
  BY <1>5 DEF ReturnAll
<1>6. CASE SearchGoesAstray
  BY <1>6 DEF SearchGoesAstray
<1>7. CASE UNCHANGED vars
  BY <1>7 DEF vars
<1>. QED  BY <1>1, <1>2, <1>3, <1>4, <1>5, <1>6, <1>7 DEF Next, Step, Stopped

\* A read copies no more than it was asked for, so the caller's buffer is never
\* overrun, and what it reports is what it copied.
LEMMA StaysInBufferKept == IInv /\ StaysInBuffer /\ [Next]_vars => StaysInBuffer'
<1> SUFFICES ASSUME IInv, StaysInBuffer, [Next]_vars PROVE StaysInBuffer'
  OBVIOUS
<1>1. /\ TypeOK /\ bytesRead \in 0 .. request.length /\ request.length \in Nat
      /\ bytesRead <= Len(buf) /\ Len(buf) <= request.length /\ Len(buf) \in Nat
  BY ImageFacts DEF IInv, TypeOK, CountsWhatItCopied
<1>2. Len(buf')  <= request'.length
  BY NextIInv DEF IInv, CountsWhatItCopied
<1>3. bytesRead \in Nat /\ IntLimit \in Nat
  BY <1>1, IntLimitAssumption
<1>4. ASSUME pc' = "done", ret' >= 0, request'.length < IntLimit PROVE ret' = Len(buf')
  <2>1. CASE CopyExtent
    <3>1. /\ request' = request /\ pc = "loop" /\ Len(buf') = bytesRead + Count
          /\ Count \in 0 .. request.length - bytesRead /\ Got = Count /\ Got \in Int
      BY <1>4, <2>1, CopyFacts
    <3>2. ~ (Got > 0)
      BY <1>4, <2>1, <3>1, CopyFacts
    <3>3. Count = 0
      BY <1>1, <3>1, <3>2
    <3>4. ret' = ToInt(bytesRead)
      BY <2>1, <3>1, <3>3, CopyFacts
    <3>5. bytesRead < IntLimit
      BY <1>1, <1>3, <1>4, <3>1
    <3>. QED  BY <1>3, <3>1, <3>3, <3>4, <3>5, ToIntFacts
  <2>2. CASE ~ CopyExtent
    <3>1. image' = image /\ request' = request /\ buf' = buf
      BY <2>2, OtherSteps
    <3>2. CASE NoExtent \/ UnknownExtent
      BY <1>4, <3>2 DEF NoExtent, UnknownExtent, ENOENT, EINVAL
    <3>3. CASE ReturnAll
      <4>1. bytesRead >= request.length /\ ret' = ToInt(bytesRead)
        BY <3>3 DEF ReturnAll
      <4>2. bytesRead = request.length /\ Len(buf) = bytesRead /\ bytesRead < IntLimit
        BY <1>1, <1>3, <1>4, <3>1, <4>1
      <4>. QED  BY <1>3, <3>1, <4>1, <4>2, ToIntFacts
    <3>4. CASE UNCHANGED <<pc, ret>>
      BY <1>4, <3>1, <3>4 DEF StaysInBuffer
    <3>. QED  BY <1>4, <2>2, <3>2, <3>3, <3>4, OtherSteps
  <2>. QED  BY <2>1, <2>2
<1>. QED  BY <1>2, <1>4 DEF StaysInBuffer

\* The caller's buffer is never overrun, and a read reports what it has copied: as
\* long as the length fits an int, for beyond it the code's int return does not.
THEOREM NoOverrun == Spec => []StaysInBuffer
<1>1. Init => StaysInBuffer
  <2> SUFFICES ASSUME Init PROVE StaysInBuffer
    OBVIOUS
  <2>1. IInv /\ pc = "loop"
    BY InitIInv DEF Init
  <2>. QED  BY <2>1 DEF IInv, CountsWhatItCopied, StaysInBuffer
<1>. QED  BY <1>1, SpecIInv, StaysInBufferKept, PTL DEF Spec

\* What is so many bytes behind the start of an extent that is in one piece lies at
\* the address of that byte of the extent.
LEMMA OwnByte ==
    ASSUME TypeOK, NEW k \in Extents, InOnePiece(image.tree[k]),
           image.tree[k].type /= "unknown", Source(image.tree[k]) \in Nat,
           NEW within \in 0 .. image.tree[k].ramBytes - 1
    PROVE  Source(image.tree[k]) + within \in OwnBytes(image.tree[k])
<1> DEFINE extent == image.tree[k]
<1>1. extent \in Extent /\ within \in 0 .. extent.ramBytes - 1
  BY ExtentItem
<1>2. extent.type \in {"inline", "reg", "prealloc"} /\ InOnePiece(extent) /\ Source(extent) \in Nat
  BY <1>1 DEF Extent
<1> SUFFICES Source(extent) + within \in OwnBytes(extent)
  OBVIOUS
<1> HIDE DEF extent
<1>3. CASE extent.type = "inline"
  BY <1>1, <1>3 DEF OwnBytes, Source
<1>4. CASE extent.type /= "inline"
  <2>1. Source(extent) \notin {Unmapped, Fault}
    BY <1>2, PointersAssumption
  <2>2. extent.diskBytenr /= 0
    BY <1>4, <2>1 DEF Source
  <2>3. Resolve(image.chunks, extent.diskBytenr + within) = Source(extent) + within
    BY <1>1, <1>2, <1>4, <2>1 DEF InOnePiece
  <2>. QED  BY <1>1, <1>4, <2>2, <2>3 DEF OwnBytes
<1>. QED  BY <1>3, <1>4

\* Every byte that is read is made up for a hole or lies in an extent of the file.
LEMMA NoForeignBytesKept == IInv /\ NoForeignBytes /\ [Next]_vars => NoForeignBytes'
<1> SUFFICES ASSUME IInv, NoForeignBytes, [Next]_vars PROVE NoForeignBytes'
  OBVIOUS
<1>1. /\ TypeOK /\ bytesRead \in 0 .. request.length /\ request.length \in Nat
      /\ bytesRead <= Len(buf) /\ Len(buf) \in Nat
  BY ImageFacts DEF IInv, TypeOK, CountsWhatItCopied
<1> DEFINE InPieces == \A k \in Extents : InOnePiece(image.tree[k])
           Own(byte) == byte = Zero \/ \E k \in Extents : byte \in OwnBytes(image.tree[k])
<1>2. image' = image /\ request' = request
  BY CopyFacts, OtherSteps
<1>3. ASSUME InPieces => \A n \in 1 .. Len(buf') : Own(buf'[n])
      PROVE  NoForeignBytes'
  <2>1. /\ Extents' = Extents
        /\ \A k : OwnBytes(image.tree[k])' = OwnBytes(image.tree[k])
        /\ \A k : InOnePiece(image.tree[k])' <=> InOnePiece(image.tree[k])
    BY <1>2 DEF Extents, OwnBytes, InOnePiece, Source
  <2>. QED  BY <1>2, <1>3, <2>1 DEF NoForeignBytes
<1> SUFFICES ASSUME InPieces PROVE \A n \in 1 .. Len(buf') : Own(buf'[n])
  BY <1>3
<1>4. \A n \in 1 .. Len(buf) : Own(buf[n])
  BY DEF NoForeignBytes
<1>5. CASE CopyExtent
  <2> DEFINE extent == image.tree[Found]
             place == Source(extent)
  <2>1. /\ Found \in Extents /\ From \in Nat /\ extent \in Extent /\ extent.type /= "unknown"
        /\ place \in Nat \cup {Unmapped}
        /\ Count \in 0 .. request.length - bytesRead
        /\ Count > 0 => From + Count <= extent.ramBytes
        /\ Len(buf') = bytesRead + Count
        /\ \A n \in 1 .. bytesRead : buf'[n] = buf[n]
        /\ \A n \in bytesRead + 1 .. bytesRead + Count :
             buf'[n] = IF place = Unmapped THEN Zero
                       ELSE place + From + (n - bytesRead) - 1
    BY <1>5, CopyFacts
  <2>2. bytesRead \in Nat /\ Count \in Nat /\ extent.ramBytes \in Nat
    BY <1>1, <2>1 DEF Extent
  <2>3. ASSUME NEW within \in 0 .. extent.ramBytes - 1, place \in Nat
        PROVE  Own(place + within)
    <3>1. place + within \in OwnBytes(extent)
      BY <1>1, <2>1, <2>3, OwnByte
    <3>. QED  BY <2>1, <3>1
  <2> HIDE DEF place
  <2>4. ASSUME NEW n \in 1 .. bytesRead PROVE Own(buf'[n])
    <3>1. n \in 1 .. Len(buf) /\ buf'[n] = buf[n]
      BY <1>1, <2>1, <2>2
    <3>. QED  BY <1>4, <3>1
  <2>5. ASSUME NEW n \in bytesRead + 1 .. bytesRead + Count PROVE Own(buf'[n])
    <3>1. CASE place = Unmapped
      BY <2>1, <3>1
    <3>2. CASE place /= Unmapped
      <4> DEFINE within == From + (n - bytesRead) - 1
      <4>1. place \in Nat
        BY <2>1, <3>2
      <4>2. within \in 0 .. extent.ramBytes - 1 /\ buf'[n] = place + within
        <5> DEFINE all == extent.ramBytes
                   step == n - bytesRead
        <5>1. step \in 1 .. Count /\ Count \in Nat
          BY <2>2
        <5>2. Count > 0
          BY <5>1
        <5>3. From \in Nat /\ all \in Nat /\ From + Count <= all
          BY <2>1, <2>2, <5>2
        <5>4. buf'[n] = place + From + step - 1
          BY <2>1, <3>2
        <5> HIDE DEF all, step
        <5>5. From + step - 1 \in 0 .. all - 1 /\ buf'[n] = place + (From + step - 1)
          BY <4>1, <5>1, <5>3, <5>4
        <5>. QED  BY <5>5 DEF all, step
      <4> HIDE DEF within, Own
      <4>. QED  BY <2>3, <4>1, <4>2
    <3>. QED  BY <3>1, <3>2
  <2> HIDE DEF Own
  <2>6. \A n \in 1 .. Len(buf') : n \in 1 .. bytesRead \/ n \in bytesRead + 1 .. bytesRead + Count
    BY <2>1, <2>2
  <2>. QED  BY <2>4, <2>5, <2>6
<1>6. CASE ~ CopyExtent
  <2>1. buf' = buf
    BY <1>6, OtherSteps
  <2>. QED  BY <1>4, <2>1
<1>. QED  BY <1>5, <1>6

\* A read of a file whose extents are each in one piece of the image gives no byte but
\* zeros and those at the addresses of its own extents, even where the key it searched
\* with led to the items of a neighbour, or where an extent is shared or overwritten.
THEOREM OwnBytesOnly == Spec => []NoForeignBytes
<1>1. Init => NoForeignBytes
  BY DEF Init, NoForeignBytes
<1>. QED  BY <1>1, SpecIInv, NoForeignBytesKept, PTL DEF Spec

----------------------------------------------------------------------------
\* The byte of a file at a position that an extent holds.
ByteIn(extent, within) ==
    IF extent.type = "inline" THEN extent.inlineAt + within
    ELSE IF extent.type = "prealloc" \/ extent.diskBytenr = 0 THEN Zero
    ELSE LET place == Resolve(image.chunks, extent.diskBytenr + extent.offset + within)
         IN  IF place = Unmapped THEN Zero ELSE place

\* Any extent that holds a position tells what byte is there: no other does.
LEMMA HeldByte ==
    ASSUME TypeOK, NEW k \in Extents, NEW position \in Nat, Holds(k, position)
    PROVE  FileByte(position) = ByteIn(image.tree[k], position - k.offset)
<1> DEFINE l == CHOOSE l \in Extents : Holds(l, position)
<1>1. l \in Extents /\ Holds(l, position)
  OBVIOUS
<1>2. l = k
  BY <1>1, HeldOnce
<1>3. FileByte(position) = ByteIn(image.tree[l], position - l.offset)
  BY <1>1 DEF FileByte, ByteIn
<1> HIDE DEF l
<1>. QED  BY <1>2, <1>3

\* The bytes of a whole extent lie one behind the other where the read takes them.
LEMMA WholeByte ==
    ASSUME TypeOK, NEW k \in Extents, Whole(image.tree[k]),
           NEW within \in 0 .. image.tree[k].ramBytes - 1
    PROVE  /\ ByteIn(image.tree[k], within) =
                 IF Source(image.tree[k]) = Unmapped THEN Zero
                 ELSE Source(image.tree[k]) + within
           /\ Holds(k, k.offset + within)
<1> DEFINE extent == image.tree[k]
<1>1. extent \in Extent /\ k.offset \in Nat
  BY ExtentItem
<1> HIDE DEF extent
<1>2. /\ extent.ramBytes \in Nat /\ extent.inlineAt \in Nat /\ extent.diskBytenr \in Nat
      /\ within \in Nat /\ within < extent.ramBytes
  BY <1>1 DEF Extent, extent
<1>3. Length(extent) = extent.ramBytes
  BY DEF Whole, Length, extent
<1>4. Holds(k, k.offset + within)
  BY <1>1, <1>2, <1>3 DEF Holds, extent
<1>5. ByteIn(extent, within) =
        IF Source(extent) = Unmapped THEN Zero ELSE Source(extent) + within
  <2>1. CASE extent.type = "inline"
    BY <1>2, <2>1, PointersAssumption DEF ByteIn, Source
  <2>2. CASE extent.type /= "inline" /\ extent.diskBytenr = 0
    BY <2>2 DEF ByteIn, Source
  <2>3. CASE extent.type /= "inline" /\ extent.diskBytenr /= 0
    <3> DEFINE place == Resolve(image.chunks, extent.diskBytenr)
    <3>1. /\ extent.type = "reg" /\ extent.offset = 0
          /\ \A n \in 0 .. extent.ramBytes - 1 :
               Resolve(image.chunks, extent.diskBytenr + n) =
                 IF place = Unmapped THEN Unmapped ELSE place + n
          /\ place \in Nat \cup {Unmapped}
      <4>1. /\ extent.type = "reg" /\ extent.offset = 0 /\ place /= Fault
            /\ \A n \in 0 .. extent.ramBytes - 1 :
                 Resolve(image.chunks, extent.diskBytenr + n) =
                   IF place = Unmapped THEN Unmapped ELSE place + n
        BY <2>3 DEF Whole, extent
      <4>2. place \in Nat \cup {Unmapped, Fault}
        BY <1>2, ImageFacts, ResolveType
      <4>. QED  BY <4>1, <4>2
    <3>2. Resolve(image.chunks, extent.diskBytenr + within) =
            IF place = Unmapped THEN Unmapped ELSE place + within
      BY <1>2, <3>1
    <3>3. ByteIn(extent, within) = IF place = Unmapped THEN Zero ELSE place + within
      <4>1. extent.diskBytenr + extent.offset + within = extent.diskBytenr + within
        BY <1>2, <3>1
      <4>2. place /= Unmapped => place + within \in Int
        BY <1>2, <3>1
      <4>. QED  BY <2>3, <3>1, <3>2, <4>1, <4>2, PointersAssumption DEF ByteIn
    <3>4. Source(extent) = place
      BY <2>3 DEF Source
    <3> HIDE DEF place
    <3>. QED  BY <3>1, <3>3, <3>4, PointersAssumption
  <2>. QED  BY <2>1, <2>2, <2>3
<1>. QED  BY <1>4, <1>5 DEF extent

\* The bytes read so far are those of the file, and the next ones follow on.
LEMMA ReadsContentKept == IInv /\ ReadsContent /\ [Next]_vars => ReadsContent'
<1> SUFFICES ASSUME IInv, ReadsContent, [Next]_vars PROVE ReadsContent'
  OBVIOUS
<1>1. /\ TypeOK /\ bytesRead \in 0 .. request.length /\ request.length \in Nat
      /\ request.offset \in Nat /\ Size \in Nat /\ offset = request.offset + bytesRead
      /\ bytesRead <= Len(buf) /\ Len(buf) \in Nat /\ bytesRead \in Nat
  BY ImageFacts DEF IInv, TypeOK, CountsWhatItCopied
<1> DEFINE Right(n, byte) ==
             request.offset + n - 1 < Size => byte = FileByte(request.offset + n - 1)
<1>2. image' = image /\ request' = request
  BY CopyFacts, OtherSteps
<1>3. ASSUME WholeExtents => \A n \in 1 .. Len(buf') : Right(n, buf'[n])
      PROVE  ReadsContent'
  <2>1. WholeExtents' = WholeExtents
    BY <1>2 DEF WholeExtents, Extents, Whole
  <2>2. Size' = Size /\ \A position : FileByte(position)' = FileByte(position)
    BY <1>2 DEF Size, FileByte, Extents, Holds
  <2>. QED  BY <1>2, <1>3, <2>1, <2>2 DEF ReadsContent, GivesContent
<1>4. CASE CopyExtent
  <2> SUFFICES ASSUME WholeExtents
               PROVE  \A n \in 1 .. Len(buf') : Right(n, buf'[n])
    BY <1>3
  <2> DEFINE extent == image.tree[Found]
             place == Source(extent)
  <2>1. /\ pc = "loop" /\ FindsExtent /\ Found \in Extents /\ extent \in Extent
        /\ From \in Nat
        /\ Count \in 0 .. request.length - bytesRead
        /\ Count > 0 => From + Count <= extent.ramBytes
        /\ Len(buf') = bytesRead + Count
        /\ \A n \in 1 .. bytesRead : buf'[n] = buf[n]
        /\ \A n \in bytesRead + 1 .. bytesRead + Count :
             buf'[n] = IF place = Unmapped THEN Zero
                       ELSE place + From + (n - bytesRead) - 1
    BY <1>4, CopyFacts
  <2>2. /\ Count \in Nat /\ extent.ramBytes \in Nat /\ Found.offset \in Nat
        /\ offset = Found.offset + From
    <3>1. Count \in Nat
      BY <1>1, <2>1
    <3>2. extent.ramBytes \in Nat
      BY <2>1 DEF Extent
    <3>3. Found.offset \in Nat
      BY <1>1, <2>1, ExtentItem
    <3>4. offset \in Nat
      BY <1>1
    <3>. QED  BY <3>1, <3>2, <3>3, <3>4 DEF From
  <2>3. Whole(extent) /\ place \in Nat \cup {Unmapped}
    BY <1>4, <2>1, CopyFacts DEF WholeExtents
  <2>4. ASSUME NEW n \in 1 .. bytesRead PROVE Right(n, buf'[n])
    <3>1. n \in 1 .. Len(buf) /\ buf'[n] = buf[n]
      BY <1>1, <2>1
    <3>. QED  BY <3>1 DEF ReadsContent, GivesContent
  <2>5. ASSUME NEW n \in bytesRead + 1 .. bytesRead + Count PROVE Right(n, buf'[n])
    <3> DEFINE within == From + (n - bytesRead) - 1
    <3>1. within \in 0 .. extent.ramBytes - 1
      <4> DEFINE all == extent.ramBytes
                 step == n - bytesRead
      <4>1. step \in 1 .. Count /\ Count \in Nat
        BY <1>1, <2>2
      <4>2. Count > 0
        BY <4>1
      <4>3. From \in Nat /\ all \in Nat /\ From + Count <= all
        BY <2>1, <2>2, <4>2
      <4> HIDE DEF all, step
      <4>4. From + step - 1 \in 0 .. all - 1
        BY <4>1, <4>3
      <4>. QED  BY <4>4 DEF all, step
    <3>2. request.offset + n - 1 = Found.offset + within
      <4>1. n \in Nat
        BY <1>1, <2>2
      <4>2. request.offset + bytesRead = Found.offset + From
        BY <1>1, <2>2
      <4>3. /\ From \in Nat /\ bytesRead \in Nat /\ request.offset \in Nat
            /\ Found.offset \in Nat
        BY <1>1, <2>1, <2>2
      <4>. QED  BY <4>1, <4>2, <4>3
    <3> HIDE DEF place
    <3>3. buf'[n] = IF place = Unmapped THEN Zero ELSE place + within
      <4>1. place \in Nat => place + From + (n - bytesRead) - 1 = place + within
        BY <1>1, <2>1, <2>2
      <4>. QED  BY <2>1, <2>3, <4>1
    <3> HIDE DEF within
    <3>4. /\ ByteIn(extent, within) = IF place = Unmapped THEN Zero ELSE place + within
          /\ Holds(Found, Found.offset + within)
      BY <1>1, <2>1, <2>3, <3>1, WholeByte DEF place
    <3>5. within \in Nat /\ Found.offset \in Nat
      BY <2>2, <3>1
    <3>6. FileByte(Found.offset + within) = ByteIn(extent, within)
      <4> DEFINE position == Found.offset + within
      <4>1. position \in Nat /\ position - Found.offset = within
        BY <3>5
      <4>2. Holds(Found, position)
        BY <3>4, Zenon
      <4> HIDE DEF position
      <4>3. FileByte(position) = ByteIn(extent, position - Found.offset)
        BY <1>1, <2>1, <4>1, <4>2, HeldByte
      <4>. QED  BY <4>1, <4>3 DEF position
    <3>. QED  BY <3>2, <3>3, <3>4, <3>6
  <2> HIDE DEF Right
  <2>6. \A n \in 1 .. Len(buf') : n \in 1 .. bytesRead \/ n \in bytesRead + 1 .. bytesRead + Count
    BY <1>1, <2>1, <2>2
  <2>. QED  BY <2>4, <2>5, <2>6
<1>5. CASE ~ CopyExtent
  <2>1. buf' = buf
    BY <1>5, OtherSteps
  <2>. QED  BY <1>3, <2>1 DEF ReadsContent, GivesContent
<1>. QED  BY <1>4, <1>5

\* Of a file whose extents are whole a read gives the bytes of the file, one after
\* the other from the offset asked for, across the ends of its extents.
THEOREM ContentIsRead == Spec => []ReadsContent
<1>1. Init => ReadsContent
  BY DEF Init, ReadsContent, GivesContent
<1>. QED  BY <1>1, SpecIInv, ReadsContentKept, PTL DEF Spec

----------------------------------------------------------------------------
\* Of a file without gaps the search finds an extent wherever the read stands, and
\* within the file it is the one that holds the position.
LEMMA DenseFinds ==
    ASSUME IInv, pc = "loop", Dense, request.offset < Size
    PROVE  /\ FindsExtent
           /\ offset < Size => Holds(Found, offset)
<1>1. /\ TypeOK /\ request.offset \in Nat /\ Size \in Nat /\ offset \in Nat
      /\ bytesRead \in Nat /\ offset = request.offset + bytesRead
  BY ImageFacts DEF IInv, TypeOK, CountsWhatItCopied
<1>2. PICK k \in Extents : Holds(k, request.offset)
  BY <1>1 DEF Dense
<1>3. k.offset <= offset
  <2>1. k.offset \in Nat /\ k.offset <= request.offset
    BY <1>1, <1>2, ExtentItem DEF Holds
  <2>. QED  BY <1>1, <2>1
<1>4. FindsExtent
  BY <1>3, SearchFindsExtent
<1>5. ASSUME offset < Size PROVE Holds(Found, offset)
  <2>1. PICK l \in Extents : Holds(l, offset)
    BY <1>1, <1>5 DEF Dense
  <2>2. /\ l.offset \in Nat /\ l.offset <= offset /\ Length(image.tree[l]) \in Nat
        /\ offset < l.offset + Length(image.tree[l])
    BY <1>1, <2>1, ExtentItem DEF Holds
  <2>3. Found \in Extents /\ Found.offset <= offset /\ l.offset <= Found.offset
    BY <1>4, <2>2, FoundExtent
  <2>4. Found.offset \in Nat /\ Found \in Key /\ l \in Key
    BY <1>1, <2>3, ExtentItem
  <2>5. ~ (l.offset < Found.offset)
    <3>1. image \in Files
      BY <1>1 DEF TypeOK
    <3>2. l.offset < Found.offset => l.offset + Length(image.tree[l]) <= Found.offset
      BY <1>1, <2>3, <3>1, ExtentItem, ExtentsAssumption
    <3>. QED  BY <1>1, <2>2, <2>3, <2>4, <3>2
  <2>6. l = Found
    <3>1. l.offset = Found.offset
      BY <2>2, <2>3, <2>4, <2>5
    <3>2. l.objectid = Found.objectid /\ l.type = Found.type
      BY <1>1, <2>3, ExtentItem
    <3>. QED  BY <2>4, <3>1, <3>2 DEF Key
  <2>. QED  BY <2>1, <2>6
<1>. QED  BY <1>4, <1>5

\* An iteration that copies nothing stands at or behind the end of the file.
LEMMA CopiesUnlessAtEnd ==
    ASSUME IInv, CopyExtent, WholeExtents, Dense, request.offset < Size, Count = 0
    PROVE  offset >= Size
<1>1. /\ TypeOK /\ Size \in Nat /\ offset \in Nat
  BY ImageFacts DEF IInv, TypeOK
<1> SUFFICES ASSUME offset < Size PROVE FALSE
  BY <1>1
<1> DEFINE extent == image.tree[Found]
<1>2. pc = "loop" /\ Found \in Extents /\ extent \in Extent /\ From >= extent.ramBytes
  <2>1. /\ pc = "loop" /\ Found \in Extents /\ extent \in Extent /\ From \in Nat
        /\ From < extent.ramBytes => Count > 0
    BY CopyFacts
  <2>2. extent.ramBytes \in Nat
    BY <2>1 DEF Extent
  <2>. QED  BY <2>1, <2>2
<1>3. offset < Found.offset + Length(extent)
  BY <1>2, DenseFinds DEF Holds
<1>4. Length(extent) = extent.ramBytes
  BY <1>2 DEF WholeExtents, Whole, Length
<1>5. Found.offset \in Nat /\ extent.ramBytes \in Nat
  BY <1>1, <1>2, ExtentItem DEF Extent
<1> HIDE DEF extent
<1>. QED  BY <1>1, <1>2, <1>3, <1>4, <1>5 DEF From

\* The step that ends a read of such a file has read all that was asked for, or to
\* the end of the file.
LEMMA ReadsToTheEndKept == IInv /\ ReadsToTheEnd /\ [Next]_vars => ReadsToTheEnd'
<1> SUFFICES ASSUME IInv, ReadsToTheEnd, [Next]_vars PROVE ReadsToTheEnd'
  OBVIOUS
<1>1. /\ TypeOK /\ bytesRead \in 0 .. request.length /\ request.length \in Nat
      /\ request.offset \in Nat /\ Size \in Nat /\ offset = request.offset + bytesRead
      /\ bytesRead \in Nat /\ IntLimit \in Nat
  BY ImageFacts, IntLimitAssumption DEF IInv, TypeOK, CountsWhatItCopied
<1>2. image' = image /\ request' = request
  BY CopyFacts, OtherSteps
<1>3. WholeExtents' = WholeExtents /\ Dense' = Dense /\ Size' = Size
  BY <1>2 DEF WholeExtents, Dense, Size, Extents, Whole, Holds
<1> SUFFICES ASSUME pc' = "done", request.length < IntLimit,
                    WholeExtents, Dense, request.offset < Size
             PROVE  ret' = request.length \/ request.offset + ret' >= Size
  BY <1>2, <1>3 DEF ReadsToTheEnd
<1>4. bytesRead < IntLimit /\ ToInt(bytesRead) = bytesRead
  <2>1. bytesRead < IntLimit
    BY <1>1
  <2>. QED  BY <1>1, <2>1, ToIntFacts
<1>5. CASE CopyExtent
  <2>1. /\ pc = "loop" /\ Count \in 0 .. request.length - bytesRead
        /\ Got = Count
    BY <1>5, CopyFacts
  <2>2. Count \in Nat
    BY <1>1, <2>1
  <2>3. ~ (Got > 0)
    BY <1>5, <2>1, CopyFacts
  <2>4. Count = 0
    BY <2>1, <2>2, <2>3
  <2>5. ret' = bytesRead
    BY <1>4, <1>5, <2>1, <2>4, CopyFacts
  <2>6. offset >= Size
    BY <1>5, <2>4, CopiesUnlessAtEnd
  <2>. QED  BY <1>1, <2>5, <2>6
<1>6. CASE NoExtent
  <2>1. pc = "loop" /\ ~ FindsExtent
    BY <1>6 DEF NoExtent, Searched, InLoop
  <2>. QED  BY <2>1, DenseFinds
<1>7. CASE UnknownExtent
  <2>1. pc = "loop" /\ FindsExtent /\ image.tree[Found].type = "unknown"
    BY <1>7 DEF UnknownExtent, Searched, InLoop
  <2>2. Found \in Extents
    BY <2>1, FoundExtent
  <2>. QED  BY <2>1, <2>2 DEF WholeExtents, Whole
<1>8. CASE ReturnAll
  <2>1. ret' = bytesRead /\ bytesRead >= request.length
    BY <1>4, <1>8 DEF ReturnAll
  <2>. QED  BY <1>1, <2>1
<1>9. CASE UNCHANGED <<pc, ret>>
  BY <1>9 DEF ReadsToTheEnd
<1>. QED  BY <1>5, <1>6, <1>7, <1>8, <1>9, OtherSteps

\* A read within a file without gaps, whose extents are whole, is not cut short at
\* the end of an extent and reports no error: it gives what was asked for, or all
\* there is.
THEOREM NotCutShort == Spec => []ReadsToTheEnd
<1>1. Init => ReadsToTheEnd
  BY DEF Init, ReadsToTheEnd
<1>. QED  BY <1>1, SpecIInv, ReadsToTheEndKept, PTL DEF Spec
=============================================================================
