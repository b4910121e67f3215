------------------------ MODULE BtrfsLookupTheorems ------------------------
(***************************************************************************)
(* Proofs about what every lookup of a name rests on.                      *)
(*   - The binary search of a node (searchPc, SearchInit, ...) keeps its   *)
(*     contract, whatever node and whatever key it is given.               *)
(*   - The descent of a tree (pc, RangeInit, ...) finds what an ordered    *)
(*     lookup finds, in every well formed tree, for every key and every    *)
(*     chunk list: as long as the key is not below the first key of the    *)
(*     root, every node on the way starts with a key that is not above the *)
(*     query, and every stored key up to the query has a representative    *)
(*     between it and the query in the current subtree.                    *)
(*   - calculate_crc32c gives the CRC-32C of a buffer of any length that   *)
(*     begins at any address.  The proof goes from the tables, whose       *)
(*     entries are all shifts of the polynomial, over a byte and a slice,  *)
(*     which are taken as the bits would be one after the other, to the    *)
(*     shift register that the checksum is defined by.                     *)
(***************************************************************************)
EXTENDS BtrfsBinarySearch, BtrfsFindInBtree, BtrfsKeysTheorems, Crc32c

\* What is known at each point of the function, besides RangeKeepsAnswer.
SearchAtPc ==
    /\ searchPc = "start" => left = 0 /\ right = Count
    /\ searchPc = "loop" =>
        /\ left <= right
        /\ (left = 0 /\ right = Count /\ Count > 0) \/ rel /= 0
    /\ searchPc = "return" =>
        IF rel = 0 THEN middle < Count /\ KeyAt(middle) = searchKey
                   ELSE left = right
    /\ searchPc = "done" => SearchContract(items, searchKey, ret, searchResult)

SearchIInv == SearchTypeOK /\ RangeKeepsAnswer /\ SearchAtPc

\* A node is a sorted sequence of keys, and the keys of a search are keys.
LEMMA ItemsAreKeys ==
    ASSUME SearchTypeOK
    PROVE  /\ Count \in Nat
           /\ searchKey \in Key
           /\ \A i \in 0 .. Count - 1 : KeyAt(i) \in Key
           /\ \A i, j \in 0 .. Count - 1 : i < j => KeyLess(KeyAt(i), KeyAt(j))
<1>1. items \in Seq(Key) /\ Sorted(items)
  BY ArraysAssumption DEF SearchTypeOK
<1>2. Count \in Nat /\ searchKey \in Key
  BY <1>1, QueriesAssumption DEF SearchTypeOK, Count
<1>3. \A i \in 0 .. Count - 1 : KeyAt(i) \in Key
  <2> SUFFICES ASSUME NEW i \in 0 .. Count - 1
               PROVE  items[i + 1] \in Key
    BY DEF KeyAt
  <2>1. i + 1 \in 1 .. Len(items)
    BY <1>2 DEF Count
  <2>2. QED
    BY <1>1, <2>1
<1>4. ASSUME NEW i \in 0 .. Count - 1, NEW j \in 0 .. Count - 1, i < j
      PROVE  KeyLess(KeyAt(i), KeyAt(j))
  <2>1. i + 1 \in 1 .. Len(items) /\ j + 1 \in 1 .. Len(items) /\ i + 1 < j + 1
    BY <1>2, <1>4 DEF Count
  <2>2. QED
    BY <1>1, <2>1 DEF Sorted, KeyAt
<1>5. QED
  BY <1>2, <1>3, <1>4

\* The invariant holds when the function is entered.
LEMMA SearchInitIInv == SearchInit => SearchIInv
<1> SUFFICES ASSUME SearchInit
             PROVE  SearchIInv
  OBVIOUS
<1>1. Count \in Nat
  BY ArraysAssumption DEF SearchInit, Count
<1>2. SearchTypeOK
  BY <1>1 DEF SearchInit, SearchTypeOK, NoResult
<1>3. RangeKeepsAnswer /\ SearchAtPc
  BY DEF SearchInit, RangeKeepsAnswer, SearchAtPc
<1>4. QED
  BY <1>2, <1>3 DEF SearchIInv

\* A probe stays inside the range and its key is compared with the query.
LEMMA ProbeFacts ==
    ASSUME SearchIInv, Probe
    PROVE  /\ left \in Nat /\ right \in Nat /\ left < right /\ right <= Count
           /\ middle' \in left .. right - 1
           /\ 2 * (middle' - left) <= right - left
           /\ right - left <= 2 * (middle' - left) + 1
           /\ rel' \in {-1, 0, 1}
           /\ rel' < 0 <=> KeyLess(KeyAt(middle'), searchKey)
           /\ rel' > 0 <=> KeyLess(searchKey, KeyAt(middle'))
           /\ rel' = 0 <=> KeyAt(middle') = searchKey
<1>1. /\ Count \in Nat /\ left \in Nat /\ right \in Nat
      /\ left < right /\ right <= Count
  BY ItemsAreKeys DEF SearchIInv, SearchTypeOK, Probe
<1> DEFINE d == right - left
<1>2. d \in Nat /\ d > 0
  BY <1>1
<1>3. d \div 2 \in Nat /\ 2 * (d \div 2) <= d /\ d <= 2 * (d \div 2) + 1
  BY <1>2
<1>4. middle' = left + d \div 2
  BY DEF Probe
<1> HIDE DEF d
<1>5. /\ middle' \in left .. right - 1
      /\ 2 * (middle' - left) <= right - left
      /\ right - left <= 2 * (middle' - left) + 1
  BY <1>1, <1>2, <1>3, <1>4 DEF d
<1>6. middle' \in 0 .. Count - 1
  BY <1>1, <1>5
<1>7. KeyAt(middle') \in Key /\ searchKey \in Key
  BY <1>6, ItemsAreKeys DEF SearchIInv
<1>8. rel' = CompKeys(KeyAt(middle'), searchKey)
  BY DEF Probe
<1>9. QED
  BY <1>1, <1>5, <1>7, <1>8, CompKeysSign

\* An iteration of the loop keeps it: the sorted node lets the probe decide for half of the range.
LEMMA ProbeKeepsIInv ==
    ASSUME SearchIInv, Probe
    PROVE  SearchIInv'
<1> USE DEF SearchIInv
<1>1. /\ items' = items /\ searchKey' = searchKey /\ searchResult' = searchResult /\ ret' = ret
      /\ left' = IF rel' < 0 THEN middle' + 1 ELSE left
      /\ right' = IF rel' > 0 THEN middle' ELSE right
      /\ searchPc' = IF rel' = 0 THEN "return" ELSE "loop"
      /\ searchPc = "loop"
  BY DEF Probe
<1>2. Count' = Count /\ \A i : KeyAt(i)' = KeyAt(i)
  BY <1>1 DEF Count, KeyAt
<1>3. Count \in Nat
  BY ItemsAreKeys
<1>4. /\ left' \in 0 .. Count /\ right' \in 0 .. Count /\ middle' \in 0 .. Count - 1
      /\ left' <= right'
  BY <1>1, <1>3, ProbeFacts
<1>5. SearchTypeOK'
  <2>1. Count' = Count /\ NoResult' = NoResult
    BY <1>2 DEF NoResult
  <2>2. rel' \in {-1, 0, 1}
    BY ProbeFacts
  <2>3. middle' \in 0 .. Count
    BY <1>3, <1>4
  <2>4. QED
    BY <1>1, <1>4, <2>1, <2>2, <2>3 DEF SearchTypeOK
<1>6. RangeKeepsAnswer'
  <2>1. ASSUME NEW i \in 0 .. left' - 1
        PROVE  KeyLess(KeyAt(i), searchKey)
    <3>1. CASE i < left
      BY <1>1, <1>4, <3>1, ProbeFacts DEF RangeKeepsAnswer
    <3>2. CASE ~ (i < left)
      <4>1. rel' < 0 /\ i <= middle'
        BY <1>1, <2>1, <3>2, ProbeFacts
      <4>2. KeyLess(KeyAt(middle'), searchKey)
        BY <4>1, ProbeFacts
      <4>3. i = middle' \/ KeyLess(KeyAt(i), KeyAt(middle'))
        BY <1>3, <1>4, <4>1, ItemsAreKeys
      <4>4. KeyAt(i) \in Key /\ KeyAt(middle') \in Key /\ searchKey \in Key
        BY <1>3, <1>4, <4>1, ItemsAreKeys
      <4>5. QED
        BY <4>2, <4>3, <4>4, KeyOrder
    <3>3. QED
      BY <3>1, <3>2
  <2>2. ASSUME NEW i \in right' .. Count - 1
        PROVE  KeyLess(searchKey, KeyAt(i))
    <3>1. CASE i >= right
      BY <1>1, <3>1, ProbeFacts DEF RangeKeepsAnswer
    <3>2. CASE ~ (i >= right)
      <4>1. rel' > 0 /\ middle' <= i
        BY <1>1, <2>2, <3>2, ProbeFacts
      <4>2. KeyLess(searchKey, KeyAt(middle'))
        BY <4>1, ProbeFacts
      <4>3. i \in 0 .. Count - 1
        BY <1>3, <1>4, <4>1
      <4>4. i = middle' \/ KeyLess(KeyAt(middle'), KeyAt(i))
        BY <1>3, <1>4, <4>1, <4>3, ItemsAreKeys
      <4>5. KeyAt(i) \in Key /\ KeyAt(middle') \in Key /\ searchKey \in Key
        BY <1>4, <4>3, ItemsAreKeys
      <4>6. QED
        BY <4>2, <4>4, <4>5, KeyOrder
    <3>3. QED
      BY <3>1, <3>2
  <2>3. QED
    BY <1>1, <1>2, <2>1, <2>2 DEF RangeKeepsAnswer
<1>7. SearchAtPc'
  <2>1. CASE rel' = 0
    <3>1. searchPc' = "return" /\ KeyAt(middle') = searchKey
      BY <1>1, <2>1, ProbeFacts
    <3>2. (KeyAt(middle))' = searchKey'
      BY <1>1, <3>1 DEF KeyAt
    <3>3. QED
      BY <1>2, <1>3, <1>4, <2>1, <3>1, <3>2 DEF SearchAtPc
  <2>2. CASE rel' /= 0
    BY <1>1, <1>4, <2>2 DEF SearchAtPc
  <2>3. QED
    BY <2>1, <2>2
<1>8. QED
  BY <1>5, <1>6, <1>7

\* Each of the three ways out establishes the contract.
LEMMA ReturnKeepsIInv ==
    ASSUME SearchIInv, Return
    PROVE  SearchIInv'
<1> USE DEF SearchIInv
<1>1. /\ Count \in Nat
      /\ \A i \in 1 .. Len(items) : i - 1 \in 0 .. Count - 1 /\ KeyAt(i - 1) = items[i]
  <2>1. Count \in Nat
    BY ItemsAreKeys
  <2>2. ASSUME NEW i \in 1 .. Len(items)
        PROVE  i - 1 \in 0 .. Count - 1 /\ (i - 1) + 1 = i
    BY <2>1 DEF Count
  <2>3. QED
    BY <2>1, <2>2 DEF KeyAt
<1>2. CASE ReturnFound
  <2>1. SearchContract(items, searchKey, 0, middle)
    BY <1>1, <1>2 DEF ReturnFound, SearchAtPc, SearchContract, SearchTypeOK, KeyAt, Count
  <2>2. QED
    BY <1>1, <1>2, <2>1 DEF ReturnFound, SearchTypeOK, SearchAtPc, RangeKeepsAnswer, Count, NoResult
<1>3. CASE ReturnNone
  <2>1. right = 0
    BY <1>3 DEF ReturnNone, SearchAtPc
  <2>2. \A i \in 0 .. Count - 1 : KeyLess(searchKey, KeyAt(i))
    BY <1>3, <2>1 DEF ReturnNone, RangeKeepsAnswer
  <2>3. \A i \in 1 .. Len(items) : KeyLess(searchKey, items[i])
    BY <1>1, <2>2
  <2>4. SearchContract(items, searchKey, -1, searchResult)
    BY <2>3 DEF SearchContract
  <2>5. QED
    BY <1>1, <1>3, <2>4 DEF ReturnNone, SearchTypeOK, SearchAtPc, RangeKeepsAnswer, Count
<1>4. CASE ReturnLower
  <2>1. left = right /\ left \in 1 .. Count
    BY <1>1, <1>4 DEF ReturnLower, SearchAtPc, SearchTypeOK
  <2>2. /\ \A i \in 0 .. left - 1 : KeyLess(KeyAt(i), searchKey)
        /\ \A i \in left .. Count - 1 : KeyLess(searchKey, KeyAt(i))
    BY <1>4, <2>1 DEF ReturnLower, RangeKeepsAnswer
  <2>3. ASSUME NEW i \in 1 .. Len(items)
        PROVE  IF i <= left THEN KeyLess(items[i], searchKey) ELSE KeyLess(searchKey, items[i])
    <3>1. i - 1 \in 0 .. Count - 1 /\ KeyAt(i - 1) = items[i]
      BY <1>1
    <3>2. CASE i <= left
      <4>1. i - 1 \in 0 .. left - 1
        BY <2>1, <3>2
      <4>2. QED
        BY <2>2, <3>1, <3>2, <4>1
    <3>3. CASE ~ (i <= left)
      <4>1. i - 1 \in left .. Count - 1
        BY <1>1, <2>1, <3>1, <3>3
      <4>2. QED
        BY <2>2, <3>1, <3>3, <4>1
    <3>4. QED
      BY <3>2, <3>3
  <2>4. (left - 1) + 1 = left /\ left - 1 \in 0 .. Count - 1
    BY <1>1, <2>1
  <2>5. SearchContract(items, searchKey, 1, left - 1)
    BY <2>3, <2>4 DEF SearchContract, Count
  <2>6. QED
    BY <1>1, <1>4, <2>4, <2>5 DEF ReturnLower, SearchTypeOK, SearchAtPc, RangeKeepsAnswer, Count
<1>5. QED
  BY <1>2, <1>3, <1>4 DEF Return

\* Every step keeps the invariant.
LEMMA SearchNextIInv == SearchIInv /\ [SearchNext]_searchVars => SearchIInv'
<1> SUFFICES ASSUME SearchIInv, [SearchNext]_searchVars
             PROVE  SearchIInv'
  OBVIOUS
<1>1. Count \in Nat
  BY ItemsAreKeys DEF SearchIInv
<1>2. CASE ReturnEmpty
  <2>1. Count = 0
    BY <1>2 DEF ReturnEmpty, SearchIInv, SearchAtPc
  <2>2. SearchContract(items, searchKey, -1, searchResult)
    BY <2>1 DEF SearchContract, Count
  <2>3. QED
    BY <1>1, <1>2, <2>2
    DEF ReturnEmpty, SearchIInv, SearchTypeOK, SearchAtPc, RangeKeepsAnswer, Count
<1>3. CASE EnterLoop
  BY <1>1, <1>3 DEF EnterLoop, SearchIInv, SearchTypeOK, SearchAtPc, RangeKeepsAnswer, Count, KeyAt
<1>4. CASE Probe
  BY <1>4, ProbeKeepsIInv
<1>5. CASE LeaveLoop
  BY <1>1, <1>5 DEF LeaveLoop, SearchIInv, SearchTypeOK, SearchAtPc, RangeKeepsAnswer, Count, KeyAt
<1>6. CASE Return
  BY <1>6, ReturnKeepsIInv
<1>7. CASE UNCHANGED searchVars
  BY <1>7 DEF searchVars, SearchIInv, SearchTypeOK, SearchAtPc, RangeKeepsAnswer, Count, KeyAt
<1>8. QED
  BY <1>2, <1>3, <1>4, <1>5, <1>6, <1>7 DEF SearchNext, Terminated

\* So it holds in every state of the search.
LEMMA SearchSpecIInv == SearchSpec => []SearchIInv
  BY SearchInitIInv, SearchNextIInv, PTL DEF SearchSpec

\* The local variables of the search stay within the node.
THEOREM SearchTypeCorrect == SearchSpec => []SearchTypeOK
<1>1. SearchIInv => SearchTypeOK
  BY DEF SearchIInv
<1>2. QED
  BY SearchSpecIInv, <1>1, PTL

\* No probe throws the answer away.
THEOREM AnswerKept == SearchSpec => []RangeKeepsAnswer
<1>1. SearchIInv => RangeKeepsAnswer
  BY DEF SearchIInv
<1>2. QED
  BY SearchSpecIInv, <1>1, PTL

\* The search returns what the comment over it says, for every sorted node and
\* every key: the fact that the descent of the tree builds on.
THEOREM SearchIsCorrect == SearchSpec => []Contract
<1>1. SearchIInv => Contract
  BY DEF SearchIInv, SearchAtPc, Contract
<1>2. QED
  BY SearchSpecIInv, <1>1, PTL

\* Each probe that goes on halves the range that is left.
THEOREM ProbesHalve == SearchSpec => RangeHalves
<1> DEFINE Halves == searchPc = "loop" /\ searchPc' = "loop" => 2 * (right' - left') <= right - left
<1>1. SearchIInv /\ [SearchNext]_searchVars => [Halves]_searchVars
  <2> SUFFICES ASSUME SearchIInv, SearchNext, ~ UNCHANGED searchVars, searchPc = "loop", searchPc' = "loop"
               PROVE  2 * (right' - left') <= right - left
    BY DEF Halves
  <2>1. Probe
    BY DEF SearchNext, ReturnEmpty, EnterLoop, LeaveLoop, Return, ReturnFound,
           ReturnNone, ReturnLower, Terminated
  <2>2. /\ left' = IF rel' < 0 THEN middle' + 1 ELSE left
        /\ right' = IF rel' > 0 THEN middle' ELSE right
        /\ rel' /= 0
    BY <2>1 DEF Probe
  <2>3. CASE rel' < 0
    <3>1. left' = middle' + 1 /\ right' = right
      BY <2>2, <2>3, <2>1, ProbeFacts
    <3>2. QED
      BY <2>1, <3>1, ProbeFacts
  <2>4. CASE rel' > 0
    <3>1. left' = left /\ right' = middle'
      BY <2>2, <2>4, <2>1, ProbeFacts
    <3>2. QED
      BY <2>1, <3>1, ProbeFacts
  <2>5. QED
    BY <2>1, <2>2, <2>3, <2>4, ProbeFacts
<1>2. QED
  BY SearchSpecIInv, <1>1, PTL DEF SearchSpec, RangeHalves

----------------------------------------------------------------------------

\* The subtree of block b can stand for the whole tree.
Represents(b) ==
    /\ Items(b) \subseteq Items(tree.root)
    /\ \A x \in Items(tree.root) :
        KeyLeq(x, key) => \E y \in Items(b) : KeyLeq(x, y) /\ KeyLeq(y, key)
    /\ Level(b) > 0 => KeyLeq(Keys(b)[1], key)

\* key_ptr leads towards the answer, but the chunk list does not map its block.
LostWay ==
    /\ keyPtr \in Blocks \ mapped
    /\ \E k \in Items(keyPtr) : KeyLeq(k, key)

AtPc ==
    InRange =>
        /\ pc = "descend" => IF header = Null THEN LostWay ELSE Represents(header)
        /\ pc = "crash" => LostWay
        /\ pc = "done" => ReturnsAnswer

IInv ==
    /\ TypeOK
    /\ tree \in Trees
    /\ pc /= "done" => result = NotFound
    /\ pc = "descend" => tree.root \in mapped
    /\ AtPc

\* What the assumption on the trees says of every block, in the operators of the module.
LEMMA TreeFacts ==
    ASSUME TypeOK, tree \in Trees
    PROVE  /\ key \in Key
           /\ tree.root \in Blocks
           /\ \A b \in Blocks :
                /\ Level(b) \in Nat
                /\ Keys(b) \in Seq(Key)
                /\ tree.ptrs[b] \in Seq(Blocks)
                /\ Items(b) \subseteq Key
                /\ Sorted(Keys(b))
                /\ Level(b) = 0 => Items(b) = KeySet(Keys(b))
                /\ Level(b) > 0 => NodeOk(tree, b)
<1>1. WellFormed(tree)
  BY TreesAssumption
<1>2. tree \in Tree
  BY <1>1 DEF WellFormed
<1>3. key \in Key
  BY FindQueriesAssumption DEF TypeOK
<1>4. tree.root \in Blocks
  BY <1>2 DEF Tree
<1>5. ASSUME NEW b \in Blocks
      PROVE  /\ Level(b) \in Nat
             /\ Keys(b) \in Seq(Key)
             /\ tree.ptrs[b] \in Seq(Blocks)
             /\ Items(b) \subseteq Key
  BY <1>2, <1>5 DEF Tree, Level, Keys, Items
<1>6. ASSUME NEW b \in Blocks
      PROVE  /\ Sorted(Keys(b))
             /\ Level(b) = 0 => Items(b) = KeySet(Keys(b))
             /\ Level(b) > 0 => NodeOk(tree, b)
  BY <1>1, <1>5, <1>6 DEF WellFormed, LeafOk, Level, Keys, Items
<1>7. QED
  BY <1>3, <1>4, <1>5, <1>6

\* What a child of an internal node is, in the operators of the module.
LEMMA ChildFacts ==
    ASSUME TypeOK, tree \in Trees, NEW b \in Blocks, Level(b) > 0,
           NEW i \in 1 .. Len(Keys(b))
    PROVE  /\ Len(tree.ptrs[b]) = Len(Keys(b))
           /\ tree.ptrs[b][i] \in Blocks
           /\ Keys(b)[i] \in Key
           /\ Level(tree.ptrs[b][i]) = Level(b) - 1
           /\ Keys(b)[i] \in Items(tree.ptrs[b][i])
           /\ Items(tree.ptrs[b][i]) \subseteq Items(b)
           /\ \A k \in Items(tree.ptrs[b][i]) :
                /\ KeyLeq(Keys(b)[i], k)
                /\ i < Len(Keys(b)) => KeyLess(k, Keys(b)[i + 1])
<1>1. NodeOk(tree, b) /\ Keys(b) \in Seq(Key) /\ tree.ptrs[b] \in Seq(Blocks)
  BY TreeFacts
<1>2. Len(tree.ptrs[b]) = Len(Keys(b)) /\ ChildOk(tree, b, i)
      /\ Items(tree.ptrs[b][i]) \subseteq Items(b)
  BY <1>1 DEF NodeOk, Keys, Items
<1>3. tree.ptrs[b][i] \in Blocks /\ Keys(b)[i] \in Key
  BY <1>1, <1>2
<1>4. QED
  BY <1>2, <1>3 DEF ChildOk, Level, Keys, Items

\* The search of a node whose first key is not above the query picks the last
\* item that is not above it.
LEMMA SearchFacts ==
    ASSUME NEW keys \in Seq(Key), NEW k \in Key, NEW rc, NEW at \in Int,
           Sorted(keys), Len(keys) > 0, KeyLeq(keys[1], k),
           SearchContract(keys, k, rc, at)
    PROVE  /\ rc \in {0, 1}
           /\ at + 1 \in 1 .. Len(keys)
           /\ KeyLeq(keys[at + 1], k)
           /\ rc = 0 <=> keys[at + 1] = k
           /\ \A j \in 1 .. Len(keys) : j > at + 1 => KeyLess(k, keys[j])
<1>1. Len(keys) \in Nat /\ 1 \in 1 .. Len(keys) /\ \A j \in 1 .. Len(keys) : keys[j] \in Key
  OBVIOUS
<1>2. CASE rc = 0 /\ at \in 0 .. Len(keys) - 1 /\ keys[at + 1] = k
  BY <1>1, <1>2, LeqOrder DEF Sorted
<1>3. CASE /\ rc = 1
           /\ at \in 0 .. Len(keys) - 1
           /\ \A i \in 1 .. Len(keys) :
                IF i <= at + 1 THEN KeyLess(keys[i], k) ELSE KeyLess(k, keys[i])
  <2>1. at + 1 \in 1 .. Len(keys) /\ KeyLess(keys[at + 1], k)
    BY <1>1, <1>3
  <2>2. keys[at + 1] /= k /\ KeyLeq(keys[at + 1], k)
    BY <1>1, <2>1, KeyOrder DEF KeyLeq
  <2>3. QED
    BY <1>1, <1>3, <2>1, <2>2
<1>4. CASE rc = -1 /\ \A i \in 1 .. Len(keys) : KeyLess(k, keys[i])
  BY <1>1, <1>4, LeqOrder
<1>5. QED
  BY <1>2, <1>3, <1>4 DEF SearchContract

\* The root stands for the whole tree when the key is in its range.
LEMMA RootRepresents ==
    ASSUME TypeOK, tree \in Trees, InRange
    PROVE  Represents(tree.root)
  BY TreeFacts, LeqOrder DEF Represents, InRange

\* The step from a node to the child that its search picks.
LEMMA ChildRepresents ==
    ASSUME TypeOK, tree \in Trees, NEW b \in Blocks, Level(b) > 0, Represents(b),
           NEW rc \in {-1, 0, 1}, NEW at \in 0 .. Len(Keys(b)),
           SearchContract(Keys(b), key, rc, at)
    PROVE  /\ rc >= 0
           /\ at + 1 \in 1 .. Len(Keys(b))
           /\ tree.ptrs[b][at + 1] \in Blocks
           /\ Represents(tree.ptrs[b][at + 1])
           /\ \E k \in Items(tree.ptrs[b][at + 1]) : KeyLeq(k, key)
<1>1. /\ NodeOk(tree, b) /\ Keys(b) \in Seq(Key) /\ Sorted(Keys(b)) /\ key \in Key
      /\ Items(b) \subseteq Key /\ Items(tree.root) \subseteq Key
  BY TreeFacts
<1>2. Len(Keys(b)) > 0
  BY <1>1 DEF NodeOk, Keys
<1>3. KeyLeq(Keys(b)[1], key)
  BY DEF Represents
<1> DEFINE i == at + 1
           child == tree.ptrs[b][i]
<1>4. /\ rc \in {0, 1}
      /\ i \in 1 .. Len(Keys(b))
      /\ KeyLeq(Keys(b)[i], key)
      /\ \A j \in 1 .. Len(Keys(b)) : j > i => KeyLess(key, Keys(b)[j])
  BY <1>1, <1>2, <1>3, SearchFacts
<1>5. /\ child \in Blocks
      /\ Keys(b)[i] \in Key
      /\ Level(child) = Level(b) - 1
      /\ Keys(b)[i] \in Items(child)
      /\ Items(child) \subseteq Items(b)
  BY <1>4, ChildFacts
<1> HIDE DEF i, child
<1>6. Items(child) \subseteq Items(tree.root)
  BY <1>5 DEF Represents
<1>7. ASSUME NEW x \in Items(b), KeyLeq(x, key)
      PROVE  \E y \in Items(child) : KeyLeq(x, y) /\ KeyLeq(y, key)
  <2>1. PICK j \in 1 .. Len(Keys(b)) : x \in Items(tree.ptrs[b][j])
    BY <1>1 DEF NodeOk, Keys, Items
  <2>2. /\ KeyLeq(Keys(b)[j], x)
        /\ j < Len(Keys(b)) => KeyLess(x, Keys(b)[j + 1])
        /\ Keys(b)[j] \in Key
    BY <2>1, ChildFacts
  <2>3. x \in Key
    BY <1>1
  <2>4. CASE j = i
    BY <1>7, <2>1, <2>3, <2>4, LeqOrder DEF i, child
  <2>5. CASE j > i
    <3>1. KeyLess(key, Keys(b)[j])
      BY <1>4, <2>5
    <3>2. FALSE
      BY <1>1, <1>7, <2>2, <2>3, <3>1, LeqOrder
    <3>3. QED
      BY <3>2
  <2>6. CASE j < i
    <3>1. j + 1 \in 1 .. Len(Keys(b)) /\ j + 1 <= i /\ j < Len(Keys(b))
      BY <1>4, <2>6
    <3>2. KeyLeq(Keys(b)[j + 1], Keys(b)[i]) /\ Keys(b)[j + 1] \in Key
      BY <1>1, <1>4, <3>1 DEF Sorted, KeyLeq
    <3>3. KeyLess(x, Keys(b)[i])
      BY <1>5, <2>2, <2>3, <3>1, <3>2, LeqOrder
    <3>4. KeyLeq(x, Keys(b)[i])
      BY <3>3 DEF KeyLeq
    <3>5. QED
      BY <1>4, <1>5, <3>4
  <2>7. QED
    BY <1>4, <2>4, <2>5, <2>6
<1>8. \A x \in Items(tree.root) :
        KeyLeq(x, key) => \E y \in Items(child) : KeyLeq(x, y) /\ KeyLeq(y, key)
  <2> SUFFICES ASSUME NEW x \in Items(tree.root), KeyLeq(x, key)
               PROVE  \E y \in Items(child) : KeyLeq(x, y) /\ KeyLeq(y, key)
    OBVIOUS
  <2>1. PICK z \in Items(b) : KeyLeq(x, z) /\ KeyLeq(z, key)
    BY DEF Represents
  <2>2. PICK y \in Items(child) : KeyLeq(z, y) /\ KeyLeq(y, key)
    BY <1>7, <2>1
  <2>3. x \in Key /\ y \in Key /\ z \in Key
    BY <1>1, <1>5
  <2>4. QED
    BY <2>1, <2>2, <2>3, LeqOrder
<1>9. Level(child) > 0 => KeyLeq(Keys(child)[1], key)
  <2> SUFFICES ASSUME Level(child) > 0
               PROVE  KeyLeq(Keys(child)[1], key)
    OBVIOUS
  <2>1. NodeOk(tree, child) /\ Keys(child) \in Seq(Key) /\ Sorted(Keys(child))
    BY <1>5, TreeFacts
  <2>2. PICK j \in 1 .. Len(Keys(child)) : Keys(b)[i] \in Items(tree.ptrs[child][j])
    BY <1>5, <2>1 DEF NodeOk, Keys, Items
  <2>3. KeyLeq(Keys(child)[j], Keys(b)[i]) /\ Keys(child)[j] \in Key
    BY <1>5, <2>2, ChildFacts
  <2>4. KeyLeq(Keys(child)[1], Keys(child)[j]) /\ Keys(child)[1] \in Key
    BY <2>1, <2>2 DEF Sorted, KeyLeq
  <2>5. QED
    BY <1>1, <1>4, <1>5, <2>3, <2>4, LeqOrder
<1>10. Represents(child)
  BY <1>6, <1>8, <1>9 DEF Represents
<1>11. QED
  BY <1>4, <1>5, <1>10 DEF i, child

\* An answer for a subtree that represents the tree is one for the tree.
LEMMA RepresentedAnswer ==
    ASSUME TypeOK, tree \in Trees, NEW b \in Blocks, Represents(b),
           NEW a, IsAnswer(Items(b), a)
    PROVE  IsAnswer(Items(tree.root), a)
<1>1. key \in Key /\ Items(b) \subseteq Key /\ Items(tree.root) \subseteq Key
      /\ Items(b) \subseteq Items(tree.root)
  BY TreeFacts DEF Represents
<1>2. ASSUME NEW x \in Items(tree.root), Matches(x)
      PROVE  \E y \in Items(b) : Matches(y) /\ KeyLeq(x, y)
  <2>1. KeyLeq(x, key)
    BY <1>1, <1>2, LeqOrder DEF Matches
  <2>2. PICK y \in Items(b) : KeyLeq(x, y) /\ KeyLeq(y, key)
    BY <2>1 DEF Represents
  <2>3. Matches(y)
    BY <1>1, <1>2, <2>2, LeqOrder DEF Matches
  <2>4. QED
    BY <2>2, <2>3
<1>3. CASE \E k \in Items(b) : Matches(k)
  <2>1. a \in Items(b) /\ Matches(a) /\ \A k \in Items(b) : Matches(k) => KeyLeq(k, a)
    BY <1>3 DEF IsAnswer
  <2>2. \A k \in Items(tree.root) : Matches(k) => KeyLeq(k, a)
    BY <1>1, <1>2, <2>1, LeqOrder
  <2>3. QED
    BY <1>1, <2>1, <2>2 DEF IsAnswer
<1>4. CASE ~ \E k \in Items(b) : Matches(k)
  <2>1. ~ \E k \in Items(tree.root) : Matches(k)
    BY <1>2, <1>4
  <2>2. QED
    BY <1>4, <2>1 DEF IsAnswer
<1>5. QED
  BY <1>3, <1>4

\* The search of a leaf answers the query for the keys of that leaf.
LEMMA LeafAnswer ==
    ASSUME NEW keys \in Seq(Key), Sorted(keys), key \in Key, NEW rc \in {-1, 0, 1},
           NEW at \in 0 .. Len(keys), SearchContract(keys, key, rc, at), exact \in BOOLEAN
    PROVE  IsAnswer(KeySet(keys),
                    IF rc = 0 \/ (rc > 0 /\ ~ exact) THEN keys[at + 1] ELSE NotFound)
<1>1. Len(keys) \in Nat /\ \A i \in 1 .. Len(keys) : keys[i] \in Key
  OBVIOUS
<1>2. CASE rc = -1
  <2>1. \A i \in 1 .. Len(keys) : KeyLess(key, keys[i])
    BY <1>2 DEF SearchContract
  <2>2. ~ \E k \in KeySet(keys) : Matches(k)
    BY <1>1, <2>1, LeqOrder DEF Matches, KeySet
  <2>3. QED
    BY <1>2, <2>2 DEF IsAnswer
<1>3. CASE rc /= -1
  <2>1. at + 1 \in 1 .. Len(keys) /\ KeyLeq(keys[at + 1], key)
    BY <1>1, <1>3 DEF SearchContract, KeyLeq
  <2>2. KeyLeq(keys[1], key) /\ Len(keys) > 0
    <3>1. 1 \in 1 .. Len(keys) /\ KeyLeq(keys[1], keys[at + 1])
      BY <1>1, <2>1 DEF Sorted, KeyLeq
    <3>2. QED
      BY <1>1, <2>1, <3>1, LeqOrder
  <2>3. /\ rc \in {0, 1}
        /\ rc = 0 <=> keys[at + 1] = key
        /\ \A j \in 1 .. Len(keys) : j > at + 1 => KeyLess(key, keys[j])
    BY <2>2, SearchFacts
  <2>4. ASSUME NEW j \in 1 .. Len(keys), KeyLeq(keys[j], key)
        PROVE  KeyLeq(keys[j], keys[at + 1])
    <3>1. ~ (j > at + 1)
      BY <1>1, <2>3, <2>4, LeqOrder
    <3>2. QED
      BY <1>1, <2>1, <3>1 DEF Sorted, KeyLeq
  <2>5. keys[at + 1] \in KeySet(keys)
    BY <2>1 DEF KeySet
  <2>6. \A k \in KeySet(keys) : KeyLeq(k, key) => KeyLeq(k, keys[at + 1])
    BY <2>4 DEF KeySet
  <2>7. CASE rc = 0 \/ (rc > 0 /\ ~ exact)
    <3>1. Matches(keys[at + 1])
      BY <2>1, <2>3, <2>7 DEF Matches
    <3>2. \A k \in KeySet(keys) : Matches(k) => KeyLeq(k, key)
      BY <1>1, LeqOrder DEF Matches
    <3>3. QED
      BY <2>5, <2>6, <2>7, <3>1, <3>2 DEF IsAnswer
  <2>8. CASE rc = 1 /\ exact
    <3>1. ~ \E k \in KeySet(keys) : Matches(k)
      <4> SUFFICES ASSUME NEW j \in 1 .. Len(keys), keys[j] = key
                   PROVE  FALSE
        BY <2>8 DEF KeySet, Matches
      <4>1. KeyLeq(key, keys[at + 1])
        BY <1>1, <2>4, LeqOrder
      <4>2. QED
        BY <1>1, <2>1, <2>3, <2>8, <4>1, LeqOrder
    <3>2. QED
      BY <2>8, <3>1 DEF IsAnswer
  <2>9. QED
    BY <2>3, <2>7, <2>8
<1>4. QED
  BY <1>2, <1>3

\* The invariant holds when the function is called.
LEMMA InitIInv == Init => IInv
<1> SUFFICES ASSUME Init
             PROVE  IInv
  OBVIOUS
<1>1. tree \in Trees /\ tree \in Tree
  BY TreesAssumption DEF Init, WellFormed
<1>2. QED
  BY <1>1 DEF Init, IInv, TypeOK, AtPc

\* None of the steps changes what the call is about.
LEMMA SameCall ==
    ASSUME TypeOK, tree' = tree, mapped' = mapped, key' = key, exact' = exact
    PROVE  /\ InRange' = InRange
           /\ Represents(header)' = Represents(header')
           /\ LostWay' = (keyPtr' \in Blocks \ mapped
                            /\ \E k \in Items(keyPtr') : KeyLeq(k, key))
           /\ Level(header)' = Level(header')
  BY DEF InRange, Represents, LostWay, Level, Keys, Items

\* Resolving the root keeps the invariant, whether the root is mapped or not.
LEMMA ResolveRootKeepsIInv == IInv /\ ResolveRoot => IInv'
<1> SUFFICES ASSUME IInv, ResolveRoot
             PROVE  IInv'
  OBVIOUS
<1>1. /\ tree' = tree /\ mapped' = mapped /\ key' = key /\ exact' = exact
      /\ keyPtr' = keyPtr /\ result' = result
      /\ header' = Resolve(tree.root)
      /\ pc' = IF header' = Null THEN "done" ELSE "descend"
  BY DEF ResolveRoot, call
<1>2. TypeOK /\ tree \in Trees /\ tree.root \in Blocks
  BY TreeFacts DEF IInv
<1>3. TypeOK' /\ tree' \in Trees
  BY <1>1, <1>2 DEF TypeOK, Resolve
<1>4. AtPc'
  <2> SUFFICES ASSUME InRange'
               PROVE  /\ pc' = "descend" =>
                           IF header' = Null THEN LostWay' ELSE Represents(header)'
                      /\ pc' = "crash" => LostWay'
                      /\ pc' = "done" => ReturnsAnswer'
    BY DEF AtPc
  <2>1. CASE tree.root \in mapped
    <3>1. header' = tree.root /\ header' /= Null /\ pc' = "descend"
      BY <1>1, <1>2, <2>1, NullAssumption DEF Resolve
    <3>2. Represents(header)'
      BY <1>1, <1>2, <3>1, RootRepresents, SameCall
    <3>3. QED
      BY <3>1, <3>2
  <2>2. CASE tree.root \notin mapped
    <3>1. pc' = "done" /\ result' = NotFound
      <4>1. pc = "start"
        BY DEF ResolveRoot
      <4>2. result = NotFound
        BY <4>1 DEF IInv
      <4>3. QED
        BY <1>1, <2>2, <4>2 DEF Resolve
    <3>2. QED
      BY <1>1, <2>2, <3>1 DEF ReturnsAnswer
  <2>3. QED
    BY <2>1, <2>2
<1>5. /\ pc' /= "done" => result' = NotFound
      /\ pc' = "descend" => tree'.root \in mapped'
  BY <1>1 DEF IInv, ResolveRoot, Resolve
<1>6. QED
  BY <1>3, <1>4, <1>5 DEF IInv

\* An iteration keeps it: in range the search picks the child that stands for its node.
LEMMA DescendKeepsIInv == IInv /\ Descend => IInv'
<1> SUFFICES ASSUME IInv, Descend
             PROVE  IInv'
  OBVIOUS
<1>1. PICK rc \in {-1, 0, 1}, at \in 0 .. Len(Keys(header)) :
        /\ SearchContract(Keys(header), key, rc, at)
        /\ keyPtr' = IF rc >= 0 THEN tree.ptrs[header][at + 1] ELSE keyPtr
  BY DEF Descend
<1>2. /\ tree' = tree /\ mapped' = mapped /\ key' = key /\ exact' = exact
      /\ result' = result /\ pc = "descend" /\ header /= Null /\ Level(header) > 0
      /\ IF keyPtr' = Wild THEN pc' = "crash" /\ header' = header
                           ELSE pc' = "descend" /\ header' = Resolve(keyPtr')
  BY DEF Descend, call
<1>3. /\ TypeOK /\ tree \in Trees /\ header \in Blocks /\ result = NotFound
      /\ Keys(header) \in Seq(Key) /\ NodeOk(tree, header)
      /\ tree.ptrs[header] \in Seq(Blocks)
  BY <1>2, TreeFacts DEF IInv, TypeOK
<1>4. keyPtr' \in Blocks \cup {Wild}
  <2>1. CASE rc >= 0
    <3>1. at + 1 \in 1 .. Len(Keys(header))
      BY <1>1, <1>3, <2>1 DEF SearchContract
    <3>2. QED
      BY <1>1, <1>2, <1>3, <2>1, <3>1, ChildFacts
  <2>2. CASE ~ (rc >= 0)
    BY <1>1, <1>3, <2>2 DEF TypeOK
  <2>3. QED
    BY <2>1, <2>2
<1>5. TypeOK' /\ tree' \in Trees
  BY <1>2, <1>3, <1>4 DEF TypeOK, Resolve
<1>6. AtPc'
  <2> SUFFICES ASSUME InRange'
               PROVE  /\ pc' = "descend" =>
                           IF header' = Null THEN LostWay' ELSE Represents(header)'
                      /\ pc' = "crash" => LostWay'
                      /\ pc' = "done" => ReturnsAnswer'
    BY DEF AtPc
  <2>1. InRange /\ Represents(header)
    BY <1>2, <1>3, SameCall DEF IInv, AtPc
  <2>2. /\ rc >= 0
        /\ tree.ptrs[header][at + 1] \in Blocks
        /\ Represents(tree.ptrs[header][at + 1])
        /\ \E k \in Items(tree.ptrs[header][at + 1]) : KeyLeq(k, key)
    BY <1>1, <1>2, <1>3, <2>1, ChildRepresents
  <2>3. /\ keyPtr' \in Blocks
        /\ Represents(keyPtr')
        /\ \E k \in Items(keyPtr') : KeyLeq(k, key)
    BY <1>1, <2>2
  <2>4. pc' = "descend" /\ header' = Resolve(keyPtr')
    BY <1>2, <2>3, WildAssumption
  <2>5. header' = Null => LostWay'
    BY <1>2, <1>3, <2>3, <2>4, SameCall, NullAssumption DEF Resolve
  <2>6. header' /= Null => Represents(header)'
    BY <1>2, <1>3, <2>3, <2>4, SameCall DEF Resolve
  <2>7. QED
    BY <2>4, <2>5, <2>6
<1>7. tree'.root \in mapped'
  BY <1>2 DEF IInv
<1>8. QED
  BY <1>2, <1>3, <1>5, <1>6, <1>7 DEF IInv

\* The answer of the leaf is one for the whole tree.
LEMMA SearchLeafKeepsIInv == IInv /\ SearchLeaf => IInv'
<1> SUFFICES ASSUME IInv, SearchLeaf
             PROVE  IInv'
  OBVIOUS
<1>1. PICK rc \in {-1, 0, 1}, at \in 0 .. Len(Keys(header)) :
        /\ SearchContract(Keys(header), key, rc, at)
        /\ result' = IF rc = 0 \/ (rc > 0 /\ ~ exact)
                     THEN Keys(header)[at + 1] ELSE NotFound
  BY DEF SearchLeaf
<1>2. /\ tree' = tree /\ mapped' = mapped /\ key' = key /\ exact' = exact
      /\ header' = header /\ keyPtr' = keyPtr /\ pc' = "done"
      /\ pc = "descend" /\ header /= Null /\ Level(header) = 0
  BY DEF SearchLeaf, call
<1>3. /\ TypeOK /\ tree \in Trees /\ header \in Blocks /\ exact \in BOOLEAN
      /\ Keys(header) \in Seq(Key) /\ Sorted(Keys(header)) /\ key \in Key
      /\ Items(header) = KeySet(Keys(header)) /\ tree.root \in mapped
  BY <1>2, TreeFacts DEF IInv, TypeOK
<1>4. IsAnswer(Items(header), result')
  BY <1>1, <1>3, LeafAnswer
<1>5. result' \in Key \cup {NotFound}
  BY <1>3, <1>4, TreeFacts DEF IsAnswer
<1>6. TypeOK' /\ tree' \in Trees
  BY <1>2, <1>3, <1>5 DEF TypeOK
<1>7. AtPc'
  <2> SUFFICES ASSUME InRange'
               PROVE  ReturnsAnswer'
    BY <1>2 DEF AtPc
  <2>1. InRange /\ Represents(header)
    BY <1>2, <1>3, SameCall DEF IInv, AtPc
  <2>2. IsAnswer(Items(tree.root), result')
    BY <1>3, <1>4, <2>1, RepresentedAnswer
  <2>3. (IsAnswer(Items(tree.root), result))'
    BY <1>2, <2>2 DEF IsAnswer, Matches, Items
  <2>4. QED
    BY <1>2, <1>3, <2>3 DEF ReturnsAnswer
<1>8. QED
  BY <1>2, <1>6, <1>7 DEF IInv

\* A null header was reached by a key pointer to a block that is not mapped.
LEMMA ReadNullKeepsIInv == IInv /\ ReadNullHeader => IInv'
<1> SUFFICES ASSUME IInv, ReadNullHeader
             PROVE  IInv'
  OBVIOUS
<1>1. /\ tree' = tree /\ mapped' = mapped /\ key' = key /\ exact' = exact
      /\ header' = header /\ keyPtr' = keyPtr /\ result' = result
      /\ pc = "descend" /\ header = Null /\ pc' = "crash"
  BY DEF ReadNullHeader, call
<1>2. TypeOK' /\ tree' \in Trees
  BY <1>1 DEF IInv, TypeOK
<1>3. AtPc'
  BY <1>1, SameCall DEF IInv, AtPc, LostWay
<1>4. QED
  BY <1>1, <1>2, <1>3 DEF IInv

\* A step that changes nothing keeps the invariant.
LEMMA StutterKeepsIInv == IInv /\ UNCHANGED vars => IInv'
<1> SUFFICES ASSUME IInv, UNCHANGED vars
             PROVE  IInv'
  OBVIOUS
<1>1. TypeOK' /\ tree' \in Trees
  BY DEF IInv, TypeOK, vars
<1>2. AtPc'
  BY DEF IInv, AtPc, vars, InRange, LostWay, Represents, ReturnsAnswer, IsAnswer,
         Matches, Level, Keys, Items
<1>3. QED
  BY <1>1, <1>2 DEF IInv, vars

\* Every step keeps the invariant.
LEMMA NextIInv == IInv /\ [Next]_vars => IInv'
  BY ResolveRootKeepsIInv, DescendKeepsIInv, SearchLeafKeepsIInv, ReadNullKeepsIInv,
     StutterKeepsIInv DEF Next, Step, Stopped

\* So it holds in every state of a call.
LEMMA SpecIInv == Spec => []IInv
  BY InitIInv, NextIInv, PTL DEF Spec

\* The local variables of the descent have the values the code gives them.
THEOREM TypeCorrect == Spec => []TypeOK
<1>1. IInv => TypeOK
  BY DEF IInv
<1>2. QED
  BY SpecIInv, <1>1, PTL

\* The descent never leaves the subtree that holds the answer.
THEOREM DescentIsRight == Spec => []SubtreeHoldsAnswer
<1>1. IInv => SubtreeHoldsAnswer
  <2> SUFFICES ASSUME IInv, InRange, pc = "descend", header /= Null,
                      NEW a \in Items(tree.root) \cup {NotFound},
                      IsAnswer(Items(header), a)
               PROVE  IsAnswer(Items(tree.root), a)
    BY DEF SubtreeHoldsAnswer
  <2>1. TypeOK /\ tree \in Trees /\ header \in Blocks /\ Represents(header)
    BY DEF IInv, AtPc, TypeOK
  <2>2. QED
    BY <2>1, RepresentedAnswer
<1>2. QED
  BY SpecIInv, <1>1, PTL

\* A call that returns returns the right item, or none when there is none.
THEOREM AnswerIsRight == Spec => []ReturnsAnswer
<1>1. IInv => ReturnsAnswer
  BY DEF IInv, AtPc, ReturnsAnswer
<1>2. QED
  BY SpecIInv, <1>1, PTL

\* Only a block that the chunk list does not map can stop a call in range.
THEOREM CrashIsExplained == Spec => []CrashMeansUnmapped
<1>1. IInv => CrashMeansUnmapped
  BY DEF IInv, AtPc, CrashMeansUnmapped, LostWay
<1>2. QED
  BY SpecIInv, <1>1, PTL

\* Every iteration of the descent goes down by one level.
THEOREM EachStepDescends == Spec => DescendsOneLevel
<1> DEFINE Down == InRange /\ Descend /\ header' /= Null
                    => Level(header') = Level(header) - 1
<1>1. IInv /\ [Next]_vars => [Down]_vars
  <2> SUFFICES ASSUME IInv, InRange, Descend, header' /= Null
               PROVE  Level(header') = Level(header) - 1
    BY DEF Down
  <2>1. PICK rc \in {-1, 0, 1}, at \in 0 .. Len(Keys(header)) :
          /\ SearchContract(Keys(header), key, rc, at)
          /\ keyPtr' = IF rc >= 0 THEN tree.ptrs[header][at + 1] ELSE keyPtr
    BY DEF Descend
  <2>2. /\ header /= Null /\ Level(header) > 0 /\ pc = "descend"
        /\ IF keyPtr' = Wild THEN header' = header ELSE header' = Resolve(keyPtr')
    BY DEF Descend
  <2>3. TypeOK /\ tree \in Trees /\ header \in Blocks /\ Represents(header)
    BY <2>2 DEF IInv, AtPc, TypeOK
  <2>4. /\ at + 1 \in 1 .. Len(Keys(header))
        /\ keyPtr' = tree.ptrs[header][at + 1]
        /\ keyPtr' \in Blocks
    BY <2>1, <2>2, <2>3, ChildRepresents
  <2>5. Level(keyPtr') = Level(header) - 1
    BY <2>2, <2>3, <2>4, ChildFacts
  <2>6. QED
    BY <2>2, <2>4, <2>5, WildAssumption DEF Resolve
<1>2. QED
  BY SpecIInv, <1>1, PTL DEF Spec, DescendsOneLevel

\* With keys in the range of the tree the descent implements the lookup in an
\* ordered set of keys, whatever blocks are mapped.
THEOREM Refinement == RangeSpec => ImplementsLookup
<1> DEFINE CInv == IInv /\ InRange
           found == IF tree.root \in mapped THEN Items(tree.root) ELSE {}
<1>1. RangeInit => CInv
  BY InitIInv DEF RangeInit
<1>2. CInv /\ [Next]_vars => CInv'
  <2> SUFFICES ASSUME CInv, [Next]_vars
               PROVE  InRange'
    BY NextIInv
  <2>1. UNCHANGED call
    BY DEF Next, Step, ResolveRoot, Descend, SearchLeaf, ReadNullHeader, Stopped, vars, call
  <2>2. QED
    BY <2>1 DEF InRange, Level, Keys, call
<1>3. RangeInit => Lookup!LookupInit
  BY DEF RangeInit, Init, Lookup!LookupInit
<1>4. CInv /\ [Next]_vars => [Lookup!Answer]_(Lookup!lookupVars)
  <2> SUFFICES ASSUME CInv, [Next]_vars
               PROVE  Lookup!Answer \/ UNCHANGED Lookup!lookupVars
    OBVIOUS
  <2>1. UNCHANGED call
    BY DEF Next, Step, ResolveRoot, Descend, SearchLeaf, ReadNullHeader, Stopped, vars, call
  <2>2. found' = found /\ key' = key /\ exact' = exact
    BY <2>1 DEF call, Items
  <2>3. CASE pc /= "done" /\ pc' = "done"
    <3>1. IInv' /\ InRange' /\ tree' = tree /\ mapped' = mapped
      BY <1>2, <2>1 DEF call
    <3>2. ReturnsAnswer'
      BY <2>3, <3>1 DEF IInv, AtPc
    <3>3. IF tree.root \in mapped THEN (IsAnswer(Items(tree.root), result))'
                                  ELSE result' = NotFound
      BY <2>3, <3>1, <3>2 DEF ReturnsAnswer
    <3>4. IF tree.root \in mapped THEN IsAnswer(Items(tree.root), result')
                                  ELSE result' = NotFound
      BY <2>1, <3>3 DEF IsAnswer, Matches, Items, call
    <3>5. IsAnswer(found, result')
      BY <3>4 DEF IsAnswer
    <3>6. Lookup!IsAnswer(result')
      BY <3>5 DEF IsAnswer, Matches, KeyLeq, KeyLess, Lookup!IsAnswer,
                  Lookup!Matches, Lookup!KeyLeq, Lookup!KeyLess
    <3>7. result' \in found \cup {NotFound}
      BY <3>5 DEF IsAnswer
    <3>8. QED
      BY <2>2, <2>3, <3>6, <3>7 DEF Lookup!Answer
  <2>4. CASE ~ (pc /= "done" /\ pc' = "done")
    <3>1. (IF pc = "done" THEN result ELSE Pending)' = IF pc = "done" THEN result ELSE Pending
      BY <2>4 DEF Next, Step, ResolveRoot, Descend, SearchLeaf, ReadNullHeader, Stopped, vars
    <3>2. QED
      BY <2>2, <3>1 DEF Lookup!lookupVars
  <2>5. QED
    BY <2>3, <2>4
<1>5. QED
  BY <1>1, <1>2, <1>3, <1>4, PTL DEF RangeSpec, ImplementsLookup, Lookup!LookupSafeSpec

----------------------------------------------------------------------------

HashTypeOK ==
    /\ input \in Buffers
    /\ address \in 0 .. 3
    /\ crc \in Word
    /\ taken \in 0 .. Length
    /\ hashPc \in {"start", "single", "multi", "done"}

\* Where crc32c_sb8_64_bit is: it runs for buffers of four bytes or more, and behind
\* the first bytes it has taken whole slices until none is left.
AtSliceBoundary ==
    hashPc = "multi" =>
        /\ Length >= 4
        /\ InitBytes <= taken /\ taken - InitBytes <= RunningLength
             => (taken - InitBytes) % 8 = 0

TakesAll == hashPc = "done" => taken = Length

HashIInv == HashTypeOK /\ (hashPc = "start" => taken = 0) /\ AtSliceBoundary /\ TakesAll

----------------------------------------------------------------------------

\* Exclusive or of two words is a word.
LEMMA XorIsWord ==
    ASSUME NEW a \in Word, NEW b \in Word
    PROVE  a \oplus b \in Word
BY DEF Word, \oplus

\* Every entry of a table is a word.
LEMMA EntryIsWord ==
    ASSUME NEW table, NEW byte
    PROVE  Entry(table, byte) \in Word
BY DEF Entry, Word

\* A word moved to the right is one.
LEMMA ShiftIsWord ==
    ASSUME NEW w \in Word
    PROVE  ShiftRight(w, 8) \in Word
BY DEF ShiftRight, Word

\* The length of the buffer is a number.
LEMMA LengthType == input \in Buffers => Length \in Nat
BY BuffersAssumption DEF Length

\* The first bytes are at most four, and the slices end inside the buffer.
LEMMA Layout ==
    ASSUME address \in 0 .. 3, Length \in Nat, Length >= 4
    PROVE  /\ InitBytes \in 1 .. 4
           /\ (address + InitBytes) % 4 = 0
           /\ RunningLength \in Nat /\ RunningLength % 8 = 0
           /\ InitBytes + RunningLength <= Length
           /\ EndBytes = Length - InitBytes - RunningLength
<1>1. InitBytes \in 1 .. 4 /\ (address + InitBytes) % 4 = 0
  BY DEF InitBytes
<1>. HIDE DEF InitBytes
<1>2. RunningLength \in Nat /\ RunningLength % 8 = 0 /\ InitBytes + RunningLength <= Length
  BY <1>1 DEF RunningLength
<1>. QED  BY <1>1, <1>2 DEF EndBytes

----------------------------------------------------------------------------

\* The invariant holds before the first byte is taken.
LEMMA HashInitIInv == HashInit => HashIInv
<1>. SUFFICES ASSUME HashInit PROVE HashIInv
  OBVIOUS
<1>1. Length \in Nat
  BY LengthType DEF HashInit
<1>2. crc \in Word
  BY BuffersAssumption DEF HashInit
<1>. QED  BY <1>1, <1>2 DEF HashInit, HashIInv, HashTypeOK, AtSliceBoundary, TakesAll

\* A byte that is taken leaves the register a word.
LEMMA TakeByteKeepsType ==
    ASSUME HashTypeOK, NEW table, TakeByte(table), taken < Length
    PROVE  HashTypeOK' /\ taken' = taken + 1 /\ Length' = Length
<1>1. crc' \in Word
  BY EntryIsWord, ShiftIsWord, XorIsWord DEF HashTypeOK, TakeByte
<1>2. Length' = Length /\ Length \in Nat
  BY LengthType DEF TakeByte, HashTypeOK, Length
<1>. QED  BY <1>1, <1>2 DEF HashTypeOK, TakeByte

\* Every step keeps it.
LEMMA HashNextIInv == HashIInv /\ [HashNext]_hashVars => HashIInv'
<1>. SUFFICES ASSUME HashIInv, [HashNext]_hashVars PROVE HashIInv'
  OBVIOUS
<1>. USE DEF HashIInv
<1>t. HashTypeOK /\ Length \in Nat /\ taken \in Nat
  BY LengthType DEF HashTypeOK
<1>1. CASE Choose
  <2>1. UNCHANGED <<Length, InitBytes, RunningLength>> /\ HashTypeOK'
    BY <1>1, <1>t DEF Choose, Length, InitBytes, RunningLength, HashTypeOK
  <2>2. InitBytes \in 1 .. 4
    BY <1>t DEF InitBytes, HashTypeOK
  <2>. QED  BY <1>1, <1>t, <2>1, <2>2 DEF Choose, AtSliceBoundary, TakesAll
<1>2. CASE SingleByte
  BY <1>2, <1>t, TakeByteKeepsType DEF SingleByte, TakeByte, AtSliceBoundary, TakesAll
<1>3. CASE InitByte
  <2>1. InitBytes \in 1 .. 4 /\ Length >= 4
    BY <1>3, <1>t, Layout DEF InitByte, AtSliceBoundary, HashTypeOK
  <2>2. HashTypeOK' /\ taken' = taken + 1 /\ Length' = Length
    BY <1>3, <1>t, <2>1, TakeByteKeepsType DEF InitByte
  <2>3. UNCHANGED <<InitBytes, RunningLength, hashPc>>
    BY <1>3, <2>2 DEF InitByte, TakeByte, InitBytes, RunningLength
  <2>4. taken < InitBytes
    BY <1>3 DEF InitByte
  <2>. QED  BY <1>3, <1>t, <2>1, <2>2, <2>3, <2>4 DEF InitByte, AtSliceBoundary, TakesAll
<1>4. CASE Slice
  <2>1. /\ InitBytes \in 1 .. 4 /\ Length >= 4
        /\ RunningLength \in Nat /\ RunningLength % 8 = 0
        /\ InitBytes + RunningLength <= Length
    BY <1>4, <1>t, Layout DEF Slice, AtSlice, AtSliceBoundary, HashTypeOK
  <2>2. /\ taken >= InitBytes /\ taken - InitBytes < RunningLength
        /\ (taken - InitBytes) % 8 = 0
    BY <1>4, <1>t, <2>1 DEF Slice, AtSlice, AtSliceBoundary
  <2>3. taken + 8 - InitBytes <= RunningLength /\ (taken + 8 - InitBytes) % 8 = 0
    BY <1>t, <2>1, <2>2
  <2>4. crc' \in Word
    <3>1. \A w : TermsOfFirst(w) \in Word /\ TermsOfSecond(w) \in Word
      BY EntryIsWord, XorIsWord DEF TermsOfFirst, TermsOfSecond
    <3>. QED  BY <1>4, <3>1, XorIsWord DEF Slice
  <2>5. UNCHANGED <<Length, InitBytes, RunningLength, hashPc>> /\ taken' = taken + 8
    BY <1>4 DEF Slice, Length, InitBytes, RunningLength
  <2>6. HashTypeOK'
    BY <1>4, <1>t, <2>1, <2>3, <2>4, <2>5 DEF Slice, HashTypeOK
  <2>. QED  BY <1>4, <1>t, <2>1, <2>3, <2>5, <2>6 DEF Slice, AtSlice, AtSliceBoundary, TakesAll
<1>5. CASE EndByte
  <2>1. /\ InitBytes \in 1 .. 4 /\ Length >= 4 /\ RunningLength \in Nat
        /\ EndBytes = Length - InitBytes - RunningLength
    BY <1>5, <1>t, Layout DEF EndByte, AtEnd, AtSliceBoundary, HashTypeOK
  <2>2. taken - InitBytes >= RunningLength /\ taken < Length
    BY <1>5, <1>t, <2>1 DEF EndByte, AtEnd
  <2>3. HashTypeOK' /\ taken' = taken + 1 /\ Length' = Length
    BY <1>5, <1>t, <2>2, TakeByteKeepsType DEF EndByte
  <2>4. UNCHANGED <<InitBytes, RunningLength, hashPc>>
    BY <1>5, <2>3 DEF EndByte, TakeByte, InitBytes, RunningLength
  <2>. QED  BY <1>5, <1>t, <2>1, <2>2, <2>3, <2>4 DEF EndByte, AtEnd, AtSliceBoundary, TakesAll
<1>6. CASE HashReturn
  <2>1. hashPc = "multi" => EndBytes = Length - InitBytes - RunningLength /\ InitBytes \in Int
                          /\ RunningLength \in Int
    BY <1>t, Layout DEF AtSliceBoundary, HashTypeOK
  <2>2. taken = Length
    BY <1>6, <1>t, <2>1 DEF HashReturn, AtEnd, HashTypeOK
  <2>. QED  BY <1>6, <1>t, <2>2 DEF HashReturn, HashTypeOK, Length, AtSliceBoundary, TakesAll
<1>7. CASE UNCHANGED hashVars
  BY <1>7 DEF hashVars, HashTypeOK, Length, AtSliceBoundary, InitBytes, RunningLength, TakesAll
<1>. QED  BY <1>1, <1>2, <1>3, <1>4, <1>5, <1>6, <1>7 DEF HashNext, HashStep, HashStopped

\* The register stays a word, and no byte is taken from behind the buffer.
THEOREM HashSpecIInv == HashSpec => []HashIInv
BY HashInitIInv, HashNextIInv, PTL DEF HashSpec

\* The two words of a slice are loaded from word boundaries and from inside the
\* buffer, for a buffer of any length at any address: the loop of
\* crc32c_sb8_64_bit over slices reads neither past the name nor unaligned, though
\* init_bytes counts four bytes on a boundary.
THEOREM AlignedSlices == HashSpec => []SlicesAreAligned
<1>1. HashIInv => SlicesAreAligned
  <2>. SUFFICES ASSUME HashIInv, AtSlice
                PROVE  (address + taken) % 4 = 0 /\ taken + 8 <= Length
    BY DEF SlicesAreAligned
  <2>1. Length \in Nat /\ address \in 0 .. 3 /\ taken \in Nat /\ Length >= 4
    BY LengthType DEF HashIInv, HashTypeOK, AtSlice, AtSliceBoundary
  <2>2. /\ InitBytes \in 1 .. 4 /\ (address + InitBytes) % 4 = 0
        /\ RunningLength \in Nat /\ RunningLength % 8 = 0
        /\ InitBytes + RunningLength <= Length
    BY <2>1, Layout
  <2>3. /\ taken >= InitBytes /\ taken - InitBytes < RunningLength
        /\ (taken - InitBytes) % 8 = 0
    BY <2>1, <2>2 DEF AtSlice, HashIInv, AtSliceBoundary
  <2>. QED  BY <2>1, <2>2, <2>3
<1>. QED  BY <1>1, HashSpecIInv, PTL

\* Whatever the length and the address, calculate_crc32c returns only when every
\* byte of the buffer went into the hash, none of them twice and none from behind
\* its end.
THEOREM EveryByteIsTaken == HashSpec => [](taken <= Length /\ TakesAll)
<1>1. HashIInv => taken <= Length /\ TakesAll
  BY LengthType DEF HashIInv, HashTypeOK
<1>. QED  BY <1>1, HashSpecIInv, PTL

----------------------------------------------------------------------------

\* The register with one bit shifted out of it, as every bit of a buffer does.
Shifted(w) == IF 0 \in w THEN ShiftRight(w, 1) \oplus Polynomial ELSE ShiftRight(w, 1)

\* A word moved to the right, bit by bit.
LEMMA ShiftBits ==
    ASSUME NEW w \in Word, NEW n \in Nat
    PROVE  ShiftRight(w, n) = {i \in 0 .. 31 : i + n \in w}
<1>1. ASSUME NEW i \in 0 .. 31, i + n \in w PROVE i \in ShiftRight(w, n)
  <2>1. i + n \in {j \in w : j >= n} /\ i = (i + n) - n
    BY <1>1
  <2>. QED  BY <2>1 DEF ShiftRight
<1>2. ASSUME NEW i \in ShiftRight(w, n) PROVE i \in 0 .. 31 /\ i + n \in w
  <2>1. PICK j \in w : j >= n /\ i = j - n
    BY DEF ShiftRight
  <2>2. j \in 0 .. 31
    BY DEF Word
  <2>. QED  BY <2>1, <2>2
<1>. QED  BY <1>1, <1>2

\* The bits of a word in hexadecimal.
LEMMA HexBits ==
    ASSUME NEW a \in Nat, NEW b \in Nat
    PROVE  /\ Hex(<<a, b>>) \subseteq 0 .. 31
           /\ (0 \in Hex(<<a, b>>) <=> (b \div 1) % 2 = 1) /\ (16 \in Hex(<<a, b>>) <=> (a \div 1) % 2 = 1)
           /\ (1 \in Hex(<<a, b>>) <=> (b \div 2) % 2 = 1) /\ (17 \in Hex(<<a, b>>) <=> (a \div 2) % 2 = 1)
           /\ (2 \in Hex(<<a, b>>) <=> (b \div 4) % 2 = 1) /\ (18 \in Hex(<<a, b>>) <=> (a \div 4) % 2 = 1)
           /\ (3 \in Hex(<<a, b>>) <=> (b \div 8) % 2 = 1) /\ (19 \in Hex(<<a, b>>) <=> (a \div 8) % 2 = 1)
           /\ (4 \in Hex(<<a, b>>) <=> (b \div 16) % 2 = 1) /\ (20 \in Hex(<<a, b>>) <=> (a \div 16) % 2 = 1)
           /\ (5 \in Hex(<<a, b>>) <=> (b \div 32) % 2 = 1) /\ (21 \in Hex(<<a, b>>) <=> (a \div 32) % 2 = 1)
           /\ (6 \in Hex(<<a, b>>) <=> (b \div 64) % 2 = 1) /\ (22 \in Hex(<<a, b>>) <=> (a \div 64) % 2 = 1)
           /\ (7 \in Hex(<<a, b>>) <=> (b \div 128) % 2 = 1) /\ (23 \in Hex(<<a, b>>) <=> (a \div 128) % 2 = 1)
           /\ (8 \in Hex(<<a, b>>) <=> (b \div 256) % 2 = 1) /\ (24 \in Hex(<<a, b>>) <=> (a \div 256) % 2 = 1)
           /\ (9 \in Hex(<<a, b>>) <=> (b \div 512) % 2 = 1) /\ (25 \in Hex(<<a, b>>) <=> (a \div 512) % 2 = 1)
           /\ (10 \in Hex(<<a, b>>) <=> (b \div 1024) % 2 = 1) /\ (26 \in Hex(<<a, b>>) <=> (a \div 1024) % 2 = 1)
           /\ (11 \in Hex(<<a, b>>) <=> (b \div 2048) % 2 = 1) /\ (27 \in Hex(<<a, b>>) <=> (a \div 2048) % 2 = 1)
           /\ (12 \in Hex(<<a, b>>) <=> (b \div 4096) % 2 = 1) /\ (28 \in Hex(<<a, b>>) <=> (a \div 4096) % 2 = 1)
           /\ (13 \in Hex(<<a, b>>) <=> (b \div 8192) % 2 = 1) /\ (29 \in Hex(<<a, b>>) <=> (a \div 8192) % 2 = 1)
           /\ (14 \in Hex(<<a, b>>) <=> (b \div 16384) % 2 = 1) /\ (30 \in Hex(<<a, b>>) <=> (a \div 16384) % 2 = 1)
           /\ (15 \in Hex(<<a, b>>) <=> (b \div 32768) % 2 = 1) /\ (31 \in Hex(<<a, b>>) <=> (a \div 32768) % 2 = 1)
<1>1. ASSUME NEW h \in Nat
      PROVE  /\ Half(h) \subseteq 0 .. 15
             /\ (0 \in Half(h) <=> (h \div 1) % 2 = 1) /\ (1 \in Half(h) <=> (h \div 2) % 2 = 1)
             /\ (2 \in Half(h) <=> (h \div 4) % 2 = 1) /\ (3 \in Half(h) <=> (h \div 8) % 2 = 1)
             /\ (4 \in Half(h) <=> (h \div 16) % 2 = 1) /\ (5 \in Half(h) <=> (h \div 32) % 2 = 1)
             /\ (6 \in Half(h) <=> (h \div 64) % 2 = 1) /\ (7 \in Half(h) <=> (h \div 128) % 2 = 1)
             /\ (8 \in Half(h) <=> (h \div 256) % 2 = 1) /\ (9 \in Half(h) <=> (h \div 512) % 2 = 1)
             /\ (10 \in Half(h) <=> (h \div 1024) % 2 = 1) /\ (11 \in Half(h) <=> (h \div 2048) % 2 = 1)
             /\ (12 \in Half(h) <=> (h \div 4096) % 2 = 1) /\ (13 \in Half(h) <=> (h \div 8192) % 2 = 1)
             /\ (14 \in Half(h) <=> (h \div 16384) % 2 = 1) /\ (15 \in Half(h) <=> (h \div 32768) % 2 = 1)
  <2>1. /\ 2^0 = 1 /\ 2^1 = 2 /\ 2^2 = 4 /\ 2^3 = 8 /\ 2^4 = 16 /\ 2^5 = 32 /\ 2^6 = 64 /\ 2^7 = 128
        /\ 2^8 = 256 /\ 2^9 = 512 /\ 2^10 = 1024 /\ 2^11 = 2048 /\ 2^12 = 4096 /\ 2^13 = 8192
        /\ 2^14 = 16384 /\ 2^15 = 32768
    OBVIOUS
  <2>. QED  BY <2>1 DEF Half
<1>2. Hex(<<a, b>>) = Half(b) \cup {i + 16 : i \in Half(a)}
  BY DEF Hex
<1>3. Half(a) \subseteq 0 .. 15 /\ Half(b) \subseteq 0 .. 15
  BY <1>1
<1>4. Hex(<<a, b>>) \subseteq 0 .. 31
  BY <1>2, <1>3
<1>5. /\ (0 \in Hex(<<a, b>>) <=> 0 \in Half(b)) /\ (16 \in Hex(<<a, b>>) <=> 0 \in Half(a))
      /\ (1 \in Hex(<<a, b>>) <=> 1 \in Half(b)) /\ (17 \in Hex(<<a, b>>) <=> 1 \in Half(a))
      /\ (2 \in Hex(<<a, b>>) <=> 2 \in Half(b)) /\ (18 \in Hex(<<a, b>>) <=> 2 \in Half(a))
      /\ (3 \in Hex(<<a, b>>) <=> 3 \in Half(b)) /\ (19 \in Hex(<<a, b>>) <=> 3 \in Half(a))
      /\ (4 \in Hex(<<a, b>>) <=> 4 \in Half(b)) /\ (20 \in Hex(<<a, b>>) <=> 4 \in Half(a))
      /\ (5 \in Hex(<<a, b>>) <=> 5 \in Half(b)) /\ (21 \in Hex(<<a, b>>) <=> 5 \in Half(a))
      /\ (6 \in Hex(<<a, b>>) <=> 6 \in Half(b)) /\ (22 \in Hex(<<a, b>>) <=> 6 \in Half(a))
      /\ (7 \in Hex(<<a, b>>) <=> 7 \in Half(b)) /\ (23 \in Hex(<<a, b>>) <=> 7 \in Half(a))
      /\ (8 \in Hex(<<a, b>>) <=> 8 \in Half(b)) /\ (24 \in Hex(<<a, b>>) <=> 8 \in Half(a))
      /\ (9 \in Hex(<<a, b>>) <=> 9 \in Half(b)) /\ (25 \in Hex(<<a, b>>) <=> 9 \in Half(a))
      /\ (10 \in Hex(<<a, b>>) <=> 10 \in Half(b)) /\ (26 \in Hex(<<a, b>>) <=> 10 \in Half(a))
      /\ (11 \in Hex(<<a, b>>) <=> 11 \in Half(b)) /\ (27 \in Hex(<<a, b>>) <=> 11 \in Half(a))
      /\ (12 \in Hex(<<a, b>>) <=> 12 \in Half(b)) /\ (28 \in Hex(<<a, b>>) <=> 12 \in Half(a))
      /\ (13 \in Hex(<<a, b>>) <=> 13 \in Half(b)) /\ (29 \in Hex(<<a, b>>) <=> 13 \in Half(a))
      /\ (14 \in Hex(<<a, b>>) <=> 14 \in Half(b)) /\ (30 \in Hex(<<a, b>>) <=> 14 \in Half(a))
      /\ (15 \in Hex(<<a, b>>) <=> 15 \in Half(b)) /\ (31 \in Hex(<<a, b>>) <=> 15 \in Half(a))
  BY <1>2, <1>3
<1>. HIDE DEF Hex
<1>. QED  BY <1>1, <1>4, <1>5

\* The bits of the polynomial, the lowest power in the highest bit.
LEMMA PolynomialBits == Polynomial = {3, 4, 5, 6, 8, 9, 11, 12, 13, 17, 18, 20, 21, 22, 23, 25, 31}
BY DEF Polynomial

\* One shift, bit by bit: the polynomial comes in where it has a one.
LEMMA ShiftedBits ==
    ASSUME NEW w \in Word
    PROVE  /\ Shifted(w) \in Word
           /\ (0 \in Shifted(w) <=> 1 \in w) /\ (1 \in Shifted(w) <=> 2 \in w)
           /\ (2 \in Shifted(w) <=> 3 \in w) /\ (3 \in Shifted(w) <=> (4 \in w) = (0 \notin w))
           /\ (4 \in Shifted(w) <=> (5 \in w) = (0 \notin w)) /\ (5 \in Shifted(w) <=> (6 \in w) = (0 \notin w))
           /\ (6 \in Shifted(w) <=> (7 \in w) = (0 \notin w)) /\ (7 \in Shifted(w) <=> 8 \in w)
           /\ (8 \in Shifted(w) <=> (9 \in w) = (0 \notin w)) /\ (9 \in Shifted(w) <=> (10 \in w) = (0 \notin w))
           /\ (10 \in Shifted(w) <=> 11 \in w) /\ (11 \in Shifted(w) <=> (12 \in w) = (0 \notin w))
           /\ (12 \in Shifted(w) <=> (13 \in w) = (0 \notin w)) /\ (13 \in Shifted(w) <=> (14 \in w) = (0 \notin w))
           /\ (14 \in Shifted(w) <=> 15 \in w) /\ (15 \in Shifted(w) <=> 16 \in w)
           /\ (16 \in Shifted(w) <=> 17 \in w) /\ (17 \in Shifted(w) <=> (18 \in w) = (0 \notin w))
           /\ (18 \in Shifted(w) <=> (19 \in w) = (0 \notin w)) /\ (19 \in Shifted(w) <=> 20 \in w)
           /\ (20 \in Shifted(w) <=> (21 \in w) = (0 \notin w)) /\ (21 \in Shifted(w) <=> (22 \in w) = (0 \notin w))
           /\ (22 \in Shifted(w) <=> (23 \in w) = (0 \notin w)) /\ (23 \in Shifted(w) <=> (24 \in w) = (0 \notin w))
           /\ (24 \in Shifted(w) <=> 25 \in w) /\ (25 \in Shifted(w) <=> (26 \in w) = (0 \notin w))
           /\ (26 \in Shifted(w) <=> 27 \in w) /\ (27 \in Shifted(w) <=> 28 \in w)
           /\ (28 \in Shifted(w) <=> 29 \in w) /\ (29 \in Shifted(w) <=> 30 \in w)
           /\ (30 \in Shifted(w) <=> 31 \in w) /\ (31 \in Shifted(w) <=> 0 \in w)
<1>1. ShiftRight(w, 1) = {i \in 0 .. 31 : i + 1 \in w}
  BY ShiftBits
<1>2. 32 \notin w
  BY DEF Word
<1>3. CASE 0 \in w
  <2>1. Shifted(w) = ({i \in 0 .. 31 : i + 1 \in w} \ Polynomial)
                       \cup (Polynomial \ {i \in 0 .. 31 : i + 1 \in w})
    BY <1>1, <1>3 DEF Shifted, \oplus
  <2>. QED  BY <2>1, <1>2, <1>3, PolynomialBits DEF Word
<1>4. CASE 0 \notin w
  <2>1. Shifted(w) = {i \in 0 .. 31 : i + 1 \in w}
    BY <1>1, <1>4 DEF Shifted
  <2>. QED  BY <2>1, <1>2, <1>4 DEF Word
<1>. QED  BY <1>3, <1>4

\* Words are the same if their bits are.
LEMMA SameBits ==
    ASSUME NEW a \in Word, NEW b \in Word,
           0 \in a <=> 0 \in b, 1 \in a <=> 1 \in b, 2 \in a <=> 2 \in b, 3 \in a <=> 3 \in b,
           4 \in a <=> 4 \in b, 5 \in a <=> 5 \in b, 6 \in a <=> 6 \in b, 7 \in a <=> 7 \in b,
           8 \in a <=> 8 \in b, 9 \in a <=> 9 \in b, 10 \in a <=> 10 \in b, 11 \in a <=> 11 \in b,
           12 \in a <=> 12 \in b, 13 \in a <=> 13 \in b, 14 \in a <=> 14 \in b, 15 \in a <=> 15 \in b,
           16 \in a <=> 16 \in b, 17 \in a <=> 17 \in b, 18 \in a <=> 18 \in b, 19 \in a <=> 19 \in b,
           20 \in a <=> 20 \in b, 21 \in a <=> 21 \in b, 22 \in a <=> 22 \in b, 23 \in a <=> 23 \in b,
           24 \in a <=> 24 \in b, 25 \in a <=> 25 \in b, 26 \in a <=> 26 \in b, 27 \in a <=> 27 \in b,
           28 \in a <=> 28 \in b, 29 \in a <=> 29 \in b, 30 \in a <=> 30 \in b, 31 \in a <=> 31 \in b
    PROVE  a = b
<1>1. \A i \in 0 .. 31 : i \in a <=> i \in b
  OBVIOUS
<1>. QED  BY <1>1 DEF Word

\* One shift of a word in hexadecimal, as the arithmetic of its halves.
LEMMA HexShift ==
    ASSUME NEW a \in Nat, NEW b \in Nat, NEW c \in Nat, NEW d \in Nat,
           (d \div 1) % 2 = 1 <=> (b \div 2) % 2 = 1,
           (d \div 2) % 2 = 1 <=> (b \div 4) % 2 = 1,
           (d \div 4) % 2 = 1 <=> (b \div 8) % 2 = 1,
           (d \div 8) % 2 = 1 <=> (((b \div 16) % 2 = 1) # (b % 2 = 1)),
           (d \div 16) % 2 = 1 <=> (((b \div 32) % 2 = 1) # (b % 2 = 1)),
           (d \div 32) % 2 = 1 <=> (((b \div 64) % 2 = 1) # (b % 2 = 1)),
           (d \div 64) % 2 = 1 <=> (((b \div 128) % 2 = 1) # (b % 2 = 1)),
           (d \div 128) % 2 = 1 <=> (b \div 256) % 2 = 1,
           (d \div 256) % 2 = 1 <=> (((b \div 512) % 2 = 1) # (b % 2 = 1)),
           (d \div 512) % 2 = 1 <=> (((b \div 1024) % 2 = 1) # (b % 2 = 1)),
           (d \div 1024) % 2 = 1 <=> (b \div 2048) % 2 = 1,
           (d \div 2048) % 2 = 1 <=> (((b \div 4096) % 2 = 1) # (b % 2 = 1)),
           (d \div 4096) % 2 = 1 <=> (((b \div 8192) % 2 = 1) # (b % 2 = 1)),
           (d \div 8192) % 2 = 1 <=> (((b \div 16384) % 2 = 1) # (b % 2 = 1)),
           (d \div 16384) % 2 = 1 <=> (b \div 32768) % 2 = 1,
           (d \div 32768) % 2 = 1 <=> (a \div 1) % 2 = 1,
           (c \div 1) % 2 = 1 <=> (a \div 2) % 2 = 1,
           (c \div 2) % 2 = 1 <=> (((a \div 4) % 2 = 1) # (b % 2 = 1)),
           (c \div 4) % 2 = 1 <=> (((a \div 8) % 2 = 1) # (b % 2 = 1)),
           (c \div 8) % 2 = 1 <=> (a \div 16) % 2 = 1,
           (c \div 16) % 2 = 1 <=> (((a \div 32) % 2 = 1) # (b % 2 = 1)),
           (c \div 32) % 2 = 1 <=> (((a \div 64) % 2 = 1) # (b % 2 = 1)),
           (c \div 64) % 2 = 1 <=> (((a \div 128) % 2 = 1) # (b % 2 = 1)),
           (c \div 128) % 2 = 1 <=> (((a \div 256) % 2 = 1) # (b % 2 = 1)),
           (c \div 256) % 2 = 1 <=> (a \div 512) % 2 = 1,
           (c \div 512) % 2 = 1 <=> (((a \div 1024) % 2 = 1) # (b % 2 = 1)),
           (c \div 1024) % 2 = 1 <=> (a \div 2048) % 2 = 1,
           (c \div 2048) % 2 = 1 <=> (a \div 4096) % 2 = 1,
           (c \div 4096) % 2 = 1 <=> (a \div 8192) % 2 = 1,
           (c \div 8192) % 2 = 1 <=> (a \div 16384) % 2 = 1,
           (c \div 16384) % 2 = 1 <=> (a \div 32768) % 2 = 1,
           (c \div 32768) % 2 = 1 <=> b % 2 = 1
    PROVE  Shifted(Hex(<<a, b>>)) = Hex(<<c, d>>)
<1> DEFINE v == Hex(<<a, b>>)
           u == Hex(<<c, d>>)
<1>1. v \in Word /\ u \in Word /\ Shifted(v) \in Word
  BY HexBits, ShiftedBits DEF Word
<1>2. /\ (0 \in Shifted(v) <=> 0 \in u) /\ (1 \in Shifted(v) <=> 1 \in u)
      /\ (2 \in Shifted(v) <=> 2 \in u) /\ (3 \in Shifted(v) <=> 3 \in u)
      /\ (4 \in Shifted(v) <=> 4 \in u) /\ (5 \in Shifted(v) <=> 5 \in u)
      /\ (6 \in Shifted(v) <=> 6 \in u) /\ (7 \in Shifted(v) <=> 7 \in u)
      /\ (8 \in Shifted(v) <=> 8 \in u) /\ (9 \in Shifted(v) <=> 9 \in u)
      /\ (10 \in Shifted(v) <=> 10 \in u) /\ (11 \in Shifted(v) <=> 11 \in u)
      /\ (12 \in Shifted(v) <=> 12 \in u) /\ (13 \in Shifted(v) <=> 13 \in u)
      /\ (14 \in Shifted(v) <=> 14 \in u) /\ (15 \in Shifted(v) <=> 15 \in u)
      /\ (16 \in Shifted(v) <=> 16 \in u) /\ (17 \in Shifted(v) <=> 17 \in u)
      /\ (18 \in Shifted(v) <=> 18 \in u) /\ (19 \in Shifted(v) <=> 19 \in u)
      /\ (20 \in Shifted(v) <=> 20 \in u) /\ (21 \in Shifted(v) <=> 21 \in u)
      /\ (22 \in Shifted(v) <=> 22 \in u) /\ (23 \in Shifted(v) <=> 23 \in u)
      /\ (24 \in Shifted(v) <=> 24 \in u) /\ (25 \in Shifted(v) <=> 25 \in u)
      /\ (26 \in Shifted(v) <=> 26 \in u) /\ (27 \in Shifted(v) <=> 27 \in u)
      /\ (28 \in Shifted(v) <=> 28 \in u) /\ (29 \in Shifted(v) <=> 29 \in u)
      /\ (30 \in Shifted(v) <=> 30 \in u) /\ (31 \in Shifted(v) <=> 31 \in u)
  BY <1>1, HexBits, ShiftedBits, SMTT(30)
<1>. HIDE DEF v, u
<1>3. Shifted(v) = u
  BY <1>1, <1>2, SameBits
<1>. QED  BY <1>3 DEF v, u

----------------------------------------------------------------------------

\* A table of the bytes of one bit, for a byte that has not been shifted at all.
SingleBits == [j \in 0 .. 7 |-> {j}]

\* In a table the entry of a bit is that of the next one, shifted once; and one
\* table follows another if it goes on where that ends.
ShiftsDown(t) == \A j \in 0 .. 6 : t[j] = Shifted(t[j + 1])
Follows(t, u) == ShiftsDown(t) /\ ShiftsDown(u) /\ u[7] = Shifted(t[0])

\* The entry of a bit is its byte shifted out.
LEMMA SingleBitsShift == ShiftsDown(SingleBits)
<1>1. ASSUME NEW j \in 0 .. 6 PROVE SingleBits[j] = Shifted(SingleBits[j + 1])
  <2>1. SingleBits[j] = {j} /\ SingleBits[j + 1] = {j + 1}
    BY DEF SingleBits
  <2>2. ShiftRight({j + 1}, 1) = {j}
    BY DEF ShiftRight
  <2>3. 0 \notin {j + 1}
    OBVIOUS
  <2>. QED  BY <2>1, <2>2, <2>3 DEF Shifted
<1>. QED  BY <1>1 DEF ShiftsDown

\* The first entry is the polynomial.
LEMMA FirstShift == tableil8_o32[7] = Shifted({0})
<1>1. tableil8_o32[7] = Hex(<<\h82f6, \h3b78>>)
  BY DEF tableil8_o32, Table
<1>2. Shifted({0}) = Hex(<<\h82f6, \h3b78>>)
  <2>1. Hex(<<\h82f6, \h3b78>>) \in Word /\ {0} \in Word
    BY HexBits DEF Word
  <2>. QED  BY <2>1, HexBits, ShiftedBits, SameBits
<1>. QED  BY <1>1, <1>2

\* All tables of lib/crc32c.c, from the entries that are written there: the 64 of
\* single bits are the polynomial, shifted once more from each to the next.
LEMMA TablesFollow ==
    /\ Follows(SingleBits, tableil8_o32)
    /\ Follows(tableil8_o32, tableil8_o40)
    /\ Follows(tableil8_o40, tableil8_o48)
    /\ Follows(tableil8_o48, tableil8_o56)
    /\ Follows(tableil8_o56, tableil8_o64)
    /\ Follows(tableil8_o64, tableil8_o72)
    /\ Follows(tableil8_o72, tableil8_o80)
    /\ Follows(tableil8_o80, tableil8_o88)
<1>1. ShiftsDown(tableil8_o32)
  <2>0. Shifted(Hex(<<\he13b, \h70f7>>)) = Hex(<<\hf26b, \h8303>>)  BY HexShift
  <2>1. Shifted(Hex(<<\hc79a, \h971f>>)) = Hex(<<\he13b, \h70f7>>)  BY HexShift
  <2>2. Shifted(Hex(<<\h8ad9, \h58cf>>)) = Hex(<<\hc79a, \h971f>>)  BY HexShift
  <2>3. Shifted(Hex(<<\h105e, \hc76f>>)) = Hex(<<\h8ad9, \h58cf>>)  BY HexShift
  <2>4. Shifted(Hex(<<\h20bd, \h8ede>>)) = Hex(<<\h105e, \hc76f>>)  BY HexShift
  <2>5. Shifted(Hex(<<\h417b, \h1dbc>>)) = Hex(<<\h20bd, \h8ede>>)  BY HexShift
  <2>6. Shifted(Hex(<<\h82f6, \h3b78>>)) = Hex(<<\h417b, \h1dbc>>)  BY HexShift
  <2>. QED  BY <2>0, <2>1, <2>2, <2>3, <2>4, <2>5, <2>6 DEF tableil8_o32, Table, ShiftsDown
<1>2. ShiftsDown(tableil8_o40)
  <2>0. Shifted(Hex(<<\h2745, \h30ee>>)) = Hex(<<\h13a2, \h9877>>)  BY HexShift
  <2>1. Shifted(Hex(<<\h4e8a, \h61dc>>)) = Hex(<<\h2745, \h30ee>>)  BY HexShift
  <2>2. Shifted(Hex(<<\h9d14, \hc3b8>>)) = Hex(<<\h4e8a, \h61dc>>)  BY HexShift
  <2>3. Shifted(Hex(<<\h3fc5, \hf181>>)) = Hex(<<\h9d14, \hc3b8>>)  BY HexShift
  <2>4. Shifted(Hex(<<\h7f8b, \he302>>)) = Hex(<<\h3fc5, \hf181>>)  BY HexShift
  <2>5. Shifted(Hex(<<\hff17, \hc604>>)) = Hex(<<\h7f8b, \he302>>)  BY HexShift
  <2>6. Shifted(Hex(<<\hfbc3, \hfaf9>>)) = Hex(<<\hff17, \hc604>>)  BY HexShift
  <2>. QED  BY <2>0, <2>1, <2>2, <2>3, <2>4, <2>5, <2>6 DEF tableil8_o40, Table, ShiftsDown
<1>3. ShiftsDown(tableil8_o48)
  <2>0. Shifted(Hex(<<\h4f6f, \h520d>>)) = Hex(<<\ha541, \h927e>>)  BY HexShift
  <2>1. Shifted(Hex(<<\h9ede, \ha41a>>)) = Hex(<<\h4f6f, \h520d>>)  BY HexShift
  <2>2. Shifted(Hex(<<\h3851, \h3ec5>>)) = Hex(<<\h9ede, \ha41a>>)  BY HexShift
  <2>3. Shifted(Hex(<<\h70a2, \h7d8a>>)) = Hex(<<\h3851, \h3ec5>>)  BY HexShift
  <2>4. Shifted(Hex(<<\he144, \hfb14>>)) = Hex(<<\h70a2, \h7d8a>>)  BY HexShift
  <2>5. Shifted(Hex(<<\hc765, \h80d9>>)) = Hex(<<\he144, \hfb14>>)  BY HexShift
  <2>6. Shifted(Hex(<<\h8b27, \h7743>>)) = Hex(<<\hc765, \h80d9>>)  BY HexShift
  <2>. QED  BY <2>0, <2>1, <2>2, <2>3, <2>4, <2>5, <2>6 DEF tableil8_o48, Table, ShiftsDown
<1>4. ShiftsDown(tableil8_o56)
  <2>0. Shifted(Hex(<<\hbf67, \h2381>>)) = Hex(<<\hdd45, \haab8>>)  BY HexShift
  <2>1. Shifted(Hex(<<\h7b22, \h31f3>>)) = Hex(<<\hbf67, \h2381>>)  BY HexShift
  <2>2. Shifted(Hex(<<\hf644, \h63e6>>)) = Hex(<<\h7b22, \h31f3>>)  BY HexShift
  <2>3. Shifted(Hex(<<\he964, \hb13d>>)) = Hex(<<\hf644, \h63e6>>)  BY HexShift
  <2>4. Shifted(Hex(<<\hd725, \h148b>>)) = Hex(<<\he964, \hb13d>>)  BY HexShift
  <2>5. Shifted(Hex(<<\haba6, \h5fe7>>)) = Hex(<<\hd725, \h148b>>)  BY HexShift
  <2>6. Shifted(Hex(<<\h52a0, \hc93f>>)) = Hex(<<\haba6, \h5fe7>>)  BY HexShift
  <2>. QED  BY <2>0, <2>1, <2>2, <2>3, <2>4, <2>5, <2>6 DEF tableil8_o56, Table, ShiftsDown
<1>5. ShiftsDown(tableil8_o64)
  <2>0. Shifted(Hex(<<\h7022, \hdf58>>)) = Hex(<<\h3811, \h6fac>>)  BY HexShift
  <2>1. Shifted(Hex(<<\he045, \hbeb0>>)) = Hex(<<\h7022, \hdf58>>)  BY HexShift
  <2>2. Shifted(Hex(<<\hc567, \h0b91>>)) = Hex(<<\he045, \hbeb0>>)  BY HexShift
  <2>3. Shifted(Hex(<<\h8f22, \h61d3>>)) = Hex(<<\hc567, \h0b91>>)  BY HexShift
  <2>4. Shifted(Hex(<<\h1ba8, \hb557>>)) = Hex(<<\h8f22, \h61d3>>)  BY HexShift
  <2>5. Shifted(Hex(<<\h3751, \h6aae>>)) = Hex(<<\h1ba8, \hb557>>)  BY HexShift
  <2>6. Shifted(Hex(<<\h6ea2, \hd55c>>)) = Hex(<<\h3751, \h6aae>>)  BY HexShift
  <2>. QED  BY <2>0, <2>1, <2>2, <2>3, <2>4, <2>5, <2>6 DEF tableil8_o64, Table, ShiftsDown
<1>6. ShiftsDown(tableil8_o72)
  <2>0. Shifted(Hex(<<\hdb8c, \ha0c3>>)) = Hex(<<\hef30, \h6b19>>)  BY HexShift
  <2>1. Shifted(Hex(<<\hb2f5, \h3777>>)) = Hex(<<\hdb8c, \ha0c3>>)  BY HexShift
  <2>2. Shifted(Hex(<<\h6006, \h181f>>)) = Hex(<<\hb2f5, \h3777>>)  BY HexShift
  <2>3. Shifted(Hex(<<\hc00c, \h303e>>)) = Hex(<<\h6006, \h181f>>)  BY HexShift
  <2>4. Shifted(Hex(<<\h85f4, \h168d>>)) = Hex(<<\hc00c, \h303e>>)  BY HexShift
  <2>5. Shifted(Hex(<<\h0e04, \h5beb>>)) = Hex(<<\h85f4, \h168d>>)  BY HexShift
  <2>6. Shifted(Hex(<<\h1c08, \hb7d6>>)) = Hex(<<\h0e04, \h5beb>>)  BY HexShift
  <2>. QED  BY <2>0, <2>1, <2>2, <2>3, <2>4, <2>5, <2>6 DEF tableil8_o72, Table, ShiftsDown
<1>7. ShiftsDown(tableil8_o80)
  <2>0. Shifted(Hex(<<\hd006, \h5990>>)) = Hex(<<\h6803, \h2cc8>>)  BY HexShift
  <2>1. Shifted(Hex(<<\ha5e0, \hc5d1>>)) = Hex(<<\hd006, \h5990>>)  BY HexShift
  <2>2. Shifted(Hex(<<\h4e2d, \hfd53>>)) = Hex(<<\ha5e0, \hc5d1>>)  BY HexShift
  <2>3. Shifted(Hex(<<\h9c5b, \hfaa6>>)) = Hex(<<\h4e2d, \hfd53>>)  BY HexShift
  <2>4. Shifted(Hex(<<\h3d5b, \h83bd>>)) = Hex(<<\h9c5b, \hfaa6>>)  BY HexShift
  <2>5. Shifted(Hex(<<\h7ab7, \h077a>>)) = Hex(<<\h3d5b, \h83bd>>)  BY HexShift
  <2>6. Shifted(Hex(<<\hf56e, \h0ef4>>)) = Hex(<<\h7ab7, \h077a>>)  BY HexShift
  <2>. QED  BY <2>0, <2>1, <2>2, <2>3, <2>4, <2>5, <2>6 DEF tableil8_o80, Table, ShiftsDown
<1>8. ShiftsDown(tableil8_o88)
  <2>0. Shifted(Hex(<<\h9278, \hfa4e>>)) = Hex(<<\h493c, \h7d27>>)  BY HexShift
  <2>1. Shifted(Hex(<<\h211d, \h826d>>)) = Hex(<<\h9278, \hfa4e>>)  BY HexShift
  <2>2. Shifted(Hex(<<\h423b, \h04da>>)) = Hex(<<\h211d, \h826d>>)  BY HexShift
  <2>3. Shifted(Hex(<<\h8476, \h09b4>>)) = Hex(<<\h423b, \h04da>>)  BY HexShift
  <2>4. Shifted(Hex(<<\h0d00, \h6599>>)) = Hex(<<\h8476, \h09b4>>)  BY HexShift
  <2>5. Shifted(Hex(<<\h1a00, \hcb32>>)) = Hex(<<\h0d00, \h6599>>)  BY HexShift
  <2>6. Shifted(Hex(<<\h3401, \h9664>>)) = Hex(<<\h1a00, \hcb32>>)  BY HexShift
  <2>. QED  BY <2>0, <2>1, <2>2, <2>3, <2>4, <2>5, <2>6 DEF tableil8_o88, Table, ShiftsDown
<1>9. tableil8_o40[7] = Shifted(tableil8_o32[0])
  <2>1. Shifted(Hex(<<\hf26b, \h8303>>)) = Hex(<<\hfbc3, \hfaf9>>)  BY HexShift
  <2>. QED  BY <2>1 DEF tableil8_o32, tableil8_o40, Table
<1>10. tableil8_o48[7] = Shifted(tableil8_o40[0])
  <2>1. Shifted(Hex(<<\h13a2, \h9877>>)) = Hex(<<\h8b27, \h7743>>)  BY HexShift
  <2>. QED  BY <2>1 DEF tableil8_o40, tableil8_o48, Table
<1>11. tableil8_o56[7] = Shifted(tableil8_o48[0])
  <2>1. Shifted(Hex(<<\ha541, \h927e>>)) = Hex(<<\h52a0, \hc93f>>)  BY HexShift
  <2>. QED  BY <2>1 DEF tableil8_o48, tableil8_o56, Table
<1>12. tableil8_o64[7] = Shifted(tableil8_o56[0])
  <2>1. Shifted(Hex(<<\hdd45, \haab8>>)) = Hex(<<\h6ea2, \hd55c>>)  BY HexShift
  <2>. QED  BY <2>1 DEF tableil8_o56, tableil8_o64, Table
<1>13. tableil8_o72[7] = Shifted(tableil8_o64[0])
  <2>1. Shifted(Hex(<<\h3811, \h6fac>>)) = Hex(<<\h1c08, \hb7d6>>)  BY HexShift
  <2>. QED  BY <2>1 DEF tableil8_o64, tableil8_o72, Table
<1>14. tableil8_o80[7] = Shifted(tableil8_o72[0])
  <2>1. Shifted(Hex(<<\hef30, \h6b19>>)) = Hex(<<\hf56e, \h0ef4>>)  BY HexShift
  <2>. QED  BY <2>1 DEF tableil8_o72, tableil8_o80, Table
<1>15. tableil8_o88[7] = Shifted(tableil8_o80[0])
  <2>1. Shifted(Hex(<<\h6803, \h2cc8>>)) = Hex(<<\h3401, \h9664>>)  BY HexShift
  <2>. QED  BY <2>1 DEF tableil8_o80, tableil8_o88, Table
<1>. QED  BY <1>1, <1>2, <1>3, <1>4, <1>5, <1>6, <1>7, <1>8, <1>9, <1>10, <1>11, <1>12, <1>13, <1>14,
         <1>15, SingleBitsShift, FirstShift DEF Follows, SingleBits

----------------------------------------------------------------------------

\* Exclusive or is that of Booleans, bit by bit.
LEMMA XorLaws ==
    ASSUME NEW a, NEW b, NEW c
    PROVE  /\ a \oplus b = b \oplus a
           /\ (a \oplus b) \oplus c = a \oplus (b \oplus c)
           /\ a \oplus {} = a /\ {} \oplus a = a
BY DEF \oplus

\* Moving to the right is linear.
LEMMA ShiftOfXor ==
    ASSUME NEW a \in Word, NEW b \in Word, NEW n \in Nat
    PROVE  ShiftRight(a \oplus b, n) = ShiftRight(a, n) \oplus ShiftRight(b, n)
<1>1. a \oplus b \in Word
  BY XorIsWord
<1>. QED  BY <1>1, ShiftBits DEF \oplus

\* So is a shift of the register.
LEMMA ShiftedIsLinear ==
    ASSUME NEW a \in Word, NEW b \in Word
    PROVE  Shifted(a \oplus b) = Shifted(a) \oplus Shifted(b)
<1>1. ShiftRight(a \oplus b, 1) = ShiftRight(a, 1) \oplus ShiftRight(b, 1)
  BY ShiftOfXor
<1>2. 0 \in a \oplus b <=> (0 \in a) # (0 \in b)
  BY DEF \oplus
<1> DEFINE s == ShiftRight(a, 1)  t == ShiftRight(b, 1)
<1>3. /\ s \oplus (t \oplus Polynomial) = (s \oplus t) \oplus Polynomial
      /\ (s \oplus Polynomial) \oplus t = (s \oplus t) \oplus Polynomial
      /\ (s \oplus Polynomial) \oplus (t \oplus Polynomial) = s \oplus t
  BY DEF \oplus
<1>. QED  BY <1>1, <1>2, <1>3 DEF Shifted

\* The register with eight bits shifted out of it.
ByteShifted(w) == Shifted(Shifted(Shifted(Shifted(Shifted(Shifted(Shifted(Shifted(w))))))))

\* It is a word.
LEMMA ByteShiftedIsWord == ASSUME NEW w \in Word PROVE ByteShifted(w) \in Word
BY ShiftedBits DEF ByteShifted

\* It is linear, too.
LEMMA ByteShiftedIsLinear ==
    ASSUME NEW a \in Word, NEW b \in Word
    PROVE  ByteShifted(a \oplus b) = ByteShifted(a) \oplus ByteShifted(b)
<1>1. \A v, w \in Word : Shifted(v) \in Word /\ Shifted(v \oplus w) = Shifted(v) \oplus Shifted(w)
  BY ShiftedBits, ShiftedIsLinear
<1>. QED  BY <1>1 DEF ByteShifted

\* Bits that are not in the lowest byte move down by a byte.
LEMMA HighBytesMove ==
    ASSUME NEW w \in Word, w \cap 0 .. 7 = {}
    PROVE  ByteShifted(w) = ShiftRight(w, 8)
<1>1. ASSUME NEW k \in 0 .. 7
      PROVE  Shifted(ShiftRight(w, k)) = ShiftRight(w, k + 1)
  <2>1. ShiftRight(w, k) = {i \in 0 .. 31 : i + k \in w} /\ ShiftRight(w, k + 1) = {i \in 0 .. 31 : i + k + 1 \in w}
    BY ShiftBits
  <2>2. 0 \notin ShiftRight(w, k) /\ ShiftRight(w, k) \in Word
    BY <2>1 DEF Word
  <2>3. ShiftRight(ShiftRight(w, k), 1) = {i \in 0 .. 31 : i + 1 \in ShiftRight(w, k)}
    BY <2>2, ShiftBits
  <2>4. ShiftRight(ShiftRight(w, k), 1) = ShiftRight(w, k + 1)
    BY <2>1, <2>3 DEF Word
  <2>. QED  BY <2>2, <2>4 DEF Shifted
<1>2. ShiftRight(w, 0) = w
  <2>1. ShiftRight(w, 0) = {i \in 0 .. 31 : i + 0 \in w}
    BY ShiftBits
  <2>2. \A i \in 0 .. 31 : i + 0 = i
    OBVIOUS
  <2>. QED  BY <2>1, <2>2 DEF Word
<1>3. /\ Shifted(ShiftRight(w, 0)) = ShiftRight(w, 1)
      /\ Shifted(ShiftRight(w, 1)) = ShiftRight(w, 2)
      /\ Shifted(ShiftRight(w, 2)) = ShiftRight(w, 3)
      /\ Shifted(ShiftRight(w, 3)) = ShiftRight(w, 4)
      /\ Shifted(ShiftRight(w, 4)) = ShiftRight(w, 5)
      /\ Shifted(ShiftRight(w, 5)) = ShiftRight(w, 6)
      /\ Shifted(ShiftRight(w, 6)) = ShiftRight(w, 7)
      /\ Shifted(ShiftRight(w, 7)) = ShiftRight(w, 8)
  BY <1>1
<1>. QED  BY <1>2, <1>3 DEF ByteShifted

\* How many bits exclusive or leaves.
LEMMA SizeOfXor ==
    ASSUME NEW A, NEW B, IsFiniteSet(A), IsFiniteSet(B)
    PROVE  /\ Cardinality(A) \in Nat /\ Cardinality(B) \in Nat /\ Cardinality(A \cap B) \in Nat
           /\ Cardinality(A \oplus B) = Cardinality(A) + Cardinality(B) - 2 * Cardinality(A \cap B)
<1>1. IsFiniteSet(A \cap B) /\ A \cap B = B \cap A
  BY FS_Subset
<1>2. /\ IsFiniteSet(A \ B) /\ Cardinality(A \ B) = Cardinality(A) - Cardinality(A \cap B)
      /\ IsFiniteSet(B \ A) /\ Cardinality(B \ A) = Cardinality(B) - Cardinality(A \cap B)
  BY <1>1, FS_Difference, ZenonT(30)
<1>3. (A \ B) \cap (B \ A) = {}
  OBVIOUS
<1>4. Cardinality((A \ B) \cup (B \ A))
        = Cardinality(A \ B) + Cardinality(B \ A) - Cardinality((A \ B) \cap (B \ A))
  BY <1>2, FS_Union
<1>5. Cardinality((A \ B) \cap (B \ A)) = 0
  BY <1>3, FS_EmptySet
<1>6. Cardinality(A) \in Nat /\ Cardinality(B) \in Nat /\ Cardinality(A \cap B) \in Nat
  BY <1>1, FS_CardinalityType
<1>. QED  BY <1>2, <1>4, <1>5, <1>6 DEF \oplus

\* The entries of bytes are those of their bits, together.
LEMMA EntryIsLinear ==
    ASSUME NEW t, NEW a \in Byte, NEW b \in Byte
    PROVE  Entry(t, a \oplus b) = Entry(t, a) \oplus Entry(t, b)
<1> DEFINE In(x, i) == {j \in x : i \in t[j]}
<1>1. ASSUME NEW i \in 0 .. 31
      PROVE  i \in Entry(t, a \oplus b) <=> (i \in Entry(t, a)) # (i \in Entry(t, b))
  <2> DEFINE A == In(a, i)  B == In(b, i)
  <2>1. IsFiniteSet(A) /\ IsFiniteSet(B)
    <3>1. IsFiniteSet(0 .. 7)
      <4>1. 0 \in Int /\ 7 \in Int
        OBVIOUS
      <4>. QED  BY <4>1, FS_Interval, Zenon
    <3>2. A \in SUBSET (0 .. 7) /\ B \in SUBSET (0 .. 7)
      BY DEF Byte
    <3>. HIDE DEF A, B
    <3>. QED  BY <3>1, <3>2, FS_Subset
  <2>2. In(a \oplus b, i) = A \oplus B
    BY DEF \oplus
  <2>. HIDE DEF A, B
  <2>3. /\ Cardinality(A) \in Nat /\ Cardinality(B) \in Nat /\ Cardinality(A \cap B) \in Nat
        /\ Cardinality(A \oplus B) = Cardinality(A) + Cardinality(B) - 2 * Cardinality(A \cap B)
    BY <2>1, SizeOfXor
  <2>7. Cardinality(In(a \oplus b, i)) % 2 = 1 <=> (Cardinality(A) % 2 = 1) # (Cardinality(B) % 2 = 1)
    <3>. HIDE DEF In
    <3>. QED  BY <2>2, <2>3
  <2>. QED  BY <2>7 DEF Entry, A, B
<1>. QED  BY <1>1, EntryIsWord DEF Word, \oplus

\* The entry of a byte of one bit.
LEMMA EntryOfBit ==
    ASSUME NEW t, NEW j \in 0 .. 7, t[j] \in Word
    PROVE  Entry(t, {j}) = t[j]
<1>1. ASSUME NEW i \in 0 .. 31 PROVE i \in Entry(t, {j}) <=> i \in t[j]
  <2>1. CASE i \in t[j]
    <3>1. {k \in {j} : i \in t[k]} = {j}
      BY <2>1
    <3>2. Cardinality({j}) = 1
      BY FS_Singleton
    <3>. QED  BY <2>1, <3>1, <3>2 DEF Entry
  <2>2. CASE i \notin t[j]
    <3>1. {k \in {j} : i \in t[k]} = {}
      BY <2>2
    <3>2. Cardinality({}) = 0
      BY FS_EmptySet
    <3>. QED  BY <2>2, <3>1, <3>2 DEF Entry
  <2>. QED  BY <2>1, <2>2
<1>. QED  BY <1>1, EntryIsWord DEF Word

\* The entry of the byte without bits.
LEMMA EntryOfNone == ASSUME NEW t PROVE Entry(t, {}) = {}
<1>1. \A i : {j \in {} : i \in t[j]} = {}
  OBVIOUS
<1>2. Cardinality({}) = 0
  BY FS_EmptySet
<1>. QED  BY <1>1, <1>2 DEF Entry

\* All entries of a table are words.
IsTable(t) == \A j \in 0 .. 7 : t[j] \in Word

\* A table that follows one of words has words.
LEMMA FollowedByWords ==
    ASSUME NEW t, NEW u, Follows(t, u), IsTable(t)
    PROVE  IsTable(u)
<1>1. u[7] \in Word
  BY ShiftedBits DEF Follows, IsTable
<1>2. \A j \in 0 .. 6 : u[j] = Shifted(u[j + 1])
  BY DEF Follows, ShiftsDown
<1>3. u[6] = Shifted(u[7]) /\ u[5] = Shifted(u[6]) /\ u[4] = Shifted(u[5]) /\ u[3] = Shifted(u[4])
        /\ u[2] = Shifted(u[3]) /\ u[1] = Shifted(u[2]) /\ u[0] = Shifted(u[1])
  BY <1>2
<1>4. \A w \in Word : Shifted(w) \in Word
  BY ShiftedBits
<1>5. u[7] \in Word /\ u[6] \in Word /\ u[5] \in Word /\ u[4] \in Word /\ u[3] \in Word
        /\ u[2] \in Word /\ u[1] \in Word /\ u[0] \in Word
  BY <1>1, <1>3, <1>4
<1>. QED  BY <1>5 DEF IsTable

\* A table that follows another has its entries, eight shifts on.
LEMMA EntriesFollow ==
    ASSUME NEW t, NEW u, Follows(t, u), IsTable(t), NEW b \in Byte
    PROVE  ByteShifted(Entry(t, b)) = Entry(u, b)
<1>1. ASSUME NEW j \in 0 .. 7 PROVE ByteShifted(t[j]) = u[j]
  <2>1. /\ \A i \in 0 .. 6 : t[i] = Shifted(t[i + 1])
        /\ \A i \in 0 .. 6 : u[i] = Shifted(u[i + 1])
    BY DEF Follows, ShiftsDown
  <2>2. t[6] = Shifted(t[7]) /\ t[5] = Shifted(t[6]) /\ t[4] = Shifted(t[5]) /\ t[3] = Shifted(t[4])
          /\ t[2] = Shifted(t[3]) /\ t[1] = Shifted(t[2]) /\ t[0] = Shifted(t[1])
    BY <2>1
  <2>3. u[6] = Shifted(u[7]) /\ u[5] = Shifted(u[6]) /\ u[4] = Shifted(u[5]) /\ u[3] = Shifted(u[4])
          /\ u[2] = Shifted(u[3]) /\ u[1] = Shifted(u[2]) /\ u[0] = Shifted(u[1])
    BY <2>1
  <2>4. u[7] = Shifted(t[0])
    BY DEF Follows
  <2>5. j \in {0, 1, 2, 3, 4, 5, 6, 7}
    OBVIOUS
  <2>. QED  BY <2>2, <2>3, <2>4, <2>5 DEF ByteShifted
<1> DEFINE Agree(c) == ByteShifted(Entry(t, c)) = Entry(u, c)
           Low(k) == b \cap 0 .. (k - 1)
<1>2. IsTable(u)
  BY FollowedByWords
<1>3. Agree({})
  <2>1. {} \in Word /\ {} \cap 0 .. 7 = {}
    BY DEF Word
  <2>2. ShiftRight({}, 8) = {}
    BY DEF ShiftRight
  <2>. QED  BY <2>1, <2>2, HighBytesMove, EntryOfNone
<1>4. ASSUME NEW k \in 0 .. 7, Agree(Low(k)) PROVE Agree(Low(k + 1))
  <2>1. CASE k \notin b
    <3>1. Low(k + 1) = Low(k)
      BY <2>1
    <3>. QED  BY <1>4, <3>1
  <2>2. CASE k \in b
    <3>1. Low(k + 1) = Low(k) \oplus {k} /\ Low(k) \in Byte /\ {k} \in Byte
      BY <2>2 DEF \oplus, Byte
    <3>. HIDE DEF Low
    <3>2. /\ Entry(t, Low(k + 1)) = Entry(t, Low(k)) \oplus t[k]
          /\ Entry(u, Low(k + 1)) = Entry(u, Low(k)) \oplus u[k]
      <4>1. Entry(t, {k}) = t[k] /\ Entry(u, {k}) = u[k]
        BY <1>2, EntryOfBit DEF IsTable
      <4>. QED  BY <3>1, <4>1, EntryIsLinear
    <3>3. Entry(t, Low(k)) \in Word /\ t[k] \in Word
      BY EntryIsWord DEF IsTable
    <3>. QED  BY <1>1, <1>4, <3>2, <3>3, ByteShiftedIsLinear
  <2>. QED  BY <2>1, <2>2
<1>5. Low(0) = {} /\ Low(8) = b
  <2>1. 0 .. (0 - 1) = {} /\ 0 .. (8 - 1) = 0 .. 7
    OBVIOUS
  <2>. QED  BY <2>1 DEF Byte
<1>. HIDE DEF Agree, Low
<1>6. Agree(Low(0)) /\ Agree(Low(1)) /\ Agree(Low(2)) /\ Agree(Low(3)) /\ Agree(Low(4))
        /\ Agree(Low(5)) /\ Agree(Low(6)) /\ Agree(Low(7)) /\ Agree(Low(8))
  <2>1. Agree(Low(0))
    BY <1>3, <1>5
  <2>2. \A k \in 0 .. 7 : Agree(Low(k)) => Agree(Low(k + 1))
    BY <1>4
  <2>. QED  BY <2>1, <2>2
<1>. QED  BY <1>5, <1>6 DEF Agree

\* A byte that is not shifted is its own entry.
LEMMA EntryOfSingleBits == ASSUME NEW b \in Byte PROVE Entry(SingleBits, b) = b
<1>1. ASSUME NEW i \in 0 .. 31 PROVE i \in Entry(SingleBits, b) <=> i \in b
  <2>1. CASE i \in b
    <3>1. {j \in b : i \in SingleBits[j]} = {i}
      BY <2>1 DEF SingleBits, Byte
    <3>2. Cardinality({i}) = 1
      BY FS_Singleton
    <3>. QED  BY <2>1, <3>1, <3>2 DEF Entry
  <2>2. CASE i \notin b
    <3>1. {j \in b : i \in SingleBits[j]} = {}
      BY <2>2 DEF SingleBits, Byte
    <3>2. Cardinality({}) = 0
      BY FS_EmptySet
    <3>. QED  BY <2>2, <3>1, <3>2 DEF Entry
  <2>. QED  BY <2>1, <2>2
<1>2. Entry(SingleBits, b) \subseteq 0 .. 31 /\ b \subseteq 0 .. 31
  BY EntryIsWord DEF Word, Byte
<1>. QED  BY <1>1, <1>2

\* The table does to the register what the eight bits of a byte do.
LEMMA TableTakesByte ==
    ASSUME NEW w \in Word, NEW b \in Byte
    PROVE  ByteShifted(w \oplus b)
             = Entry(tableil8_o32, ByteOf(w \oplus b, 0)) \oplus ShiftRight(w, 8)
<1> DEFINE x == w \oplus b
           low == x \cap 0 .. 7
           high == x \ 0 .. 7
<1>1. x \in Word
  BY DEF \oplus, Word, Byte
<1>2. ShiftRight(x, 8) = ShiftRight(w, 8)
  <2>1. /\ ShiftRight(x, 8) = {i \in 0 .. 31 : i + 8 \in x}
        /\ ShiftRight(w, 8) = {i \in 0 .. 31 : i + 8 \in w}
    BY <1>1, ShiftBits
  <2>2. \A i \in 0 .. 31 : i + 8 \in x <=> i + 8 \in w
    BY DEF \oplus, Byte
  <2>. QED  BY <2>1, <2>2
<1>3. ShiftRight(high, 8) = ShiftRight(x, 8) /\ high \in Word
  <2>1. high \in Word
    BY <1>1 DEF Word
  <2>2. /\ ShiftRight(x, 8) = {i \in 0 .. 31 : i + 8 \in x}
        /\ ShiftRight(high, 8) = {i \in 0 .. 31 : i + 8 \in high}
    BY <1>1, <2>1, ShiftBits
  <2>3. \A i \in 0 .. 31 : i + 8 \in x <=> i + 8 \in high
    OBVIOUS
  <2>. QED  BY <2>1, <2>2, <2>3
<1>4. ByteOf(x, 0) = low
  <2>1. ShiftRight(x, 8 * 0) = {i \in 0 .. 31 : i + 0 \in x}
    BY <1>1, ShiftBits
  <2>2. \A i \in 0 .. 31 : i + 0 = i
    OBVIOUS
  <2>. QED  BY <1>1, <2>1, <2>2 DEF ByteOf, Word
<1>5. x = low \oplus high /\ low \in Word /\ low \in Byte
  BY <1>1 DEF \oplus, Word, Byte
<1>6. ByteShifted(low) = Entry(tableil8_o32, low)
  <2>1. IsTable(SingleBits)
    BY DEF IsTable, SingleBits, Word
  <2>. QED  BY <1>5, <2>1, EntriesFollow, EntryOfSingleBits, TablesFollow
<1>7. ByteShifted(high) = ShiftRight(high, 8)
  BY <1>3, HighBytesMove
<1>. QED  BY <1>2, <1>3, <1>4, <1>5, <1>6, <1>7, ByteShiftedIsLinear

----------------------------------------------------------------------------

\* Four bytes as one word, the first of them lowest.
Loaded(c0, c1, c2, c3) ==
    c0 \cup {i + 8 : i \in c1} \cup {i + 16 : i \in c2} \cup {i + 24 : i \in c3}

\* The register after a byte.
After(w, b) == ByteShifted(w \oplus b)

\* It is a word.
LEMMA AfterIsWord == ASSUME NEW w \in Word, NEW b \in Byte PROVE After(w, b) \in Word
<1>1. b \in Word
  BY DEF Word, Byte
<1>. QED  BY <1>1, XorIsWord, ByteShiftedIsWord DEF After

\* Of a register in two parts, a byte goes into one and the other is shifted.
LEMMA AfterSplits ==
    ASSUME NEW v \in Word, NEW w \in Word, NEW b \in Byte
    PROVE  After(v \oplus w, b) = ByteShifted(v) \oplus After(w, b)
<1>1. b \in Word
  BY DEF Word, Byte
<1>2. (v \oplus w) \oplus b = v \oplus (w \oplus b)
  BY XorLaws
<1>3. w \oplus b \in Word
  BY <1>1, XorIsWord
<1>. QED  BY <1>2, <1>3, ByteShiftedIsLinear DEF After

\* The bytes of the register and of the loaded word, together, are what the bytes
\* one after the other meet in the lowest place.
LEMMA LoadedBytes ==
    ASSUME NEW w \in Word, NEW c0 \in Byte, NEW c1 \in Byte, NEW c2 \in Byte, NEW c3 \in Byte,
           NEW x, x = w \oplus Loaded(c0, c1, c2, c3)
    PROVE  /\ x \in Word
           /\ ByteOf(w \oplus c0, 0) = ByteOf(x, 0)
           /\ ByteOf(ShiftRight(w, 8) \oplus c1, 0) = ByteOf(x, 1)
           /\ ByteOf(ShiftRight(w, 16) \oplus c2, 0) = ByteOf(x, 2)
           /\ ByteOf(ShiftRight(w, 24) \oplus c3, 0) = ByteOf(x, 3)
<1>1. /\ c0 \subseteq 0 .. 7 /\ c1 \subseteq 0 .. 7 /\ c2 \subseteq 0 .. 7 /\ c3 \subseteq 0 .. 7
      /\ w \subseteq 0 .. 31
  BY DEF Byte, Word
<1>2. x \in Word
  <2>1. Loaded(c0, c1, c2, c3) \in Word
    <3>1. /\ c0 \subseteq 0 .. 31 /\ {i + 8 : i \in c1} \subseteq 0 .. 31
          /\ {i + 16 : i \in c2} \subseteq 0 .. 31 /\ {i + 24 : i \in c3} \subseteq 0 .. 31
      BY <1>1
    <3>. QED  BY <3>1 DEF Loaded, Word
  <2>. QED  BY <2>1, XorIsWord
<1>3. ASSUME NEW v \in Word, NEW n \in 0 .. 3
      PROVE  ByteOf(v, n) = {i \in 0 .. 7 : i + 8 * n \in v}
  <2>1. ShiftRight(v, 8 * n) = {i \in 0 .. 31 : i + 8 * n \in v}
    BY ShiftBits
  <2>. QED  BY <2>1 DEF ByteOf
<1>4. ASSUME NEW n \in 0 .. 3, NEW c \in Byte
      PROVE  ByteOf(ShiftRight(w, 8 * n) \oplus c, 0) = {i \in 0 .. 7 : (i + 8 * n \in w) # (i \in c)}
  <2>1. ShiftRight(w, 8 * n) = {i \in 0 .. 31 : i + 8 * n \in w}
    BY ShiftBits
  <2>2. ShiftRight(w, 8 * n) \oplus c \in Word
    <3>1. ShiftRight(w, 8 * n) \in Word /\ c \in Word
      BY <2>1 DEF Word, Byte
    <3>. QED  BY <3>1, XorIsWord
  <2>3. ByteOf(ShiftRight(w, 8 * n) \oplus c, 0) = {i \in 0 .. 7 : i + 8 * 0 \in ShiftRight(w, 8 * n) \oplus c}
    BY <1>3, <2>2
  <2>4. \A i \in 0 .. 7 : i + 8 * 0 = i
    OBVIOUS
  <2>5. \A i \in 0 .. 7 : i \in ShiftRight(w, 8 * n) \oplus c <=> (i + 8 * n \in w) # (i \in c)
    BY <2>1 DEF \oplus
  <2>. QED  BY <2>3, <2>4, <2>5
<1>5. ASSUME NEW i \in 0 .. 7
      PROVE  /\ i \in Loaded(c0, c1, c2, c3) <=> i \in c0
             /\ i + 8 \in Loaded(c0, c1, c2, c3) <=> i \in c1
             /\ i + 16 \in Loaded(c0, c1, c2, c3) <=> i \in c2
             /\ i + 24 \in Loaded(c0, c1, c2, c3) <=> i \in c3
  BY <1>1 DEF Loaded
<1>6. \A k : k \in x <=> (k \in w) # (k \in Loaded(c0, c1, c2, c3))
  BY DEF \oplus
<1>7. /\ ByteOf(x, 0) = {i \in 0 .. 7 : (i + 8 * 0 \in w) # (i \in c0)}
      /\ ByteOf(x, 1) = {i \in 0 .. 7 : (i + 8 * 1 \in w) # (i \in c1)}
      /\ ByteOf(x, 2) = {i \in 0 .. 7 : (i + 8 * 2 \in w) # (i \in c2)}
      /\ ByteOf(x, 3) = {i \in 0 .. 7 : (i + 8 * 3 \in w) # (i \in c3)}
  <2>1. /\ \A i \in 0 .. 7 : i + 8 * 0 \in x <=> (i + 8 * 0 \in w) # (i \in c0)
        /\ \A i \in 0 .. 7 : i + 8 * 1 \in x <=> (i + 8 * 1 \in w) # (i \in c1)
        /\ \A i \in 0 .. 7 : i + 8 * 2 \in x <=> (i + 8 * 2 \in w) # (i \in c2)
        /\ \A i \in 0 .. 7 : i + 8 * 3 \in x <=> (i + 8 * 3 \in w) # (i \in c3)
    BY <1>5, <1>6
  <2>. QED  BY <1>2, <1>3, <2>1
<1>8. /\ ByteOf(ShiftRight(w, 8 * 0) \oplus c0, 0) = ByteOf(x, 0)
      /\ ByteOf(ShiftRight(w, 8 * 1) \oplus c1, 0) = ByteOf(x, 1)
      /\ ByteOf(ShiftRight(w, 8 * 2) \oplus c2, 0) = ByteOf(x, 2)
      /\ ByteOf(ShiftRight(w, 8 * 3) \oplus c3, 0) = ByteOf(x, 3)
  <2>1. 0 \in 0 .. 3 /\ 1 \in 0 .. 3 /\ 2 \in 0 .. 3 /\ 3 \in 0 .. 3
    OBVIOUS
  <2>2. ByteOf(ShiftRight(w, 8 * 0) \oplus c0, 0) = ByteOf(x, 0)
    BY <1>4, <1>7, <2>1, Zenon
  <2>3. ByteOf(ShiftRight(w, 8 * 1) \oplus c1, 0) = ByteOf(x, 1)
    BY <1>4, <1>7, <2>1, Zenon
  <2>4. ByteOf(ShiftRight(w, 8 * 2) \oplus c2, 0) = ByteOf(x, 2)
    BY <1>4, <1>7, <2>1, Zenon
  <2>5. ByteOf(ShiftRight(w, 8 * 3) \oplus c3, 0) = ByteOf(x, 3)
    BY <1>4, <1>7, <2>1, Zenon
  <2>. QED  BY <2>2, <2>3, <2>4, <2>5
<1>9. ShiftRight(w, 8 * 0) = w
  <2>1. ShiftRight(w, 8 * 0) = {i \in 0 .. 31 : i + 0 \in w}
    BY ShiftBits
  <2>2. \A i \in 0 .. 31 : i + 0 = i
    OBVIOUS
  <2>. QED  BY <1>1, <2>1, <2>2
<1>. QED  BY <1>2, <1>8, <1>9

\* Two moves to the right are one.
LEMMA ShiftTwice ==
    ASSUME NEW w \in Word, NEW m \in Nat, NEW n \in Nat
    PROVE  /\ ShiftRight(w, m) \in Word
           /\ ShiftRight(ShiftRight(w, m), n) = ShiftRight(w, m + n)
<1>1. ShiftRight(w, m) = {i \in 0 .. 31 : i + m \in w} /\ ShiftRight(w, m + n) = {i \in 0 .. 31 : i + (m + n) \in w}
  BY ShiftBits
<1>2. ShiftRight(w, m) \in Word
  BY <1>1 DEF Word
<1>3. ShiftRight(ShiftRight(w, m), n) = {i \in 0 .. 31 : i + n \in ShiftRight(w, m)}
  BY <1>2, ShiftBits
<1>4. \A i \in 0 .. 31 : i + n \in ShiftRight(w, m) <=> i + (m + n) \in w
  <2>1. w \subseteq 0 .. 31
    BY DEF Word
  <2>. QED  BY <1>1, <2>1
<1>. QED  BY <1>1, <1>2, <1>3, <1>4

\* All tables are of words.
LEMMA TablesAreWords ==
    /\ IsTable(tableil8_o32) /\ IsTable(tableil8_o40) /\ IsTable(tableil8_o48) /\ IsTable(tableil8_o56)
    /\ IsTable(tableil8_o64) /\ IsTable(tableil8_o72) /\ IsTable(tableil8_o80) /\ IsTable(tableil8_o88)
<1>1. IsTable(SingleBits)
  BY DEF IsTable, SingleBits, Word
<1>. QED  BY <1>1, TablesFollow, FollowedByWords

\* What a byte is worth in one table is worth eight shifts less than in the next.
LEMMA EntriesShift ==
    ASSUME NEW b \in Byte
    PROVE  /\ ByteShifted(Entry(tableil8_o32, b)) = Entry(tableil8_o40, b)
           /\ ByteShifted(Entry(tableil8_o40, b)) = Entry(tableil8_o48, b)
           /\ ByteShifted(Entry(tableil8_o48, b)) = Entry(tableil8_o56, b)
           /\ ByteShifted(Entry(tableil8_o56, b)) = Entry(tableil8_o64, b)
           /\ ByteShifted(Entry(tableil8_o64, b)) = Entry(tableil8_o72, b)
           /\ ByteShifted(Entry(tableil8_o72, b)) = Entry(tableil8_o80, b)
           /\ ByteShifted(Entry(tableil8_o80, b)) = Entry(tableil8_o88, b)
BY TablesFollow, TablesAreWords, EntriesFollow

\* Four bytes one after the other do what the second word of a slice does.
LEMMA FourBytes ==
    ASSUME NEW w \in Word, NEW c0 \in Byte, NEW c1 \in Byte, NEW c2 \in Byte, NEW c3 \in Byte
    PROVE  After(After(After(After(w, c0), c1), c2), c3)
             = TermsOfSecond(w \oplus Loaded(c0, c1, c2, c3))
<1> DEFINE x == w \oplus Loaded(c0, c1, c2, c3)
           b0 == ByteOf(x, 0)
           b1 == ByteOf(x, 1)
           b2 == ByteOf(x, 2)
           b3 == ByteOf(x, 3)
           w1 == ShiftRight(w, 8)
           w2 == ShiftRight(w, 16)
           w3 == ShiftRight(w, 24)
<1>1. b0 \in Byte /\ b1 \in Byte /\ b2 \in Byte /\ b3 \in Byte
  BY DEF ByteOf, Byte
<1>2. /\ w1 \in Word /\ w2 \in Word /\ w3 \in Word
      /\ ShiftRight(w1, 8) = w2 /\ ShiftRight(w2, 8) = w3 /\ ShiftRight(w3, 8) = {}
  <2>1. ShiftRight(w, 32) = {}
    BY DEF ShiftRight, Word
  <2>. QED  BY <2>1, ShiftTwice
<1>3. /\ After(w, c0) = Entry(tableil8_o32, b0) \oplus w1
      /\ After(w1, c1) = Entry(tableil8_o32, b1) \oplus w2
      /\ After(w2, c2) = Entry(tableil8_o32, b2) \oplus w3
      /\ After(w3, c3) = Entry(tableil8_o32, b3)
  <2>1. /\ ByteOf(w \oplus c0, 0) = b0
        /\ ByteOf(w1 \oplus c1, 0) = b1
        /\ ByteOf(w2 \oplus c2, 0) = b2
        /\ ByteOf(w3 \oplus c3, 0) = b3
    BY LoadedBytes
  <2>2. After(w3, c3) = Entry(tableil8_o32, b3) \oplus {}
    BY <1>2, <2>1, TableTakesByte DEF After
  <2>. QED  BY <1>2, <2>1, <2>2, TableTakesByte, XorLaws DEF After
<1>. HIDE DEF x, b0, b1, b2, b3, w1, w2, w3
<1>4. \A t, b : Entry(t, b) \in Word
  BY EntryIsWord
<1>5. After(After(w, c0), c1)
        = (Entry(tableil8_o40, b0) \oplus Entry(tableil8_o32, b1)) \oplus w2
  BY <1>1, <1>2, <1>3, <1>4, AfterSplits, EntriesShift, XorLaws
<1>6. After(After(After(w, c0), c1), c2)
        = ((Entry(tableil8_o48, b0) \oplus Entry(tableil8_o40, b1)) \oplus Entry(tableil8_o32, b2)) \oplus w3
  <2> DEFINE p == Entry(tableil8_o40, b0) \oplus Entry(tableil8_o32, b1)
  <2>1. p \in Word /\ ByteShifted(p) = Entry(tableil8_o48, b0) \oplus Entry(tableil8_o40, b1)
    BY <1>1, <1>4, XorIsWord, ByteShiftedIsLinear, EntriesShift
  <2>. HIDE DEF p
  <2>2. After(p \oplus w2, c2) = ByteShifted(p) \oplus After(w2, c2)
    BY <1>2, <2>1, AfterSplits
  <2>3. After(After(After(w, c0), c1), c2) = ByteShifted(p) \oplus (Entry(tableil8_o32, b2) \oplus w3)
    BY <1>3, <1>5, <2>2 DEF p
  <2>. QED  BY <2>1, <2>3, XorLaws
<1>7. After(After(After(After(w, c0), c1), c2), c3)
        = ((Entry(tableil8_o56, b0) \oplus Entry(tableil8_o48, b1)) \oplus Entry(tableil8_o40, b2))
            \oplus Entry(tableil8_o32, b3)
  <2> DEFINE p == Entry(tableil8_o48, b0) \oplus Entry(tableil8_o40, b1)
             q == p \oplus Entry(tableil8_o32, b2)
  <2>1. p \in Word /\ ByteShifted(p) = Entry(tableil8_o56, b0) \oplus Entry(tableil8_o48, b1)
    BY <1>1, <1>4, XorIsWord, ByteShiftedIsLinear, EntriesShift
  <2>2. q \in Word /\ ByteShifted(q) = ByteShifted(p) \oplus Entry(tableil8_o40, b2)
    <3>. HIDE DEF p
    <3>. QED  BY <1>1, <1>4, <2>1, XorIsWord, ByteShiftedIsLinear, EntriesShift
  <2>3. After(q \oplus w3, c3) = ByteShifted(q) \oplus After(w3, c3)
    <3>. HIDE DEF q
    <3>. QED  BY <1>2, <2>2, AfterSplits
  <2>. QED  BY <1>3, <1>6, <2>1, <2>2, <2>3
<1>. QED  BY <1>7 DEF TermsOfSecond, x, b0, b1, b2, b3

\* Four bytes later, the terms of the second word are those of the first.
LEMMA TermsShift ==
    ASSUME NEW x
    PROVE  /\ TermsOfSecond(x) \in Word
           /\ ByteShifted(ByteShifted(ByteShifted(ByteShifted(TermsOfSecond(x))))) = TermsOfFirst(x)
<1> DEFINE b0 == ByteOf(x, 0)
           b1 == ByteOf(x, 1)
           b2 == ByteOf(x, 2)
           b3 == ByteOf(x, 3)
<1>1. b0 \in Byte /\ b1 \in Byte /\ b2 \in Byte /\ b3 \in Byte
  BY DEF ByteOf, Byte
<1>. HIDE DEF b0, b1, b2, b3
<1>2. ASSUME NEW p \in Word, NEW q \in Word, NEW r \in Word, NEW s \in Word
      PROVE  /\ ((p \oplus q) \oplus r) \oplus s \in Word
             /\ ByteShifted(((p \oplus q) \oplus r) \oplus s)
                  = ((ByteShifted(p) \oplus ByteShifted(q)) \oplus ByteShifted(r)) \oplus ByteShifted(s)
  <2>1. p \oplus q \in Word /\ (p \oplus q) \oplus r \in Word
    BY XorIsWord
  <2>. QED  BY <2>1, XorIsWord, ByteShiftedIsLinear
<1>3. \A t, b : Entry(t, b) \in Word
  BY EntryIsWord
<1> DEFINE v(t0, t1, t2, t3) ==
             ((Entry(t0, b0) \oplus Entry(t1, b1)) \oplus Entry(t2, b2)) \oplus Entry(t3, b3)
<1>4. /\ v(tableil8_o56, tableil8_o48, tableil8_o40, tableil8_o32) \in Word
      /\ ByteShifted(v(tableil8_o56, tableil8_o48, tableil8_o40, tableil8_o32))
           = v(tableil8_o64, tableil8_o56, tableil8_o48, tableil8_o40)
      /\ ByteShifted(v(tableil8_o64, tableil8_o56, tableil8_o48, tableil8_o40))
           = v(tableil8_o72, tableil8_o64, tableil8_o56, tableil8_o48)
      /\ ByteShifted(v(tableil8_o72, tableil8_o64, tableil8_o56, tableil8_o48))
           = v(tableil8_o80, tableil8_o72, tableil8_o64, tableil8_o56)
      /\ ByteShifted(v(tableil8_o80, tableil8_o72, tableil8_o64, tableil8_o56))
           = v(tableil8_o88, tableil8_o80, tableil8_o72, tableil8_o64)
  BY <1>1, <1>2, <1>3, EntriesShift, SMTT(30)
<1>5. /\ TermsOfSecond(x) = v(tableil8_o56, tableil8_o48, tableil8_o40, tableil8_o32)
      /\ TermsOfFirst(x) = v(tableil8_o88, tableil8_o80, tableil8_o72, tableil8_o64)
  BY DEF TermsOfSecond, TermsOfFirst, b0, b1, b2, b3
<1>. HIDE DEF v
<1>. QED  BY <1>4, <1>5

\* A slice does what its eight bytes do one after the other.
LEMMA EightBytes ==
    ASSUME NEW w \in Word, NEW c \in [1 .. 8 -> Byte]
    PROVE  After(After(After(After(After(After(After(After(w, c[1]), c[2]), c[3]), c[4]), c[5]), c[6]), c[7]), c[8])
             = TermsOfFirst(w \oplus Loaded(c[1], c[2], c[3], c[4]))
                 \oplus TermsOfSecond(Loaded(c[5], c[6], c[7], c[8]))
<1> DEFINE v == TermsOfSecond(w \oplus Loaded(c[1], c[2], c[3], c[4]))
           v1 == ByteShifted(v)
           v2 == ByteShifted(v1)
           v3 == ByteShifted(v2)
           r1 == After({}, c[5])
           r2 == After(r1, c[6])
           r3 == After(r2, c[7])
           r4 == After(r3, c[8])
<1>c. /\ c[1] \in Byte /\ c[2] \in Byte /\ c[3] \in Byte /\ c[4] \in Byte
      /\ c[5] \in Byte /\ c[6] \in Byte /\ c[7] \in Byte /\ c[8] \in Byte
  OBVIOUS
<1>1. After(After(After(After(w, c[1]), c[2]), c[3]), c[4]) = v
  BY <1>c, FourBytes
<1>2. v \in Word /\ v1 \in Word /\ v2 \in Word /\ v3 \in Word
  BY TermsShift, ByteShiftedIsWord
<1>3. {} \in Word /\ r1 \in Word /\ r2 \in Word /\ r3 \in Word
  <2>1. {} \in Word
    BY DEF Word
  <2>. QED  BY <1>c, <2>1, AfterIsWord
<1>4. r4 = TermsOfSecond(Loaded(c[5], c[6], c[7], c[8]))
  <2>1. {} \oplus Loaded(c[5], c[6], c[7], c[8]) = Loaded(c[5], c[6], c[7], c[8])
    BY XorLaws
  <2>. QED  BY <1>c, <1>3, <2>1, FourBytes
<1>5. ByteShifted(v3) = TermsOfFirst(w \oplus Loaded(c[1], c[2], c[3], c[4]))
  BY TermsShift
<1>6. v = v \oplus {}
  BY XorLaws
<1>. HIDE DEF v, v1, v2, v3, r1, r2, r3, r4
<1>7. After(v, c[5]) = v1 \oplus r1
  BY <1>c, <1>2, <1>3, <1>6, AfterSplits DEF v1, r1
<1>8. After(v1 \oplus r1, c[6]) = v2 \oplus r2
  BY <1>c, <1>2, <1>3, AfterSplits DEF v2, r2
<1>9. After(v2 \oplus r2, c[7]) = v3 \oplus r3
  BY <1>c, <1>2, <1>3, AfterSplits DEF v3, r3
<1>10. After(v3 \oplus r3, c[8]) = ByteShifted(v3) \oplus r4
  BY <1>c, <1>2, <1>3, AfterSplits DEF r4
<1>. QED  BY <1>1, <1>4, <1>5, <1>7, <1>8, <1>9, <1>10

----------------------------------------------------------------------------

\* One bit goes into the register.
NextBit(w, bit) ==
    IF (0 \in w) = bit THEN ShiftRight(w, 1) ELSE ShiftRight(w, 1) \oplus Polynomial

\* The register, from the start value on, as each of the first n bits goes in.
IsRun(f, seed, bytes, n) ==
    f = [k \in 0 .. n |->
            IF k = 0 THEN seed
            ELSE LET before == f[k - 1]
                 IN  IF (0 \in before) = BitIn(bytes, k - 1)
                     THEN ShiftRight(before, 1)
                     ELSE ShiftRight(before, 1) \oplus Polynomial]

\* What a run is, value by value.
LEMMA RunValues ==
    ASSUME NEW f, NEW seed, NEW bytes, NEW n \in Nat, IsRun(f, seed, bytes, n)
    PROVE  /\ f[0] = seed
           /\ \A k \in 0 .. n - 1 : f[k + 1] = NextBit(f[k], BitIn(bytes, k))
<1>1. \A k \in 0 .. n : f[k] = IF k = 0 THEN seed ELSE NextBit(f[k - 1], BitIn(bytes, k - 1))
  BY DEF IsRun, NextBit
<1>2. ASSUME NEW k \in 0 .. n - 1 PROVE f[k + 1] = NextBit(f[k], BitIn(bytes, k))
  <2>1. k + 1 \in 0 .. n /\ k + 1 /= 0 /\ (k + 1) - 1 = k
    OBVIOUS
  <2>2. f[k + 1] = NextBit(f[(k + 1) - 1], BitIn(bytes, (k + 1) - 1))
    BY <1>1, <2>1, Zenon
  <2>. QED  BY <2>1, <2>2
<1>. QED  BY <1>1, <1>2

\* There is a run over any number of bits. No theorem of the library gives this for
\* a function of numbers without taking an operator, so it comes from the least
\* number without a run.
LEMMA RunExists ==
    ASSUME NEW seed, NEW bytes, NEW n \in Nat
    PROVE  \E f : IsRun(f, seed, bytes, n)
<1> DEFINE T == {m \in Nat : ~ \E f : IsRun(f, seed, bytes, m)}
<1>. SUFFICES ASSUME T /= {} PROVE FALSE
  OBVIOUS
<1>1. PICK m \in T : \A k \in T : m <= k
  BY LeastNat
<1>2. m /= 0
  <2>1. IsRun([k \in 0 .. 0 |-> seed], seed, bytes, 0)
    BY DEF IsRun
  <2>. QED  BY <1>1, <2>1
<1>3. PICK g : IsRun(g, seed, bytes, m - 1)
  <2>1. m - 1 \in Nat /\ ~ m <= m - 1
    BY <1>1, <1>2
  <2>. QED  BY <1>1, <2>1
<1> DEFINE f == [k \in 0 .. m |-> IF k < m THEN g[k] ELSE NextBit(g[m - 1], BitIn(bytes, m - 1))]
<1>4. IsRun(f, seed, bytes, m)
  <2>1. m \in Nat /\ m - 1 \in Nat
    BY <1>1, <1>2
  <2>2. \A k \in 0 .. m - 1 : g[k] = IF k = 0 THEN seed ELSE NextBit(g[k - 1], BitIn(bytes, k - 1))
    BY <1>3, <2>1 DEF IsRun, NextBit
  <2>3. ASSUME NEW k \in 0 .. m
        PROVE  f[k] = IF k = 0 THEN seed ELSE NextBit(f[k - 1], BitIn(bytes, k - 1))
    <3>1. CASE k = m
      BY <1>2, <2>1, <3>1
    <3>2. CASE k < m
      <4>1. f[k] = g[k] /\ k \in 0 .. m - 1
        BY <2>1, <3>2
      <4>2. k /= 0 => f[k - 1] = g[k - 1]
        BY <2>1, <3>2
      <4>. HIDE DEF f
      <4>. QED  BY <2>2, <4>1, <4>2
    <3>. QED  BY <2>1, <3>1, <3>2
  <2>4. f = [k \in 0 .. m |-> f[k]]
    OBVIOUS
  <2>. HIDE DEF f
  <2>5. [k \in 0 .. m |-> f[k]]
          = [k \in 0 .. m |-> IF k = 0 THEN seed ELSE NextBit(f[k - 1], BitIn(bytes, k - 1))]
    BY <2>3
  <2>. QED  BY <2>4, <2>5 DEF IsRun, NextBit
<1>. QED  BY <1>1, <1>4

\* Runs over the same bits are the same as far as both go.
LEMMA RunsAgree ==
    ASSUME NEW seed, NEW f, NEW b, NEW m \in Nat, IsRun(f, seed, b, m),
           NEW g, NEW c, NEW n \in Nat, IsRun(g, seed, c, n), m <= n,
           \A k \in 0 .. m - 1 : BitIn(b, k) = BitIn(c, k)
    PROVE  f[m] = g[m]
<1> DEFINE T == {k \in Nat : k <= m /\ f[k] /= g[k]}
<1>. SUFFICES ASSUME T /= {} PROVE FALSE
  OBVIOUS
<1>1. PICK k \in T : \A i \in T : k <= i
  BY LeastNat
<1>2. k /= 0
  BY <1>1, RunValues
<1>3. k - 1 \in 0 .. m - 1 /\ k - 1 \in 0 .. n - 1 /\ (k - 1) + 1 = k
  BY <1>1, <1>2
<1>4. f[k - 1] = g[k - 1]
  <2>1. k - 1 \in Nat /\ k - 1 <= m /\ ~ k <= k - 1
    BY <1>3, <1>1
  <2>. QED  BY <1>1, <2>1
<1>5. f[(k - 1) + 1] = g[(k - 1) + 1]
  BY <1>3, <1>4, RunValues
<1>. QED  BY <1>1, <1>3, <1>5

\* The checksum is where a run over all bits ends.
LEMMA RegisterIsRun ==
    ASSUME NEW seed, NEW bytes, Len(bytes) \in Nat
    PROVE  \E f : /\ IsRun(f, seed, bytes, 8 * Len(bytes))
                  /\ ShiftRegister(seed, bytes) = f[8 * Len(bytes)]
<1> DEFINE f == CHOOSE f : IsRun(f, seed, bytes, 8 * Len(bytes))
<1>1. ShiftRegister(seed, bytes) = f[8 * Len(bytes)]
  BY DEF ShiftRegister, IsRun
<1>2. IsRun(f, seed, bytes, 8 * Len(bytes))
  <2>1. \E g : IsRun(g, seed, bytes, 8 * Len(bytes))
    BY RunExists
  <2>. QED  BY <2>1
<1>. QED  BY <1>1, <1>2

\* A bit that goes in has the effect of one that was there from the start.
LEMMA BitEnters ==
    ASSUME NEW w \in Word, NEW b \in Byte, NEW j \in 0 .. 7
    PROVE  /\ NextBit(w, j \in b) \in Word
           /\ Shifted(w \oplus ShiftRight(b, j)) = NextBit(w, j \in b) \oplus ShiftRight(b, j + 1)
<1> DEFINE s == ShiftRight(b, j)
<1>1. b \in Word
  BY DEF Word, Byte
<1>2. s \in Word /\ ShiftRight(s, 1) = ShiftRight(b, j + 1)
  BY <1>1, ShiftTwice
<1>3. 0 \in s <=> j \in b
  <2>1. s = {i \in 0 .. 31 : i + j \in b}
    BY <1>1, ShiftBits
  <2>2. 0 + j = j
    OBVIOUS
  <2>. QED  BY <2>1, <2>2
<1>. HIDE DEF s
<1>4. ShiftRight(w, 1) \in Word /\ Polynomial \in Word
  <2>1. Polynomial \in Word
    BY PolynomialBits DEF Word
  <2>. QED  BY <2>1, ShiftTwice
<1>5. Shifted(w \oplus s) = Shifted(w) \oplus Shifted(s)
  BY <1>2, ShiftedIsLinear
<1> DEFINE u == ShiftRight(w, 1)  t == ShiftRight(s, 1)
<1>6. Shifted(w) \oplus Shifted(s) = NextBit(w, j \in b) \oplus t
  <2>1. /\ u \oplus (t \oplus Polynomial) = (u \oplus Polynomial) \oplus t
        /\ (u \oplus Polynomial) \oplus (t \oplus Polynomial) = u \oplus t
    BY DEF \oplus
  <2>2. CASE 0 \in w /\ j \in b
    BY <1>3, <2>1, <2>2 DEF Shifted, NextBit
  <2>3. CASE 0 \in w /\ j \notin b
    BY <1>3, <2>1, <2>3 DEF Shifted, NextBit
  <2>4. CASE 0 \notin w /\ j \in b
    BY <1>3, <2>1, <2>4 DEF Shifted, NextBit
  <2>5. CASE 0 \notin w /\ j \notin b
    BY <1>3, <2>1, <2>5 DEF Shifted, NextBit
  <2>. QED  BY <2>2, <2>3, <2>4, <2>5
<1>7. NextBit(w, j \in b) \in Word
  BY <1>4, XorIsWord DEF NextBit
<1>. QED  BY <1>2, <1>5, <1>6, <1>7 DEF s

\* Eight bits that go in one after the other have the effect of their byte.
LEMMA ByteEnters ==
    ASSUME NEW b \in Byte, NEW x, x[0] \in Word,
           \A j \in 0 .. 7 : x[j + 1] = NextBit(x[j], j \in b)
    PROVE  x[8] = After(x[0], b)
<1> DEFINE y(j) == x[j] \oplus ShiftRight(b, j)
<1>1. ASSUME NEW j \in 0 .. 7, x[j] \in Word
      PROVE  x[j + 1] \in Word /\ y(j + 1) = Shifted(y(j))
  <2>1. x[j + 1] = NextBit(x[j], j \in b)
    OBVIOUS
  <2>. QED  BY <1>1, <2>1, BitEnters
<1>. HIDE DEF y
<1>2. /\ x[0 + 1] \in Word /\ y(0 + 1) = Shifted(y(0))
      /\ x[1 + 1] \in Word /\ y(1 + 1) = Shifted(y(1))
      /\ x[2 + 1] \in Word /\ y(2 + 1) = Shifted(y(2))
      /\ x[3 + 1] \in Word /\ y(3 + 1) = Shifted(y(3))
      /\ x[4 + 1] \in Word /\ y(4 + 1) = Shifted(y(4))
      /\ x[5 + 1] \in Word /\ y(5 + 1) = Shifted(y(5))
      /\ x[6 + 1] \in Word /\ y(6 + 1) = Shifted(y(6))
      /\ x[7 + 1] \in Word /\ y(7 + 1) = Shifted(y(7))
  BY <1>1
<1>3. y(8) = ByteShifted(y(0))
  BY <1>2 DEF ByteShifted
<1>4. ShiftRight(b, 0) = b /\ ShiftRight(b, 8) = {}
  <2>1. b \in Word
    BY DEF Word, Byte
  <2>2. /\ ShiftRight(b, 0) = {i \in 0 .. 31 : i + 0 \in b}
        /\ ShiftRight(b, 8) = {i \in 0 .. 31 : i + 8 \in b}
    BY <2>1, ShiftBits
  <2>3. \A i \in 0 .. 31 : i + 0 = i /\ i + 8 \notin b
    BY DEF Byte
  <2>4. b \subseteq 0 .. 31
    BY DEF Byte
  <2>. QED  BY <2>2, <2>3, <2>4
<1>. QED  BY <1>3, <1>4, XorLaws DEF y, After

\* The checksum of one byte more.
LEMMA RegisterTakesByte ==
    ASSUME NEW seed \in Word, NEW bytes \in Seq(Byte), NEW n \in 0 .. Len(bytes) - 1,
           ShiftRegister(seed, SubSeq(bytes, 1, n)) \in Word
    PROVE  ShiftRegister(seed, SubSeq(bytes, 1, n + 1))
             = After(ShiftRegister(seed, SubSeq(bytes, 1, n)), bytes[n + 1])
<1> DEFINE s == SubSeq(bytes, 1, n)
           l == SubSeq(bytes, 1, n + 1)
           b == bytes[n + 1]
<1>1. /\ Len(s) = n /\ Len(l) = n + 1 /\ n \in Nat
      /\ \A i \in 1 .. n : s[i] = bytes[i] /\ l[i] = bytes[i]
      /\ l[n + 1] = b
      /\ b \in Byte
  OBVIOUS
<1>. HIDE DEF s, l, b
<1>2. PICK f : IsRun(f, seed, s, 8 * n) /\ ShiftRegister(seed, s) = f[8 * n]
  BY <1>1, RegisterIsRun
<1>3. PICK g : IsRun(g, seed, l, 8 * (n + 1)) /\ ShiftRegister(seed, l) = g[8 * (n + 1)]
  <2>1. Len(l) \in Nat
    BY <1>1
  <2>. QED  BY <1>1, <2>1, RegisterIsRun
<1>4. f[8 * n] = g[8 * n]
  <2>1. ASSUME NEW k \in 0 .. 8 * n - 1 PROVE BitIn(s, k) = BitIn(l, k)
    <3>1. k \div 8 + 1 \in 1 .. n
      BY <1>1
    <3>. QED  BY <1>1, <3>1 DEF BitIn
  <2>2. 8 * n \in Nat /\ 8 * (n + 1) \in Nat /\ 8 * n <= 8 * (n + 1)
    BY <1>1
  <2>3. IsRun(g, seed, l, 8 * (n + 1))
    BY <1>3
  <2>4. \A m, o \in Nat : m = 8 * n /\ o = 8 * (n + 1) => f[m] = g[m]
    BY <1>2, <2>1, <2>2, <2>3, RunsAgree
  <2>. QED  BY <2>2, <2>4
<1>g. \A k \in 0 .. 8 * (n + 1) - 1 : g[k + 1] = NextBit(g[k], BitIn(l, k))
  <2>1. 8 * (n + 1) \in Nat
    BY <1>1
  <2>. QED  BY <1>3, <2>1, RunValues
<1> DEFINE x == [j \in 0 .. 8 |-> g[8 * n + j]]
<1>5. ASSUME NEW j \in 0 .. 7 PROVE x[j + 1] = NextBit(x[j], j \in b)
  <2>1. /\ 8 * n + j \in 0 .. 8 * (n + 1) - 1 /\ (8 * n + j) + 1 = 8 * n + (j + 1)
        /\ (8 * n + j) \div 8 = n /\ (8 * n + j) % 8 = j
    BY <1>1
  <2>2. g[(8 * n + j) + 1] = NextBit(g[8 * n + j], BitIn(l, 8 * n + j))
    BY <1>g, <2>1, Zenon
  <2>3. BitIn(l, 8 * n + j) = (j \in b)
    BY <1>1, <2>1 DEF BitIn
  <2>4. x[j] = g[8 * n + j] /\ x[j + 1] = g[8 * n + (j + 1)]
    <3>1. j \in 0 .. 8 /\ j + 1 \in 0 .. 8
      OBVIOUS
    <3>. QED  BY <3>1
  <2>. HIDE DEF x
  <2>. QED  BY <2>1, <2>2, <2>3, <2>4
<1>6. x[0] = ShiftRegister(seed, s) /\ x[8] = ShiftRegister(seed, l)
  BY <1>1, <1>2, <1>3, <1>4
<1>7. x[0] \in Word
  BY <1>6 DEF s
<1>. HIDE DEF x
<1>8. x[8] = After(x[0], b)
  BY <1>1, <1>5, <1>7, ByteEnters
<1>. QED  BY <1>6, <1>8 DEF s, l, b

\* The checksum of nothing is the start value.
LEMMA RegisterOfNone ==
    ASSUME NEW seed, NEW bytes
    PROVE  ShiftRegister(seed, SubSeq(bytes, 1, 0)) = seed
<1>1. SubSeq(bytes, 1, 0) = <<>> /\ Len(<<>>) = 0
  OBVIOUS
<1>2. PICK f : IsRun(f, seed, <<>>, 8 * 0) /\ ShiftRegister(seed, <<>>) = f[8 * 0]
  BY <1>1, RegisterIsRun
<1>3. 8 * 0 = 0 /\ 0 \in Nat
  OBVIOUS
<1>4. f[0] = seed
  BY <1>2, <1>3, RunValues
<1>. QED  BY <1>1, <1>2, <1>3, <1>4

----------------------------------------------------------------------------

\* The register is the checksum of what was taken.
RegisterIsSum == crc = ShiftRegister(input.seed, SubSeq(input.bytes, 1, taken))

\* What is hashed, and how much of it was taken.
LEMMA InputType ==
    ASSUME HashTypeOK
    PROVE  /\ input.seed \in Word /\ input.bytes \in Seq(Byte) /\ crc \in Word
           /\ Length = Len(input.bytes) /\ Length \in Nat /\ taken \in Nat /\ taken <= Length
           /\ \A i \in 1 .. Length : input.bytes[i] \in Byte
<1>1. input \in Buffers /\ crc \in Word /\ taken \in 0 .. Length
  BY DEF HashTypeOK
<1>2. input.seed \in Word /\ input.bytes \in Seq(Byte)
  BY <1>1, BuffersAssumption
<1>. QED  BY <1>1, <1>2 DEF Length

\* A byte keeps it, whichever of the two equal tables it goes through.
LEMMA TakeByteKeepsSum ==
    ASSUME HashTypeOK, RegisterIsSum, taken < Length,
           NEW table, table = tableil8_o32, TakeByte(table)
    PROVE  RegisterIsSum'
<1> DEFINE b == input.bytes[taken + 1]
<1>1. /\ input.seed \in Word /\ input.bytes \in Seq(Byte) /\ crc \in Word
      /\ taken \in 0 .. Len(input.bytes) - 1 /\ b \in Byte
  BY InputType
<1>2. crc' = After(crc, b)
  BY <1>1, TableTakesByte DEF TakeByte, After
<1>3. input' = input /\ taken' = taken + 1
  BY DEF TakeByte
<1>4. ShiftRegister(input.seed, SubSeq(input.bytes, 1, taken + 1)) = After(crc, b)
  BY <1>1, RegisterTakesByte DEF RegisterIsSum
<1>. QED  BY <1>2, <1>3, <1>4 DEF RegisterIsSum

\* A slice keeps it.
LEMMA SliceKeepsSum ==
    ASSUME HashTypeOK, RegisterIsSum, taken + 8 <= Length, Slice
    PROVE  RegisterIsSum'
<1> DEFINE b == [i \in 1 .. 8 |-> input.bytes[taken + i]]
           r(i) == ShiftRegister(input.seed, SubSeq(input.bytes, 1, taken + i))
<1>1. /\ input.seed \in Word /\ input.bytes \in Seq(Byte) /\ crc \in Word
      /\ taken \in Nat /\ taken + 8 <= Len(input.bytes)
  BY InputType
<1>2. b \in [1 .. 8 -> Byte]
  <2>1. ASSUME NEW i \in 1 .. 8 PROVE input.bytes[taken + i] \in Byte
    <3>1. taken + i \in 1 .. Len(input.bytes)
      BY <1>1
    <3>. QED  BY <1>1, <3>1
  <2>. QED  BY <2>1
<1>3. ASSUME NEW i \in 0 .. 7, r(i) \in Word
      PROVE  r(i + 1) = After(r(i), b[i + 1]) /\ r(i + 1) \in Word
  <2>1. taken + i \in 0 .. Len(input.bytes) - 1 /\ (taken + i) + 1 = taken + (i + 1)
    BY <1>1
  <2>2. r(i + 1) = After(r(i), input.bytes[(taken + i) + 1])
    BY <1>1, <1>3, <2>1, RegisterTakesByte
  <2>3. input.bytes[(taken + i) + 1] \in Byte
    BY <1>1
  <2>. HIDE DEF r
  <2>. QED  BY <1>3, <2>1, <2>2, <2>3, AfterIsWord
<1>4. r(0) = crc
  <2>1. taken + 0 = taken
    BY <1>1
  <2>. QED  BY <2>1 DEF RegisterIsSum
<1>5. /\ Load(taken) = Loaded(b[1], b[2], b[3], b[4])
      /\ Load(taken + 4) = Loaded(b[5], b[6], b[7], b[8])
  <2>1. ASSUME NEW at \in Nat, at + 4 <= Len(input.bytes)
        PROVE  Load(at) = Loaded(input.bytes[at + 1], input.bytes[at + 2],
                                 input.bytes[at + 3], input.bytes[at + 4])
    <3> DEFINE part(k) == {i + 8 * k : i \in input.bytes[at + k + 1]}
    <3>1. Load(at) = part(0) \cup part(1) \cup part(2) \cup part(3)
      BY DEF Load
    <3>2. part(0) = input.bytes[at + 1]
      <4>1. input.bytes[at + 1] \subseteq 0 .. 7 /\ at + 0 + 1 = at + 1
        BY <1>1, <2>1 DEF Byte
      <4>2. \A i \in 0 .. 7 : i + 8 * 0 = i
        OBVIOUS
      <4>. QED  BY <4>1, <4>2
    <3>3. /\ part(1) = {i + 8 : i \in input.bytes[at + 2]}
          /\ part(2) = {i + 16 : i \in input.bytes[at + 3]}
          /\ part(3) = {i + 24 : i \in input.bytes[at + 4]}
      <4>1. at + 1 + 1 = at + 2 /\ at + 2 + 1 = at + 3 /\ at + 3 + 1 = at + 4
        OBVIOUS
      <4>. QED  BY <4>1
    <3>. HIDE DEF part
    <3>. QED  BY <3>1, <3>2, <3>3 DEF Loaded
  <2>2. taken + 4 \in Nat /\ (taken + 4) + 1 = taken + 5 /\ (taken + 4) + 2 = taken + 6
          /\ (taken + 4) + 3 = taken + 7 /\ (taken + 4) + 4 = taken + 8
    BY <1>1
  <2>3. Load(taken) = Loaded(b[1], b[2], b[3], b[4])
    BY <1>1, <2>1
  <2>4. Load(taken + 4) = Loaded(input.bytes[(taken + 4) + 1], input.bytes[(taken + 4) + 2],
                                 input.bytes[(taken + 4) + 3], input.bytes[(taken + 4) + 4])
    BY <1>1, <2>1, <2>2
  <2>. QED  BY <2>2, <2>3, <2>4
<1>. HIDE DEF b, r
<1>6. /\ r(1) = After(r(0), b[1]) /\ r(1) \in Word
      /\ r(2) = After(r(1), b[2]) /\ r(2) \in Word
      /\ r(3) = After(r(2), b[3]) /\ r(3) \in Word
      /\ r(4) = After(r(3), b[4]) /\ r(4) \in Word
      /\ r(5) = After(r(4), b[5]) /\ r(5) \in Word
      /\ r(6) = After(r(5), b[6]) /\ r(6) \in Word
      /\ r(7) = After(r(6), b[7]) /\ r(7) \in Word
      /\ r(8) = After(r(7), b[8]) /\ r(8) \in Word
  <2>1. r(0) \in Word
    BY <1>1, <1>4
  <2>. QED  BY <1>3, <2>1
<1>7. r(8) = TermsOfFirst(crc \oplus Load(taken)) \oplus TermsOfSecond(Load(taken + 4))
  <2>1. r(8) = After(After(After(After(After(After(After(After(crc,
                 b[1]), b[2]), b[3]), b[4]), b[5]), b[6]), b[7]), b[8])
    BY <1>4, <1>6
  <2>2. After(After(After(After(After(After(After(After(crc,
          b[1]), b[2]), b[3]), b[4]), b[5]), b[6]), b[7]), b[8])
          = TermsOfFirst(crc \oplus Loaded(b[1], b[2], b[3], b[4]))
              \oplus TermsOfSecond(Loaded(b[5], b[6], b[7], b[8]))
    BY <1>1, <1>2, EightBytes
  <2>. QED  BY <1>5, <2>1, <2>2
<1>8. crc' = r(8) /\ input' = input /\ taken' = taken + 8
  BY <1>7 DEF Slice
<1>. QED  BY <1>8 DEF RegisterIsSum, r

\* Whatever the buffer, its length, its address and the start value,
\* calculate_crc32c returns the CRC-32C of the buffer: the tables are those of the
\* polynomial, the slices take their bytes in the right order, and nothing of it
\* depends on where a name begins.
THEOREM HashIsRight == HashSpec => []HashIsCrc32c
<1>1. HashInit => RegisterIsSum
  <2>. SUFFICES ASSUME HashInit PROVE RegisterIsSum
    OBVIOUS
  <2>. QED  BY RegisterOfNone DEF HashInit, RegisterIsSum
<1>2. HashIInv /\ RegisterIsSum /\ [HashNext]_hashVars => RegisterIsSum'
  <2>. SUFFICES ASSUME HashIInv, RegisterIsSum, [HashNext]_hashVars PROVE RegisterIsSum'
    OBVIOUS
  <2>1. HashTypeOK /\ Length \in Nat /\ taken \in Nat /\ address \in 0 .. 3
    BY LengthType DEF HashIInv, HashTypeOK
  <2>2. hashPc = "multi" =>
          /\ Length >= 4 /\ InitBytes \in 1 .. 4
          /\ RunningLength \in Nat /\ RunningLength % 8 = 0
          /\ InitBytes + RunningLength <= Length
          /\ EndBytes = Length - InitBytes - RunningLength
    BY <2>1, Layout DEF HashIInv, AtSliceBoundary
  <2>3. CASE SingleByte
    <3>1. crc32Table = tableil8_o32
      BY DEF crc32Table, tableil8_o32
    <3>. QED  BY <2>1, <2>3, <3>1, TakeByteKeepsSum DEF SingleByte
  <2>4. CASE InitByte
    BY <2>1, <2>2, <2>4, TakeByteKeepsSum DEF InitByte
  <2>5. CASE Slice
    <3>1. taken >= InitBytes /\ taken - InitBytes < RunningLength /\ hashPc = "multi"
      BY <2>5 DEF Slice, AtSlice
    <3>2. (taken - InitBytes) % 8 = 0
      BY <2>1, <2>2, <3>1 DEF HashIInv, AtSliceBoundary
    <3>3. taken + 8 <= Length
      <4>. HIDE DEF InitBytes, RunningLength, EndBytes, Length
      <4>. QED  BY <2>1, <2>2, <3>1, <3>2
    <3>. QED  BY <2>1, <2>5, <3>3, SliceKeepsSum
  <2>6. CASE EndByte
    <3>1. taken < Length
      BY <2>1, <2>2, <2>6 DEF EndByte, AtEnd
    <3>. QED  BY <2>1, <2>6, <3>1, TakeByteKeepsSum DEF EndByte
  <2>7. CASE UNCHANGED <<input, crc, taken>>
    BY <2>7 DEF RegisterIsSum
  <2>. QED  BY <2>3, <2>4, <2>5, <2>6, <2>7 DEF HashNext, HashStep, Choose, HashReturn,
                                             HashStopped, hashVars
<1>3. HashIInv /\ RegisterIsSum => HashIsCrc32c
  BY DEF HashIInv, TakesAll, RegisterIsSum, HashIsCrc32c
<1>. QED  BY <1>1, <1>2, <1>3, HashSpecIInv, PTL DEF HashSpec
=============================================================================
