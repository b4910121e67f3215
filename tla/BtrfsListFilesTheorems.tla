----------------------- MODULE BtrfsListFilesTheorems -----------------------
(***************************************************************************)
(* Proofs about BtrfsListFiles: the array of a directory listing, for      *)
(* directories of every length and whichever allocation fails.             *)
(***************************************************************************)
EXTENDS BtrfsListFiles, FiniteSetTheorems, SequenceTheorems, TLAPS

\* The heap is the array at result and a name of its own for each of the slots from
\* number first on; a name that could not be allocated left a null pointer.
Slot(n) == mem[result][n]
Slots(first) == {Slot(n) : n \in first .. length}
OwnsFrom(first) ==
    /\ result \in DOMAIN mem
    /\ mem[result] \in Seq(Int)
    /\ length <= Len(mem[result])
    /\ Slots(first) \subseteq Nat \ {result}
    /\ \A m, n \in first .. length : m /= n => Slot(m) /= Slot(n) \/ Slot(m) = NullPtr
    /\ DOMAIN mem = {result} \cup (Slots(first) \ {NullPtr})

\* The listing of the items that the handler has had.
Holds ==
    /\ OwnsFrom(1)
    /\ \A n \in 1 .. length : Slot(n) /= NullPtr
    /\ length = 2 + Rank(next)
    /\ mem[Slot(1)] = "." /\ mem[Slot(2)] = ".."
    /\ \A k \in 1 .. next : items[k].listed => mem[Slot(2 + Rank(k))] = items[k].names[1]

Fresh == length = 2 /\ capacity = 4 /\ next = 0 /\ i = 1 /\ accRet = 0 /\ ret = 0

AtPc ==
    /\ pc = "start" => Fresh /\ DOMAIN mem = {}
    /\ pc = "dots" =>
        Fresh /\ DOMAIN mem = {result} /\ mem[result] \in Seq(Int) /\ Len(mem[result]) = 4
    /\ pc \in {"scan", "scanned", "shrink"} => Holds /\ i = 1 /\ ret = 0
    /\ pc \in {"scan", "shrink"} => accRet = 0
    /\ pc \in {"scan", "scanned", "shrink"} /\ accRet = 0 => Len(mem[result]) = capacity
    /\ pc \in {"scanned", "shrink"} /\ accRet = 0 => next = Len(items)
    /\ pc = "free" => OwnsFrom(i) /\ ret = ENOMEM
    /\ pc \in {"return", "listed"} =>
        /\ i = 1 /\ next = Len(items)
        /\ ~ ShrinkMoves => result \in DOMAIN mem
        /\ result \in DOMAIN mem => Holds /\ Len(mem[result]) = length
    /\ pc = "listed" => files = result
    /\ pc \in {"failed", "freed"} => DOMAIN mem = {}

IInv == TypeOK /\ AtPc

----------------------------------------------------------------------------

\* How Rank counts: from zero on, one more at each listed item, and the rank of a
\* listed item lies between one and the number of those that were counted.
LEMMA RankFacts ==
    ASSUME NEW n \in Nat
    PROVE  /\ Rank(n) \in Nat
           /\ Rank(0) = 0
           /\ Rank(n + 1) = IF items[n + 1].listed THEN Rank(n) + 1 ELSE Rank(n)
           /\ \A k \in 1 .. n : items[k].listed => Rank(k) \in 1 .. Rank(n)
<1> DEFINE R(m) == {k \in 1 .. m : items[k].listed}
<1>1. \A m \in Nat : IsFiniteSet(R(m))
  <2>. SUFFICES ASSUME NEW m \in Nat PROVE IsFiniteSet(R(m))
    OBVIOUS
  <2>1. IsFiniteSet(1 .. m)
    BY FS_Interval
  <2>. QED  BY <2>1, FS_Subset
<1>2. \A m \in Nat : Rank(m) = Cardinality(R(m)) /\ Rank(m) \in Nat
  BY <1>1, FS_CardinalityType DEF Rank
<1>3. R(0) = {}
  OBVIOUS
<1>4. R(n + 1) = IF items[n + 1].listed THEN R(n) \cup {n + 1} ELSE R(n)
  OBVIOUS
<1>5. n + 1 \notin R(n)
  OBVIOUS
<1>6. ASSUME NEW k \in 1 .. n, items[k].listed
      PROVE  Rank(k) \in 1 .. Rank(n)
  <2>1. R(k) \subseteq R(n) /\ k \in R(k) /\ k \in Nat
    BY <1>6
  <2>2. Cardinality(R(k)) <= Cardinality(R(n))
    BY <1>1, <2>1, FS_Subset
  <2>3. Cardinality(R(k)) /= 0
    BY <1>1, <2>1, FS_EmptySet
  <2>. QED  BY <1>2, <2>1, <2>2, <2>3
<1>7. Rank(0) = 0
  BY <1>2, <1>3, FS_EmptySet
<1>8. Rank(n + 1) = IF items[n + 1].listed THEN Rank(n) + 1 ELSE Rank(n)
  <2>1. n + 1 \in Nat /\ IsFiniteSet(R(n))
    BY <1>1
  <2>. HIDE DEF R
  <2>2. CASE items[n + 1].listed
    BY <1>2, <1>4, <1>5, <2>1, <2>2, FS_AddElement
  <2>3. CASE ~ items[n + 1].listed
    BY <1>2, <1>4, <2>1, <2>3
  <2>. QED  BY <2>2, <2>3
<1>. QED  BY <1>2, <1>6, <1>7, <1>8

\* An array that is replaced, in place or at a new address, by one that holds the
\* same names in its first slots keeps the listing.
LEMMA ReplacedArrayHolds ==
    ASSUME TypeOK, Holds, UNCHANGED <<items, next, length>>,
           result' \in {result, last + 1},
           DOMAIN mem' = (DOMAIN mem \ {result}) \cup {result'},
           mem'[result'] \in Seq(Int), length <= Len(mem'[result']),
           \A n \in 1 .. length : mem'[result'][n] = mem[result][n],
           \A a \in DOMAIN mem \ {result} : mem'[a] = mem[a]
    PROVE  Holds'
<1>1. /\ \A n \in 1 .. length : Slot(n)' = Slot(n) /\ Slot(n) \in DOMAIN mem \ {result}
      /\ 1 \in 1 .. length /\ 2 \in 1 .. length
      /\ last + 1 \notin DOMAIN mem
  <2>1. length \in Nat /\ next \in Nat /\ Rank(next) \in Nat
    BY RankFacts, DirectoriesAssumption DEF TypeOK
  <2>2. 1 \in 1 .. length /\ 2 \in 1 .. length
    BY <2>1 DEF Holds
  <2>3. last + 1 \notin DOMAIN mem
    BY DEF TypeOK
  <2>. QED  BY <2>2, <2>3 DEF Holds, OwnsFrom, Slot, Slots
<1>2. OwnsFrom(1)'
  <2>1. length' = length /\ length \in Nat
    BY DEF TypeOK
  <2>2. \A m, n \in 1 .. length : m /= n => Slot(m) /= Slot(n)
    BY DEF Holds, OwnsFrom
  <2>3. Slots(1)' = Slots(1)
    <3>1. Slots(1)' = {Slot(n)' : n \in 1 .. length}
      BY <2>1 DEF Slots
    <3>2. \A n \in 1 .. length : Slot(n)' = Slot(n)
      BY <1>1
    <3>. QED  BY <3>1, <3>2 DEF Slots
  <2>4. Slots(1) \subseteq Nat \ {result, last + 1}
    <3>1. Slots(1) \subseteq Nat \ {result}
      BY DEF Holds, OwnsFrom
    <3>2. \A n \in 1 .. length : Slot(n) /= last + 1
      BY <1>1
    <3>3. last + 1 \notin Slots(1)
      BY <3>2 DEF Slots
    <3>. QED  BY <3>1, <3>3
  <2>5. DOMAIN mem = {result} \cup (Slots(1) \ {NullPtr})
    BY DEF Holds, OwnsFrom
  <2>6. DOMAIN mem' = {result'} \cup (Slots(1)' \ {NullPtr}) /\ Slots(1)' \subseteq Nat \ {result'}
    BY <2>3, <2>4, <2>5
  <2>. QED  BY <1>1, <2>1, <2>2, <2>6 DEF OwnsFrom
<1>3. \A n \in Nat : Rank(n)' = Rank(n)
  BY DEF Rank
<1>4. \A k \in 1 .. next : items[k].listed => 2 + Rank(k) \in 1 .. length
  <2>1. length \in Nat /\ next \in Nat
    BY DirectoriesAssumption DEF TypeOK
  <2>2. length = 2 + Rank(next)
    BY DEF Holds
  <2>3. Rank(next) \in Nat /\ \A k \in 1 .. next : items[k].listed => Rank(k) \in 1 .. Rank(next)
    BY <2>1, RankFacts
  <2>. SUFFICES ASSUME NEW k \in 1 .. next, items[k].listed PROVE 2 + Rank(k) \in 1 .. length
    OBVIOUS
  <2> DEFINE before == Rank(k)
             all == Rank(next)
  <2>4. before \in 1 .. all /\ all \in Nat /\ length = 2 + all
    BY <2>2, <2>3
  <2> HIDE DEF before, all
  <2>5. 2 + before \in 1 .. length
    BY <2>4
  <2>. QED  BY <2>5 DEF before
<1>5. \A k \in 1 .. next : k \in Nat
  OBVIOUS
<1>6. next \in Nat
  BY DirectoriesAssumption DEF TypeOK
<1>. QED  BY <1>1, <1>2, <1>3, <1>4, <1>5, <1>6 DEF Holds

\* The types that the steps below rest on.
LEMMA Types ==
    ASSUME TypeOK
    PROVE  /\ items \in Seq(Item) /\ Len(items) \in Nat /\ next \in Nat
           /\ length \in Nat /\ capacity \in Nat /\ last \in Nat
           /\ result \in Nat /\ i \in Nat /\ last + 1 \notin DOMAIN mem
BY DirectoriesAssumption DEF TypeOK

\* The slots after one more name was added to an array.
LEMMA OneMore ==
    ASSUME NEW m \in Nat
    PROVE  1 .. (m + 1) = 1 .. m \cup {m + 1}
OBVIOUS

\* An array one slot of which was assigned is still an array of that size.
LEMMA SlotSet ==
    ASSUME NEW s \in Seq(Int), NEW n \in 1 .. Len(s), NEW e \in Int
    PROVE  [s EXCEPT ![n] = e] \in Seq(Int) /\ Len([s EXCEPT ![n] = e]) = Len(s)
OBVIOUS

\* The places of the listed items among the slots.
LEMMA PlacesAreSlots ==
    ASSUME TypeOK, Holds
    PROVE  /\ 1 \in 1 .. length /\ 2 \in 1 .. length
           /\ \A k \in 1 .. next : items[k].listed => 2 + Rank(k) \in 1 .. length
<1>1. length = 2 + Rank(next)
  BY DEF Holds
<1>2. Rank(next) \in Nat /\ \A k \in 1 .. next : items[k].listed => Rank(k) \in 1 .. Rank(next)
  BY Types, RankFacts
<1>3. ASSUME NEW k \in 1 .. next, items[k].listed PROVE 2 + Rank(k) \in 1 .. length
  <2>1. Rank(k) \in 1 .. Rank(next)
    BY <1>2, <1>3
  <2>. QED  BY <1>1, <1>2, <2>1
<1>. QED  BY <1>1, <1>2, <1>3

\* A name that is added takes the next slot, and the listing of one more item is held.
LEMMA AddedNameHolds ==
    ASSUME TypeOK, Holds, Len(mem[result]) = capacity, AddName
    PROVE  Holds' /\ Len(mem'[result]) = capacity
<1>1. length + 1 \in 1 .. Len(mem[result]) /\ result /= last + 1 /\ mem[result] \in Seq(Int)
      /\ result \in DOMAIN mem
  <2>1. length <= Len(mem[result]) /\ capacity /= length /\ result \in DOMAIN mem
        /\ mem[result] \in Seq(Int)
    BY DEF Holds, OwnsFrom, AddName
  <2> DEFINE size == Len(mem[result])
  <2>2. length \in Nat /\ size \in Nat /\ length <= size /\ length /= size
    BY <2>1, Types
  <2>3. result /= last + 1
    BY <2>1, Types
  <2> HIDE DEF size
  <2>4. length + 1 \in 1 .. size
    BY <2>2
  <2>. QED  BY <2>1, <2>3, <2>4 DEF size
<1>2. /\ result' = result /\ length' = length + 1 /\ next' = next + 1 /\ items' = items
      /\ DOMAIN mem' = DOMAIN mem \cup {last + 1}
      /\ mem'[result] = [mem[result] EXCEPT ![length + 1] = last + 1]
      /\ mem'[last + 1] = items[next + 1].names[1]
      /\ \A a \in DOMAIN mem \ {result} : mem'[a] = mem[a]
      /\ items[next + 1].listed
  BY <1>1, Types DEF AddName, IsListed
<1>3. /\ mem'[result] \in Seq(Int) /\ Len(mem'[result]) = Len(mem[result])
      /\ \A n \in 1 .. Len(mem[result]) :
            mem'[result][n] = IF n = length + 1 THEN last + 1 ELSE mem[result][n]
  <2>1. last + 1 \in Int
    BY Types
  <2>. QED  BY <1>1, <1>2, <2>1, ExceptSeq
<1>4. /\ \A n \in 1 .. length : Slot(n)' = Slot(n) /\ Slot(n) \in DOMAIN mem \ {result}
      /\ mem'[result'][length + 1] = last + 1
  <2>1. \A n \in 1 .. length : n \in 1 .. Len(mem[result]) /\ n /= length + 1
    <3> DEFINE size == Len(mem[result])
    <3>1. length \in Nat /\ size \in Nat /\ length + 1 \in 1 .. size
      BY <1>1, Types
    <3> HIDE DEF size
    <3>2. \A n \in 1 .. length : n \in 1 .. size /\ n /= length + 1
      BY <3>1
    <3>. QED  BY <3>2 DEF size
  <2>2. \A n \in 1 .. length : Slot(n) \in Slots(1) /\ Slot(n) /= NullPtr
    BY DEF Slots, Holds
  <2>. QED  BY <1>1, <1>2, <1>3, <2>1, <2>2 DEF Slot, Holds, OwnsFrom
<1>5. OwnsFrom(1)'
  <2>1. Slots(1)' = Slots(1) \cup {last + 1}
    <3>1. 1 .. length' = 1 .. length \cup {length + 1}
      BY <1>2, Types, OneMore
    <3>. QED  BY <1>4, <3>1 DEF Slots, Slot
  <2>2. \A m, n \in 1 .. length' : m /= n => Slot(m)' /= Slot(n)'
    <3>1. \A m, n \in 1 .. length : m /= n => Slot(m)' /= Slot(n)'
      BY <1>4 DEF Holds, OwnsFrom
    <3>2. \A n \in 1 .. length : Slot(n)' /= last + 1
      BY <1>4, Types
    <3>3. 1 .. length' = 1 .. length \cup {length + 1}
      BY <1>2, Types, OneMore
    <3>. QED  BY <1>4, <3>1, <3>2, <3>3 DEF Slot
  <2>3. last + 1 \in Nat /\ last + 1 /= NullPtr
    BY Types DEF NullPtr
  <2>4. length' <= Len(mem'[result])
    BY <1>1, <1>2, <1>3
  <2>5. Slots(1) \subseteq Nat \ {result} /\ DOMAIN mem = {result} \cup (Slots(1) \ {NullPtr})
    BY DEF Holds, OwnsFrom
  <2>6. Slots(1)' \subseteq Nat \ {result} /\ DOMAIN mem' = {result} \cup (Slots(1)' \ {NullPtr})
    BY <1>1, <1>2, <2>1, <2>3, <2>5
  <2>. QED  BY <1>2, <1>3, <2>2, <2>4, <2>6 DEF OwnsFrom
<1>6. \A n \in Nat : Rank(n)' = Rank(n)
  BY <1>2 DEF Rank
<1>7. length' = 2 + Rank(next)' /\ length + 1 = 2 + Rank(next + 1)
  <2>1. Rank(next) \in Nat /\ Rank(next + 1) = Rank(next) + 1
    BY <1>2, Types, RankFacts
  <2>2. next + 1 \in Nat
    BY Types
  <2>. QED  BY <1>2, <1>6, <2>1, <2>2 DEF Holds
<1>8. \A n \in 1 .. length' : Slot(n)' /= NullPtr
  <2>1. 1 .. length' = 1 .. length \cup {length + 1}
    BY <1>2, Types, OneMore
  <2>2. last + 1 /= NullPtr
    BY Types DEF NullPtr
  <2>. QED  BY <1>4, <2>1, <2>2 DEF Holds, Slot
<1>9. ASSUME NEW k \in 1 .. next + 1, items[k].listed
      PROVE  mem'[mem'[result'][2 + Rank(k)]] = items[k].names[1]
  <2>1. CASE k = next + 1
    BY <1>2, <1>4, <1>7, <2>1 DEF Slot
  <2>2. CASE k /= next + 1
    <3>1. k \in 1 .. next
      BY <2>2, Types
    <3>2. 2 + Rank(k) \in 1 .. length
      BY <1>9, <3>1, PlacesAreSlots
    <3>. QED  BY <1>2, <1>4, <1>9, <3>1, <3>2 DEF Holds, Slot
  <2>. QED  BY <2>1, <2>2
<1>10. mem'[Slot(1)'] = "." /\ mem'[Slot(2)'] = ".."
  BY <1>2, <1>4, PlacesAreSlots DEF Holds
<1>11. (\A k \in 1 .. next : items[k].listed => mem[Slot(2 + Rank(k))] = items[k].names[1])'
  <2>1. \A k \in 1 .. next + 1 : k \in Nat
    OBVIOUS
  <2>. QED  BY <1>2, <1>6, <1>9, <2>1 DEF Slot
<1>. QED  BY <1>2, <1>3, <1>5, <1>7, <1>8, <1>10, <1>11 DEF Holds, AddName

\* The two dots, whichever of them could be allocated, take the first two slots.
LEMMA DotsKeep ==
    ASSUME TypeOK, AtPc, AllocateDots
    PROVE  TypeOK' /\ AtPc'
<1>1. /\ Fresh /\ DOMAIN mem = {result} /\ mem[result] \in Seq(Int) /\ Len(mem[result]) = 4
      /\ pc = "dots" /\ last' = last + 2
      /\ UNCHANGED <<items, next, result, length, capacity, accRet, i, files>>
  BY DEF AllocateDots, AtPc, acc
<1>2. PICK dot \in {NullPtr, last + 1}, dots \in {NullPtr, last + 2} :
        /\ mem' = [a \in DOMAIN mem \cup ({dot, dots} \ {NullPtr}) |->
                     CASE a = dot -> "."
                       [] a = dots -> ".."
                       [] OTHER -> [mem[a] EXCEPT ![1] = dot, ![2] = dots]]
        /\ IF NullPtr \in {dot, dots}
           THEN ret' = ENOMEM /\ pc' = "free"
           ELSE pc' = "scan" /\ UNCHANGED ret
  BY DEF AllocateDots
<1>3. /\ result \in 1 .. last /\ last \in Nat
      /\ dot \in Nat /\ dots \in Nat /\ dot /= result /\ dots /= result
      /\ dot = dots => dot = NullPtr
  <2>1. result \in 1 .. last /\ last \in Nat
    BY <1>1, Types DEF TypeOK
  <2>2. result \in Nat /\ result >= 1 /\ result <= last
    BY <2>1
  <2>3. dot \in {0, last + 1} /\ dots \in {0, last + 2}
    BY <1>2 DEF NullPtr
  <2>. QED  BY <2>1, <2>2, <2>3 DEF NullPtr
<1>4. /\ DOMAIN mem' = {result} \cup ({dot, dots} \ {NullPtr})
      /\ mem'[result] = [mem[result] EXCEPT ![1] = dot, ![2] = dots]
      /\ dot /= NullPtr => mem'[dot] = "."
      /\ dots /= NullPtr => mem'[dots] = ".."
  BY <1>1, <1>2, <1>3
<1>5. /\ mem'[result] \in Seq(Int) /\ Len(mem'[result]) = 4
      /\ mem'[result][1] = dot /\ mem'[result][2] = dots
  <2> DEFINE old == mem[result]
             first == [old EXCEPT ![1] = dot]
             both == [first EXCEPT ![2] = dots]
  <2>1. old \in Seq(Int) /\ Len(old) = 4 /\ dot \in Int /\ dots \in Int
    BY <1>1, <1>3
  <2>2. mem'[result] = both
    BY <1>4
  <2> HIDE DEF old
  <2>3. first \in Seq(Int) /\ Len(first) = 4 /\ first[1] = dot
    <3>1. 1 \in 1 .. Len(old)
      BY <2>1
    <3>. QED  BY <2>1, <3>1
  <2> HIDE DEF first
  <2>4. both \in Seq(Int) /\ Len(both) = 4 /\ both[2] = dots /\ both[1] = first[1]
    <3>1. 1 \in 1 .. Len(first) /\ 2 \in 1 .. Len(first)
      BY <2>3
    <3>2. both \in Seq(Int) /\ Len(both) = 4
      BY <2>1, <2>3, <3>1, SlotSet
    <3>3. both[2] = dots /\ both[1] = first[1]
      BY <2>3, <3>1
    <3>. QED  BY <3>2, <3>3
  <2>. QED  BY <2>2, <2>3, <2>4
<1>6. OwnsFrom(1)'
  <2>1. length = 2 /\ 1 .. 2 = {1, 2}
    BY <1>1 DEF Fresh
  <2>2. Slots(1)' = {dot, dots}
    BY <1>1, <1>5, <2>1 DEF Slots, Slot
  <2>3. \A m, n \in {1, 2} : m /= n => Slot(m)' /= Slot(n)' \/ Slot(m)' = NullPtr
    BY <1>1, <1>3, <1>5 DEF Slot
  <2>4. length' <= Len(mem'[result]) /\ 1 .. length' = {1, 2}
    BY <1>1, <1>5, <2>1
  <2>. QED  BY <1>1, <1>3, <1>4, <1>5, <2>2, <2>3, <2>4 DEF OwnsFrom
<1>7. TypeOK'
  <2>1. DOMAIN mem' \subseteq 1 .. last' /\ last' \in Nat
    <3>1. last' = last + 2 /\ DOMAIN mem' \subseteq {result, last + 1, last + 2}
      BY <1>1, <1>2, <1>4
    <3>2. \A a \in {result, last + 1, last + 2} : a \in 1 .. last + 2
      BY <1>3
    <3>3. last + 2 \in Nat
      BY <1>3
    <3>. QED  BY <3>1, <3>2, <3>3
  <2>2. ret' \in {0, ENOMEM} /\ pc' \in {"scan", "free"}
    BY <1>2 DEF TypeOK
  <2>3. \A n \in 0 .. last : n \in 0 .. last'
    BY <1>1, <1>3
  <2>. QED  BY <1>1, <2>1, <2>2, <2>3 DEF TypeOK
<1>8. CASE NullPtr \in {dot, dots}
  <2>1. OwnsFrom(i)'
    BY <1>1, <1>6 DEF Fresh, OwnsFrom, Slots, Slot
  <2>. QED  BY <1>2, <1>7, <1>8, <2>1 DEF AtPc
<1>9. CASE NullPtr \notin {dot, dots}
  <2>1. pc' = "scan" /\ ret' = 0 /\ i' = 1 /\ accRet' = 0 /\ Len(mem'[result']) = capacity'
    BY <1>1, <1>2, <1>5, <1>9 DEF Fresh
  <2>2. length' = 2 /\ next' = 0 /\ 1 .. 2 = {1, 2} /\ 1 .. 0 = {}
    BY <1>1 DEF Fresh
  <2>3. Rank(next)' = 0
    <3>1. Rank(0)' = Rank(0) /\ Rank(next)' = Rank(0)'
      BY <1>1, <2>2 DEF Rank
    <3>. QED  BY <3>1, RankFacts
  <2>4. \A n \in 1 .. length' : Slot(n)' /= NullPtr
    BY <1>1, <1>5, <1>9, <2>2 DEF Slot
  <2>5. mem'[mem'[result'][1]] = "." /\ mem'[mem'[result'][2]] = ".."
    BY <1>1, <1>4, <1>5, <1>9
  <2>6. Holds'
    BY <1>6, <2>2, <2>3, <2>4, <2>5 DEF Holds, Slot
  <2>. QED  BY <1>7, <2>1, <2>6 DEF AtPc
<1>. QED  BY <1>8, <1>9

\* realloc in the handler: the array is twice as large, where it was or elsewhere.
LEMMA GrowKeeps ==
    ASSUME TypeOK, AtPc, Grow
    PROVE  TypeOK' /\ AtPc'
<1>1. /\ Holds /\ i = 1 /\ ret = 0 /\ accRet = 0 /\ Len(mem[result]) = capacity
      /\ pc = "scan" /\ capacity = length /\ capacity' = capacity * 2
      /\ result' \in {result, last + 1} /\ last' = last + 1
      /\ UNCHANGED <<items, next, length, accRet, ret, i, files, pc>>
  BY DEF Grow, AtPc, HasItem
<1>2. /\ DOMAIN mem' = (DOMAIN mem \ {result}) \cup {result'}
      /\ mem'[result'] = [slot \in 1 .. capacity' |->
                            IF slot \in DOMAIN mem[result] THEN mem[result][slot] ELSE Unset]
      /\ \A a \in DOMAIN mem \ {result} : a /= result' => mem'[a] = mem[a]
  BY DEF Grow
<1>3. result \in DOMAIN mem /\ mem[result] \in Seq(Int) /\ last + 1 \notin DOMAIN mem
  BY <1>1, Types DEF Holds, OwnsFrom
<1>4. /\ mem'[result'] \in Seq(Int) /\ Len(mem'[result']) = capacity'
      /\ \A n \in 1 .. length : mem'[result'][n] = mem[result][n]
  <2>1. capacity' \in Nat /\ length <= capacity'
    BY <1>1, Types
  <2>2. DOMAIN mem[result] = 1 .. length /\ \A n \in 1 .. length : mem[result][n] \in Int
    BY <1>1, <1>3
  <2>3. \A n \in 1 .. capacity' :
          (IF n \in DOMAIN mem[result] THEN mem[result][n] ELSE Unset) \in Int
    BY <2>2 DEF Unset
  <2>4. mem'[result'] \in [1 .. capacity' -> Int]
    BY <1>2, <2>3
  <2>5. mem'[result'] \in Seq(Int) /\ Len(mem'[result']) = capacity'
    BY <2>1, <2>4
  <2>6. \A n \in 1 .. length : n \in 1 .. capacity'
    BY <2>1, Types
  <2>. QED  BY <1>2, <2>2, <2>5, <2>6
<1>5. Holds'
  <2>1. \A a \in DOMAIN mem \ {result} : mem'[a] = mem[a]
    BY <1>1, <1>2, <1>3
  <2>2. length <= Len(mem'[result'])
    BY <1>1, <1>4, Types
  <2>. QED  BY <1>1, <1>2, <1>4, <2>1, <2>2, ReplacedArrayHolds
<1>6. TypeOK'
  <2>1. DOMAIN mem' \subseteq 1 .. last' /\ last' \in Nat /\ result' \in 0 .. last'
    BY <1>1, <1>2, <1>3, Types DEF TypeOK
  <2>2. \A n \in 0 .. last : n \in 0 .. last'
    BY <1>1, Types
  <2>3. capacity' \in Nat
    BY <1>1, Types
  <2>. QED  BY <1>1, <2>1, <2>2, <2>3 DEF TypeOK
<1>. QED  BY <1>1, <1>4, <1>5, <1>6 DEF AtPc

\* The realloc that makes the array as small as the listing.
LEMMA ShrinkKeeps ==
    ASSUME TypeOK, AtPc, Shrink
    PROVE  TypeOK' /\ AtPc'
<1>1. /\ Holds /\ i = 1 /\ next = Len(items) /\ pc = "shrink" /\ pc' = "return"
      /\ last' = last + 1
      /\ UNCHANGED <<items, next, result, length, capacity, accRet, ret, i, files>>
  BY DEF Shrink, AtPc, acc
<1>2. PICK moved \in IF ShrinkMoves THEN {result, last + 1} ELSE {result} :
        mem' = [a \in (DOMAIN mem \ {result}) \cup {moved} |->
                  IF a = moved THEN SubSeq(mem[result], 1, length) ELSE mem[a]]
  BY DEF Shrink
<1>3. /\ result \in DOMAIN mem /\ mem[result] \in Seq(Int) /\ length <= Len(mem[result])
      /\ last + 1 \notin DOMAIN mem /\ length \in Nat
  BY <1>1, Types DEF Holds, OwnsFrom
<1>4. TypeOK'
  <2>1. DOMAIN mem' \subseteq 1 .. last' /\ last' \in Nat
    <3>1. moved \in {result, last + 1}
      BY <1>2
    <3>. QED  BY <1>1, <1>2, <1>3, <3>1, Types DEF TypeOK
  <2>2. \A n \in 0 .. last : n \in 0 .. last'
    BY <1>1, Types
  <2>. QED  BY <1>1, <2>1, <2>2 DEF TypeOK
<1>5. CASE moved = result
  <2>1. /\ DOMAIN mem' = (DOMAIN mem \ {result}) \cup {result}
        /\ mem'[result] = SubSeq(mem[result], 1, length)
        /\ \A a \in DOMAIN mem \ {result} : mem'[a] = mem[a]
    BY <1>2, <1>5
  <2>2. /\ mem'[result] \in Seq(Int) /\ Len(mem'[result]) = length
        /\ \A n \in 1 .. length : mem'[result][n] = mem[result][n]
    <3>1. \A n \in 1 .. length : mem[result][n] \in Int
      BY <1>3
    <3>2. /\ SubSeq(mem[result], 1, length) \in Seq(Int)
          /\ Len(SubSeq(mem[result], 1, length)) = length
          /\ \A n \in 1 .. length : SubSeq(mem[result], 1, length)[n] = mem[result][n]
      BY <1>3, <3>1
    <3>. QED  BY <2>1, <3>2
  <2>3. Holds'
    BY <1>1, <1>3, <2>1, <2>2, ReplacedArrayHolds
  <2>. QED  BY <1>1, <1>3, <1>4, <2>1, <2>2, <2>3 DEF AtPc
<1>6. CASE moved /= result
  <2>1. ShrinkMoves /\ moved = last + 1
    BY <1>2, <1>6
  <2>2. result \notin DOMAIN mem'
    BY <1>2, <1>6
  <2>. QED  BY <1>1, <1>4, <2>1, <2>2 DEF AtPc
<1>. QED  BY <1>5, <1>6

\* One name is freed: what is left belongs to the array and the slots behind it.
LEMMA FreeNameKeeps ==
    ASSUME TypeOK, AtPc, FreeName
    PROVE  TypeOK' /\ AtPc'
<1>1. /\ OwnsFrom(i) /\ ret = ENOMEM /\ pc = "free" /\ i <= length /\ i' = i + 1
      /\ UNCHANGED <<items, next, last, result, length, capacity, accRet, ret, files, pc>>
  BY DEF FreeName, AtPc, acc
<1>2. DOMAIN mem' = DOMAIN mem \ {Slot(i)} /\ \A a \in DOMAIN mem' : mem'[a] = mem[a]
  BY DEF FreeName, Without, Slot
<1>3. length \in Nat /\ i \in 1 .. length
  BY <1>1, Types DEF TypeOK
<1>4. Slots(i) = {Slot(i)} \cup Slots(i + 1)
  <2>1. i .. length = {i} \cup (i + 1 .. length)
    BY <1>3
  <2>. QED  BY <2>1 DEF Slots
<1>5. Slot(i) \in Slots(i + 1) => Slot(i) = NullPtr
  <2>. SUFFICES ASSUME NEW n \in i + 1 .. length, Slot(i) = Slot(n) PROVE Slot(i) = NullPtr
    BY DEF Slots
  <2>1. n \in i .. length /\ i \in i .. length /\ n /= i
    BY <1>3
  <2>. QED  BY <1>1, <2>1 DEF OwnsFrom
<1>6. Slot(i) /= result /\ Slot(i) \in Slots(i)
  BY <1>1, <1>4 DEF OwnsFrom
<1>7. DOMAIN mem' = {result} \cup (Slots(i + 1) \ {NullPtr}) /\ mem'[result] = mem[result]
  <2>1. DOMAIN mem = {result} \cup (Slots(i) \ {NullPtr})
    BY <1>1 DEF OwnsFrom
  <2>2. DOMAIN mem' = {result} \cup (Slots(i + 1) \ {NullPtr})
    BY <1>2, <1>4, <1>5, <1>6, <2>1
  <2>. QED  BY <1>2, <2>2
<1>8. /\ \A n : Slot(n)' = Slot(n)
      /\ Slots(i)' = Slots(i + 1)
  BY <1>1, <1>7 DEF Slots, Slot
<1>9. OwnsFrom(i)'
  <2>1. \A n \in i + 1 .. length : n \in i .. length
    BY <1>3
  <2>2. \A m, n \in i' .. length' : m /= n => Slot(m)' /= Slot(n)' \/ Slot(m)' = NullPtr
    BY <1>1, <1>8, <2>1 DEF OwnsFrom
  <2>. QED  BY <1>1, <1>4, <1>7, <1>8, <2>2 DEF OwnsFrom
<1>10. TypeOK'
  <2>1. DOMAIN mem' \subseteq 1 .. last' /\ i' \in 1 .. length' + 1
    BY <1>1, <1>2, <1>3 DEF TypeOK
  <2>. QED  BY <1>1, <2>1 DEF TypeOK
<1>. QED  BY <1>1, <1>9, <1>10 DEF AtPc

\* What the listing rests on is left alone.
LEMMA HoldsUnchanged ==
    ASSUME Holds, UNCHANGED <<items, next, mem, result, length>>
    PROVE  Holds'
<1>1. /\ \A n : Slot(n)' = Slot(n) /\ Rank(n)' = Rank(n)
      /\ Slots(1)' = Slots(1)
  BY DEF Slots, Slot, Rank
<1>2. OwnsFrom(1)'
  BY <1>1 DEF Holds, OwnsFrom
<1>3. (\A k \in 1 .. next : items[k].listed => mem[Slot(2 + Rank(k))] = items[k].names[1])'
  BY <1>1 DEF Holds, Slot
<1>4. Rank(next)' = Rank(next)
  BY DEF Rank
<1>. QED  BY <1>1, <1>2, <1>3, <1>4 DEF Holds, Slot

\* The invariant holds at the start.
LEMMA InitIInv == Init => IInv
BY DEF Init, IInv, TypeOK, AtPc, Fresh, NullPtr

\* Each step of the listing keeps the invariant.
LEMMA NextIInv == IInv /\ [Next]_vars => IInv'
<1>. SUFFICES ASSUME TypeOK, AtPc, [Next]_vars PROVE TypeOK' /\ AtPc'
  BY DEF IInv
<1>t. /\ items \in Seq(Item) /\ Len(items) \in Nat /\ next \in Nat
      /\ length \in Nat /\ capacity \in Nat /\ last \in Nat
      /\ result \in Nat /\ i \in Nat /\ last + 1 \notin DOMAIN mem
  BY Types
<1>e. ENOMEM /= 0
  BY DEF ENOMEM
<1>1. CASE AllocateArray
  <2>0. pc = "start" /\ Fresh /\ DOMAIN mem = {}
    BY <1>1 DEF AllocateArray, AtPc
  <2>1. CASE pc' = "dots"
    <3>1. /\ result' = last + 1 /\ last' = last + 1 /\ mem' = [a \in {last + 1} |-> EmptyArray(4)]
          /\ UNCHANGED <<items, next, length, capacity, accRet, ret, i, files>>
      BY <1>1, <2>1 DEF AllocateArray
    <3>2. DOMAIN mem' = {result'} /\ mem'[result'] = EmptyArray(4)
      BY <3>1
    <3>3. EmptyArray(4) \in Seq(Int) /\ Len(EmptyArray(4)) = 4
      BY DEF EmptyArray, Unset
    <3>4. TypeOK'
      BY <2>1, <3>1, <3>2, <1>t DEF TypeOK
    <3>. QED  BY <2>0, <2>1, <3>1, <3>2, <3>3, <3>4 DEF AtPc, Fresh
  <2>2. CASE pc' = "failed"
    <3>1. UNCHANGED <<result, last, mem, items, next, length, capacity, accRet, i, files>>
          /\ ret' = ENOMEM
      BY <1>1, <2>2 DEF AllocateArray
    <3>2. TypeOK'
      BY <2>2, <3>1 DEF TypeOK
    <3>. QED  BY <2>0, <2>2, <3>1, <3>2 DEF AtPc
  <2>. QED  BY <1>1, <2>1, <2>2 DEF AllocateArray
<1>2. CASE AllocateDots
  BY <1>2, DotsKeep
<1>3. CASE SkipItem
  <2>1. /\ Holds /\ i = 1 /\ ret = 0 /\ accRet = 0 /\ Len(mem[result]) = capacity
        /\ pc = "scan" /\ next < Len(items) /\ ~ items[next + 1].listed /\ next' = next + 1
        /\ UNCHANGED <<mem, last, result, length, capacity, accRet, items, ret, i, files, pc>>
    BY <1>3 DEF SkipItem, HasItem, IsListed, AtPc, acc
  <2>2. Rank(next + 1) = Rank(next) /\ \A n \in Nat : Rank(n)' = Rank(n)
    BY <1>t, <2>1, RankFacts DEF Rank
  <2>3. Rank(next)' = Rank(next)
    BY <1>t, <2>1, <2>2 DEF Rank
  <2>4. OwnsFrom(1)' /\ \A n : Slot(n)' = Slot(n)
    BY <2>1 DEF Holds, OwnsFrom, Slots, Slot
  <2>5. \A k \in 1 .. next' : items[k].listed => k \in 1 .. next /\ k \in Nat
    BY <1>t, <2>1
  <2>6. (\A k \in 1 .. next : items[k].listed => mem[Slot(2 + Rank(k))] = items[k].names[1])'
    BY <2>1, <2>2, <2>5 DEF Holds, Slot
  <2>7. Holds'
    BY <2>1, <2>3, <2>4, <2>6 DEF Holds, Slot
  <2>8. TypeOK'
    BY <1>t, <2>1 DEF TypeOK
  <2>. QED  BY <2>1, <2>7, <2>8 DEF AtPc
<1>4. CASE Grow
  BY <1>4, GrowKeeps
<1>5. CASE GrowFails
  <2>1. /\ Holds /\ i = 1 /\ ret = 0 /\ capacity' = capacity * 2
        /\ accRet' = ENOMEM /\ pc' = "scanned"
        /\ UNCHANGED <<items, next, mem, last, result, length, ret, i, files>>
    BY <1>5 DEF GrowFails, HasItem, AtPc
  <2>2. Holds'
    BY <2>1, HoldsUnchanged
  <2>3. TypeOK'
    <3>1. capacity' \in Nat
      BY <1>t, <2>1
    <3>. QED  BY <2>1, <3>1 DEF TypeOK
  <2>. QED  BY <1>e, <2>1, <2>2, <2>3 DEF AtPc
<1>6. CASE AddName
  <2>1. /\ Holds /\ i = 1 /\ ret = 0 /\ accRet = 0 /\ Len(mem[result]) = capacity
        /\ pc = "scan" /\ next < Len(items)
        /\ last' = last + 1 /\ length' = length + 1 /\ next' = next + 1
        /\ DOMAIN mem' = DOMAIN mem \cup {last + 1}
        /\ UNCHANGED <<items, result, capacity, accRet, ret, i, files, pc>>
    BY <1>6 DEF AddName, HasItem, AtPc
  <2>2. Holds' /\ Len(mem'[result']) = capacity'
    BY <1>6, <2>1, AddedNameHolds
  <2>3. TypeOK'
    <3>1. DOMAIN mem' \subseteq 1 .. last' /\ last' \in Nat /\ length' \in Nat
          /\ next' \in 0 .. Len(items) /\ i' \in 1 .. length' + 1
      BY <1>t, <2>1 DEF TypeOK
    <3>2. \A n \in 0 .. last : n \in 0 .. last'
      BY <1>t, <2>1
    <3>. QED  BY <2>1, <3>1, <3>2 DEF TypeOK
  <2>. QED  BY <2>1, <2>2, <2>3 DEF AtPc
<1>7. CASE AddNameFails
  <2>1. /\ Holds /\ i = 1 /\ ret = 0 /\ capacity /= length /\ Len(mem[result]) = capacity
        /\ mem' = [mem EXCEPT ![result][length + 1] = NullPtr]
        /\ accRet' = ENOMEM /\ pc' = "scanned"
        /\ UNCHANGED <<items, next, last, result, length, capacity, ret, i, files>>
    BY <1>7 DEF AddNameFails, HasItem, AtPc
  <2>2. /\ result \in DOMAIN mem /\ mem[result] \in Seq(Int)
        /\ length + 1 \in 1 .. Len(mem[result])
    <3>1. result \in DOMAIN mem /\ mem[result] \in Seq(Int) /\ length <= Len(mem[result])
      BY <2>1 DEF Holds, OwnsFrom
    <3>. QED  BY <1>t, <2>1, <3>1
  <2>3. /\ DOMAIN mem' = DOMAIN mem
        /\ mem'[result] = [mem[result] EXCEPT ![length + 1] = NullPtr]
        /\ \A a \in DOMAIN mem \ {result} : mem'[a] = mem[a]
    BY <2>1, <2>2
  <2>4. /\ mem'[result] \in Seq(Int) /\ Len(mem'[result]) = Len(mem[result])
        /\ \A n \in 1 .. length : mem'[result][n] = mem[result][n]
    <3>1. NullPtr \in Int
      BY DEF NullPtr
    <3>2. \A n \in 1 .. length : n \in 1 .. Len(mem[result]) /\ n /= length + 1
      BY <1>t, <2>2
    <3>3. /\ [mem[result] EXCEPT ![length + 1] = NullPtr] \in Seq(Int)
          /\ Len([mem[result] EXCEPT ![length + 1] = NullPtr]) = Len(mem[result])
          /\ \A n \in 1 .. Len(mem[result]) :
                [mem[result] EXCEPT ![length + 1] = NullPtr][n]
                    = IF n = length + 1 THEN NullPtr ELSE mem[result][n]
      BY <2>2, <3>1, ExceptSeq
    <3>. QED  BY <2>3, <3>2, <3>3
  <2>5. Holds'
    <3>1. DOMAIN mem' = (DOMAIN mem \ {result}) \cup {result'}
      BY <2>1, <2>2, <2>3
    <3>2. length <= Len(mem'[result'])
      BY <1>t, <2>1, <2>2, <2>4
    <3>. QED  BY <2>1, <2>3, <2>4, <3>1, <3>2, ReplacedArrayHolds
  <2>6. TypeOK'
    BY <2>1, <2>3 DEF TypeOK
  <2>. QED  BY <1>e, <2>1, <2>5, <2>6 DEF AtPc
<1>8. CASE EndScan
  <2>1. UNCHANGED <<items, next, mem, last, result, length, capacity, accRet, ret, i, files>>
        /\ pc = "scan" /\ next = Len(items) /\ pc' = "scanned"
    BY <1>8 DEF EndScan, acc
  <2>2. Holds' /\ TypeOK'
    BY <2>1, HoldsUnchanged DEF AtPc, TypeOK
  <2>. QED  BY <2>1, <2>2 DEF AtPc
<1>9. CASE Finish
  <2>1. /\ Holds /\ i = 1 /\ pc = "scanned" /\ ret' = accRet
        /\ pc' = IF accRet /= 0 THEN "free" ELSE IF length < capacity THEN "shrink" ELSE "return"
        /\ UNCHANGED <<items, next, mem, last, result, length, capacity, accRet, i, files>>
        /\ accRet = 0 => Len(mem[result]) = capacity /\ next = Len(items)
        /\ accRet \in {0, ENOMEM} /\ length <= Len(mem[result]) /\ result \in DOMAIN mem
    BY <1>9 DEF Finish, AtPc, TypeOK, acc, Holds, OwnsFrom
  <2>2. Holds' /\ TypeOK'
    BY <2>1, HoldsUnchanged DEF TypeOK
  <2>3. CASE accRet /= 0
    <3>1. OwnsFrom(i)'
      BY <2>1, <2>2 DEF Holds, OwnsFrom, Slots, Slot
    <3>. QED  BY <2>1, <2>2, <2>3, <3>1 DEF AtPc
  <2>4. CASE accRet = 0 /\ length < capacity
    BY <2>1, <2>2, <2>4 DEF AtPc
  <2>5. CASE accRet = 0 /\ ~ length < capacity
    <3>1. Len(mem[result]) = length
      BY <1>t, <2>1, <2>5
    <3>. QED  BY <2>1, <2>2, <2>5, <3>1 DEF AtPc
  <2>. QED  BY <2>3, <2>4, <2>5
<1>10. CASE Shrink
  BY <1>10, ShrinkKeeps
<1>11. CASE ShrinkFails
  BY <1>11 DEF ShrinkFails, TypeOK, AtPc, acc
<1>12. CASE ReturnFiles
  <2>1. /\ pc = "return" /\ pc' = "listed" /\ files' = result
        /\ UNCHANGED <<items, next, mem, last, result, length, capacity, accRet, ret, i>>
    BY <1>12 DEF ReturnFiles, acc
  <2>2. Holds => Holds'
    BY <2>1, HoldsUnchanged
  <2>3. TypeOK'
    BY <2>1 DEF TypeOK
  <2>. QED  BY <2>1, <2>2, <2>3 DEF AtPc
<1>13. CASE FreeName
  BY <1>13, FreeNameKeeps
<1>14. CASE FreeArray
  <2>1. /\ OwnsFrom(i) /\ i > length /\ mem' = Without({result}) /\ pc' = "failed"
        /\ UNCHANGED <<items, next, last, result, length, capacity, accRet, ret, i, files>>
    BY <1>14 DEF FreeArray, AtPc, acc
  <2>2. Slots(i) = {}
    BY <1>t, <2>1 DEF Slots
  <2>3. DOMAIN mem' = {}
    BY <2>1, <2>2 DEF OwnsFrom, Without
  <2>. QED  BY <2>1, <2>3 DEF AtPc, TypeOK
<1>15. CASE CallerFrees
  <2>1. /\ files = result /\ result \in DOMAIN mem /\ Holds /\ pc' = "freed"
        /\ mem' = Without({mem[files][n] : n \in 1 .. length} \cup {files})
        /\ UNCHANGED <<items, next, last, result, length, capacity, accRet, ret, i, files>>
    BY <1>15 DEF CallerFrees, AtPc, acc
  <2>2. {mem[files][n] : n \in 1 .. length} = Slots(1)
    BY <2>1 DEF Slots, Slot
  <2>3. DOMAIN mem' = {}
    BY <2>1, <2>2 DEF Holds, OwnsFrom, Without
  <2>. QED  BY <2>1, <2>3 DEF AtPc, TypeOK
<1>16. CASE UNCHANGED vars
  <2>1. UNCHANGED <<items, next, mem, last, result, length, capacity, accRet, ret, i, files, pc>>
    BY <1>16 DEF vars, acc
  <2>2. (Holds => Holds') /\ (OwnsFrom(i) => OwnsFrom(i)')
    BY <2>1, HoldsUnchanged DEF OwnsFrom, Slots, Slot
  <2>. QED  BY <2>1, <2>2 DEF AtPc, TypeOK, Fresh
<1>. QED  BY <1>1, <1>2, <1>3, <1>4, <1>5, <1>6, <1>7, <1>8, <1>9, <1>10, <1>11, <1>12,
             <1>13, <1>14, <1>15, <1>16 DEF Next, Step, Stopped

----------------------------------------------------------------------------

\* The invariant holds throughout a listing.
THEOREM SpecIInv == Spec => []IInv
BY InitIInv, NextIInv, PTL DEF Spec

\* The types are right: the handler never sees a capacity, a length or an address
\* that the code does not have.
THEOREM TypeCorrect == Spec => []TypeOK
<1>1. IInv => TypeOK
  BY DEF IInv
<1>. QED  BY <1>1, SpecIInv, PTL

\* In a directory of any number of names the handler writes inside its array, which
\* is as large as the capacity says although a failed realloc leaves the capacity
\* doubled, and the names that free_result frees are different ones.
THEOREM SoundArray == Spec => []ArrayIsSound
<1>1. IInv => ArrayIsSound
  <2>. SUFFICES ASSUME IInv, pc \in {"scan", "free"}
                PROVE  /\ OwnsFrom(i)
                       /\ accRet = 0 /\ ret = 0 => Len(mem[result]) = capacity
    BY DEF ArrayIsSound, OwnsFrom, Slots, Slot
  <2>1. pc = "scan" => i = 1 /\ OwnsFrom(1) /\ (accRet = 0 => Len(mem[result]) = capacity)
    BY DEF IInv, AtPc, Holds
  <2>2. pc = "free" => OwnsFrom(i) /\ ret /= 0
    BY DEF IInv, AtPc, ENOMEM
  <2>. QED  BY <2>1, <2>2
<1>. QED  BY <1>1, SpecIInv, PTL

\* Wherever the listing of a directory runs out of memory, nothing of it stays
\* allocated, and nothing does when its caller has freed what it was given.
THEOREM NoLeak == Spec => []NothingLeaks
<1>1. IInv => NothingLeaks
  BY DEF IInv, AtPc, NothingLeaks
<1>. QED  BY <1>1, SpecIInv, PTL

\* With a realloc that makes memory smaller in place, the listing that is returned
\* may be read: that the handler's result is not updated at btrfs_low.c:387 does no
\* harm then.
THEOREM ListingMayBeRead ==
    ASSUME ~ ShrinkMoves
    PROVE  Spec => []CallerMayReadFiles
<1>1. IInv => CallerMayReadFiles
  BY DEF IInv, AtPc, CallerMayReadFiles
<1>. QED  BY <1>1, SpecIInv, PTL

\* With such a realloc, the caller is given the two dots and the name of every item
\* of the directory, in order, and nothing else, for directories of every size.
THEOREM CompleteListing ==
    ASSUME ~ ShrinkMoves
    PROVE  Spec => []ListingIsComplete
<1>1. IInv => ListingIsComplete
  <2>. SUFFICES ASSUME IInv, pc = "listed" PROVE ListingIsComplete
    BY DEF ListingIsComplete
  <2>1. Holds /\ Len(mem[result]) = length /\ files = result /\ next = Len(items)
    BY DEF IInv, AtPc
  <2>. QED  BY <2>1 DEF Holds, Slot, ListingIsComplete
<1>. QED  BY <1>1, SpecIInv, PTL
=============================================================================
