--------------------- MODULE BtrfsTraverseBtreeTheorems ---------------------
(***************************************************************************)
(* Proofs about the traversal, for every well formed tree, every chunk     *)
(* list and every handler.  The argument: what is left to hand over is     *)
(* what lies, in the block of each activation, behind the entry its loop   *)
(* has come to; so the next item is the least of what is left, and a block *)
(* that is passed over takes the least of it along.                        *)
(***************************************************************************)
EXTENDS BtrfsTraverseBtree, BtrfsKeysTheorems, SequenceTheorems

Items(b) == tree.items[b]

\* The keys under the i-th entry of a block, and those from it on.
Under(b, i) == IF Level(b) = 0 THEN {tree.keys[b][i]} ELSE Items(tree.ptrs[b][i])
From(b, i) == UNION {Under(b, j) : j \in i .. Nritems(b)}

\* What the handler was not called with yet, and may still be.
Left == Items(tree.root) \ (ToSet(handled) \cup Lost)

\* Each activation of a stack s that has called another one stands at its entry.
CallsChild(s) ==
    /\ s /= <<>> => s[1].block = tree.root
    /\ \A d \in 1 .. Len(s) - 1 :
        /\ s[d].i <= Nritems(s[d].block)
        /\ Level(s[d].block) > 0
        /\ s[d + 1].block = Child(s[d])

\* The activations stand in ever smaller subtrees.
Nested(s) ==
    \A d, e \in 1 .. Len(s) : d <= e => Items(s[e].block) \subseteq Items(s[d].block)

\* Of each activation's block is left what lies behind the entry it has come to;
\* of the innermost one's, what lies under that entry, too.
LeavesTheRest(s, left) ==
    \A d \in 1 .. Len(s) :
        IF d = Len(s)
        THEN left \cap Items(s[d].block) = From(s[d].block, s[d].i)
        ELSE (left \cap Items(s[d].block)) \ Items(s[d + 1].block) =
                From(s[d].block, s[d].i + 1)

\* What is left outside of an activation's block comes behind all of the block.
KeepsOrder(s, left) ==
    \A d \in 1 .. Len(s) : \A x \in Items(s[d].block), y \in left \ Items(s[d].block) :
        KeyLess(x, y)

WalksOn(s, left) == LeavesTheRest(s, left) /\ KeepsOrder(s, left) /\ (s = <<>> => left = {})

\* What was handed over and what was passed over are parts of the tree.
Splits ==
    /\ ToSet(handled) \cup Lost \subseteq Items(tree.root)
    /\ ToSet(handled) \cap Lost = {}
    /\ skipped \cap mapped = {}

IInv ==
    /\ TypeOK
    /\ tree \in Trees
    /\ pc = "start" => stack = <<>> /\ handled = <<>> /\ skipped = {} /\ result = "CONTINUE"
    /\ pc = "done" => stack = <<>>
    /\ CallsChild(stack)
    /\ Nested(stack)
    /\ Splits
    /\ pc /= "start" /\ result = "CONTINUE" => WalksOn(stack, Left)

----------------------------------------------------------------------------
\* What the assumption on the trees says of every block.
LEMMA TreeFacts ==
    ASSUME tree \in Trees
    PROVE  /\ tree \in Tree
           /\ tree.root \in Blocks
           /\ \A b \in Blocks :
                /\ Level(b) \in Nat
                /\ tree.keys[b] \in Seq(Key)
                /\ Nritems(b) \in Nat
                /\ tree.ptrs[b] \in Seq(Blocks)
                /\ Items(b) \subseteq Key
                /\ Sorted(tree.keys[b])
                /\ Level(b) = 0 => Items(b) = KeySet(tree.keys[b])
                /\ Level(b) > 0 => NodeOk(tree, b)
<1>1. WellFormed(tree)
  BY TreesAssumption
<1>2. tree \in Tree /\ tree.root \in Blocks
  BY <1>1 DEF WellFormed, Tree
<1>3. ASSUME NEW b \in Blocks
      PROVE  /\ Level(b) \in Nat
             /\ tree.keys[b] \in Seq(Key)
             /\ tree.ptrs[b] \in Seq(Blocks)
             /\ Items(b) \subseteq Key
  BY <1>2, <1>3 DEF Tree, Level, Items
<1>4. ASSUME NEW b \in Blocks
      PROVE  /\ Sorted(tree.keys[b])
             /\ Level(b) = 0 => Items(b) = KeySet(tree.keys[b])
             /\ Level(b) > 0 => NodeOk(tree, b)
  BY <1>1, <1>3, <1>4 DEF WellFormed, LeafOk, Level, Items
<1>5. ASSUME NEW b \in Blocks PROVE Nritems(b) \in Nat
  BY <1>3, <1>5 DEF Nritems
<1>. QED  BY <1>2, <1>3, <1>4, <1>5

\* The keys of a node are in ascending order, those that are equal left out.
LEMMA SortedKeys ==
    ASSUME NEW keys \in Seq(Key), Sorted(keys),
           NEW i \in 1 .. Len(keys), NEW j \in 1 .. Len(keys), i <= j
    PROVE  KeyLeq(keys[i], keys[j])
<1>1. CASE i = j
  BY <1>1 DEF KeyLeq
<1>2. CASE i < j
  BY <1>2 DEF Sorted, KeyLeq
<1>. QED  BY <1>1, <1>2

\* What lies under an entry of a block is in the block, and is below all that lies
\* under a later entry.
LEMMA EntryOrder ==
    ASSUME tree \in Trees, NEW b \in Blocks, NEW i \in 1 .. Nritems(b)
    PROVE  /\ Under(b, i) \subseteq Items(b)
           /\ \A j \in 1 .. Nritems(b) : i < j =>
                \A x \in Under(b, i), y \in Under(b, j) : KeyLess(x, y)
<1> DEFINE keys == tree.keys[b]
<1>1. /\ keys \in Seq(Key) /\ Sorted(keys) /\ Items(b) \subseteq Key
      /\ Nritems(b) = Len(keys) /\ Level(b) \in Nat
  BY TreeFacts DEF Nritems
<1>2. CASE Level(b) = 0
  <2>1. Items(b) = KeySet(keys) /\ Under(b, i) = {keys[i]}
    BY <1>2, TreeFacts DEF Under
  <2>2. Under(b, i) \subseteq Items(b)
    BY <1>1, <2>1 DEF KeySet
  <2>3. ASSUME NEW j \in 1 .. Nritems(b), i < j, NEW x \in Under(b, i), NEW y \in Under(b, j)
        PROVE  KeyLess(x, y)
    <3>1. x = keys[i] /\ y = keys[j]
      BY <1>2, <2>1, <2>3 DEF Under
    <3>. QED  BY <1>1, <2>3, <3>1 DEF Sorted
  <2>. QED  BY <2>2, <2>3
<1>3. CASE Level(b) > 0
  <2>1. NodeOk(tree, b) /\ \A j : Under(b, j) = Items(tree.ptrs[b][j])
    BY <1>1, <1>3, TreeFacts DEF Under
  <2>2. Under(b, i) \subseteq Items(b)
    BY <1>1, <2>1 DEF NodeOk, Items
  <2>3. ASSUME NEW j \in 1 .. Nritems(b), i < j, NEW x \in Under(b, i), NEW y \in Under(b, j)
        PROVE  KeyLess(x, y)
    <3>1. Under(b, j) \subseteq Items(b)
      BY <1>1, <2>1 DEF NodeOk, Items
    <3>2. x \in Key /\ y \in Key
      BY <1>1, <2>2, <3>1
    <3>3. i + 1 \in 1 .. Len(keys) /\ i < Len(keys) /\ j \in 1 .. Len(keys) /\ i + 1 <= j
      BY <1>1, <2>3
    <3>4. KeyLess(x, keys[i + 1])
      BY <1>1, <2>1, <3>3 DEF NodeOk, ChildOk, Items
    <3>5. KeyLeq(keys[j], y)
      BY <1>1, <2>1, <3>3 DEF NodeOk, ChildOk, Items
    <3>6. KeyLeq(keys[i + 1], keys[j]) /\ keys[i + 1] \in Key /\ keys[j] \in Key
      BY <1>1, <3>3, SortedKeys
    <3>. QED  BY <3>2, <3>4, <3>5, <3>6, LeqOrder
  <2>. QED  BY <2>2, <2>3
<1>. QED  BY <1>1, <1>2, <1>3

\* What lies under the entries of a block makes up the block; none is left behind
\* the last, and one entry's part is below and apart from that of the later ones.
LEMMA EntryFacts ==
    ASSUME tree \in Trees, NEW b \in Blocks
    PROVE  /\ From(b, 1) = Items(b)
           /\ \A i \in Nat : i > Nritems(b) => From(b, i) = {}
           /\ \A i \in 1 .. Nritems(b) :
                /\ Under(b, i) \subseteq Items(b)
                /\ From(b, i) = Under(b, i) \cup From(b, i + 1)
                /\ \A x \in Under(b, i), y \in From(b, i + 1) : KeyLess(x, y)
                /\ Under(b, i) \cap From(b, i + 1) = {}
<1> DEFINE keys == tree.keys[b]
           n == Nritems(b)
<1>1. /\ keys \in Seq(Key) /\ Items(b) \subseteq Key
      /\ n = Len(keys) /\ n \in Nat /\ Level(b) \in Nat
  BY TreeFacts DEF Nritems
<1>2. \A x \in Items(b) : \E i \in 1 .. n : x \in Under(b, i)
  <2>1. CASE Level(b) = 0
    BY <1>1, <2>1, TreeFacts DEF Under, KeySet
  <2>2. CASE Level(b) > 0
    <3>1. NodeOk(tree, b) /\ \A j : Under(b, j) = Items(tree.ptrs[b][j])
      BY <1>1, <2>2, TreeFacts DEF Under
    <3>. QED  BY <1>1, <3>1 DEF NodeOk, Items
  <2>. QED  BY <1>1, <2>1, <2>2
<1> HIDE DEF n
<1>3. \A i \in 1 .. n : Under(b, i) \subseteq Items(b)
  BY EntryOrder DEF n
<1>4. From(b, 1) = Items(b)
  BY <1>2, <1>3 DEF From, n
<1>5. ASSUME NEW i \in Nat, i > n PROVE From(b, i) = {}
  <2>1. i .. n = {}
    BY <1>1, <1>5
  <2>. QED  BY <2>1 DEF From, n
<1>6. ASSUME NEW i \in 1 .. n
      PROVE  /\ From(b, i) = Under(b, i) \cup From(b, i + 1)
             /\ \A x \in Under(b, i), y \in From(b, i + 1) : KeyLess(x, y)
  <2>1. i .. n = {i} \cup (i + 1 .. n)
    BY <1>1, <1>6
  <2>2. From(b, i) = Under(b, i) \cup From(b, i + 1)
    BY <2>1 DEF From, n
  <2>3. ASSUME NEW x \in Under(b, i), NEW y \in From(b, i + 1) PROVE KeyLess(x, y)
    <3>1. PICK j \in i + 1 .. n : y \in Under(b, j)
      BY DEF From, n
    <3>2. j \in 1 .. n /\ i < j
      BY <1>1, <1>6
    <3>. QED  BY <1>6, <3>1, <3>2, EntryOrder DEF n
  <2>. QED  BY <2>2, <2>3
<1>7. ASSUME NEW i \in 1 .. n PROVE Under(b, i) \cap From(b, i + 1) = {}
  <2> SUFFICES ASSUME NEW x \in Under(b, i), x \in From(b, i + 1) PROVE FALSE
    OBVIOUS
  <2>1. KeyLess(x, x) /\ x \in Key
    BY <1>1, <1>3, <1>6
  <2>. QED  BY <2>1, KeyOrder
<1>. QED  BY <1>3, <1>4, <1>5, <1>6, <1>7 DEF n

----------------------------------------------------------------------------
Frames == [block : Blocks, i : Nat \ {0}]

\* What becomes of a stack when the innermost loop goes on, and when the innermost
\* activation returns.
LEMMA AdvanceFacts ==
    ASSUME NEW s \in Seq(Frames), s /= <<>>
    PROVE  /\ Advance(s) \in Seq(Frames) /\ Len(Advance(s)) = Len(s)
           /\ \A d \in 1 .. Len(s) :
                /\ Advance(s)[d].block = s[d].block
                /\ Advance(s)[d].i = IF d = Len(s) THEN s[d].i + 1 ELSE s[d].i
<1> DEFINE n == Len(s)
           frame == [s[n] EXCEPT !.i = s[n].i + 1]
<1>1. n \in Nat /\ n \in 1 .. Len(s) /\ s[n] \in Frames
  OBVIOUS
<1>2. frame \in Frames /\ frame.block = s[n].block /\ frame.i = s[n].i + 1
  BY <1>1 DEF Frames
<1>3. Advance(s) = [s EXCEPT ![n] = frame]
  BY DEF Advance
<1> HIDE DEF frame
<1>. QED  BY <1>1, <1>2, <1>3

\* A stack without its last frame.
LEMMA FrontFacts ==
    ASSUME NEW s \in Seq(Frames), s /= <<>>
    PROVE  /\ Front(s) \in Seq(Frames) /\ Len(Front(s)) = Len(s) - 1
           /\ \A d \in 1 .. Len(s) - 1 : Front(s)[d] = s[d]
  BY DEF Front

\* The entry that the walk has come to is the least of what is left, and the walk
\* goes on behind it.
LEMMA EntryIsNext ==
    ASSUME tree \in Trees, NEW s \in Seq(Frames), s /= <<>>, NEW left,
           CallsChild(s), Nested(s), WalksOn(s, left),
           s[Len(s)].i <= Nritems(s[Len(s)].block)
    PROVE  LET entry == Under(s[Len(s)].block, s[Len(s)].i)
           IN  /\ entry \subseteq left
               /\ \A x \in entry, y \in left \ entry : KeyLess(x, y)
               /\ CallsChild(Advance(s))
               /\ Nested(Advance(s))
               /\ WalksOn(Advance(s), left \ entry)
<1> DEFINE n == Len(s)
           b == s[n].block
           i == s[n].i
           entry == Under(b, i)
           t == Advance(s)
           rest == left \ entry
<1>1. /\ n \in Nat \ {0} /\ n \in 1 .. Len(s) /\ s[n] \in Frames
      /\ \A d \in 1 .. n : s[d] \in Frames
  OBVIOUS
<1>2. b \in Blocks /\ i \in 1 .. Nritems(b)
  BY <1>1, TreeFacts DEF Frames
<1>3. /\ t \in Seq(Frames) /\ Len(t) = n
      /\ \A d \in 1 .. n : /\ t[d].block = s[d].block
                          /\ t[d].i = IF d = n THEN s[d].i + 1 ELSE s[d].i
  BY AdvanceFacts
<1>4. left \cap Items(b) = From(b, i)
  BY <1>1 DEF WalksOn, LeavesTheRest
<1> HIDE DEF t
<1>5. /\ entry \subseteq Items(b) /\ From(b, i) = entry \cup From(b, i + 1)
      /\ \A x \in entry, y \in From(b, i + 1) : KeyLess(x, y)
      /\ entry \cap From(b, i + 1) = {}
  BY <1>2, EntryFacts
<1>6. \A x \in Items(b), y \in left \ Items(b) : KeyLess(x, y)
  BY <1>1 DEF WalksOn, KeepsOrder
<1>7. entry \subseteq left
  BY <1>4, <1>5
<1>8. \A x \in entry, y \in rest : KeyLess(x, y)
  BY <1>4, <1>5, <1>6
<1>9. CallsChild(t)
  <2>1. t /= <<>> => t[1].block = tree.root
    BY <1>1, <1>3 DEF CallsChild
  <2>2. ASSUME NEW d \in 1 .. n - 1
        PROVE  /\ t[d].i <= Nritems(t[d].block)
               /\ Level(t[d].block) > 0
               /\ t[d + 1].block = Child(t[d])
    <3>1. d \in 1 .. n /\ d + 1 \in 1 .. n /\ d /= n /\ d \in 1 .. Len(s) - 1
      BY <1>1
    <3>2. t[d].block = s[d].block /\ t[d + 1].block = s[d + 1].block /\ t[d].i = s[d].i
      BY <1>3, <3>1
    <3>. QED  BY <3>1, <3>2 DEF CallsChild, Child
  <2>. QED  BY <1>3, <2>1, <2>2 DEF CallsChild
<1>10. Nested(t)
  BY <1>3 DEF Nested
<1>11. ASSUME NEW d \in 1 .. n
       PROVE  IF d = n
              THEN rest \cap Items(t[d].block) = From(t[d].block, t[d].i)
              ELSE (rest \cap Items(t[d].block)) \ Items(t[d + 1].block) =
                      From(t[d].block, t[d].i + 1)
  <2>1. CASE d = n
    <3>1. t[d].block = b /\ t[d].i = i + 1
      BY <1>3, <2>1
    <3>2. rest \cap Items(b) = From(b, i + 1)
      BY <1>4, <1>5
    <3>. QED  BY <2>1, <3>1, <3>2
  <2>2. CASE d /= n
    <3>1. d + 1 \in 1 .. n
      BY <1>1, <2>2
    <3>2. t[d].block = s[d].block /\ t[d + 1].block = s[d + 1].block /\ t[d].i = s[d].i
      BY <1>3, <2>2, <3>1
    <3>3. (left \cap Items(s[d].block)) \ Items(s[d + 1].block) =
            From(s[d].block, s[d].i + 1)
      BY <2>2 DEF WalksOn, LeavesTheRest
    <3>4. entry \subseteq Items(s[d + 1].block)
      <4>1. Items(b) \subseteq Items(s[d + 1].block)
        BY <1>1, <3>1 DEF Nested
      <4>. QED  BY <1>5, <4>1
    <3>5. (rest \cap Items(s[d].block)) \ Items(s[d + 1].block) =
            (left \cap Items(s[d].block)) \ Items(s[d + 1].block)
      BY <3>4
    <3>. QED  BY <2>2, <3>2, <3>3, <3>5
  <2>. QED  BY <2>1, <2>2
<1>12. LeavesTheRest(t, rest)
  BY <1>3, <1>11 DEF LeavesTheRest
<1>13. KeepsOrder(t, rest)
  BY <1>3 DEF WalksOn, KeepsOrder
<1>14. t /= <<>>
  BY <1>1, <1>3
<1>. QED  BY <1>7, <1>8, <1>9, <1>10, <1>12, <1>13, <1>14 DEF WalksOn, t

\* A call for a child leaves everything to the child that lies under its entry.
LEMMA EnteringKeeps ==
    ASSUME tree \in Trees, NEW s \in Seq(Frames), s /= <<>>, NEW left,
           CallsChild(s), Nested(s), WalksOn(s, left),
           s[Len(s)].i <= Nritems(s[Len(s)].block), Level(s[Len(s)].block) > 0
    PROVE  LET t == Append(s, Frame(Child(s[Len(s)])))
           IN  t \in Seq(Frames) /\ CallsChild(t) /\ Nested(t) /\ WalksOn(t, left)
<1> DEFINE n == Len(s)
           b == s[n].block
           i == s[n].i
           c == Child(s[n])
           t == Append(s, Frame(c))
<1>1. /\ n \in Nat \ {0} /\ n \in 1 .. Len(s) /\ s[n] \in Frames
      /\ \A d \in 1 .. n : s[d] \in Frames
  OBVIOUS
<1>2. b \in Blocks /\ i \in 1 .. Nritems(b)
  BY <1>1, TreeFacts DEF Frames
<1>3. c \in Blocks /\ Under(b, i) = Items(c)
  <2>1. tree.ptrs[b] \in Seq(Blocks) /\ NodeOk(tree, b) /\ Nritems(b) = Len(tree.keys[b])
    BY <1>2, TreeFacts DEF Nritems
  <2>2. i \in 1 .. Len(tree.ptrs[b])
    BY <1>2, <2>1 DEF NodeOk
  <2>3. Level(b) /= 0
    BY <1>2, TreeFacts
  <2>. QED  BY <2>1, <2>2, <2>3 DEF Child, Under
<1>4. Frame(c) \in Frames /\ Frame(c).block = c /\ Frame(c).i = 1
  BY <1>3 DEF Frame, Frames
<1>5. /\ t \in Seq(Frames) /\ Len(t) = n + 1
      /\ \A d \in 1 .. n : t[d] = s[d]
      /\ t[n + 1].block = c /\ t[n + 1].i = 1
  <2> HIDE DEF c
  <2> DEFINE f == Frame(c)
  <2>1. f \in Frames /\ f.block = c /\ f.i = 1
    BY <1>4
  <2> HIDE DEF f
  <2>2. /\ Append(s, f) \in Seq(Frames) /\ Len(Append(s, f)) = Len(s) + 1
        /\ \A d \in 1 .. Len(s) : Append(s, f)[d] = s[d]
        /\ Append(s, f)[Len(s) + 1] = f
    BY <2>1, AppendProperties
  <2>3. t = Append(s, f) /\ n = Len(s)
    BY DEF f
  <2> HIDE DEF n, t
  <2>. QED  BY <2>1, <2>2, <2>3
<1>6. /\ Items(c) \subseteq left
      /\ \A x \in Items(c), y \in left \ Items(c) : KeyLess(x, y)
  <2> DEFINE entry == Under(b, i)
  <2>1. /\ entry \subseteq left
        /\ \A x \in entry, y \in left \ entry : KeyLess(x, y)
    BY EntryIsNext
  <2>2. entry = Items(c)
    BY <1>3
  <2> HIDE DEF entry
  <2>. QED  BY <2>1, <2>2
<1>7. /\ Items(c) \subseteq Items(b) /\ From(b, i) = Items(c) \cup From(b, i + 1)
      /\ Items(c) \cap From(b, i + 1) = {}
  BY <1>2, <1>3, EntryFacts
<1>8. left \cap Items(b) = From(b, i)
  BY <1>1 DEF WalksOn, LeavesTheRest
<1>9. From(c, 1) = Items(c)
  BY <1>3, EntryFacts
<1> HIDE DEF t, c
<1>10. CallsChild(t)
  <2>1. t[1].block = tree.root
    BY <1>1, <1>5 DEF CallsChild
  <2>2. ASSUME NEW d \in 1 .. n
        PROVE  /\ t[d].i <= Nritems(t[d].block)
               /\ Level(t[d].block) > 0
               /\ t[d + 1].block = Child(t[d])
    <3>1. CASE d = n
      BY <1>2, <1>5, <3>1 DEF c
    <3>2. CASE d /= n
      <4>1. d \in 1 .. Len(s) - 1 /\ d + 1 \in 1 .. n
        BY <1>1, <3>2
      <4>. QED  BY <1>5, <4>1 DEF CallsChild
    <3>. QED  BY <3>1, <3>2
  <2>3. Len(t) - 1 = n
    BY <1>1, <1>5
  <2>. QED  BY <2>1, <2>2, <2>3 DEF CallsChild
<1>11. Nested(t)
  <2>1. ASSUME NEW d \in 1 .. n + 1, NEW e \in 1 .. n + 1, d <= e
        PROVE  Items(t[e].block) \subseteq Items(t[d].block)
    <3>1. CASE e /= n + 1
      <4>1. d \in 1 .. n /\ e \in 1 .. n
        BY <1>1, <2>1, <3>1
      <4>. QED  BY <1>5, <2>1, <4>1 DEF Nested
    <3>2. CASE e = n + 1 /\ d = n + 1
      BY <3>2
    <3>3. CASE e = n + 1 /\ d /= n + 1
      <4>1. d \in 1 .. n
        BY <1>1, <3>3
      <4>2. Items(b) \subseteq Items(s[d].block)
        BY <1>1, <4>1 DEF Nested
      <4>. QED  BY <1>5, <1>7, <3>3, <4>1, <4>2
    <3>. QED  BY <3>1, <3>2, <3>3
  <2>. QED  BY <1>5, <2>1 DEF Nested
<1>12. ASSUME NEW d \in 1 .. n + 1
       PROVE  IF d = n + 1
              THEN left \cap Items(t[d].block) = From(t[d].block, t[d].i)
              ELSE (left \cap Items(t[d].block)) \ Items(t[d + 1].block) =
                      From(t[d].block, t[d].i + 1)
  <2>1. CASE d = n + 1
    <3>1. left \cap Items(c) = Items(c)
      BY <1>6
    <3>. QED  BY <1>5, <1>9, <2>1, <3>1
  <2>2. CASE d = n
    <3>1. t[d].block = b /\ t[d].i = i /\ t[d + 1].block = c /\ d /= n + 1
      BY <1>1, <1>5, <2>2
    <3>2. (left \cap Items(b)) \ Items(c) = From(b, i + 1)
      BY <1>7, <1>8
    <3>. QED  BY <3>1, <3>2
  <2>3. CASE d /= n /\ d /= n + 1
    <3>1. d \in 1 .. n /\ d + 1 \in 1 .. n
      BY <1>1, <2>3
    <3>2. t[d] = s[d] /\ t[d + 1] = s[d + 1]
      BY <1>5, <3>1
    <3>. QED  BY <2>3, <3>1, <3>2 DEF WalksOn, LeavesTheRest
  <2>. QED  BY <2>1, <2>2, <2>3
<1>13. LeavesTheRest(t, left)
  BY <1>5, <1>12 DEF LeavesTheRest
<1>14. KeepsOrder(t, left)
  <2>1. ASSUME NEW d \in 1 .. n + 1, NEW x \in Items(t[d].block),
               NEW y \in left \ Items(t[d].block)
        PROVE  KeyLess(x, y)
    <3>1. CASE d = n + 1
      BY <1>5, <1>6, <2>1, <3>1
    <3>2. CASE d /= n + 1
      <4>1. d \in 1 .. n
        BY <1>1, <3>2
      <4>. QED  BY <1>5, <2>1, <4>1 DEF WalksOn, KeepsOrder
    <3>. QED  BY <3>1, <3>2
  <2>. QED  BY <1>5, <2>1 DEF KeepsOrder
<1>15. t /= <<>>
  BY <1>1, <1>5
<1>. QED  BY <1>5, <1>10, <1>11, <1>13, <1>14, <1>15 DEF WalksOn, t, c

\* The loop of an activation that has come to its end has left nothing of its
\* block, so that the caller's goes on with the next entry; and the first
\* activation has left nothing at all.
LEMMA ReturningKeeps ==
    ASSUME tree \in Trees, NEW s \in Seq(Frames), s /= <<>>,
           NEW left \in SUBSET Items(tree.root),
           CallsChild(s), Nested(s), WalksOn(s, left),
           s[Len(s)].i > Nritems(s[Len(s)].block)
    PROVE  IF Len(s) = 1 THEN left = {} ELSE WalksOn(Advance(Front(s)), left)
<1> DEFINE n == Len(s)
           b == s[n].block
<1>1. /\ n \in Nat \ {0} /\ n \in 1 .. Len(s) /\ s[n] \in Frames
      /\ \A d \in 1 .. n : s[d] \in Frames
  OBVIOUS
<1>2. b \in Blocks /\ s[n].i \in Nat
  BY <1>1 DEF Frames
<1>3. left \cap Items(b) = {}
  <2>1. left \cap Items(b) = From(b, s[n].i)
    BY <1>1 DEF WalksOn, LeavesTheRest
  <2>2. From(b, s[n].i) = {}
    BY <1>2, EntryFacts
  <2>. QED  BY <2>1, <2>2
<1>4. CASE n = 1
  <2>1. b = tree.root
    BY <1>4 DEF CallsChild
  <2>2. left = {}
    BY <1>3, <2>1
  <2>. QED  BY <1>4, <2>2
<1>5. CASE n /= 1
  <2> DEFINE u == Front(s)
             t == Advance(u)
             m == n - 1
  <2>1. /\ u \in Seq(Frames) /\ Len(u) = m /\ m \in Nat \ {0}
        /\ \A d \in 1 .. m : u[d] = s[d]
    BY <1>1, <1>5, FrontFacts
  <2>2. u /= <<>>
    BY <2>1
  <2>3. /\ t \in Seq(Frames) /\ Len(t) = m
        /\ \A d \in 1 .. m : /\ t[d].block = u[d].block
                            /\ t[d].i = IF d = m THEN u[d].i + 1 ELSE u[d].i
    BY <2>1, <2>2, AdvanceFacts
  <2> HIDE DEF t, u
  <2>4. \A d \in 1 .. m : /\ t[d].block = s[d].block
                         /\ t[d].i = IF d = m THEN s[d].i + 1 ELSE s[d].i
    BY <2>1, <2>3
  <2>5. ASSUME NEW d \in 1 .. m
        PROVE  IF d = m
               THEN left \cap Items(t[d].block) = From(t[d].block, t[d].i)
               ELSE (left \cap Items(t[d].block)) \ Items(t[d + 1].block) =
                       From(t[d].block, t[d].i + 1)
    <3>1. d \in 1 .. n /\ d /= n
      BY <1>1
    <3>2. (left \cap Items(s[d].block)) \ Items(s[d + 1].block) =
             From(s[d].block, s[d].i + 1)
      BY <3>1 DEF WalksOn, LeavesTheRest
    <3>3. CASE d = m
      <4>1. d + 1 = n
        BY <1>1, <3>3
      <4>2. left \cap Items(s[d].block) = From(s[d].block, s[d].i + 1)
        BY <1>3, <3>2, <4>1
      <4>. QED  BY <2>4, <3>3, <4>2
    <3>4. CASE d /= m
      <4>1. d + 1 \in 1 .. m
        BY <2>1, <3>4
      <4>. QED  BY <2>4, <3>2, <3>4, <4>1
    <3>. QED  BY <3>3, <3>4
  <2>6. LeavesTheRest(t, left)
    BY <2>3, <2>5 DEF LeavesTheRest
  <2>7. KeepsOrder(t, left)
    <3>1. \A d \in 1 .. m : d \in 1 .. n
      BY <1>1
    <3>. QED  BY <2>3, <2>4, <3>1 DEF WalksOn, KeepsOrder
  <2>8. t /= <<>>
    BY <2>1, <2>3
  <2>. QED  BY <1>5, <2>6, <2>7, <2>8 DEF WalksOn, t, u
<1>. QED  BY <1>4, <1>5

\* An activation that returns leaves its callers where they stand, whether the
\* innermost of them goes on or not.
LEMMA ReturningKeepsCallers ==
    ASSUME NEW s \in Seq(Frames), s /= <<>>, CallsChild(s), Nested(s)
    PROVE  /\ Front(s) \in Seq(Frames) /\ CallsChild(Front(s)) /\ Nested(Front(s))
           /\ Len(s) = 1 => Front(s) = <<>>
           /\ Len(s) /= 1 => LET t == Advance(Front(s))
                             IN  t \in Seq(Frames) /\ CallsChild(t) /\ Nested(t)
<1> DEFINE u == Front(s)
           m == Len(s) - 1
<1>1. /\ u \in Seq(Frames) /\ Len(u) = m /\ m \in Nat
      /\ \A d \in 1 .. m : u[d] = s[d] /\ d \in 1 .. Len(s) /\ d \in 1 .. Len(s) - 1
  BY FrontFacts
<1> HIDE DEF u
<1>2. m = 0 <=> u = <<>>
  BY <1>1
<1>3. CallsChild(u)
  <2>1. u /= <<>> => u[1].block = tree.root
    BY <1>1, <1>2 DEF CallsChild
  <2>2. ASSUME NEW d \in 1 .. m - 1
        PROVE  /\ u[d].i <= Nritems(u[d].block)
               /\ Level(u[d].block) > 0
               /\ u[d + 1].block = Child(u[d])
    <3>1. d \in 1 .. m /\ d + 1 \in 1 .. m
      BY <1>1
    <3>. QED  BY <1>1, <3>1 DEF CallsChild
  <2>. QED  BY <1>1, <2>1, <2>2 DEF CallsChild
<1>4. Nested(u)
  BY <1>1 DEF Nested
<1>5. ASSUME Len(s) /= 1
      PROVE  Advance(u) \in Seq(Frames) /\ CallsChild(Advance(u)) /\ Nested(Advance(u))
  <2> DEFINE t == Advance(u)
  <2>1. u /= <<>>
    BY <1>1, <1>2, <1>5
  <2>2. /\ t \in Seq(Frames) /\ Len(t) = m
        /\ \A d \in 1 .. m : /\ t[d].block = u[d].block
                            /\ t[d].i = IF d = m THEN u[d].i + 1 ELSE u[d].i
    BY <1>1, <2>1, AdvanceFacts
  <2> HIDE DEF t
  <2>3. t[1].block = tree.root
    BY <1>1, <1>2, <1>3, <2>1, <2>2 DEF CallsChild
  <2>4. ASSUME NEW d \in 1 .. m - 1
        PROVE  /\ t[d].i <= Nritems(t[d].block)
               /\ Level(t[d].block) > 0
               /\ t[d + 1].block = Child(t[d])
    <3>1. d \in 1 .. m /\ d + 1 \in 1 .. m /\ d /= m
      BY <1>1
    <3>. QED  BY <1>1, <1>3, <2>2, <3>1 DEF CallsChild, Child
  <2>5. CallsChild(t)
    BY <1>1, <2>2, <2>3, <2>4 DEF CallsChild
  <2>6. Nested(t)
    BY <1>1, <1>4, <2>2 DEF Nested
  <2>. QED  BY <2>2, <2>5, <2>6 DEF t
<1>6. Len(s) = 1 => m = 0
  OBVIOUS
<1>. QED  BY <1>1, <1>2, <1>3, <1>4, <1>5, <1>6 DEF u

----------------------------------------------------------------------------
\* The first activation has the root's block and everything is left.
LEMMA StartingKeeps ==
    ASSUME tree \in Trees
    PROVE  LET t == <<Frame(tree.root)>>
           IN  /\ t \in Seq(Frames) /\ t /= <<>>
               /\ CallsChild(t) /\ Nested(t) /\ WalksOn(t, Items(tree.root))
<1> DEFINE r == tree.root
           t == <<Frame(r)>>
<1>1. r \in Blocks
  BY TreeFacts
<1>2. Frame(r) \in Frames /\ Frame(r).block = r /\ Frame(r).i = 1
  BY <1>1 DEF Frame, Frames
<1>3. /\ t \in Seq(Frames) /\ Len(t) = 1 /\ t[1].block = r /\ t[1].i = 1 /\ t /= <<>>
  BY <1>2
<1> HIDE DEF t
<1>4. \A d \in 1 .. Len(t) : d = 1
  BY <1>3
<1>5. CallsChild(t) /\ Nested(t)
  <2>1. 1 .. Len(t) - 1 = {}
    BY <1>3
  <2>. QED  BY <1>3, <1>4, <2>1 DEF CallsChild, Nested
<1>6. LeavesTheRest(t, Items(r)) /\ KeepsOrder(t, Items(r))
  <2>1. From(r, 1) = Items(r)
    BY <1>1, EntryFacts
  <2>. QED  BY <1>3, <1>4, <2>1 DEF LeavesTheRest, KeepsOrder
<1>. QED  BY <1>3, <1>5, <1>6 DEF WalksOn, t

\* A walk never changes the tree, so what is said of its next stack is said of it in
\* the same tree.
LEMMA SameTree ==
    ASSUME tree' = tree
    PROVE  /\ CallsChild(stack)' <=> CallsChild(stack')
           /\ Nested(stack)' <=> Nested(stack')
           /\ WalksOn(stack, Left)' <=> WalksOn(stack', Left')
           /\ Left' = Items(tree.root) \ (ToSet(handled') \cup Lost')
           /\ Lost' = UNION {Items(b) : b \in skipped'}
           /\ Splits' <=>
                /\ ToSet(handled') \cup Lost' \subseteq Items(tree.root)
                /\ ToSet(handled') \cap Lost' = {}
                /\ skipped' \cap mapped' = {}
<1>1. CallsChild(stack)' <=> CallsChild(stack')
  BY DEF CallsChild, Nritems, Level, Child
<1>2. Nested(stack)' <=> Nested(stack')
  BY DEF Nested, Items
<1>3. /\ Left' = Items(tree.root) \ (ToSet(handled') \cup Lost')
      /\ Lost' = UNION {Items(b) : b \in skipped'}
  BY DEF Left, Lost, Items
<1>4. LeavesTheRest(stack, Left)' <=> LeavesTheRest(stack', Left')
  BY DEF LeavesTheRest, From, Under, Nritems, Level, Items
<1>5. KeepsOrder(stack, Left)' <=> KeepsOrder(stack', Left')
  BY DEF KeepsOrder, Items
<1>6. WalksOn(stack, Left)' <=> WalksOn(stack', Left')
  BY <1>4, <1>5 DEF WalksOn
<1>7. Splits' <=>
        /\ ToSet(handled') \cup Lost' \subseteq Items(tree.root)
        /\ ToSet(handled') \cap Lost' = {}
        /\ skipped' \cap mapped' = {}
  BY DEF Splits, Items
<1>. QED  BY <1>1, <1>2, <1>3, <1>6, <1>7

\* What holds of every block that an activation may stand in.
LEMMA TopFacts ==
    ASSUME IInv, stack /= <<>>
    PROVE  /\ tree \in Trees /\ stack \in Seq(Frames)
           /\ Len(stack) \in Nat \ {0} /\ Top = stack[Len(stack)] /\ Top \in Frames
           /\ Top.block \in Blocks /\ Top.i \in Nat \ {0}
           /\ Nritems(Top.block) \in Nat
           /\ CallsChild(stack) /\ Nested(stack)
<1>1. tree \in Trees /\ stack \in Seq(Frames) /\ CallsChild(stack) /\ Nested(stack)
  BY DEF IInv, TypeOK, Frames
<1>2. Len(stack) \in Nat \ {0} /\ Top = stack[Len(stack)] /\ Top \in Frames
  BY <1>1 DEF Top
<1>3. Top.block \in Blocks /\ Top.i \in Nat \ {0}
  BY <1>2 DEF Frames
<1>. QED  BY <1>1, <1>2, <1>3, TreeFacts

\* A handler is called with the least key that is left, and it is left no more.
LEMMA HandleItemKeeps ==
    ASSUME IInv, HandleItem
    PROVE  LET k == tree.keys[Top.block][Top.i]
           IN  /\ handled' = Append(handled, k)
               /\ k \in Left
               /\ \A y \in Left \ {k} : KeyLess(k, y)
               /\ Left' = Left \ {k}
               /\ IInv'
<1> DEFINE b == Top.block
           k == tree.keys[b][Top.i]
<1>1. /\ stack /= <<>> /\ Top.i <= Nritems(b) /\ result = "CONTINUE" /\ pc = "walk"
      /\ Level(b) = 0
      /\ handled' = Append(handled, k) /\ result' \in {"CONTINUE", "BREAK"}
      /\ stack' = (IF result' = "BREAK" THEN stack ELSE Advance(stack))
      /\ tree' = tree /\ mapped' = mapped /\ skipped' = skipped /\ pc' = pc
  BY DEF HandleItem, InLoop
<1>2. /\ tree \in Trees /\ stack \in Seq(Frames) /\ Top = stack[Len(stack)]
      /\ b \in Blocks /\ Top.i \in 1 .. Nritems(b)
      /\ CallsChild(stack) /\ Nested(stack)
  BY <1>1, TopFacts
<1>3. Under(b, Top.i) = {k}
  BY <1>1 DEF Under
<1>4. WalksOn(stack, Left)
  BY <1>1 DEF IInv
<1>5. k \in Key
  <2>1. tree.keys[b] \in Seq(Key) /\ Nritems(b) = Len(tree.keys[b])
    BY <1>2, TreeFacts DEF Nritems
  <2>. QED  BY <1>2, <2>1
<1> HIDE DEF b, k
<1>6. /\ {k} \subseteq Left
      /\ \A x \in {k}, y \in Left \ {k} : KeyLess(x, y)
      /\ CallsChild(Advance(stack)) /\ Nested(Advance(stack))
      /\ WalksOn(Advance(stack), Left \ {k})
  <2>1. stack[Len(stack)].block = b /\ stack[Len(stack)].i = Top.i
    BY <1>2 DEF b
  <2>. QED  BY <1>1, <1>2, <1>3, <1>4, <2>1, EntryIsNext
<1>7. handled \in Seq(Key) /\ handled' \in Seq(Key) /\ ToSet(handled') = ToSet(handled) \cup {k}
  <2>1. handled \in Seq(Key)
    BY DEF IInv, TypeOK
  <2>. QED  BY <1>1, <1>5, <2>1 DEF ToSet
<1>8. Lost' = Lost
  BY <1>1 DEF Lost
<1>9. Left' = Left \ {k}
  <2>1. Left' = Items(tree.root) \ (ToSet(handled') \cup Lost')
    BY <1>1, SameTree
  <2>. QED  BY <1>7, <1>8, <2>1 DEF Left
<1>10. Splits'
  <2>1. Splits /\ k \in Items(tree.root) /\ k \notin Lost
    BY <1>6 DEF IInv, Left
  <2>2. /\ ToSet(handled') \cup Lost' \subseteq Items(tree.root)
        /\ ToSet(handled') \cap Lost' = {}
        /\ skipped' \cap mapped' = {}
    BY <1>1, <1>7, <1>8, <2>1 DEF Splits
  <2>. QED  BY <1>1, <2>2, SameTree
<1>11. stack' \in Seq(Frames) /\ CallsChild(stack') /\ Nested(stack')
  BY <1>1, <1>2, <1>6, AdvanceFacts
<1>12. result' = "CONTINUE" => WalksOn(stack', Left')
  BY <1>1, <1>6, <1>9
<1>13. TypeOK'
  BY <1>1, <1>7, <1>11 DEF IInv, TypeOK, Frames
<1>14. IInv'
  BY <1>1, <1>2, <1>10, <1>11, <1>12, <1>13, SameTree DEF IInv
<1>. QED  BY <1>1, <1>6, <1>9, <1>14 DEF b, k

\* A child that is not mapped takes along the least part of what is left.
LEMMA SkipChildKeeps ==
    ASSUME IInv, SkipChild
    PROVE  LET c == Child(Top)
           IN  /\ Lost' = Lost \cup Items(c)
               /\ Items(c) \subseteq Left
               /\ \A x \in Items(c), y \in Left \ Items(c) : KeyLess(x, y)
               /\ Left' = Left \ Items(c)
               /\ IInv'
<1> DEFINE b == Top.block
           c == Child(Top)
<1>1. /\ stack /= <<>> /\ Top.i <= Nritems(b) /\ result = "CONTINUE" /\ pc = "walk"
      /\ Level(b) > 0 /\ c \notin mapped
      /\ skipped' = skipped \cup {c} /\ stack' = Advance(stack)
      /\ tree' = tree /\ mapped' = mapped /\ handled' = handled /\ result' = result /\ pc' = pc
  BY DEF SkipChild, InLoop
<1>2. /\ tree \in Trees /\ stack \in Seq(Frames) /\ Top = stack[Len(stack)]
      /\ b \in Blocks /\ Top.i \in 1 .. Nritems(b)
      /\ CallsChild(stack) /\ Nested(stack)
  BY <1>1, TopFacts
<1>3. Under(b, Top.i) = Items(c) /\ c \in Blocks
  <2>1. tree.ptrs[b] \in Seq(Blocks) /\ NodeOk(tree, b) /\ Nritems(b) = Len(tree.keys[b])
    BY <1>1, <1>2, TreeFacts DEF Nritems
  <2>2. Top.i \in 1 .. Len(tree.ptrs[b])
    BY <1>2, <2>1 DEF NodeOk
  <2>3. Level(b) /= 0
    BY <1>1, <1>2, TreeFacts
  <2>. QED  BY <2>1, <2>2, <2>3 DEF Child, Under
<1>4. WalksOn(stack, Left)
  BY <1>1 DEF IInv
<1> HIDE DEF b, c
<1>5. /\ Items(c) \subseteq Left
      /\ \A x \in Items(c), y \in Left \ Items(c) : KeyLess(x, y)
      /\ CallsChild(Advance(stack)) /\ Nested(Advance(stack))
      /\ WalksOn(Advance(stack), Left \ Items(c))
  <2>1. stack[Len(stack)].block = b /\ stack[Len(stack)].i = Top.i
    BY <1>2 DEF b
  <2> DEFINE entry == Under(stack[Len(stack)].block, stack[Len(stack)].i)
  <2>2. entry = Items(c)
    BY <1>3, <2>1
  <2>3. /\ entry \subseteq Left
        /\ \A x \in entry, y \in Left \ entry : KeyLess(x, y)
        /\ CallsChild(Advance(stack)) /\ Nested(Advance(stack))
        /\ WalksOn(Advance(stack), Left \ entry)
    BY <1>1, <1>2, <1>4, <2>1, EntryIsNext
  <2> HIDE DEF entry
  <2>. QED  BY <2>2, <2>3
<1>6. Lost' = Lost \cup Items(c)
  BY <1>1 DEF Lost, Items
<1>7. Left' = Left \ Items(c)
  <2>1. Left' = Items(tree.root) \ (ToSet(handled') \cup Lost')
    BY <1>1, SameTree
  <2>2. ToSet(handled') = ToSet(handled)
    BY <1>1
  <2>. QED  BY <1>6, <2>1, <2>2 DEF Left
<1>8. Splits'
  <2>1. Splits /\ Items(c) \subseteq Items(tree.root) /\ Items(c) \cap ToSet(handled) = {}
    BY <1>5 DEF IInv, Left
  <2>2. /\ ToSet(handled') \cup Lost' \subseteq Items(tree.root)
        /\ ToSet(handled') \cap Lost' = {}
        /\ skipped' \cap mapped' = {}
    BY <1>1, <1>6, <2>1 DEF Splits
  <2>. QED  BY <1>1, <2>2, SameTree
<1>9. stack' \in Seq(Frames) /\ CallsChild(stack') /\ Nested(stack')
  BY <1>1, <1>2, <1>5, AdvanceFacts
<1>10. WalksOn(stack', Left')
  BY <1>1, <1>5, <1>7
<1>11. TypeOK'
  BY <1>1, <1>3, <1>9 DEF IInv, TypeOK, Frames
<1>12. IInv'
  BY <1>1, <1>2, <1>8, <1>9, <1>10, <1>11, SameTree DEF IInv
<1>. QED  BY <1>5, <1>6, <1>7, <1>12 DEF c

\* A step that hands nothing over and passes nothing over leaves the rest as it is.
LEMMA QuietKeeps ==
    ASSUME IInv, tree' = tree, mapped' = mapped, handled' = handled, skipped' = skipped,
           result' = result, pc' \in {"walk", "done"}, pc' = "done" => stack' = <<>>,
           stack' \in Seq(Frames), CallsChild(stack'), Nested(stack'),
           result = "CONTINUE" => WalksOn(stack', Left)
    PROVE  Left' = Left /\ Lost' = Lost /\ IInv'
<1>1. Lost' = Lost
  BY DEF Lost
<1>2. Left' = Left
  <2>1. Left' = Items(tree.root) \ (ToSet(handled') \cup Lost')
    BY SameTree
  <2>2. ToSet(handled') = ToSet(handled)
    OBVIOUS
  <2>. QED  BY <1>1, <2>1, <2>2 DEF Left
<1>3. Splits'
  <2>1. /\ ToSet(handled') \cup Lost' \subseteq Items(tree.root)
        /\ ToSet(handled') \cap Lost' = {}
        /\ skipped' \cap mapped' = {}
    <3>1. ToSet(handled') = ToSet(handled)
      OBVIOUS
    <3>. QED  BY <1>1, <3>1 DEF IInv, Splits
  <2>. QED  BY <2>1, SameTree
<1>4. TypeOK'
  BY DEF IInv, TypeOK, Frames
<1>5. tree' \in Trees
  BY DEF IInv
<1>. QED  BY <1>1, <1>2, <1>3, <1>4, <1>5, SameTree DEF IInv

\* A call for a mapped child.
LEMMA EnterChildKeeps ==
    ASSUME IInv, EnterChild
    PROVE  Left' = Left /\ Lost' = Lost /\ IInv'
<1>1. /\ stack /= <<>> /\ Top.i <= Nritems(Top.block) /\ result = "CONTINUE" /\ pc = "walk"
      /\ Level(Top.block) > 0
      /\ stack' = Append(stack, Frame(Child(Top)))
      /\ tree' = tree /\ mapped' = mapped /\ handled' = handled /\ skipped' = skipped
      /\ result' = result /\ pc' = pc
  BY DEF EnterChild, InLoop
<1>2. /\ tree \in Trees /\ stack \in Seq(Frames) /\ Top = stack[Len(stack)]
      /\ CallsChild(stack) /\ Nested(stack) /\ WalksOn(stack, Left)
  BY <1>1, TopFacts DEF IInv
<1>3. /\ stack' \in Seq(Frames) /\ CallsChild(stack') /\ Nested(stack')
      /\ WalksOn(stack', Left)
  BY <1>1, <1>2, EnteringKeeps
<1>. QED  BY <1>1, <1>3, QuietKeeps

\* The return of an activation: its caller goes on, or breaks off, too.
LEMMA ReturnKeeps ==
    ASSUME IInv, Return
    PROVE  Left' = Left /\ Lost' = Lost /\ IInv'
<1>1. /\ stack /= <<>> /\ pc = "walk"
      /\ result = "CONTINUE" => ~ (Top.i <= Nritems(Top.block))
      /\ stack' = (IF result = "BREAK" \/ Len(stack) = 1 THEN Front(stack)
                   ELSE Advance(Front(stack)))
      /\ tree' = tree /\ mapped' = mapped /\ handled' = handled /\ skipped' = skipped
      /\ result' = result /\ pc' = pc
  BY DEF Return, InLoop
<1>2. /\ tree \in Trees /\ stack \in Seq(Frames) /\ Top = stack[Len(stack)]
      /\ CallsChild(stack) /\ Nested(stack)
      /\ Top.i \in Nat /\ Nritems(Top.block) \in Nat
  BY <1>1, TopFacts
<1>3. /\ stack' \in Seq(Frames) /\ CallsChild(stack') /\ Nested(stack')
      /\ Len(stack) = 1 => stack' = <<>>
  BY <1>1, <1>2, ReturningKeepsCallers
<1>4. ASSUME result = "CONTINUE" PROVE WalksOn(stack', Left)
  <2>1. WalksOn(stack, Left) /\ Left \in SUBSET Items(tree.root)
    BY <1>1, <1>4 DEF IInv, Left
  <2>2. Top.i > Nritems(Top.block)
    BY <1>1, <1>2, <1>4
  <2>3. IF Len(stack) = 1 THEN Left = {} ELSE WalksOn(Advance(Front(stack)), Left)
    BY <1>1, <1>2, <2>1, <2>2, ReturningKeeps
  <2>4. CASE Len(stack) = 1
    <3>1. stack' = <<>> /\ Left = {}
      BY <1>3, <2>3, <2>4
    <3>. QED  BY <3>1 DEF WalksOn, LeavesTheRest, KeepsOrder
  <2>5. CASE Len(stack) /= 1
    BY <1>1, <1>4, <2>3, <2>5
  <2>. QED  BY <2>4, <2>5
<1>. QED  BY <1>1, <1>3, <1>4, QuietKeeps

\* The first call, of an activation for the root or for nothing when the root is not
\* mapped: then the whole tree is passed over.
LEMMA StartKeeps ==
    ASSUME IInv, Start
    PROVE  /\ IInv'
           /\ handled = <<>> /\ handled' = <<>> /\ Lost = {}
           /\ Lost' = {} \/ (Lost' = Items(tree.root) /\ Left' = {})
<1>1. /\ pc = "start" /\ pc' = "walk"
      /\ tree' = tree /\ mapped' = mapped /\ handled' = handled /\ result' = result
      /\ stack = <<>> /\ handled = <<>> /\ skipped = {} /\ result = "CONTINUE"
      /\ tree \in Trees /\ TypeOK
  BY DEF Start, IInv
<1>2. tree.root \in Blocks
  BY <1>1, TreeFacts
<1>3. ToSet(handled') = {} /\ Lost = {}
  BY <1>1 DEF ToSet, Lost
<1>4. CASE tree.root \in mapped
  <2>1. stack' = <<Frame(tree.root)>> /\ skipped' = skipped
    BY <1>4 DEF Start
  <2>2. Lost' = {}
    BY <1>1, <2>1 DEF Lost
  <2>3. Left' = Items(tree.root)
    BY <1>1, <1>3, <2>2, SameTree
  <2>4. Splits'
    BY <1>1, <1>3, <2>1, <2>2, SameTree
  <2>5. /\ stack' \in Seq(Frames) /\ CallsChild(stack') /\ Nested(stack')
        /\ WalksOn(stack', Left')
    BY <1>1, <2>1, <2>3, StartingKeeps
  <2>6. TypeOK'
    BY <1>1, <2>1, <2>5 DEF TypeOK, Frames
  <2>7. IInv'
    BY <1>1, <2>4, <2>5, <2>6, SameTree DEF IInv
  <2>. QED  BY <1>1, <1>3, <2>2, <2>7
<1>5. CASE tree.root \notin mapped
  <2>1. stack' = <<>> /\ skipped' = {tree.root}
    BY <1>1, <1>5 DEF Start
  <2>2. Lost' = Items(tree.root)
    <3>1. Lost' = UNION {Items(b) : b \in skipped'}
      BY <1>1, SameTree
    <3>2. {Items(b) : b \in skipped'} = {Items(tree.root)}
      BY <2>1
    <3>. QED  BY <3>1, <3>2
  <2>3. Left' = {}
    BY <1>1, <1>3, <2>2, SameTree
  <2>4. Splits'
    BY <1>1, <1>3, <1>5, <2>1, <2>2, SameTree
  <2>5. CallsChild(stack') /\ Nested(stack') /\ WalksOn(stack', Left')
    BY <2>1, <2>3 DEF CallsChild, Nested, WalksOn, LeavesTheRest, KeepsOrder
  <2>6. TypeOK'
    BY <1>1, <1>2, <2>1 DEF TypeOK
  <2>7. IInv'
    BY <1>1, <2>1, <2>4, <2>5, <2>6, SameTree DEF IInv
  <2>. QED  BY <1>1, <1>3, <2>2, <2>3, <2>7
<1>. QED  BY <1>4, <1>5

\* The end of the walk.
LEMMA FinishKeeps ==
    ASSUME IInv, Finish
    PROVE  /\ Left' = Left /\ Lost' = Lost /\ IInv'
           /\ result = "CONTINUE" => Left = {}
<1>1. /\ pc = "walk" /\ pc' = "done" /\ stack = <<>> /\ stack' = stack
      /\ tree' = tree /\ mapped' = mapped /\ handled' = handled /\ skipped' = skipped
      /\ result' = result
  BY DEF Finish
<1>2. /\ stack \in Seq(Frames) /\ CallsChild(stack) /\ Nested(stack)
      /\ result = "CONTINUE" => WalksOn(stack, Left)
  BY <1>1 DEF IInv, TypeOK, Frames
<1>3. result = "CONTINUE" => Left = {}
  BY <1>1, <1>2 DEF WalksOn
<1>. QED  BY <1>1, <1>2, <1>3, QuietKeeps

----------------------------------------------------------------------------
\* A walk has not begun, and everything is left.
LEMMA InitIInv == Init => IInv
<1> SUFFICES ASSUME Init PROVE IInv
  OBVIOUS
<1>1. /\ tree \in Trees /\ mapped \in Mappings /\ stack = <<>> /\ result = "CONTINUE"
      /\ handled = <<>> /\ skipped = {} /\ pc = "start"
  BY DEF Init
<1>2. tree \in Tree
  BY <1>1, TreeFacts
<1>3. TypeOK
  BY <1>1, <1>2 DEF TypeOK
<1>4. CallsChild(stack) /\ Nested(stack)
  BY <1>1 DEF CallsChild, Nested
<1>5. ToSet(handled) = {} /\ Lost = {}
  BY <1>1 DEF ToSet, Lost
<1>6. Splits
  BY <1>1, <1>5 DEF Splits
<1>. QED  BY <1>1, <1>3, <1>4, <1>6 DEF IInv

\* Every step keeps the invariant.
LEMMA NextIInv == IInv /\ [Next]_vars => IInv'
<1> SUFFICES ASSUME IInv, [Next]_vars PROVE IInv'
  OBVIOUS
<1>1. CASE UNCHANGED vars
  <2>1. /\ tree' = tree /\ mapped' = mapped /\ stack' = stack /\ result' = result
        /\ handled' = handled /\ skipped' = skipped /\ pc' = pc
    BY <1>1 DEF vars
  <2>2. Lost' = Lost /\ ToSet(handled') = ToSet(handled)
    BY <2>1 DEF Lost
  <2>3. Left' = Left
    BY <2>1, <2>2, SameTree DEF Left
  <2>4. Splits'
    BY <2>1, <2>2, SameTree DEF IInv, Splits
  <2>5. TypeOK'
    BY <2>1 DEF IInv, TypeOK
  <2>6. CallsChild(stack') /\ Nested(stack')
    BY <2>1 DEF IInv
  <2>7. pc' /= "start" /\ result' = "CONTINUE" => WalksOn(stack', Left')
    BY <2>1, <2>3 DEF IInv
  <2>8. tree' \in Trees
    BY <2>1 DEF IInv
  <2>. QED  BY <2>1, <2>4, <2>5, <2>6, <2>7, <2>8, SameTree DEF IInv
<1>2. CASE Step
  BY <1>2, StartKeeps, HandleItemKeeps, EnterChildKeeps, SkipChildKeeps, ReturnKeeps,
     FinishKeeps DEF Step
<1>. QED  BY <1>1, <1>2 DEF Next, Stopped

\* The invariant holds throughout every walk.
THEOREM SpecIInv == Spec => []IInv
  BY InitIInv, NextIInv, PTL DEF Spec

\* Every variable keeps to its type: the stack holds only blocks of the tree and loop
\* variables that count from 1, and the handler sees only keys.
THEOREM TypeCorrect == Spec => []TypeOK
<1>1. IInv => TypeOK
  BY DEF IInv
<1>. QED  BY <1>1, SpecIInv, PTL

\* A walk that the handler did not break has handed over every item of the tree but
\* those under the blocks that the chunk list does not map.
THEOREM EveryItemIsHandled == Spec => []HandlesEveryItem
<1>1. IInv => HandlesEveryItem
  <2> SUFFICES ASSUME IInv, pc = "done", result = "CONTINUE"
               PROVE  /\ skipped \cap mapped = {}
                      /\ ToSet(handled) \cup Lost = tree.items[tree.root]
                      /\ ToSet(handled) \cap Lost = {}
    BY DEF HandlesEveryItem
  <2>1. Splits /\ Left = {}
    BY DEF IInv, WalksOn
  <2>. QED  BY <2>1 DEF Splits, Left, Items
<1>. QED  BY <1>1, SpecIInv, PTL

----------------------------------------------------------------------------
\* What is left to the walk is the rest of the scan.
LEMMA RestIsLeft == Scan!Rest = Left
  BY DEF Scan!Rest, Left, Items, ToSet, Scan!ToSet

\* A walk begins as a scan begins.
LEMMA InitRefines == Init => Scan!ScanInit
  BY DEF Init, Scan!ScanInit, Lost

\* A step of the walk is a step of the scan, or is not seen there: a call, a return
\* and the start in a mapped root are not.
LEMMA StepRefines ==
    ASSUME IInv, [Next]_vars
    PROVE  [Scan!Handle \/ Scan!Lose \/ Scan!Finish]_(Scan!scanVars)
<1>1. tree \in Trees /\ (pc = "start" => result = "CONTINUE")
  BY DEF IInv
<1>2. CASE HandleItem
  <2> DEFINE k == tree.keys[Top.block][Top.i]
  <2>1. /\ pc = "walk" /\ pc' = pc /\ result = "CONTINUE" /\ result' \in {"CONTINUE", "BREAK"}
        /\ tree' = tree /\ skipped' = skipped
    BY <1>2 DEF HandleItem, InLoop
  <2>2. /\ handled' = Append(handled, k) /\ k \in Left
        /\ \A y \in Left \ {k} : KeyLess(k, y)
    BY <1>2, HandleItemKeeps
  <2> HIDE DEF k
  <2>3. Lost' = Lost
    BY <2>1 DEF Lost
  <2>4. Scan!Least(k, Scan!Rest)
    BY <2>2, RestIsLeft DEF Scan!Least, Scan!KeyLeq, Scan!KeyLess, KeyLess
  <2>5. Scan!Handle
    BY <2>1, <2>2, <2>3, <2>4, RestIsLeft DEF Scan!Handle
  <2>. QED  BY <2>5
<1>3. CASE SkipChild
  <2> DEFINE c == Child(Top)
  <2>1. /\ pc = "walk" /\ pc' = pc /\ result = "CONTINUE" /\ result' = result
        /\ tree' = tree /\ handled' = handled
    BY <1>3 DEF SkipChild, InLoop
  <2>2. /\ Lost' = Lost \cup Items(c) /\ Items(c) \subseteq Left
        /\ \A x \in Items(c), y \in Left \ Items(c) : KeyLess(x, y)
    BY <1>3, SkipChildKeeps
  <2> HIDE DEF c
  <2>3. /\ Lost' \ Lost \subseteq Items(c)
        /\ \A y \in Left \ Lost' : y \in Left \ Items(c)
    BY <2>2
  <2>4. \A x \in Lost' \ Lost, y \in Left \ Lost' : KeyLess(x, y)
    BY <2>2, <2>3
  <2>5. Scan!Lose
    BY <2>1, <2>2, <2>3, <2>4, RestIsLeft DEF Scan!Lose, Scan!KeyLess, KeyLess
  <2>. QED  BY <2>5
<1>4. CASE Finish
  <2>1. /\ pc = "walk" /\ pc' = "done" /\ result' = result /\ tree' = tree /\ handled' = handled
        /\ skipped' = skipped /\ result \in {"CONTINUE", "BREAK"}
    BY <1>4 DEF Finish, IInv, TypeOK
  <2>2. Lost' = Lost /\ (result = "CONTINUE" => Left = {})
    BY <1>4, FinishKeeps
  <2>3. CASE result = "CONTINUE"
    <3>1. Scan!Finish
      BY <2>1, <2>2, <2>3, RestIsLeft DEF Scan!Finish
    <3>. QED  BY <3>1
  <2>4. CASE result = "BREAK"
    BY <2>1, <2>2, <2>4 DEF Scan!scanVars
  <2>. QED  BY <2>1, <2>3, <2>4
<1>5. CASE Start
  <2>1. /\ pc = "start" /\ pc' = "walk" /\ result' = result /\ result = "CONTINUE" /\ tree' = tree
    BY <1>1, <1>5 DEF Start
  <2>2. /\ handled = <<>> /\ handled' = <<>> /\ Lost = {}
        /\ Lost' = {} \/ (Lost' = Items(tree.root) /\ Left' = {})
    BY <1>5, StartKeeps
  <2>3. CASE Lost' = {}
    BY <2>1, <2>2, <2>3 DEF Scan!scanVars
  <2>4. CASE Lost' = Items(tree.root)
    <3>1. Left = Items(tree.root)
      BY <2>2 DEF Left, ToSet
    <3>2. Left \ Lost' = {}
      BY <2>4, <3>1
    <3>3. Scan!Lose
      BY <2>1, <2>2, <2>4, <3>1, <3>2, RestIsLeft DEF Scan!Lose
    <3>. QED  BY <3>3
  <2>. QED  BY <2>2, <2>3, <2>4
<1>6. CASE EnterChild \/ Return
  <2>1. Lost' = Lost
    BY <1>6, EnterChildKeeps, ReturnKeeps
  <2>2. tree' = tree /\ handled' = handled /\ result' = result /\ pc' = pc
    BY <1>6 DEF EnterChild, Return
  <2>. QED  BY <2>1, <2>2 DEF Scan!scanVars
<1>7. CASE UNCHANGED vars
  <2>1. /\ tree' = tree /\ skipped' = skipped /\ handled' = handled /\ result' = result /\ pc' = pc
    BY <1>7 DEF vars
  <2>2. Lost' = Lost
    BY <2>1 DEF Lost
  <2>. QED  BY <2>1, <2>2 DEF Scan!scanVars
<1>. QED  BY <1>2, <1>3, <1>4, <1>5, <1>6, <1>7 DEF Next, Step, Stopped

\* The walk implements the scan: the handler gets the items in key order and none
\* twice, what is passed over comes before all that follows, the walk ends when
\* nothing is left, and after BREAK, however deep in the tree, no item follows.
THEOREM WalkIsScan == Spec => ImplementsScan
<1>1. Init => Scan!ScanInit
  BY InitRefines
<1>2. IInv /\ [Next]_vars => [Scan!Handle \/ Scan!Lose \/ Scan!Finish]_(Scan!scanVars)
  BY StepRefines
<1>. QED  BY <1>1, <1>2, SpecIInv, PTL DEF Spec, ImplementsScan, Scan!ScanSafeSpec
=============================================================================
