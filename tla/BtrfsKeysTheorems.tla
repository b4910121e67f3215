------------------------- MODULE BtrfsKeysTheorems -------------------------
(***************************************************************************)
(* The order of the keys: what the proofs about the searches need to know  *)
(* of KeyLess, so that they never look inside a key.                       *)
(***************************************************************************)
EXTENDS BtrfsKeys, FiniteSetTheorems, WellFoundedInduction, TLAPS

\* The comparison of btrfs_comp_keys is a strict total order on keys: no key is
\* below itself, it is transitive, and two different keys are ordered one way.
THEOREM KeyOrder ==
    /\ \A a \in Key : ~ KeyLess(a, a)
    /\ \A a, b, c \in Key : KeyLess(a, b) /\ KeyLess(b, c) => KeyLess(a, c)
    /\ \A a, b \in Key : a = b \/ KeyLess(a, b) \/ KeyLess(b, a)
<1>1. \A a \in Key : ~ KeyLess(a, a)
  BY DEF Key, KeyLess
<1>2. \A a, b, c \in Key : KeyLess(a, b) /\ KeyLess(b, c) => KeyLess(a, c)
  BY DEF Key, KeyLess
<1>3. \A a, b \in Key : a = b \/ KeyLess(a, b) \/ KeyLess(b, a)
  <2> SUFFICES ASSUME NEW a \in Key, NEW b \in Key,
                      ~ KeyLess(a, b), ~ KeyLess(b, a)
               PROVE  a = b
    OBVIOUS
  <2>1. a.objectid = b.objectid /\ a.type = b.type /\ a.offset = b.offset
    BY DEF Key, KeyLess
  <2>2. QED
    BY <2>1 DEF Key
<1>4. QED
  BY <1>1, <1>2, <1>3

\* How the two orders of keys combine.
LEMMA LeqOrder ==
    /\ \A a \in Key : KeyLeq(a, a)
    /\ \A a, b, c \in Key : KeyLeq(a, b) /\ KeyLeq(b, c) => KeyLeq(a, c)
    /\ \A a, b, c \in Key : KeyLess(a, b) /\ KeyLeq(b, c) => KeyLess(a, c)
    /\ \A a, b, c \in Key : KeyLeq(a, b) /\ KeyLess(b, c) => KeyLess(a, c)
    /\ \A a, b \in Key : KeyLeq(a, b) /\ KeyLeq(b, a) => a = b
    /\ \A a, b \in Key : ~ (KeyLeq(a, b) /\ KeyLess(b, a))
    /\ \A a, b \in Key : KeyLeq(a, b) \/ KeyLess(b, a)
  BY KeyOrder DEF KeyLeq

\* The sign that btrfs_comp_keys returns tells exactly which of the three cases
\* of the order holds.
THEOREM CompKeysSign ==
    ASSUME NEW a \in Key, NEW b \in Key
    PROVE  /\ CompKeys(a, b) \in {-1, 0, 1}
           /\ CompKeys(a, b) < 0 <=> KeyLess(a, b)
           /\ CompKeys(a, b) > 0 <=> KeyLess(b, a)
           /\ CompKeys(a, b) = 0 <=> a = b
<1>1. CASE KeyLess(a, b)
  <2>1. ~ KeyLess(b, a) /\ a /= b
    BY <1>1, KeyOrder
  <2>2. CompKeys(a, b) = -1
    BY <1>1, <2>1 DEF CompKeys
  <2>3. QED
    BY <1>1, <2>1, <2>2
<1>2. CASE KeyLess(b, a)
  <2>1. ~ KeyLess(a, b) /\ a /= b
    BY <1>2, KeyOrder
  <2>2. CompKeys(a, b) = 1
    BY <1>2 DEF CompKeys
  <2>3. QED
    BY <1>2, <2>1, <2>2
<1>3. CASE a = b
  <2>1. ~ KeyLess(a, b) /\ ~ KeyLess(b, a)
    BY <1>3, KeyOrder
  <2>2. CompKeys(a, b) = 0
    BY <2>1 DEF CompKeys
  <2>3. QED
    BY <1>3, <2>1, <2>2
<1>4. QED
  BY <1>1, <1>2, <1>3, KeyOrder

\* Every set of numbers has a least one; what is proved by induction rests on it.
LEMMA LeastNat ==
    ASSUME NEW T \in SUBSET Nat, T /= {}
    PROVE  \E n \in T : \A m \in T : n <= m
<1>1. PICK R : IsWellFoundedOn(R, Nat) /\ R = {p \in Nat \X Nat : p[1] < p[2]}
  BY NatLessThanWellFounded DEF OpToRel
<1>2. PICK n \in T : \A m \in T : <<m, n>> \notin R
  BY <1>1, WFMin
<1>3. ASSUME NEW m \in T PROVE n <= m
  <2>1. m \in Nat /\ n \in Nat /\ ~ m < n
    BY <1>1, <1>2
  <2>. QED  BY <2>1
<1>. QED  BY <1>3

\* A number that every number in a set stays below bounds it by one of its own.
LEMMA GreatestNat ==
    ASSUME NEW T \in SUBSET Nat, T /= {}, NEW bound \in Nat, \A n \in T : n <= bound
    PROVE  \E n \in T : \A m \in T : m <= n
<1> DEFINE U == {bound - n : n \in T}
<1>1. U \in SUBSET Nat /\ U /= {}
  <2>1. \A n \in T : bound - n \in Nat
    OBVIOUS
  <2>2. U \subseteq Nat
    BY <2>1
  <2>3. PICK n \in T : TRUE
    OBVIOUS
  <2>4. bound - n \in U
    OBVIOUS
  <2>. QED  BY <2>2, <2>4
<1>2. PICK u \in U : \A v \in U : u <= v
  BY <1>1, LeastNat
<1>3. PICK n \in T : u = bound - n
  BY <1>2
<1>4. ASSUME NEW m \in T PROVE m <= n
  <2>1. u <= bound - m
    BY <1>2
  <2>. QED  BY <1>3, <2>1
<1>. QED  BY <1>4

\* Of finitely many keys one is the greatest.
THEOREM GreatestKey ==
    ASSUME NEW S \in SUBSET Key, IsFiniteSet(S), S /= {}
    PROVE  \E k \in S : \A l \in S : KeyLeq(l, k)
<1> DEFINE Below(k) == {l \in S : KeyLess(l, k)}
           Counts == {Cardinality(Below(k)) : k \in S}
<1>1. \A k \in S : /\ IsFiniteSet(Below(k)) /\ Cardinality(Below(k)) \in Nat
                   /\ Cardinality(Below(k)) <= Cardinality(S)
  BY FS_Subset, FS_CardinalityType
<1>2. Cardinality(S) \in Nat
  BY FS_CardinalityType
<1>3. PICK n \in Counts : \A m \in Counts : m <= n
  <2>1. Counts \in SUBSET Nat /\ Counts /= {} /\ \A m \in Counts : m <= Cardinality(S)
    BY <1>1
  <2>. QED  BY <1>2, <2>1, GreatestNat
<1>4. PICK k \in S : n = Cardinality(Below(k))
  OBVIOUS
<1>5. ASSUME NEW l \in S, ~ KeyLeq(l, k) PROVE FALSE
  <2>1. KeyLess(k, l)
    BY <1>5, KeyOrder DEF KeyLeq
  <2>2. k \notin Below(k) /\ Below(k) \cup {k} \subseteq Below(l)
    BY <2>1, KeyOrder
  <2>3. Cardinality(Below(k) \cup {k}) = Cardinality(Below(k)) + 1
    BY <1>1, <2>2, FS_AddElement
  <2>4. Cardinality(Below(k) \cup {k}) <= Cardinality(Below(l))
    BY <1>1, <2>2, FS_Subset
  <2>5. Cardinality(Below(l)) <= n
    BY <1>3
  <2>6. Cardinality(Below(k)) \in Nat /\ Cardinality(Below(l)) \in Nat
    BY <1>1
  <2>. QED  BY <1>4, <2>3, <2>4, <2>5, <2>6
<1>. QED  BY <1>5
=============================================================================
