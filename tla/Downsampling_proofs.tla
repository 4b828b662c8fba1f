------------------------- MODULE Downsampling_proofs -------------------------
(***************************************************************************)
(* What holds of voxel grid downsampling for any clouds, thresholds, sort  *)
(* orders and blocks: the tasks of the sort work apart and leave the array *)
(* sorted, the blocks of the averaging loop share the output between them, *)
(* and every point is averaged once, with points of its voxel.             *)
(***************************************************************************)
EXTENDS Downsampling, FiniteSetTheorems, FunctionTheorems, TLAPS

-----------------------------------------------------------------------------
(* Sets of natural numbers.                                                *)
-----------------------------------------------------------------------------
\* Every set of natural numbers has a least element, from which whatever an
\* induction needs follows.
LEMMA LeastNat ==
    ASSUME NEW S, S \subseteq Nat, S # {}
    PROVE  \E m \in S : \A n \in S : m <= n
<1> DEFINE R == {ss \in Nat \X Nat : ss[1] < ss[2]}
<1>1. IsWellFoundedOn(R, Nat)
  BY NatLessThanWellFounded DEF OpToRel
<1>2. \A m, n \in Nat : <<n, m>> \in R <=> n < m
  OBVIOUS
<1> HIDE DEF R
<1>3. PICK m \in S : \A n \in S : <<n, m>> \notin R
  BY <1>1, WFMin
<1>4. ASSUME NEW n \in S PROVE m <= n
  <2>1. m \in Nat /\ n \in Nat
    OBVIOUS
  <2>2. ~(n < m)
    BY <1>2, <1>3, <2>1
  <2>3. QED
    BY <2>1, <2>2
<1>5. QED
  BY <1>3, <1>4

\* So has a bounded one a greatest.
LEMMA GreatestNat ==
    ASSUME NEW S, S \subseteq Nat, S # {}, NEW bound \in Nat, \A n \in S : n <= bound
    PROVE  \E m \in S : \A n \in S : n <= m
<1> DEFINE T == {bound - n : n \in S}
<1>1. \A n \in S : n \in Nat /\ bound - n \in Nat
  OBVIOUS
<1>2. T \subseteq Nat /\ T # {}
  BY <1>1
<1>3. PICK t \in T : \A u \in T : t <= u
  BY <1>2, LeastNat
<1>4. PICK m \in S : t = bound - m
  BY <1>3
<1>5. ASSUME NEW n \in S PROVE n <= m
  <2>1. bound - n \in T
    OBVIOUS
  <2>2. m \in Nat /\ n \in Nat /\ t <= bound - n
    BY <1>3, <2>1
  <2>3. QED
    BY <1>4, <2>2
<1>6. QED
  BY <1>5

\* An element is told by the number of smaller ones.
LEMMA Ranks ==
    ASSUME NEW S, S \subseteq Nat, IsFiniteSet(S)
    PROVE  /\ \A t \in S : Cardinality(S \cap 0 .. t - 1) \in 0 .. Cardinality(S) - 1
           /\ \A t, u \in S :
                 Cardinality(S \cap 0 .. t - 1) = Cardinality(S \cap 0 .. u - 1) => t = u
           /\ \A m \in 0 .. Cardinality(S) - 1 : \E t \in S : Cardinality(S \cap 0 .. t - 1) = m
<1> DEFINE Below(t) == S \cap 0 .. t - 1
           n == Cardinality(S)
           rank == [t \in S |-> Cardinality(Below(t))]
<1>1. n \in Nat /\ IsFiniteSet(0 .. n - 1) /\ Cardinality(0 .. n - 1) = n
  <2>1. n \in Nat
    BY FS_CardinalityType
  <2> HIDE DEF n
  <2>2. 0 \in Int /\ n - 1 \in Int
    BY <2>1
  <2>3. IsFiniteSet(0 .. n - 1) /\ Cardinality(0 .. n - 1) = IF 0 > n - 1 THEN 0 ELSE n - 1 - 0 + 1
    BY <2>2, FS_Interval
  <2>4. QED
    BY <2>1, <2>3
<1>2. \A t \in S : IsFiniteSet(Below(t)) /\ Cardinality(Below(t)) \in Nat
  BY FS_Intersection, FS_CardinalityType
<1>3. ASSUME NEW t \in S, NEW T, Below(t) \cup {t} \subseteq T, IsFiniteSet(T)
      PROVE  Cardinality(Below(t)) < Cardinality(T)
  <2>1. t \notin Below(t)
    OBVIOUS
  <2>2. IsFiniteSet(Below(t) \cup {t})
        /\ Cardinality(Below(t) \cup {t}) = Cardinality(Below(t)) + 1
    BY <1>2, <2>1, FS_AddElement
  <2>3. Cardinality(Below(t) \cup {t}) <= Cardinality(T) /\ Cardinality(T) \in Nat
    BY <1>3, <2>2, FS_Subset, FS_CardinalityType
  <2>4. QED
    BY <1>2, <2>2, <2>3
<1>4. \A t \in S : rank[t] \in 0 .. n - 1
  <2>1. ASSUME NEW t \in S PROVE rank[t] \in 0 .. n - 1
    <3>1. Below(t) \cup {t} \subseteq S
      OBVIOUS
    <3> HIDE DEF Below
    <3>2. QED
      BY <1>1, <1>2, <1>3, <3>1
  <2>2. QED
    BY <2>1
<1>5. ASSUME NEW t \in S, NEW u \in S, t < u PROVE rank[t] < rank[u]
  <2>1. Below(t) \cup {t} \subseteq Below(u)
    BY <1>5
  <2> HIDE DEF Below
  <2>2. QED
    BY <1>2, <1>3, <2>1
<1> HIDE DEF Below
<1>6. \A t, u \in S : rank[t] = rank[u] => t = u
  <2>1. ASSUME NEW t \in S, NEW u \in S, rank[t] = rank[u] PROVE t = u
    <3>1. t \in Nat /\ u \in Nat /\ rank[t] \in Int /\ rank[u] \in Int
      BY <1>2
    <3>2. ~(t < u) /\ ~(u < t)
      BY <1>5, <2>1, <3>1
    <3>3. QED
      BY <3>1, <3>2
  <2>2. QED
    BY <2>1
<1>7. rank \in Injection(S, 0 .. n - 1)
  BY <1>4, <1>6, Fun_IsInj
<1>8. rank \in Surjection(S, 0 .. n - 1)
  BY <1>1, <1>7, FS_Injection
<1>9. \A m \in 0 .. n - 1 : \E t \in S : rank[t] = m
  <2> HIDE DEF rank, n
  <2>1. QED
    BY <1>8, Fun_SurjectionProperties
<1>10. QED
  BY <1>4, <1>6, <1>9 DEF Below

-----------------------------------------------------------------------------
(* Voxel keys.                                                             *)
-----------------------------------------------------------------------------
LEMMA SideType == Side \in Nat \ {0} /\ Offset \in Int
<1>1. CoordBits \in Nat /\ CoordBits - 1 \in Nat
  BY BitsAssumption
<1>2. IsFiniteSet(1 .. CoordBits) /\ Cardinality(1 .. CoordBits) = CoordBits
  BY <1>1, FS_Interval
<1>3. IsFiniteSet(SUBSET (1 .. CoordBits)) /\ Cardinality(SUBSET (1 .. CoordBits)) = Side
  BY <1>2, FS_SUBSET DEF Side
<1>4. Side \in Nat /\ Side # 0
  BY <1>3, FS_CardinalityType, FS_EmptySet
<1>5. QED
  BY <1>1, <1>4 DEF Offset

\* Packing is one to one, digit by digit.
LEMMA Digits ==
    ASSUME NEW a \in 0 .. Side - 1, NEW b \in 0 .. Side - 1, NEW x \in Int, NEW y \in Int
    PROVE  a + Side * x = b + Side * y => a = b /\ x = y
<1>1. ASSUME NEW s \in Nat \ {0}, NEW u \in Int, NEW v \in Int, u < v
      PROVE  s * v >= s * u + s
  <2>1. PICK d \in Nat : v = u + 1 + d
    <3>1. v - u - 1 \in Nat /\ v = u + 1 + (v - u - 1)
      BY <1>1
    <3>2. QED
      BY <3>1
  <2>2. s * (u + 1 + d) = s * u + s + s * d /\ s * d >= 0
    OBVIOUS
  <2>3. QED
    BY <2>1, <2>2
<1> DEFINE s == Side
<1>2. s \in Nat \ {0} /\ s * x \in Int /\ s * y \in Int
  BY SideType
<1> HIDE DEF s
<1>3. a \in 0 .. s - 1 /\ b \in 0 .. s - 1
  BY DEF s
<1>4. x < y => a + s * x # b + s * y
  BY <1>1, <1>2, <1>3
<1>5. y < x => a + s * x # b + s * y
  BY <1>1, <1>2, <1>3
<1>6. a + s * x = b + s * y => x = y
  BY <1>4, <1>5
<1>7. a + s * x = b + s * y => a = b
  BY <1>2, <1>3, <1>6
<1>8. QED
  BY <1>6, <1>7 DEF s

CloudOK ==
    /\ IsFiniteSet(DOMAIN cloud) /\ DOMAIN cloud = 0 .. Size - 1 /\ Size \in Nat
    /\ cloud \in [DOMAIN cloud -> Int \X Int \X Int]

LEMMA CoordType ==
    ASSUME CloudOK, NEW p \in DOMAIN cloud, NEW axis \in 1 .. 3
    PROVE  cloud[p][axis] \in Int /\ Coord(p, axis) \in Int
<1>1. cloud[p] \in Int \X Int \X Int
  BY DEF CloudOK
<1>2. cloud[p][axis] \in Int
  BY <1>1
<1>3. QED
  BY <1>2, SideType, BitsAssumption DEF Coord

\* Keys of points in range are smaller than the key of those that are not, and
\* equal only for points of one voxel.
LEMMA KeyValid ==
    ASSUME CloudOK, NEW p \in DOMAIN cloud
    PROVE  Key(p) \in Int /\ Key(p) <= invalid_coord /\ (Valid(p) <=> Key(p) # invalid_coord)
<1> DEFINE s == Side
<1>1. s \in Nat \ {0}
  BY SideType
<1>2. invalid_coord \in Int
  BY <1>1 DEF invalid_coord
<1>3. CASE Valid(p)
  <2>1. Coord(p, 1) \in 0 .. s - 1 /\ Coord(p, 2) \in 0 .. s - 1 /\ Coord(p, 3) \in 0 .. s - 1
    BY <1>3 DEF Valid
  <2> HIDE DEF s
  <2>2. ASSUME NEW a \in 0 .. s - 1, NEW b \in 0 .. s - 1, NEW n \in Nat, b < n
        PROVE  a + s * b \in Int /\ a + s * b < s * n
    <3>1. PICK d \in Nat : n = b + 1 + d
      <4>1. n - b - 1 \in Nat /\ n = b + 1 + (n - b - 1)
        BY <2>2
      <4>2. QED
        BY <4>1
    <3>2. s * (b + 1 + d) = s * b + s + s * d /\ s * d >= 0 /\ s * b \in Int
      BY <1>1
    <3>3. QED
      BY <1>1, <3>1, <3>2
  <2>3. ASSUME NEW a \in 0 .. s - 1, NEW b \in Nat, NEW n \in Nat, b < n
        PROVE  a + s * b \in Nat /\ a + s * b < s * n
    <3>1. PICK d \in Nat : n = b + 1 + d
      <4>1. n - b - 1 \in Nat /\ n = b + 1 + (n - b - 1)
        BY <2>3
      <4>2. QED
        BY <4>1
    <3>2. s * (b + 1 + d) = s * b + s + s * d /\ s * d >= 0 /\ s * b >= 0 /\ s * b \in Int
      BY <1>1
    <3>3. QED
      BY <1>1, <3>1, <3>2
  <2> DEFINE x == Coord(p, 2) + s * Coord(p, 3)
             y == Coord(p, 1) + s * x
  <2>4. x \in Nat /\ x < s * s
    BY <1>1, <2>1, <2>3
  <2> HIDE DEF x
  <2>5. s * s \in Nat
    BY <1>1
  <2>6. y \in Nat /\ y < s * (s * s)
    BY <2>1, <2>3, <2>4, <2>5
  <2>7. s * (s * s) = s * s * s
    BY <1>1
  <2> HIDE DEF y
  <2>8. Key(p) = y
    BY <1>3 DEF Key, x, y, s
  <2>9. invalid_coord = s * (s * s)
    BY <2>7 DEF invalid_coord, s
  <2>10. QED
    BY <1>2, <1>3, <2>6, <2>8, <2>9
<1>4. CASE ~Valid(p)
  BY <1>2, <1>4 DEF Key
<1>5. QED
  BY <1>3, <1>4

LEMMA KeyOfVoxel ==
    ASSUME CloudOK, NEW p \in DOMAIN cloud, NEW q \in DOMAIN cloud
    PROVE  /\ Valid(p) /\ Key(p) = Key(q) => Voxel(p) = Voxel(q)
           /\ Voxel(p) = Voxel(q) => Key(p) = Key(q)
<1>1. \A axis \in 1 .. 3 : /\ Coord(p, axis) = Voxel(p)[axis] + Offset
                           /\ Coord(q, axis) = Voxel(q)[axis] + Offset
                           /\ Voxel(p)[axis] \in Int /\ Voxel(q)[axis] \in Int
  BY CoordType, BitsAssumption DEF Coord, Voxel
<1>2. Voxel(p) = Voxel(q) => Key(p) = Key(q)
  <2>1. Voxel(p) = Voxel(q) => \A axis \in 1 .. 3 : Coord(p, axis) = Coord(q, axis)
    BY <1>1
  <2>2. QED
    BY <2>1 DEF Key, Valid
<1>3. ASSUME Valid(p), Key(p) = Key(q) PROVE Voxel(p) = Voxel(q)
  <2>1. Valid(q)
    BY <1>3, KeyValid
  <2>2. /\ Coord(p, 1) \in 0 .. Side - 1 /\ Coord(p, 2) \in 0 .. Side - 1
        /\ Coord(p, 3) \in 0 .. Side - 1
        /\ Coord(q, 1) \in 0 .. Side - 1 /\ Coord(q, 2) \in 0 .. Side - 1
        /\ Coord(q, 3) \in 0 .. Side - 1
    BY <1>3, <2>1 DEF Valid
  <2> DEFINE x == Coord(p, 2) + Side * Coord(p, 3)
             y == Coord(q, 2) + Side * Coord(q, 3)
  <2>3. x \in Int /\ y \in Int
    BY <2>2, SideType
  <2>4. Coord(p, 1) + Side * x = Coord(q, 1) + Side * y
    BY <1>3, <2>1 DEF Key
  <2> HIDE DEF x, y
  <2>5. Coord(p, 1) = Coord(q, 1) /\ x = y
    BY <2>2, <2>3, <2>4, Digits
  <2>6. Coord(p, 2) = Coord(q, 2) /\ Coord(p, 3) = Coord(q, 3)
    <3>1. Coord(p, 2) + Side * Coord(p, 3) = Coord(q, 2) + Side * Coord(q, 3)
      BY <2>5 DEF x, y
    <3>2. Coord(p, 3) \in Int /\ Coord(q, 3) \in Int
      BY <2>2
    <3>3. QED
      BY <2>2, <3>1, <3>2, Digits
  <2>7. \A axis \in 1 .. 3 : Coord(p, axis) = Coord(q, axis)
    <3>1. \A axis \in 1 .. 3 : axis = 1 \/ axis = 2 \/ axis = 3
      OBVIOUS
    <3>2. QED
      BY <2>5, <2>6, <3>1
  <2>8. \A axis \in 1 .. 3 : Voxel(p)[axis] = Voxel(q)[axis]
    BY <1>1, <2>7, SideType
  <2>9. QED
    BY <2>8 DEF Voxel
<1>4. QED
  BY <1>2, <1>3

-----------------------------------------------------------------------------
(* The sort.                                                               *)
-----------------------------------------------------------------------------
\* Tasks have as many points as positions.
TaskTypes(P, n, pend, arr) ==
    /\ DOMAIN arr \subseteq 0 .. n - 1
    /\ \A i \in DOMAIN arr : arr[i] \in P
    /\ \A r \in DOMAIN pend :
          /\ r[1] \in 0 .. n /\ r[2] \in 0 .. n /\ r[1] < r[2]
          /\ pend[r] \subseteq P /\ Cardinality(pend[r]) = r[2] - r[1]

\* No position and no point is in two hands.
Apart(pend, arr) ==
    /\ \A r, s \in DOMAIN pend :
          r # s => Positions(r) \cap Positions(s) = {} /\ pend[r] \cap pend[s] = {}
    /\ \A r \in DOMAIN pend, i \in DOMAIN arr : i \notin Positions(r) /\ arr[i] \notin pend[r]
    /\ \A i, j \in DOMAIN arr : arr[i] = arr[j] => i = j

\* None is lost.
Whole(P, n, pend, arr) ==
    /\ \A i \in 0 .. n - 1 : i \in DOMAIN arr \/ \E r \in DOMAIN pend : i \in Positions(r)
    /\ \A p \in P : (\E i \in DOMAIN arr : arr[i] = p) \/ \E r \in DOMAIN pend : p \in pend[r]

\* The points position i may still get.
MayHold(pend, arr, i, p) ==
    \/ i \in DOMAIN arr /\ arr[i] = p
    \/ \E r \in DOMAIN pend : i \in Positions(r) /\ p \in pend[r]

\* Positions are ordered, or one task's.
Ordered(P, K, pend, arr) ==
    \A i, j \in Nat, p, q \in P :
        i < j /\ MayHold(pend, arr, i, p) /\ MayHold(pend, arr, j, q) =>
            K[p] <= K[q] \/ \E r \in DOMAIN pend : i \in Positions(r) /\ j \in Positions(r)

\* The array between two steps of the tasks, for points P with keys K.
Sorting(P, K, n, pend, arr) ==
    TaskTypes(P, n, pend, arr) /\ Apart(pend, arr) /\ Whole(P, n, pend, arr) /\ Ordered(P, K, pend, arr)

\* Points split into three parts by their keys.
Parts(K, ps, below, mid, above) ==
    /\ ps = below \cup mid \cup above
    /\ below \cap mid = {} /\ below \cap above = {} /\ mid \cap above = {}
    /\ \A p \in below, q \in mid \cup above : K[p] <= K[q]
    /\ \A p \in mid, q \in above : K[p] <= K[q]

\* A sorted layout of points from position first on.
Settled(K, mid, first, f) ==
    /\ f \in Bijection(first .. first + Cardinality(mid) - 1, mid)
    /\ \A i, j \in DOMAIN f : i < j => K[f[i]] <= K[f[j]]

\* The tasks after task r has left what is below and above to tasks of their own.
Handed(pend, r, m1, below, m2, above, pend2) ==
    /\ DOMAIN pend2 = (DOMAIN pend \ {r}) \cup (IF below = {} THEN {} ELSE {<<r[1], m1>>})
                                          \cup (IF above = {} THEN {} ELSE {<<m2, r[2]>>})
    /\ \A s \in DOMAIN pend2 :
          pend2[s] = IF s = <<m2, r[2]>> /\ above # {} THEN above
                     ELSE IF s = <<r[1], m1>> /\ below # {} THEN below ELSE pend[s]

LEMMA Together ==
    ASSUME NEW S, IsFiniteSet(S), NEW T, IsFiniteSet(T), S \cap T = {}
    PROVE  /\ IsFiniteSet(S \cup T) /\ Cardinality(S) \in Nat /\ Cardinality(T) \in Nat
           /\ Cardinality(S \cup T) = Cardinality(S) + Cardinality(T)
<1>1. IsFiniteSet(S \cup T) /\ Cardinality(S \cup T) = Cardinality(S) + Cardinality(T) - Cardinality({})
  BY FS_Union
<1>2. Cardinality({}) = 0 /\ Cardinality(S) \in Nat /\ Cardinality(T) \in Nat
  BY FS_EmptySet, FS_CardinalityType
<1>3. QED
  BY <1>1, <1>2

\* A task settles its middle part.  For std::sort the middle is everything.
LEMMA SortStep ==
    ASSUME NEW P, IsFiniteSet(P), NEW K \in [P -> Int], NEW n \in Nat, NEW pend, NEW arr,
           Sorting(P, K, n, pend, arr),
           NEW r \in DOMAIN pend, NEW below, NEW mid, NEW above,
           Parts(K, pend[r], below, mid, above),
           NEW m1, m1 = r[1] + Cardinality(below), NEW m2, m2 = r[2] - Cardinality(above),
           NEW f, Settled(K, mid, m1, f),
           NEW pend2, Handed(pend, r, m1, below, m2, above, pend2),
           NEW arr2, arr2 = Merged(arr, f)
    PROVE  Sorting(P, K, n, pend2, arr2)
<1>1. /\ pend[r] = below \cup mid \cup above
      /\ below \cap mid = {} /\ below \cap above = {} /\ mid \cap above = {}
  BY DEF Parts
<1>2. /\ r[1] \in 0 .. n /\ r[2] \in 0 .. n /\ r[1] < r[2]
      /\ pend[r] \subseteq P /\ Cardinality(pend[r]) = r[2] - r[1]
  BY DEF Sorting, TaskTypes
<1>3. /\ IsFiniteSet(below) /\ IsFiniteSet(mid) /\ IsFiniteSet(above)
      /\ Cardinality(below) \in Nat /\ Cardinality(mid) \in Nat /\ Cardinality(above) \in Nat
  <2>1. below \subseteq P /\ mid \subseteq P /\ above \subseteq P
    BY <1>1, <1>2
  <2>2. QED
    BY <2>1, FS_Subset, FS_CardinalityType
<1>4. Cardinality(pend[r]) = Cardinality(below) + Cardinality(mid) + Cardinality(above)
  <2> DEFINE lower == below \cup mid
  <2>1. IsFiniteSet(lower) /\ Cardinality(lower) = Cardinality(below) + Cardinality(mid)
    BY <1>1, <1>3, Together
  <2>2. lower \cap above = {} /\ pend[r] = lower \cup above
    BY <1>1
  <2> HIDE DEF lower
  <2>3. Cardinality(pend[r]) = Cardinality(lower) + Cardinality(above)
    BY <1>3, <2>1, <2>2, Together
  <2>4. QED
    BY <2>1, <2>3
<1>5. /\ m1 \in Nat /\ m2 \in Nat /\ r[1] <= m1 /\ m1 <= m2 /\ m2 <= r[2]
      /\ m1 + Cardinality(mid) = m2
      /\ below # {} => r[1] < m1
      /\ above # {} => m2 < r[2]
  BY <1>2, <1>3, <1>4, FS_EmptySet
<1>6. /\ f \in [m1 .. m2 - 1 -> mid]
      /\ \A i, j \in m1 .. m2 - 1 : f[i] = f[j] => i = j
      /\ \A p \in mid : \E i \in m1 .. m2 - 1 : f[i] = p
  <2> DEFINE slots == m1 .. m2 - 1
  <2>1. slots = m1 .. m1 + Cardinality(mid) - 1
    <3>1. m2 - 1 = m1 + Cardinality(mid) - 1
      BY <1>3, <1>5
    <3>2. QED
      BY <3>1
  <2> HIDE DEF slots
  <2>2. f \in Bijection(slots, mid)
    <3>1. f \in Bijection(m1 .. m1 + Cardinality(mid) - 1, mid)
      BY Zenon DEF Settled
    <3>2. QED
      BY <2>1, <3>1, Zenon
  <2>3. /\ f \in [slots -> mid]
        /\ \A i, j \in slots : f[i] = f[j] => i = j
        /\ \A p \in mid : \E i \in slots : f[i] = p
    BY <2>2, Fun_BijectionProperties
  <2>4. QED
    BY <2>3 DEF slots
<1>7. /\ DOMAIN arr2 = DOMAIN arr \cup m1 .. m2 - 1
      /\ \A i \in m1 .. m2 - 1 : arr2[i] = f[i]
      /\ \A i \in DOMAIN arr : i \notin Positions(r) => arr2[i] = arr[i] /\ i \notin m1 .. m2 - 1
  <2>1. DOMAIN f = m1 .. m2 - 1
    BY <1>6
  <2>2. m1 .. m2 - 1 \subseteq Positions(r)
    BY <1>2, <1>5 DEF Positions
  <2>3. QED
    BY <2>1, <2>2 DEF Merged
<1> DEFINE Low(s) == s = <<r[1], m1>> /\ below # {} /\ pend2[s] = below /\ r[1] < m1
           High(s) == s = <<m2, r[2]>> /\ above # {} /\ pend2[s] = above /\ m2 < r[2]
           Same(s) == s \in DOMAIN pend /\ s # r /\ pend2[s] = pend[s]
<1>8. ASSUME NEW s \in DOMAIN pend, s # r
      PROVE  Positions(s) \cap Positions(r) = {} /\ pend[s] \cap pend[r] = {} /\ Positions(s) # {}
  <2>1. s[1] \in Nat /\ s[2] \in Nat /\ s[1] < s[2]
    BY DEF Sorting, TaskTypes
  <2>2. s[1] \in Positions(s)
    BY <2>1 DEF Positions
  <2>3. QED
    BY <1>8, <2>2 DEF Sorting, Apart
<1>9. \A s \in DOMAIN pend2 : Low(s) \/ High(s) \/ Same(s)
  BY <1>5 DEF Handed
<1>10. /\ below # {} => <<r[1], m1>> \in DOMAIN pend2 /\ Low(<<r[1], m1>>)
       /\ above # {} => <<m2, r[2]>> \in DOMAIN pend2 /\ High(<<m2, r[2]>>)
       /\ \A s \in DOMAIN pend : s # r => s \in DOMAIN pend2 /\ Same(s)
  <2>1. above # {} => <<m2, r[2]>> \in DOMAIN pend2 /\ High(<<m2, r[2]>>)
    BY <1>5 DEF Handed
  <2>2. ASSUME below # {} PROVE <<r[1], m1>> \in DOMAIN pend2 /\ Low(<<r[1], m1>>)
    <3>1. above # {} => <<r[1], m1>> # <<m2, r[2]>>
      BY <1>2, <1>5
    <3>2. QED
      BY <1>5, <2>2, <3>1 DEF Handed
  <2>3. ASSUME NEW s \in DOMAIN pend, s # r PROVE s \in DOMAIN pend2 /\ Same(s)
    <3>1. below # {} => s # <<r[1], m1>>
      <4>1. ASSUME below # {}, s = <<r[1], m1>> PROVE FALSE
        <5>1. r[1] \in Positions(s) /\ r[1] \in Positions(r)
          BY <1>2, <1>5, <4>1 DEF Positions
        <5>2. QED
          BY <1>8, <2>3, <5>1
      <4>2. QED
        BY <4>1
    <3>2. above # {} => s # <<m2, r[2]>>
      <4>1. ASSUME above # {}, s = <<m2, r[2]>> PROVE FALSE
        <5>1. m2 \in Positions(s) /\ m2 \in Positions(r)
          BY <1>2, <1>5, <4>1 DEF Positions
        <5>2. QED
          BY <1>8, <2>3, <5>1
      <4>2. QED
        BY <4>1
    <3>3. QED
      BY <2>3, <3>1, <3>2 DEF Handed
  <2>4. QED
    BY <2>1, <2>2, <2>3
\* Positions and points of the three parts.
<1>11. /\ \A s : Low(s) => Positions(s) = r[1] .. m1 - 1
       /\ \A s : High(s) => Positions(s) = m2 .. r[2] - 1
       /\ Positions(r) = r[1] .. r[2] - 1
  BY DEF Positions
<1>12. /\ r[1] .. m1 - 1 \subseteq Positions(r)
       /\ m1 .. m2 - 1 \subseteq Positions(r)
       /\ m2 .. r[2] - 1 \subseteq Positions(r)
       /\ Positions(r) \subseteq (r[1] .. m1 - 1) \cup (m1 .. m2 - 1) \cup (m2 .. r[2] - 1)
       /\ (r[1] .. m1 - 1) \cap (m1 .. m2 - 1) = {}
       /\ (r[1] .. m1 - 1) \cap (m2 .. r[2] - 1) = {}
       /\ (m1 .. m2 - 1) \cap (m2 .. r[2] - 1) = {}
  BY <1>2, <1>5 DEF Positions
<1>13. /\ \A s : Low(s) => /\ s = <<r[1], m1>> /\ below # {} /\ pend2[s] = below
                            /\ r[1] < m1 /\ Positions(s) = r[1] .. m1 - 1
       /\ \A s : High(s) => /\ s = <<m2, r[2]>> /\ above # {} /\ pend2[s] = above
                             /\ m2 < r[2] /\ Positions(s) = m2 .. r[2] - 1
       /\ \A s : Same(s) => s \in DOMAIN pend /\ s # r /\ pend2[s] = pend[s]
  BY <1>11
<1> HIDE DEF Low, High, Same
<1>14. \A s \in DOMAIN pend2 : ~Same(s) =>
          Positions(s) # {} /\ Positions(s) \subseteq Positions(r) /\ pend2[s] \subseteq pend[r]
  <2>1. r[1] < m1 => r[1] \in r[1] .. m1 - 1
    BY <1>2, <1>5
  <2>2. m2 < r[2] => m2 \in m2 .. r[2] - 1
    BY <1>2, <1>5
  <2>3. below \subseteq pend[r] /\ above \subseteq pend[r]
    BY <1>1
  <2>4. ASSUME NEW s, Low(s)
        PROVE  Positions(s) # {} /\ Positions(s) \subseteq Positions(r) /\ pend2[s] \subseteq pend[r]
    <3>1. Positions(s) = r[1] .. m1 - 1 /\ pend2[s] = below /\ r[1] < m1
      BY <1>13, <2>4
    <3>2. QED
      BY <1>12, <2>1, <2>3, <3>1
  <2>5. ASSUME NEW s, High(s)
        PROVE  Positions(s) # {} /\ Positions(s) \subseteq Positions(r) /\ pend2[s] \subseteq pend[r]
    <3>1. Positions(s) = m2 .. r[2] - 1 /\ pend2[s] = above /\ m2 < r[2]
      BY <1>13, <2>5
    <3>2. QED
      BY <1>12, <2>2, <2>3, <3>1
  <2>6. QED
    BY <1>9, <2>4, <2>5
<1>15. TaskTypes(P, n, pend2, arr2)
  <2>1. DOMAIN arr2 \subseteq 0 .. n - 1
    BY <1>2, <1>5, <1>7 DEF Sorting, TaskTypes
  <2>2. ASSUME NEW i \in DOMAIN arr2 PROVE arr2[i] \in P
    <3>1. CASE i \in m1 .. m2 - 1
      BY <1>1, <1>2, <1>6, <1>7, <3>1
    <3>2. CASE i \in DOMAIN arr /\ i \notin m1 .. m2 - 1
      <4>1. i \notin Positions(r)
        BY <3>2 DEF Sorting, Apart
      <4>2. QED
        BY <1>7, <3>2, <4>1 DEF Sorting, TaskTypes
    <3>3. QED
      BY <1>7, <3>1, <3>2
  <2>3. ASSUME NEW s \in DOMAIN pend2
        PROVE  /\ s[1] \in 0 .. n /\ s[2] \in 0 .. n /\ s[1] < s[2]
               /\ pend2[s] \subseteq P /\ Cardinality(pend2[s]) = s[2] - s[1]
    <3>1. CASE Low(s)
      <4>1. s[1] = r[1] /\ s[2] = m1 /\ pend2[s] = below /\ r[1] < m1
        BY <1>13, <3>1
      <4>2. QED
        BY <1>1, <1>2, <1>3, <1>5, <4>1
    <3>2. CASE High(s)
      <4>1. s[1] = m2 /\ s[2] = r[2] /\ pend2[s] = above /\ m2 < r[2]
        BY <1>13, <3>2
      <4>2. QED
        BY <1>1, <1>2, <1>3, <1>5, <4>1
    <3>3. CASE Same(s)
      BY <1>13, <3>3 DEF Sorting, TaskTypes
    <3>4. QED
      BY <1>9, <3>1, <3>2, <3>3
  <2>4. QED
    BY <2>1, <2>2, <2>3 DEF TaskTypes
<1>16. Apart(pend2, arr2)
  <2>1. ASSUME NEW s \in DOMAIN pend2, NEW t \in DOMAIN pend2, s # t
        PROVE  Positions(s) \cap Positions(t) = {} /\ pend2[s] \cap pend2[t] = {}
    <3>1. CASE Same(s) /\ Same(t)
      BY <1>13, <2>1, <3>1 DEF Sorting, Apart
    <3>2. CASE Same(s) /\ ~Same(t)
      BY <1>8, <1>13, <1>14, <3>2
    <3>3. CASE ~Same(s) /\ Same(t)
      BY <1>8, <1>13, <1>14, <3>3
    <3>4. CASE ~Same(s) /\ ~Same(t)
      <4>1. CASE Low(s) /\ High(t)
        <5>1. /\ Positions(s) = r[1] .. m1 - 1 /\ pend2[s] = below
              /\ Positions(t) = m2 .. r[2] - 1 /\ pend2[t] = above
          BY <1>13, <4>1
        <5>2. QED
          BY <1>1, <1>12, <5>1
      <4>2. CASE High(s) /\ Low(t)
        <5>1. /\ Positions(t) = r[1] .. m1 - 1 /\ pend2[t] = below
              /\ Positions(s) = m2 .. r[2] - 1 /\ pend2[s] = above
          BY <1>13, <4>2
        <5>2. Positions(t) \cap Positions(s) = {} /\ pend2[t] \cap pend2[s] = {}
          BY <1>1, <1>12, <5>1
        <5>3. QED
          BY <5>2
      <4>3. QED
        BY <1>9, <1>13, <2>1, <3>4, <4>1, <4>2
    <3>5. QED
      BY <3>1, <3>2, <3>3, <3>4
  <2>2. ASSUME NEW s \in DOMAIN pend2, NEW i \in DOMAIN arr2
        PROVE  i \notin Positions(s) /\ arr2[i] \notin pend2[s]
    <3>1. CASE i \in m1 .. m2 - 1
      <4>1. arr2[i] \in mid /\ i \in Positions(r)
        BY <1>6, <1>7, <1>12, <3>1
      <4>2. QED
        <5>1. CASE Same(s)
          BY <1>1, <1>8, <1>13, <4>1, <5>1
        <5>2. CASE Low(s)
          <6>1. Positions(s) = r[1] .. m1 - 1 /\ pend2[s] = below
            BY <1>13, <5>2
          <6>2. QED
            BY <1>1, <1>12, <3>1, <4>1, <6>1
        <5>3. CASE High(s)
          <6>1. Positions(s) = m2 .. r[2] - 1 /\ pend2[s] = above
            BY <1>13, <5>3
          <6>2. QED
            BY <1>1, <1>12, <3>1, <4>1, <6>1
        <5>4. QED
          BY <1>9, <5>1, <5>2, <5>3
    <3>2. CASE i \in DOMAIN arr
      <4>1. i \notin Positions(r) /\ arr[i] \notin pend[r]
        BY <3>2 DEF Sorting, Apart
      <4>2. arr2[i] = arr[i]
        BY <1>7, <3>2, <4>1
      <4>3. CASE Same(s)
        BY <1>13, <3>2, <4>2, <4>3 DEF Sorting, Apart
      <4>4. CASE ~Same(s)
        BY <1>14, <4>1, <4>2, <4>4
      <4>5. QED
        BY <4>3, <4>4
    <3>3. QED
      BY <1>7, <3>1, <3>2
  <2>3. ASSUME NEW i \in DOMAIN arr2, NEW j \in DOMAIN arr2, arr2[i] = arr2[j]
        PROVE  i = j
    <3>1. \A k \in DOMAIN arr : arr2[k] = arr[k] /\ arr[k] \notin mid
      BY <1>1, <1>7 DEF Sorting, Apart
    <3>2. \A k \in m1 .. m2 - 1 : arr2[k] = f[k] /\ f[k] \in mid
      BY <1>6, <1>7
    <3>3. CASE i \in DOMAIN arr /\ j \in DOMAIN arr
      BY <2>3, <3>1, <3>3 DEF Sorting, Apart
    <3>4. CASE i \in m1 .. m2 - 1 /\ j \in m1 .. m2 - 1
      BY <1>6, <2>3, <3>2, <3>4
    <3>5. QED
      BY <1>7, <2>3, <3>1, <3>2, <3>3, <3>4
  <2>4. QED
    BY <2>1, <2>2, <2>3 DEF Apart
<1>17. Whole(P, n, pend2, arr2)
  <2>1. ASSUME NEW i \in 0 .. n - 1
        PROVE  i \in DOMAIN arr2 \/ \E s \in DOMAIN pend2 : i \in Positions(s)
    <3>1. CASE i \in DOMAIN arr
      BY <1>7, <3>1
    <3>2. CASE i \in Positions(r)
      <4>1. CASE i \in r[1] .. m1 - 1
        <5>1. below # {}
          <6>1. ~(m1 = r[1]) /\ Cardinality({}) = 0
            BY <1>2, <1>5, <4>1, FS_EmptySet
          <6>2. QED
            BY <1>2, <1>5, <6>1
        <5>2. QED
          BY <1>10, <1>13, <4>1, <5>1
      <4>2. CASE i \in m2 .. r[2] - 1
        <5>1. above # {}
          <6>1. m2 < r[2] /\ Cardinality({}) = 0
            BY <1>2, <1>5, <4>2, FS_EmptySet
          <6>2. above = {} => m2 = r[2]
            BY <1>2, <6>1
          <6>3. QED
            BY <1>2, <1>5, <6>1, <6>2
        <5>2. QED
          BY <1>10, <1>13, <4>2, <5>1
      <4>3. QED
        BY <1>7, <1>12, <3>2, <4>1, <4>2
    <3>3. CASE \E s \in DOMAIN pend : s # r /\ i \in Positions(s)
      BY <1>10, <1>13, <3>3
    <3>4. QED
      BY <3>1, <3>2, <3>3 DEF Sorting, Whole
  <2>2. ASSUME NEW p \in P
        PROVE  (\E i \in DOMAIN arr2 : arr2[i] = p) \/ \E s \in DOMAIN pend2 : p \in pend2[s]
    <3>1. CASE \E i \in DOMAIN arr : arr[i] = p
      BY <1>7, <3>1 DEF Sorting, Apart
    <3>2. CASE p \in pend[r]
      <4>1. CASE p \in mid
        BY <1>6, <1>7, <4>1
      <4>2. CASE p \in below
        BY <1>10, <1>13, <4>2
      <4>3. CASE p \in above
        BY <1>10, <1>13, <4>3
      <4>4. QED
        BY <1>1, <3>2, <4>1, <4>2, <4>3
    <3>3. CASE \E s \in DOMAIN pend : s # r /\ p \in pend[s]
      BY <1>10, <1>13, <3>3
    <3>4. QED
      BY <3>1, <3>2, <3>3 DEF Sorting, Whole
  <2>3. QED
    BY <2>1, <2>2 DEF Whole
<1>18. Ordered(P, K, pend2, arr2)
  <2> DEFINE Outside(i, p) == i \notin Positions(r) /\ MayHold(pend, arr, i, p)
             Inside(i, p) == \/ i \in r[1] .. m1 - 1 /\ p \in below
                             \/ i \in m1 .. m2 - 1 /\ p = f[i]
                             \/ i \in m2 .. r[2] - 1 /\ p \in above
  <2>1. ASSUME NEW i, NEW p, MayHold(pend2, arr2, i, p) PROVE Outside(i, p) \/ Inside(i, p)
    <3>1. CASE i \in DOMAIN arr2 /\ arr2[i] = p
      <4>1. CASE i \in m1 .. m2 - 1
        BY <1>7, <3>1, <4>1
      <4>2. CASE i \in DOMAIN arr
        <5>1. i \notin Positions(r) /\ arr[i] = p
          BY <1>7, <3>1, <4>2 DEF Sorting, Apart
        <5>2. QED
          BY <4>2, <5>1 DEF MayHold
      <4>3. QED
        BY <1>7, <3>1, <4>1, <4>2
    <3>2. CASE \E s \in DOMAIN pend2 : i \in Positions(s) /\ p \in pend2[s]
      <4>1. PICK s \in DOMAIN pend2 : i \in Positions(s) /\ p \in pend2[s]
        BY <3>2
      <4>2. CASE Same(s)
        <5>1. i \notin Positions(r)
          BY <1>8, <1>13, <4>1, <4>2
        <5>2. QED
          BY <1>13, <4>1, <4>2, <5>1 DEF MayHold
      <4>3. CASE ~Same(s)
        BY <1>9, <1>13, <4>1, <4>3
      <4>4. QED
        BY <4>2, <4>3
    <3>3. QED
      BY <2>1, <3>1, <3>2 DEF MayHold
  <2>2. ASSUME NEW i, NEW p, Inside(i, p)
        PROVE  i \in Positions(r) /\ p \in pend[r] /\ MayHold(pend, arr, i, p)
    <3>1. i \in Positions(r) /\ p \in pend[r]
      BY <1>1, <1>6, <1>12, <2>2
    <3>2. QED
      BY <3>1 DEF MayHold
  <2>3. ASSUME NEW i \in Nat, NEW j \in Nat, NEW p \in P, NEW q \in P, i < j,
               Inside(i, p), Inside(j, q)
        PROVE  \/ K[p] <= K[q]
               \/ \E s \in DOMAIN pend2 : i \in Positions(s) /\ j \in Positions(s)
    <3>1. CASE i \in r[1] .. m1 - 1 /\ p \in below
      <4>1. CASE j \in r[1] .. m1 - 1
        <5>1. Positions(<<r[1], m1>>) = r[1] .. m1 - 1 /\ <<r[1], m1>> \in DOMAIN pend2
          BY <1>10, <3>1 DEF Positions
        <5>2. QED
          BY <3>1, <4>1, <5>1
      <4>2. CASE q \in mid \cup above
        BY <3>1, <4>2 DEF Parts
      <4>3. QED
        BY <1>6, <2>3, <4>1, <4>2
    <3>2. CASE i \in m1 .. m2 - 1 /\ p = f[i]
      <4>1. CASE j \in m1 .. m2 - 1 /\ q = f[j]
        <5>1. DOMAIN f = m1 .. m2 - 1
          BY <1>6
        <5>2. QED
          BY <2>3, <3>2, <4>1, <5>1 DEF Settled
      <4>2. CASE q \in above
        BY <1>6, <3>2, <4>2 DEF Parts
      <4>3. ~(j \in r[1] .. m1 - 1)
        BY <1>2, <1>5, <2>3, <3>2
      <4>4. QED
        BY <2>3, <4>1, <4>2, <4>3
    <3>3. CASE i \in m2 .. r[2] - 1 /\ p \in above
      <4>1. ~(j \in r[1] .. m1 - 1) /\ ~(j \in m1 .. m2 - 1)
        BY <1>2, <1>5, <2>3, <3>3
      <4>2. j \in m2 .. r[2] - 1
        BY <2>3, <4>1
      <4>3. Positions(<<m2, r[2]>>) = m2 .. r[2] - 1 /\ <<m2, r[2]>> \in DOMAIN pend2
        BY <1>10, <3>3 DEF Positions
      <4>4. QED
        BY <3>3, <4>2, <4>3
    <3>4. QED
      BY <2>3, <3>1, <3>2, <3>3
  <2>4. ASSUME NEW i \in Nat, NEW j \in Nat, NEW p \in P, NEW q \in P, i < j,
               MayHold(pend2, arr2, i, p), MayHold(pend2, arr2, j, q)
        PROVE  \/ K[p] <= K[q]
               \/ \E s \in DOMAIN pend2 : i \in Positions(s) /\ j \in Positions(s)
    <3>1. CASE Inside(i, p) /\ Inside(j, q)
      BY <2>3, <2>4, <3>1
    <3>2. CASE Outside(i, p) \/ Outside(j, q)
      <4>1. MayHold(pend, arr, i, p) /\ MayHold(pend, arr, j, q)
        BY <2>1, <2>2, <2>4
      <4>2. ~(i \in Positions(r) /\ j \in Positions(r))
        BY <3>2
      <4>3. K[p] <= K[q] \/ \E s \in DOMAIN pend : i \in Positions(s) /\ j \in Positions(s)
        BY <2>4, <4>1 DEF Sorting, Ordered
      <4>4. QED
        BY <1>10, <1>13, <4>2, <4>3
    <3>3. QED
      BY <2>1, <2>4, <3>1, <3>2
  <2>5. QED
    BY <2>4 DEF Ordered
<1>19. QED
  BY <1>15, <1>16, <1>17, <1>18 DEF Sorting

\* Everything the sort is given, and what it keeps.
Keys == [p \in DOMAIN cloud |-> Key(p)]
SortInv ==
    /\ CloudOK
    /\ stage \in {"sort", "average", "done"}
    /\ Sorting(DOMAIN cloud, Keys, Size, pending, coord_pt)
    /\ stage # "sort" => DOMAIN pending = {}
    /\ stage = "sort" => Size > 0

LEMMA KeysType ==
    ASSUME CloudOK
    PROVE  Keys \in [DOMAIN cloud -> Int] /\ \A p \in DOMAIN cloud : Keys[p] = Key(p)
BY KeyValid DEF Keys

LEMMA CloudKept ==
    ASSUME cloud' = cloud
    PROVE  Size' = Size /\ Keys' = Keys /\ CloudOK' = CloudOK
<1>1. Size' = Size
  BY DEF Size
<1>2. Keys' = Keys
  BY DEF Keys, Key, Valid, Coord
<1>3. QED
  BY <1>1, <1>2 DEF CloudOK

LEMMA SortInit == Init => SortInv
<1> SUFFICES ASSUME Init PROVE SortInv
  OBVIOUS
<1>1. CloudOK
  BY CloudsAssumption, FS_CardinalityType DEF Init, CloudOK, Size
<1>2. stage \in {"sort", "average", "done"}
  BY DEF Init
<1>3. Size \in Nat /\ DOMAIN cloud = 0 .. Size - 1 /\ IsFiniteSet(DOMAIN cloud)
  BY <1>1 DEF CloudOK
<1>4. (DOMAIN cloud = {} <=> Size = 0) /\ Cardinality(DOMAIN cloud) = Size
  BY <1>3 DEF Size
<1>5. DOMAIN pending = (IF DOMAIN cloud = {} THEN {} ELSE {<<0, Size>>})
      /\ \A r \in DOMAIN pending : pending[r] = DOMAIN cloud
  BY DEF Init, Task
<1>6. DOMAIN coord_pt = {}
  BY DEF Init
<1>7. \A r \in DOMAIN pending : /\ r = <<0, Size>> /\ r[1] = 0 /\ r[2] = Size /\ 0 < Size
                                /\ pending[r] = DOMAIN cloud /\ Positions(r) = 0 .. Size - 1
  BY <1>3, <1>4, <1>5 DEF Positions
<1>8. TaskTypes(DOMAIN cloud, Size, pending, coord_pt)
  <2>1. ASSUME NEW r \in DOMAIN pending
        PROVE  /\ r[1] \in 0 .. Size /\ r[2] \in 0 .. Size /\ r[1] < r[2]
               /\ pending[r] \subseteq DOMAIN cloud /\ Cardinality(pending[r]) = r[2] - r[1]
    <3>1. r[1] = 0 /\ r[2] = Size /\ 0 < Size /\ pending[r] = DOMAIN cloud
      BY <1>7
    <3>2. QED
      BY <1>3, <1>4, <3>1
  <2>2. QED
    BY <1>6, <2>1 DEF TaskTypes
<1>9. Apart(pending, coord_pt)
  BY <1>6, <1>7 DEF Apart
<1>10. Whole(DOMAIN cloud, Size, pending, coord_pt)
  <2>1. 0 < Size => \E r \in DOMAIN pending : TRUE
    <3>1. 0 < Size => DOMAIN cloud # {}
      BY <1>4
    <3>2. QED
      BY <1>5, <3>1
  <2>2. DOMAIN cloud # {} => 0 < Size
    BY <1>3
  <2>3. QED
    BY <1>3, <1>7, <2>1, <2>2 DEF Whole
<1>11. Ordered(DOMAIN cloud, Keys, pending, coord_pt)
  BY <1>6, <1>7 DEF Ordered, MayHold
<1>12. (stage # "sort" => DOMAIN pending = {}) /\ (stage = "sort" => Size > 0)
  BY <1>3, <1>4, <1>5 DEF Init
<1>13. QED
  BY <1>1, <1>2, <1>8, <1>9, <1>10, <1>11, <1>12 DEF SortInv, Sorting

\* A layout of points of the cloud is sorted by the keys.
LEMMA LayoutSettled ==
    ASSUME CloudOK, NEW ps, ps \subseteq DOMAIN cloud, NEW first, NEW f \in Layouts(ps, first)
    PROVE  Settled(Keys, ps, first, f)
<1>1. f \in Bijection(first .. first + Cardinality(ps) - 1, ps)
  BY DEF Layouts
<1>2. \A i \in DOMAIN f : f[i] \in DOMAIN cloud
  <2> DEFINE slots == first .. first + Cardinality(ps) - 1
  <2>1. f \in Bijection(slots, ps)
    BY <1>1
  <2> HIDE DEF slots
  <2>2. f \in [slots -> ps]
    BY <2>1, Fun_BijectionProperties
  <2>3. QED
    BY <2>2
<1>3. \A i, j \in DOMAIN f : i < j => Keys[f[i]] <= Keys[f[j]]
  BY <1>2, KeysType DEF Layouts
<1>4. QED
  BY <1>1, <1>3 DEF Settled

LEMMA ShortKeeps ==
    ASSUME SortInv, NEW r, SortShort(r)
    PROVE  Sorting(DOMAIN cloud, Keys, Size, pending', coord_pt')
<1>1. /\ IsFiniteSet(DOMAIN cloud) /\ Size \in Nat /\ CloudOK /\ r \in DOMAIN pending
      /\ Sorting(DOMAIN cloud, Keys, Size, pending, coord_pt)
  BY DEF SortInv, CloudOK, SortShort
<1>2. Keys \in [DOMAIN cloud -> Int]
  BY <1>1, KeysType
<1>3. /\ r[1] \in Nat /\ r[2] \in Nat /\ pending[r] \subseteq DOMAIN cloud
      /\ Cardinality({}) = 0 /\ r[1] = r[1] + Cardinality({}) /\ r[2] = r[2] - Cardinality({})
  BY <1>1, FS_EmptySet DEF Sorting, TaskTypes
<1>4. PICK f \in Layouts(pending[r], r[1]) : coord_pt' = Merged(coord_pt, f)
  BY DEF SortShort
<1>5. Settled(Keys, pending[r], r[1], f)
  BY <1>1, <1>3, LayoutSettled
<1>6. Parts(Keys, pending[r], {}, pending[r], {})
  BY DEF Parts
<1>7. Handed(pending, r, r[1], {}, r[2], {}, pending')
  BY DEF SortShort, Without, Handed
<1>8. QED
  BY <1>1, <1>2, <1>3, <1>4, <1>5, <1>6, <1>7, SortStep

LEMMA PartitionKeeps ==
    ASSUME SortInv, NEW r, Partition(r)
    PROVE  Sorting(DOMAIN cloud, Keys, Size, pending', coord_pt')
<1>1. /\ IsFiniteSet(DOMAIN cloud) /\ Size \in Nat /\ CloudOK /\ r \in DOMAIN pending
      /\ Sorting(DOMAIN cloud, Keys, Size, pending, coord_pt)
  BY DEF SortInv, CloudOK, Partition
<1>2. Keys \in [DOMAIN cloud -> Int]
  BY <1>1, KeysType
<1>3. r[1] \in Nat /\ r[2] \in Nat /\ pending[r] \subseteq DOMAIN cloud
  BY <1>1 DEF Sorting, TaskTypes
<1> DEFINE ps == pending[r]
           below(x) == {p \in ps : Key(p) < Key(x)}
           mid(x) == {p \in ps : Key(p) = Key(x)}
           above(x) == Above(ps, x)
           m1(x) == r[1] + Cardinality(below(x))
           m2(x) == r[2] - Cardinality(above(x))
<1>4. PICK pivot \in ps :
        /\ pending' = Merged(Merged(Without(r), Task(r[1], m1(pivot), below(pivot))),
                             Task(m2(pivot), r[2], above(pivot)))
        /\ \E f \in Layouts(mid(pivot), m1(pivot)) : coord_pt' = Merged(coord_pt, f)
  BY Zenon DEF Partition
<1>5. PICK f \in Layouts(mid(pivot), m1(pivot)) : coord_pt' = Merged(coord_pt, f)
  BY <1>4
<1>6. mid(pivot) \subseteq DOMAIN cloud
  BY <1>3
<1>7. Settled(Keys, mid(pivot), m1(pivot), f)
  <2> HIDE DEF mid, m1
  <2>1. QED
    BY <1>1, <1>5, <1>6, LayoutSettled
<1>8. Parts(Keys, ps, below(pivot), mid(pivot), above(pivot))
  <2>1. \A p \in ps : Key(p) \in Int /\ Keys[p] = Key(p)
    BY <1>1, <1>3, KeyValid, KeysType
  <2>2. QED
    BY <2>1 DEF Parts, Above
<1> HIDE DEF ps, below, mid, above
<1>9. Handed(pending, r, m1(pivot), below(pivot), m2(pivot), above(pivot), pending')
  <2> HIDE DEF m1, m2
  <2> DEFINE lower == Task(r[1], m1(pivot), below(pivot))
             upper == Task(m2(pivot), r[2], above(pivot))
             kept == Without(r)
  <2>1. /\ DOMAIN lower = IF below(pivot) = {} THEN {} ELSE {<<r[1], m1(pivot)>>}
        /\ \A s \in DOMAIN lower : lower[s] = below(pivot)
    BY DEF Task
  <2>2. /\ DOMAIN upper = IF above(pivot) = {} THEN {} ELSE {<<m2(pivot), r[2]>>}
        /\ \A s \in DOMAIN upper : upper[s] = above(pivot)
    BY DEF Task
  <2>3. DOMAIN kept = DOMAIN pending \ {r} /\ \A s \in DOMAIN kept : kept[s] = pending[s]
    BY DEF Without
  <2>4. pending' = Merged(Merged(kept, lower), upper)
    BY <1>4
  <2> HIDE DEF lower, upper, kept
  <2>5. /\ DOMAIN pending' = DOMAIN kept \cup DOMAIN lower \cup DOMAIN upper
        /\ \A s \in DOMAIN pending' :
             pending'[s] = IF s \in DOMAIN upper THEN upper[s]
                           ELSE IF s \in DOMAIN lower THEN lower[s] ELSE kept[s]
    BY <2>4 DEF Merged
  <2>6. /\ \A s : s \in DOMAIN lower <=> s = <<r[1], m1(pivot)>> /\ below(pivot) # {}
        /\ \A s : s \in DOMAIN upper <=> s = <<m2(pivot), r[2]>> /\ above(pivot) # {}
    BY <2>1, <2>2
  <2>7. DOMAIN pending' = (DOMAIN pending \ {r})
          \cup (IF below(pivot) = {} THEN {} ELSE {<<r[1], m1(pivot)>>})
          \cup (IF above(pivot) = {} THEN {} ELSE {<<m2(pivot), r[2]>>})
    BY <2>1, <2>2, <2>3, <2>5
  <2>8. ASSUME NEW s \in DOMAIN pending'
        PROVE  pending'[s] = IF s = <<m2(pivot), r[2]>> /\ above(pivot) # {} THEN above(pivot)
                             ELSE IF s = <<r[1], m1(pivot)>> /\ below(pivot) # {} THEN below(pivot)
                             ELSE pending[s]
    BY <2>1, <2>2, <2>3, <2>5, <2>6
  <2>9. QED
    BY <2>7, <2>8 DEF Handed
<1>10. QED
  <2>1. m1(pivot) = r[1] + Cardinality(below(pivot)) /\ m2(pivot) = r[2] - Cardinality(above(pivot))
    OBVIOUS
  <2> HIDE DEF m1, m2
  <2>2. ps = pending[r]
    BY DEF ps
  <2>3. QED
    BY <1>1, <1>2, <1>5, <1>7, <1>8, <1>9, <2>1, <2>2, SortStep

LEMMA SortNext == SortInv /\ [Next]_vars => SortInv'
<1> SUFFICES ASSUME SortInv, [Next]_vars PROVE SortInv'
  OBVIOUS
<1>1. cloud' = cloud
  BY DEF Next, SortShort, Partition, StartBlocks, Reserve, Write, Finish, vars
<1>2. Size' = Size /\ Keys' = Keys /\ CloudOK'
  BY <1>1, CloudKept DEF SortInv
<1>3. /\ Sorting(DOMAIN cloud, Keys, Size, pending', coord_pt')
      /\ stage' \in {"sort", "average", "done"}
      /\ stage' # "sort" => DOMAIN pending' = {}
      /\ stage' = "sort" => Size > 0
  <2>1. CASE \E r \in DOMAIN pending : SortShort(r)
    BY <2>1, ShortKeeps DEF SortInv, SortShort
  <2>2. CASE \E r \in DOMAIN pending : Partition(r)
    BY <2>2, PartitionKeeps DEF SortInv, Partition
  <2>3. CASE StartBlocks
    BY <2>3 DEF SortInv, StartBlocks
  <2>4. CASE \E b \in blocks : Reserve(b)
    BY <2>4 DEF SortInv, Reserve
  <2>5. CASE \E b \in blocks : Write(b)
    BY <2>5 DEF SortInv, Write
  <2>6. CASE Finish
    BY <2>6 DEF SortInv, Finish
  <2>7. CASE UNCHANGED vars
    BY <2>7 DEF SortInv, vars
  <2>8. QED
    BY <2>1, <2>2, <2>3, <2>4, <2>5, <2>6, <2>7 DEF Next
<1>4. Sorting(DOMAIN cloud, Keys, Size, pending, coord_pt)'
  BY <1>1, <1>2, <1>3
<1>5. QED
  BY <1>2, <1>3, <1>4 DEF SortInv

\* The sort's tasks keep out of each other's way and lose nothing, however they
\* are interleaved and wherever the pivots fall.
LEMMA SortInvTasksApart == SortInv => TasksApart
<1> SUFFICES ASSUME SortInv PROVE TasksApart
  OBVIOUS
<1>1. /\ TaskTypes(DOMAIN cloud, Size, pending, coord_pt) /\ Apart(pending, coord_pt)
      /\ Whole(DOMAIN cloud, Size, pending, coord_pt)
  BY DEF SortInv, Sorting
<1>2. ASSUME NEW r \in DOMAIN pending
      PROVE  /\ Cardinality(pending[r]) = r[2] - r[1]
             /\ Positions(r) \cap DOMAIN coord_pt = {}
             /\ \A s \in DOMAIN pending \ {r} :
                  Positions(r) \cap Positions(s) = {} /\ pending[r] \cap pending[s] = {}
  BY <1>1 DEF TaskTypes, Apart
<1>3. (UNION {Positions(r) : r \in DOMAIN pending}) \cup DOMAIN coord_pt = 0 .. Size - 1
  <2>1. ASSUME NEW r \in DOMAIN pending PROVE Positions(r) \subseteq 0 .. Size - 1
    <3>1. r[1] \in 0 .. Size /\ r[2] \in 0 .. Size /\ Size \in Nat
      BY <1>1 DEF TaskTypes, SortInv, CloudOK
    <3>2. QED
      BY <3>1 DEF Positions
  <2>2. DOMAIN coord_pt \subseteq 0 .. Size - 1
    BY <1>1 DEF TaskTypes
  <2>3. \A i \in 0 .. Size - 1 : i \in DOMAIN coord_pt \/ \E r \in DOMAIN pending : i \in Positions(r)
    BY <1>1 DEF Whole
  <2> DEFINE all == 0 .. Size - 1
             held == UNION {Positions(r) : r \in DOMAIN pending}
  <2>4. \A i : i \in held <=> \E r \in DOMAIN pending : i \in Positions(r)
    OBVIOUS
  <2>5. held \cup DOMAIN coord_pt = all
    <3> HIDE DEF all, held
    <3>1. all = 0 .. Size - 1
      BY DEF all
    <3>2. \A i : i \in held \cup DOMAIN coord_pt <=> i \in all
      BY <2>1, <2>2, <2>3, <2>4, <3>1, Zenon
    <3>3. QED
      BY <3>2
  <2>6. QED
    BY <2>5
<1>4. (UNION {pending[r] : r \in DOMAIN pending}) \cup Range(coord_pt) = DOMAIN cloud
  <2>1. \A r \in DOMAIN pending : pending[r] \subseteq DOMAIN cloud
    BY <1>1 DEF TaskTypes
  <2>2. Range(coord_pt) \subseteq DOMAIN cloud
    BY <1>1 DEF TaskTypes, Range
  <2>3. \A p \in DOMAIN cloud : p \in Range(coord_pt) \/ \E r \in DOMAIN pending : p \in pending[r]
    BY <1>1 DEF Whole, Range
  <2>4. \A p : p \in UNION {pending[r] : r \in DOMAIN pending}
                 <=> \E r \in DOMAIN pending : p \in pending[r]
    OBVIOUS
  <2> DEFINE held == UNION {pending[r] : r \in DOMAIN pending}
  <2>5. held \cup Range(coord_pt) = DOMAIN cloud
    <3>1. \A p : p \in held <=> \E r \in DOMAIN pending : p \in pending[r]
      BY <2>4
    <3> HIDE DEF held
    <3>2. \A p : p \in held \cup Range(coord_pt) <=> p \in DOMAIN cloud
      BY <2>1, <2>2, <2>3, <3>1, Zenon
    <3>3. QED
      BY <3>2
  <2>6. QED
    BY <2>5
<1>5. QED
  BY <1>2, <1>3, <1>4 DEF TasksApart

-----------------------------------------------------------------------------
(* The blocks.                                                             *)
-----------------------------------------------------------------------------
BlocksOK ==
    /\ blocks \subseteq 0 .. Size - 1
    /\ stage # "sort" /\ Size > 0 => 0 \in blocks

\* A block ends where the next one begins.
LEMMA BlockEnds ==
    ASSUME BlocksOK, Size \in Nat, NEW b \in blocks
    PROVE  /\ b \in Nat /\ BlockEnd(b) \in Nat /\ b < BlockEnd(b) /\ BlockEnd(b) <= Size
           /\ BlockEnd(b) \in blocks \cup {Size}
           /\ \A c \in blocks : b < c => BlockEnd(b) <= c
<1> DEFINE ends == (blocks \cup {Size}) \ 0 .. b
<1>1. b \in Nat /\ b < Size
  BY DEF BlocksOK
<1>2. ends \subseteq Nat /\ Size \in ends
  BY <1>1 DEF BlocksOK
<1>3. PICK m \in ends : \A c \in ends : m <= c
  BY <1>2, LeastNat
<1>4. \A c : c \in blocks \ 0 .. b => c \in ends
  OBVIOUS
<1>5. BlockEnd(b) \in ends /\ \A c \in blocks \ 0 .. b : BlockEnd(b) <= c
  BY <1>3, <1>4 DEF BlockEnd
<1>6. BlockEnd(b) \in Nat /\ BlockEnd(b) \in blocks \cup {Size} /\ ~(BlockEnd(b) \in 0 .. b)
  BY <1>2, <1>5
<1>7. b < BlockEnd(b) /\ BlockEnd(b) <= Size
  BY <1>1, <1>6 DEF BlocksOK
<1>8. ASSUME NEW c \in blocks, b < c PROVE BlockEnd(b) <= c
  <2>1. c \notin 0 .. b
    BY <1>1, <1>8 DEF BlocksOK
  <2>2. QED
    BY <1>5, <2>1
<1>9. QED
  BY <1>1, <1>6, <1>7, <1>8

\* Every position is in one block.
LEMMA BlockOf ==
    ASSUME BlocksOK, Size \in Nat, stage # "sort", NEW i \in 0 .. Size - 1
    PROVE  \E b \in blocks : i \in b .. BlockEnd(b) - 1
<1> DEFINE before == {b \in blocks : b <= i}
<1>1. i \in Nat /\ Size > 0
  OBVIOUS
<1>2. before \subseteq Nat /\ 0 \in before /\ \A b \in before : b <= i
  <2>1. 0 \in blocks
    BY <1>1 DEF BlocksOK
  <2>2. \A b \in blocks : b \in Nat
    BY DEF BlocksOK
  <2>3. QED
    BY <1>1, <2>1, <2>2
<1>3. PICK b \in before : \A c \in before : c <= b
  <2> HIDE DEF before
  <2>1. QED
    BY <1>1, <1>2, GreatestNat
<1>4. /\ b \in Nat /\ BlockEnd(b) \in Nat /\ b < BlockEnd(b)
      /\ BlockEnd(b) \in blocks \cup {Size} /\ b \in blocks
  BY <1>3, BlockEnds
<1>5. i < BlockEnd(b)
  <2>1. BlockEnd(b) \in before => BlockEnd(b) <= b
    BY <1>3
  <2>2. CASE BlockEnd(b) = Size
    BY <2>2
  <2>3. CASE BlockEnd(b) \in blocks
    <3>1. BlockEnd(b) <= i => BlockEnd(b) \in before
      BY <2>3
    <3>2. QED
      BY <1>4, <2>1, <3>1
  <2>4. QED
    BY <1>4, <2>2, <2>3
<1>6. QED
  BY <1>2, <1>3, <1>4, <1>5

LEMMA BlocksApart ==
    ASSUME BlocksOK, Size \in Nat, NEW b \in blocks, NEW c \in blocks, b # c
    PROVE  (b .. BlockEnd(b) - 1) \cap (c .. BlockEnd(c) - 1) = {}
<1>1. /\ b \in Nat /\ BlockEnd(b) \in Nat /\ (b < c => BlockEnd(b) <= c)
      /\ c \in Nat /\ BlockEnd(c) \in Nat /\ (c < b => BlockEnd(c) <= b)
  BY BlockEnds
<1>2. QED
  BY <1>1

LEMMA StartsType ==
    ASSUME BlocksOK, Size \in Nat, NEW b \in blocks
    PROVE  /\ b \in Starts(b) /\ Starts(b) \subseteq b .. BlockEnd(b) - 1
           /\ Starts(b) \subseteq 0 .. Size - 1 /\ Starts(b) \subseteq Nat
           /\ IsFiniteSet(Starts(b)) /\ Cardinality(Starts(b)) \in Nat
<1>1. b \in Nat /\ BlockEnd(b) \in Nat /\ b < BlockEnd(b) /\ BlockEnd(b) <= Size
  BY BlockEnds
<1>2. b \in Starts(b) /\ Starts(b) \subseteq b .. BlockEnd(b) - 1
  BY <1>1 DEF Starts
<1>3. IsFiniteSet(b .. BlockEnd(b) - 1)
  BY <1>1, FS_Interval
<1>4. IsFiniteSet(Starts(b)) /\ Cardinality(Starts(b)) \in Nat
  BY <1>2, <1>3, FS_Subset, FS_CardinalityType
<1>5. b .. BlockEnd(b) - 1 \subseteq 0 .. Size - 1 /\ 0 .. Size - 1 \subseteq Nat
  BY <1>1
<1>6. QED
  BY <1>2, <1>4, <1>5

\* The starts whose output has been reserved.
Taken == UNION {Starts(b) : b \in DOMAIN base}
Slots(b) == base[b] .. base[b] + Cardinality(Starts(b)) - 1
StartAt(b, m) == CHOOSE t \in Starts(b) : Cardinality(Starts(b) \cap 0 .. t - 1) = m

\* One reservation after another fills the output from the front, and what has
\* been written is the reserved part of the blocks that wrote.
Reservations ==
    /\ DOMAIN base \subseteq blocks /\ num_points = Cardinality(Taken)
    /\ \A b \in DOMAIN base :
          base[b] \in Nat /\ base[b] + Cardinality(Starts(b)) <= num_points
    /\ \A b, c \in DOMAIN base : b # c => Slots(b) \cap Slots(c) = {}
    /\ \A n \in 0 .. num_points - 1 : \E b \in DOMAIN base : n \in Slots(b)
Output ==
    /\ written \subseteq DOMAIN base
    /\ \A n : n \in DOMAIN downsampled <=> \E b \in written : n \in Slots(b)
    /\ \A b \in written : \A n \in Slots(b) : downsampled[n] = Averaged(b, StartAt(b, n - base[b]))
AveInv ==
    /\ BlocksOK /\ Reservations /\ Output
    /\ stage = "sort" => blocks = {}
    /\ stage = "done" => written = blocks

LEMMA AveInit == Init => AveInv
<1> SUFFICES ASSUME Init PROVE AveInv
  OBVIOUS
<1>1. Size \in Nat
  BY SortInit DEF SortInv, CloudOK
<1>2. blocks = {} /\ DOMAIN base = {} /\ written = {} /\ num_points = 0 /\ DOMAIN downsampled = {}
  BY DEF Init
<1>3. BlocksOK
  BY <1>1, <1>2 DEF BlocksOK, Init
<1>4. Taken = {}
  BY <1>2 DEF Taken
<1>5. Reservations
  BY <1>2, <1>4, FS_EmptySet DEF Reservations
<1>6. Output
  BY <1>2 DEF Output
<1>7. QED
  BY <1>2, <1>3, <1>5, <1>6 DEF AveInv

\* While nothing is reserved, the array and the blocks may change.
LEMMA NothingYet ==
    ASSUME SortInv, AveInv, DOMAIN base = {}, SortInv', BlocksOK',
           UNCHANGED <<base, written, num_points, downsampled>>,
           stage' = "sort" => blocks' = {}, stage' # "done"
    PROVE  AveInv'
<1>1. DOMAIN base' = {} /\ written' = {} /\ num_points' = num_points /\ downsampled' = downsampled
  BY DEF AveInv, Output
<1>2. Taken = {} /\ Taken' = {}
  BY <1>1 DEF Taken
<1>3. num_points' = 0
  BY <1>1, <1>2, FS_EmptySet DEF AveInv, Reservations
<1>4. Reservations'
  BY <1>1, <1>2, <1>3, FS_EmptySet DEF Reservations
<1>5. \A n : n \notin DOMAIN downsampled
  BY <1>1 DEF AveInv, Output
<1>6. Output'
  BY <1>1, <1>5 DEF Output
<1>7. QED
  BY <1>4, <1>6 DEF AveInv

\* Later they stay as they are.
LEMMA Frozen ==
    ASSUME cloud' = cloud, coord_pt' = coord_pt, blocks' = blocks
    PROVE  /\ \A b : (Starts(b))' = Starts(b)
           /\ \A b, s : (Averaged(b, s))' = Averaged(b, s)
           /\ \A b, m : (StartAt(b, m))' = StartAt(b, m)
<1>1. \A i : (KeyAt(i))' = KeyAt(i)
  BY DEF KeyAt, Key, Valid, Coord
<1>2. \A b : (BlockEnd(b))' = BlockEnd(b)
  BY DEF BlockEnd, Size
<1>3. \A b : (Starts(b))' = Starts(b)
  BY <1>1, <1>2 DEF Starts
<1>4. \A b, s : (AddedTo(b, s))' = AddedTo(b, s)
  BY <1>1, <1>2, <1>3 DEF AddedTo
<1>5. \A b, s : (Averaged(b, s))' = Averaged(b, s)
  BY <1>4 DEF Averaged
<1>6. \A b, m : (StartAt(b, m))' = StartAt(b, m)
  BY <1>3 DEF StartAt
<1>7. QED
  BY <1>3, <1>5, <1>6

\* A reservation starts where the ones before it end.
LEMMA ReserveKeeps ==
    ASSUME SortInv, AveInv, NEW b, Reserve(b), b \in blocks
    PROVE  AveInv'
<1>1. /\ b \notin DOMAIN base /\ blocks' = blocks /\ cloud' = cloud /\ coord_pt' = coord_pt
      /\ stage' = stage /\ written' = written /\ downsampled' = downsampled
      /\ num_points' = num_points + Cardinality(Starts(b)) /\ stage # "done"
  BY DEF Reserve, Reserved
<1>2. /\ DOMAIN base' = DOMAIN base \cup {b} /\ base'[b] = num_points
      /\ \A c \in DOMAIN base : base'[c] = base[c]
  BY <1>1 DEF Reserve, Fetched, Merged
<1>3. Size \in Nat /\ Size' = Size /\ BlocksOK /\ Reservations /\ Output
  BY <1>1, CloudKept DEF SortInv, CloudOK, AveInv
<1>4. BlocksOK'
  BY <1>1, <1>3 DEF BlocksOK
<1>5. \A c : (Starts(c))' = Starts(c)
  BY <1>1, Frozen
<1>6. \A c \in blocks : IsFiniteSet(Starts(c)) /\ Cardinality(Starts(c)) \in Nat
                        /\ Starts(c) \subseteq 0 .. Size - 1
  BY <1>3, StartsType
<1>7. IsFiniteSet(Taken) /\ Taken \cap Starts(b) = {} /\ Taken' = Taken \cup Starts(b)
  <2>1. Taken \subseteq 0 .. Size - 1
    BY <1>3, <1>6 DEF Taken, Reservations
  <2>2. IsFiniteSet(0 .. Size - 1)
    BY <1>3, FS_Interval
  <2>3. ASSUME NEW c \in DOMAIN base PROVE Starts(c) \cap Starts(b) = {}
    <3>1. c \in blocks /\ c # b
      BY <1>1, <1>3 DEF Reservations
    <3>2. /\ Starts(c) \subseteq c .. BlockEnd(c) - 1 /\ Starts(b) \subseteq b .. BlockEnd(b) - 1
          /\ (c .. BlockEnd(c) - 1) \cap (b .. BlockEnd(b) - 1) = {}
      BY <1>3, <3>1, StartsType, BlocksApart
    <3>3. QED
      BY <3>2
  <2>4. Taken \cap Starts(b) = {}
    BY <2>3 DEF Taken
  <2>5. Taken' = UNION {Starts(c) : c \in DOMAIN base'}
    BY <1>5 DEF Taken
  <2>6. UNION {Starts(c) : c \in DOMAIN base'} = Taken \cup Starts(b)
    BY <1>2 DEF Taken
  <2>7. QED
    BY <2>1, <2>2, <2>4, <2>5, <2>6, FS_Subset
<1>8. num_points \in Nat /\ num_points' = Cardinality(Taken')
  <2>1. num_points = Cardinality(Taken) /\ num_points \in Nat
    BY <1>3, <1>7, FS_CardinalityType DEF Reservations
  <2>2. Cardinality(Taken \cup Starts(b)) = Cardinality(Taken) + Cardinality(Starts(b))
    BY <1>6, <1>7, Together
  <2>3. QED
    BY <1>1, <1>7, <2>1, <2>2
<1> DEFINE k == Cardinality(Starts(b))
<1>9. /\ (Slots(b))' = num_points .. num_points + k - 1
      /\ \A c \in DOMAIN base : (Slots(c))' = Slots(c)
  BY <1>2, <1>5 DEF Slots
<1>10. k \in Nat /\ num_points' = num_points + k
  BY <1>1, <1>6
<1> HIDE DEF k
<1>11. \A c \in DOMAIN base : Slots(c) \subseteq 0 .. num_points - 1
  <2>1. ASSUME NEW c \in DOMAIN base PROVE Slots(c) \subseteq 0 .. num_points - 1
    <3>1. /\ base[c] \in Nat /\ base[c] + Cardinality(Starts(c)) <= num_points
          /\ Cardinality(Starts(c)) \in Nat
      BY <1>3, <1>6 DEF Reservations
    <3>2. QED
      BY <1>8, <3>1 DEF Slots
  <2>2. QED
    BY <2>1
<1>12. Reservations'
  <2>1. DOMAIN base' \subseteq blocks'
    BY <1>1, <1>2, <1>3 DEF Reservations
  <2>2. ASSUME NEW c \in DOMAIN base'
        PROVE  base'[c] \in Nat /\ base'[c] + Cardinality(Starts(c)) <= num_points'
    <3>1. CASE c = b
      BY <1>2, <1>8, <1>10, <3>1 DEF k
    <3>2. CASE c \in DOMAIN base
      <4>1. base[c] \in Nat /\ base[c] + Cardinality(Starts(c)) <= num_points
            /\ Cardinality(Starts(c)) \in Nat /\ base'[c] = base[c]
        BY <1>2, <1>3, <1>6, <3>2 DEF Reservations
      <4>2. QED
        BY <1>8, <1>10, <4>1
    <3>3. QED
      BY <1>2, <3>1, <3>2
  <2>3. ASSUME NEW c \in DOMAIN base', NEW d \in DOMAIN base', c # d
        PROVE  (Slots(c))' \cap (Slots(d))' = {}
    <3>1. \A e \in DOMAIN base : (Slots(e))' \cap (Slots(b))' = {}
      <4>1. (0 .. num_points - 1) \cap (num_points .. num_points + k - 1) = {}
        BY <1>8, <1>10
      <4>2. QED
        BY <1>9, <1>11, <4>1
    <3>2. CASE c = b
      BY <1>2, <2>3, <3>1, <3>2
    <3>3. CASE d = b
      BY <1>2, <2>3, <3>1, <3>3
    <3>4. CASE c # b /\ d # b
      BY <1>2, <1>3, <1>9, <2>3, <3>4 DEF Reservations
    <3>5. QED
      BY <3>2, <3>3, <3>4
  <2>4. ASSUME NEW n \in 0 .. num_points' - 1 PROVE \E c \in DOMAIN base' : n \in (Slots(c))'
    <3>1. CASE n < num_points
      <4>1. n \in 0 .. num_points - 1
        BY <1>8, <1>10, <3>1
      <4>2. PICK c \in DOMAIN base : n \in Slots(c)
        BY <1>3, <4>1 DEF Reservations
      <4>3. QED
        BY <1>2, <1>9, <4>2
    <3>2. CASE ~(n < num_points)
      <4>1. n \in num_points .. num_points + k - 1
        BY <1>8, <1>10, <3>2
      <4>2. QED
        BY <1>2, <1>9, <4>1
    <3>3. QED
      BY <3>1, <3>2
  <2>5. \A c : (Cardinality(Starts(c)))' = Cardinality(Starts(c))
    BY <1>5
  <2>6. QED
    BY <1>8, <2>1, <2>2, <2>3, <2>4, <2>5 DEF Reservations
<1>13. Output'
  <2>1. /\ \A c, s : (Averaged(c, s))' = Averaged(c, s)
        /\ \A c, m : (StartAt(c, m))' = StartAt(c, m)
    BY <1>1, Frozen
  <2>2. \A c \in written : c \in DOMAIN base /\ base'[c] = base[c] /\ (Slots(c))' = Slots(c)
    BY <1>2, <1>3, <1>9 DEF Output
  <2>3. written' \subseteq DOMAIN base'
    BY <1>1, <1>2, <1>3 DEF Output
  <2>4. \A n : n \in DOMAIN downsampled' <=> \E c \in written' : n \in (Slots(c))'
    BY <1>1, <1>3, <2>2 DEF Output
  <2>5. ASSUME NEW c \in written', NEW n \in (Slots(c))'
        PROVE  downsampled'[n] = (Averaged(c, StartAt(c, n - base[c])))'
    <3>1. downsampled[n] = Averaged(c, StartAt(c, n - base[c]))
      BY <1>1, <1>3, <2>2, <2>5 DEF Output
    <3>2. (StartAt(c, n - base[c]))' = StartAt(c, n - base[c])
      BY <1>1, <2>1, <2>2
    <3>3. QED
      BY <1>1, <2>1, <3>1, <3>2
  <2>6. QED
    BY <2>3, <2>4, <2>5 DEF Output
<1>14. QED
  BY <1>1, <1>4, <1>12, <1>13 DEF AveInv

LEMMA WriteKeeps ==
    ASSUME SortInv, AveInv, NEW b, Write(b)
    PROVE  AveInv'
<1>1. /\ b \in DOMAIN base /\ b \notin written
      /\ blocks' = blocks /\ cloud' = cloud /\ coord_pt' = coord_pt /\ base' = base
      /\ num_points' = num_points /\ stage' = stage /\ written' = written \cup {b} /\ stage # "done"
  BY DEF Write
<1>2. Size' = Size /\ BlocksOK /\ Reservations /\ Output
  BY <1>1, CloudKept DEF AveInv
<1>3. BlocksOK'
  BY <1>1, <1>2 DEF BlocksOK
<1>4. /\ \A c : (Starts(c))' = Starts(c)
      /\ \A c, s : (Averaged(c, s))' = Averaged(c, s)
      /\ \A c, m : (StartAt(c, m))' = StartAt(c, m)
  BY <1>1, Frozen
<1>5. \A c : (Slots(c))' = Slots(c)
  BY <1>1, <1>4 DEF Slots
<1>6. Reservations'
  <2>1. Taken' = Taken
    BY <1>1, <1>4 DEF Taken
  <2>2. \A c : (Cardinality(Starts(c)))' = Cardinality(Starts(c))
    BY <1>4
  <2>3. QED
    BY <1>1, <1>2, <1>5, <2>1, <2>2 DEF Reservations
<1> DEFINE mine == [n \in Slots(b) |-> Averaged(b, StartAt(b, n - base[b]))]
<1>7. downsampled' = Merged(downsampled, mine)
  BY Zenon DEF Write, Slots, StartAt
<1>8. /\ DOMAIN downsampled' = DOMAIN downsampled \cup Slots(b)
      /\ \A n \in Slots(b) : downsampled'[n] = Averaged(b, StartAt(b, n - base[b]))
      /\ \A n \in DOMAIN downsampled : n \notin Slots(b) => downsampled'[n] = downsampled[n]
  <2>1. DOMAIN mine = Slots(b) /\ \A n \in Slots(b) : mine[n] = Averaged(b, StartAt(b, n - base[b]))
    OBVIOUS
  <2> HIDE DEF mine
  <2>2. QED
    BY <1>7, <2>1 DEF Merged
<1>9. Output'
  <2>1. written' \subseteq DOMAIN base'
    BY <1>1, <1>2 DEF Output
  <2>2. \A n : n \in DOMAIN downsampled' <=> \E c \in written' : n \in (Slots(c))'
    BY <1>1, <1>2, <1>5, <1>8 DEF Output
  <2>3. ASSUME NEW c \in written', NEW n \in Slots(c)
        PROVE  downsampled'[n] = Averaged(c, StartAt(c, n - base[c]))
    <3>1. CASE c = b
      BY <1>8, <3>1
    <3>2. CASE c # b
      <4>1. c \in written /\ c \in DOMAIN base
        BY <1>1, <1>2, <3>2 DEF Output
      <4>2. n \notin Slots(b) /\ n \in DOMAIN downsampled
        BY <1>1, <1>2, <3>2, <4>1 DEF Reservations, Output
      <4>3. QED
        BY <1>2, <1>8, <4>1, <4>2 DEF Output
    <3>3. QED
      BY <3>1, <3>2
  <2>4. ASSUME NEW c \in written', NEW n \in (Slots(c))'
        PROVE  downsampled'[n] = (Averaged(c, StartAt(c, n - base[c])))'
    <3>1. downsampled'[n] = Averaged(c, StartAt(c, n - base[c]))
      BY <1>5, <2>3
    <3>2. (StartAt(c, n - base[c]))' = StartAt(c, n - base[c])
      BY <1>1, <1>4
    <3>3. QED
      BY <1>4, <3>1, <3>2
  <2>5. QED
    BY <2>1, <2>2, <2>4 DEF Output
<1>10. QED
  BY <1>1, <1>3, <1>6, <1>9 DEF AveInv

LEMMA FinishKeeps ==
    ASSUME SortInv, AveInv, Finish
    PROVE  AveInv'
<1>1. /\ written = blocks /\ stage = "average" /\ stage' = "done"
      /\ blocks' = blocks /\ cloud' = cloud /\ coord_pt' = coord_pt /\ base' = base
      /\ num_points' = num_points /\ written' = written
      /\ downsampled' = Restrict(downsampled, 0 .. num_points - 1)
  BY DEF Finish
<1>2. Size' = Size /\ BlocksOK /\ Reservations /\ Output /\ Size \in Nat
  BY <1>1, CloudKept DEF AveInv, SortInv, CloudOK
<1>3. BlocksOK'
  BY <1>1, <1>2 DEF BlocksOK
<1>4. /\ \A c : (Starts(c))' = Starts(c)
      /\ \A c, s : (Averaged(c, s))' = Averaged(c, s)
      /\ \A c, m : (StartAt(c, m))' = StartAt(c, m)
  BY <1>1, Frozen
<1>5. \A c : (Slots(c))' = Slots(c)
  BY <1>1, <1>4 DEF Slots
<1>6. Reservations'
  <2>1. Taken' = Taken
    BY <1>1, <1>4 DEF Taken
  <2>2. \A c : (Cardinality(Starts(c)))' = Cardinality(Starts(c))
    BY <1>4
  <2>3. QED
    BY <1>1, <1>2, <1>5, <2>1, <2>2 DEF Reservations
<1>7. \A n : n \in DOMAIN downsampled <=> n \in 0 .. num_points - 1
  <2>1. num_points \in Int
    <3>1. CASE DOMAIN base = {}
      <4>1. Taken = {}
        BY <3>1 DEF Taken
      <4>2. QED
        BY <1>2, <4>1, FS_EmptySet DEF Reservations
    <3>2. CASE DOMAIN base # {}
      <4>1. Taken \subseteq 0 .. Size - 1 /\ IsFiniteSet(0 .. Size - 1)
        BY <1>2, StartsType, FS_Interval DEF Taken, Reservations
      <4>2. Cardinality(Taken) \in Nat
        BY <4>1, FS_Subset, FS_CardinalityType
      <4>3. QED
        BY <1>2, <4>2 DEF Reservations
    <3>3. QED
      BY <3>1, <3>2
  <2>2. ASSUME NEW c \in written, NEW n \in Slots(c) PROVE n \in 0 .. num_points - 1
    <3>1. /\ base[c] \in Nat /\ base[c] + Cardinality(Starts(c)) <= num_points
          /\ Cardinality(Starts(c)) \in Nat
      BY <1>2, StartsType DEF Reservations, Output
    <3>2. QED
      BY <2>1, <3>1 DEF Slots
  <2>3. ASSUME NEW n \in 0 .. num_points - 1 PROVE \E c \in written : n \in Slots(c)
    BY <1>1, <1>2 DEF Reservations
  <2>4. QED
    BY <1>2, <2>2, <2>3 DEF Output
<1>8. /\ \A n : n \in DOMAIN downsampled' <=> n \in DOMAIN downsampled
      /\ \A n \in DOMAIN downsampled : downsampled'[n] = downsampled[n]
  BY <1>1, <1>7 DEF Restrict
<1>9. Output'
  <2>1. written' \subseteq DOMAIN base'
    BY <1>1, <1>2 DEF Output
  <2>2. \A n : n \in DOMAIN downsampled' <=> \E c \in written' : n \in (Slots(c))'
    BY <1>1, <1>2, <1>5, <1>8 DEF Output
  <2>3. ASSUME NEW c \in written', NEW n \in (Slots(c))'
        PROVE  downsampled'[n] = (Averaged(c, StartAt(c, n - base[c])))'
    <3>1. c \in written /\ n \in Slots(c) /\ n \in DOMAIN downsampled
      BY <1>1, <1>2, <1>5 DEF Output
    <3>2. downsampled'[n] = Averaged(c, StartAt(c, n - base[c]))
      BY <1>2, <1>8, <3>1 DEF Output
    <3>3. (StartAt(c, n - base[c]))' = StartAt(c, n - base[c])
      BY <1>1, <1>4
    <3>4. QED
      BY <1>4, <3>2, <3>3
  <2>4. QED
    BY <2>1, <2>2, <2>3 DEF Output
<1>10. QED
  BY <1>1, <1>3, <1>6, <1>9 DEF AveInv

LEMMA AveNext == SortInv /\ AveInv /\ [Next]_vars => AveInv'
<1> SUFFICES ASSUME SortInv, AveInv, [Next]_vars PROVE AveInv'
  OBVIOUS
<1>1. SortInv' /\ Size' = Size /\ Size \in Nat /\ cloud' = cloud
  <2>1. cloud' = cloud
    BY DEF Next, SortShort, Partition, StartBlocks, Reserve, Write, Finish, vars
  <2>2. QED
    BY <2>1, SortNext, CloudKept DEF SortInv, CloudOK
<1>2. stage = "sort" => DOMAIN base = {} /\ blocks = {}
  BY DEF AveInv, Reservations
<1>3. CASE \E r \in DOMAIN pending : SortShort(r) \/ Partition(r)
  <2>1. /\ stage = "sort" /\ stage' = "sort" /\ blocks' = blocks
        /\ UNCHANGED <<base, written, num_points, downsampled>>
    BY <1>3 DEF SortShort, Partition
  <2>2. BlocksOK'
    BY <1>1, <1>2, <2>1 DEF BlocksOK
  <2>3. QED
    BY <1>1, <1>2, <2>1, <2>2, NothingYet
<1>4. CASE StartBlocks
  <2>1. /\ stage = "sort" /\ stage' = "average"
        /\ UNCHANGED <<base, written, num_points, downsampled>>
    BY <1>4 DEF StartBlocks
  <2>2. PICK c \in Blockings : blocks' = {0} \cup (c \cap 0 .. Size - 1)
    BY <1>4 DEF StartBlocks
  <2>3. Size > 0
    BY <2>1 DEF SortInv
  <2>4. BlocksOK'
    BY <1>1, <2>2, <2>3 DEF BlocksOK
  <2>5. QED
    BY <1>1, <1>2, <2>1, <2>4, NothingYet
<1>5. CASE \E b \in blocks : Reserve(b)
  BY <1>5, ReserveKeeps
<1>6. CASE \E b \in blocks : Write(b)
  BY <1>6, WriteKeeps
<1>7. CASE Finish
  BY <1>7, FinishKeeps
<1>8. CASE UNCHANGED vars
  <2>1. /\ blocks' = blocks /\ cloud' = cloud /\ coord_pt' = coord_pt /\ base' = base /\ stage' = stage
        /\ num_points' = num_points /\ written' = written /\ downsampled' = downsampled
    BY <1>8 DEF vars
  <2>2. /\ \A c : (Starts(c))' = Starts(c)
        /\ \A c, s : (Averaged(c, s))' = Averaged(c, s)
        /\ \A c, m : (StartAt(c, m))' = StartAt(c, m)
    BY <2>1, Frozen
  <2>3. /\ Taken' = Taken /\ \A c : (Slots(c))' = Slots(c)
        /\ \A c : (Cardinality(Starts(c)))' = Cardinality(Starts(c))
    BY <2>1, <2>2 DEF Taken, Slots
  <2>4. BlocksOK' /\ Reservations'
    BY <1>1, <2>1, <2>3 DEF AveInv, BlocksOK, Reservations
  <2>5. ASSUME NEW c \in written', NEW n \in (Slots(c))'
        PROVE  downsampled'[n] = (Averaged(c, StartAt(c, n - base[c])))'
    <3>1. c \in written /\ n \in Slots(c)
      BY <2>1, <2>3
    <3>2. downsampled'[n] = Averaged(c, StartAt(c, n - base[c]))
      BY <2>1, <3>1 DEF AveInv, Output
    <3>3. (StartAt(c, n - base[c]))' = StartAt(c, n - base[c])
      BY <2>1, <2>2
    <3>4. QED
      BY <2>2, <3>2, <3>3
  <2>6. Output'
    BY <2>1, <2>3, <2>5 DEF AveInv, Output
  <2>7. QED
    BY <2>1, <2>4, <2>6 DEF AveInv
<1>9. QED
  BY <1>3, <1>4, <1>5, <1>6, <1>7, <1>8 DEF Next

\* No two blocks get the same output position, and all of it lies within the
\* size of the input, which downsampled was given before the loop.
LEMMA AveInvSlotsOnce == SortInv /\ AveInv => SlotsOnce
<1> SUFFICES ASSUME SortInv, AveInv PROVE SlotsOnce
  OBVIOUS
<1>1. Size \in Nat /\ BlocksOK /\ Reservations
  BY DEF SortInv, CloudOK, AveInv
<1>2. \A b \in DOMAIN base : /\ b \in blocks /\ Starts(b) \subseteq 0 .. Size - 1
                             /\ Cardinality(Starts(b)) \in Nat
  BY <1>1, StartsType DEF Reservations
<1>3. Taken \subseteq 0 .. Size - 1
  BY <1>2 DEF Taken
<1>4. num_points <= Size /\ num_points \in Nat
  <2>1. IsFiniteSet(0 .. Size - 1) /\ Cardinality(0 .. Size - 1) = Size
    BY <1>1, FS_Interval
  <2>2. Cardinality(Taken) <= Size /\ Cardinality(Taken) \in Nat
    BY <1>3, <2>1, FS_Subset, FS_CardinalityType
  <2>3. QED
    BY <1>1, <2>2 DEF Reservations
<1>5. \A n : n \in 0 .. num_points - 1 <=> \E b \in DOMAIN base : n \in Slots(b)
  <2>1. ASSUME NEW b \in DOMAIN base, NEW n \in Slots(b) PROVE n \in 0 .. num_points - 1
    <3>1. base[b] \in Nat /\ base[b] + Cardinality(Starts(b)) <= num_points
      BY <1>1 DEF Reservations
    <3>2. QED
      BY <1>2, <1>4, <3>1 DEF Slots
  <2>2. QED
    BY <1>1, <2>1 DEF Reservations
<1>6. UNION {Slots(b) : b \in DOMAIN base} = 0 .. num_points - 1
  BY <1>5
<1>7. QED
  BY <1>1, <1>4, <1>6, Zenon DEF Reservations, SlotsOnce, Slots

-----------------------------------------------------------------------------
(* The averages.                                                           *)
-----------------------------------------------------------------------------
\* After the sort every position holds a point of its own, by rising keys.
LEMMA SortedArray ==
    ASSUME SortInv, stage # "sort"
    PROVE  /\ \A i \in 0 .. Size - 1 : /\ coord_pt[i] \in DOMAIN cloud
                                       /\ KeyAt(i) \in Int /\ KeyAt(i) <= invalid_coord
           /\ \A i, j \in 0 .. Size - 1 : coord_pt[i] = coord_pt[j] => i = j
           /\ \A p \in DOMAIN cloud : \E i \in 0 .. Size - 1 : coord_pt[i] = p
           /\ \A i, j \in 0 .. Size - 1 : i <= j => KeyAt(i) <= KeyAt(j)
<1>1. /\ TaskTypes(DOMAIN cloud, Size, pending, coord_pt) /\ Apart(pending, coord_pt)
      /\ Whole(DOMAIN cloud, Size, pending, coord_pt)
      /\ Ordered(DOMAIN cloud, Keys, pending, coord_pt)
      /\ DOMAIN pending = {} /\ CloudOK /\ Size \in Nat
  BY DEF SortInv, Sorting, CloudOK
<1>2. DOMAIN coord_pt = 0 .. Size - 1
  BY <1>1 DEF TaskTypes, Whole
<1>3. \A i \in 0 .. Size - 1 : coord_pt[i] \in DOMAIN cloud
  BY <1>1, <1>2 DEF TaskTypes
<1>4. \A i \in 0 .. Size - 1 : KeyAt(i) \in Int /\ KeyAt(i) <= invalid_coord
                               /\ KeyAt(i) = Keys[coord_pt[i]]
  BY <1>1, <1>3, KeyValid, KeysType DEF KeyAt
<1>5. ASSUME NEW i \in 0 .. Size - 1, NEW j \in 0 .. Size - 1, i <= j
      PROVE  KeyAt(i) <= KeyAt(j)
  <2>1. CASE i = j
    BY <1>4, <2>1
  <2>2. CASE i < j
    <3>1. MayHold(pending, coord_pt, i, coord_pt[i]) /\ MayHold(pending, coord_pt, j, coord_pt[j])
      BY <1>2 DEF MayHold
    <3>2. i \in Nat /\ j \in Nat /\ coord_pt[i] \in DOMAIN cloud /\ coord_pt[j] \in DOMAIN cloud
      BY <1>1, <1>3
    <3>3. Keys[coord_pt[i]] <= Keys[coord_pt[j]]
      BY <1>1, <2>2, <3>1, <3>2 DEF Ordered
    <3>4. QED
      BY <1>4, <3>3
  <2>3. QED
    BY <1>5, <2>1, <2>2
<1>6. QED
  BY <1>1, <1>2, <1>3, <1>4, <1>5 DEF Apart, Whole

\* The positions averaged into one output.
Part(b, s) == AddedTo(b, s) \cup {s}

LEMMA PartType ==
    ASSUME BlocksOK, Size \in Nat, NEW b \in blocks, NEW s \in Starts(b)
    PROVE  /\ Part(b, s) \subseteq 0 .. Size - 1
           /\ \A i \in Part(b, s) : /\ i \in b .. BlockEnd(b) - 1 /\ s <= i
                                    /\ \A t \in Starts(b) : t <= i => t <= s
<1>1. /\ b \in Nat /\ BlockEnd(b) \in Nat /\ BlockEnd(b) <= Size
      /\ s \in b .. BlockEnd(b) - 1 /\ Starts(b) \subseteq Nat
  BY BlockEnds, StartsType
<1>2. \A i \in AddedTo(b, s) : i \in s + 1 .. BlockEnd(b) - 1 /\ Starts(b) \cap s + 1 .. i = {}
  BY DEF AddedTo
<1>3. ASSUME NEW i \in Part(b, s)
      PROVE  i \in b .. BlockEnd(b) - 1 /\ s <= i /\ \A t \in Starts(b) : t <= i => t <= s
  <2>1. i \in b .. BlockEnd(b) - 1 /\ s <= i
    BY <1>1, <1>2 DEF Part
  <2>2. ASSUME NEW t \in Starts(b), t <= i, ~(t <= s) PROVE FALSE
    <3>1. i \in AddedTo(b, s)
      BY <1>1, <2>2 DEF Part
    <3>2. t \in s + 1 .. i
      BY <1>1, <2>1, <2>2
    <3>3. QED
      BY <1>2, <3>1, <3>2
  <2>3. QED
    BY <2>1, <2>2
<1>4. QED
  BY <1>1, <1>3

\* Keys do not change within a part: the first change would begin a new one, or
\* be the end of the points in range.
LEMMA PartKey ==
    ASSUME SortInv, BlocksOK, stage # "sort", NEW b \in blocks, NEW s \in Starts(b)
    PROVE  \A i \in Part(b, s) : KeyAt(i) = KeyAt(s)
<1> DEFINE odd == {i \in Part(b, s) : KeyAt(i) # KeyAt(s)}
<1>1. Size \in Nat
  BY DEF SortInv, CloudOK
<1>2. /\ \A i \in Part(b, s) : /\ i \in 0 .. Size - 1 /\ i \in b .. BlockEnd(b) - 1 /\ s <= i
                               /\ \A t \in Starts(b) : t <= i => t <= s
      /\ b \in Nat /\ BlockEnd(b) \in Nat /\ s \in Part(b, s)
      /\ s \in 0 .. Size - 1 /\ s \in b .. BlockEnd(b) - 1
  BY <1>1, PartType, BlockEnds, StartsType DEF Part
<1>3. ASSUME odd # {} PROVE FALSE
  <2>1. odd \subseteq Nat
    BY <1>2
  <2>2. PICK i \in odd : \A j \in odd : i <= j
    <3> HIDE DEF odd
    <3>1. QED
      BY <1>3, <2>1, LeastNat
  <2>3. /\ i \in Part(b, s) /\ KeyAt(i) # KeyAt(s) /\ i # s /\ i \in AddedTo(b, s)
        /\ KeyAt(i) # invalid_coord
    BY <2>2 DEF Part, AddedTo
  <2>4. /\ i \in Nat /\ s \in Nat /\ s < i /\ s + 1 <= i /\ i - 1 \in 0 .. Size - 1
        /\ i \in 0 .. Size - 1 /\ i \in b + 1 .. BlockEnd(b) - 1 /\ i - 1 \in Nat /\ i - 1 <= i
    BY <1>1, <1>2, <2>3
  <2>5. KeyAt(i - 1) <= KeyAt(i) /\ KeyAt(i - 1) # invalid_coord
    BY <2>3, <2>4, SortedArray
  <2>6. i \notin Starts(b)
    BY <1>2, <2>3, <2>4
  <2>7. KeyAt(i - 1) = KeyAt(i)
    BY <2>3, <2>4, <2>6 DEF Starts
  <2>8. i - 1 \in Part(b, s)
    <3>1. CASE i - 1 = s
      BY <3>1 DEF Part
    <3>2. CASE i - 1 # s
      <4>1. i - 1 \in s + 1 .. BlockEnd(b) - 1
        BY <1>2, <2>4, <3>2
      <4>2. Starts(b) \cap s + 1 .. i = {}
        BY <2>3 DEF AddedTo
      <4>3. s + 1 .. i - 1 \subseteq s + 1 .. i
        BY <2>4
      <4>4. Starts(b) \cap s + 1 .. i - 1 = {}
        BY <4>2, <4>3
      <4>5. QED
        BY <2>5, <4>1, <4>4 DEF Part, AddedTo
    <3>3. QED
      BY <3>1, <3>2
  <2>9. i - 1 \in odd
    BY <2>3, <2>7, <2>8
  <2>10. QED
    BY <2>2, <2>4, <2>9
<1>4. QED
  BY <1>3

\* What is written for a part.
LEMMA AveragedPart == \A b, s : Averaged(b, s) = {coord_pt[i] : i \in Part(b, s)}
BY DEF Averaged, Part

\* The output position of a start, and the starts of all blocks.
Slot(b, s) == base[b] + Cardinality(Starts(b) \cap 0 .. s - 1)

LEMMA OneSlotEach ==
    ASSUME SortInv, AveInv, stage = "done"
    PROVE  /\ \A n \in DOMAIN downsampled : \E b \in blocks : \E s \in Starts(b) :
                n = Slot(b, s) /\ downsampled[n] = Averaged(b, s)
           /\ \A b \in blocks : \A s \in Starts(b) :
                Slot(b, s) \in DOMAIN downsampled /\ downsampled[Slot(b, s)] = Averaged(b, s)
<1>1. /\ Size \in Nat /\ BlocksOK /\ Reservations /\ Output
      /\ written = blocks /\ DOMAIN base = blocks
  BY DEF SortInv, CloudOK, AveInv, Reservations, Output
<1>2. ASSUME NEW b \in blocks, NEW m \in 0 .. Cardinality(Starts(b)) - 1
      PROVE  StartAt(b, m) \in Starts(b) /\ Slot(b, StartAt(b, m)) = base[b] + m
  <2>1. Starts(b) \subseteq Nat /\ IsFiniteSet(Starts(b))
    BY <1>1, StartsType
  <2>2. \E t \in Starts(b) : Cardinality(Starts(b) \cap 0 .. t - 1) = m
    BY <2>1, Ranks
  <2>3. StartAt(b, m) \in Starts(b) /\ Cardinality(Starts(b) \cap 0 .. StartAt(b, m) - 1) = m
    BY <2>2 DEF StartAt
  <2>4. QED
    BY <2>3 DEF Slot
<1>3. ASSUME NEW n \in DOMAIN downsampled
      PROVE  \E b \in blocks : \E s \in Starts(b) : n = Slot(b, s) /\ downsampled[n] = Averaged(b, s)
  <2>1. PICK b \in blocks : n \in Slots(b)
    BY <1>1 DEF Output
  <2>2. base[b] \in Nat /\ Cardinality(Starts(b)) \in Nat
    BY <1>1, StartsType DEF Reservations
  <2> DEFINE m == n - base[b]
  <2>3. m \in 0 .. Cardinality(Starts(b)) - 1 /\ n = base[b] + m
    BY <2>1, <2>2 DEF Slots
  <2>4. downsampled[n] = Averaged(b, StartAt(b, m))
    BY <1>1, <2>1 DEF Output
  <2> HIDE DEF m
  <2>5. QED
    BY <1>2, <2>3, <2>4
<1>4. ASSUME NEW b \in blocks, NEW s \in Starts(b)
      PROVE  Slot(b, s) \in DOMAIN downsampled /\ downsampled[Slot(b, s)] = Averaged(b, s)
  <2> DEFINE m == Cardinality(Starts(b) \cap 0 .. s - 1)
  <2>1. Starts(b) \subseteq Nat /\ IsFiniteSet(Starts(b)) /\ Cardinality(Starts(b)) \in Nat
    BY <1>1, StartsType
  <2>2. m \in 0 .. Cardinality(Starts(b)) - 1
    BY <2>1, Ranks
  <2>3. \A t \in Starts(b) : Cardinality(Starts(b) \cap 0 .. t - 1) = m => t = s
    BY <2>1, Ranks
  <2>4. StartAt(b, m) = s
    BY <2>3 DEF StartAt
  <2>5. Slot(b, s) = base[b] + m
    BY DEF Slot
  <2> HIDE DEF m
  <2>6. base[b] \in Nat
    BY <1>1 DEF Reservations
  <2>7. Slot(b, s) \in Slots(b) /\ Slot(b, s) - base[b] = m
    BY <2>1, <2>2, <2>5, <2>6 DEF Slots
  <2>8. QED
    BY <1>1, <2>4, <2>7 DEF Output
<1>5. QED
  BY <1>3, <1>4

\* A point in range is in the part of one start.
LEMMA OnePart ==
    ASSUME SortInv, AveInv, stage = "done", NEW p \in DOMAIN cloud, Valid(p)
    PROVE  \E b \in blocks : \E s \in Starts(b) :
             /\ p \in Averaged(b, s)
             /\ \A c \in blocks : \A t \in Starts(c) : p \in Averaged(c, t) => c = b /\ t = s
<1>1. Size \in Nat /\ BlocksOK /\ CloudOK
  BY DEF SortInv, CloudOK, AveInv
<1>2. PICK i \in 0 .. Size - 1 : coord_pt[i] = p
  BY SortedArray
<1>3. KeyAt(i) # invalid_coord
  BY <1>1, <1>2, KeyValid DEF KeyAt
<1>4. PICK b \in blocks : i \in b .. BlockEnd(b) - 1
  BY <1>1, BlockOf
<1>5. /\ b \in Starts(b) /\ Starts(b) \subseteq Nat /\ b \in Nat /\ BlockEnd(b) \in Nat /\ i \in Nat
      /\ b <= i
  BY <1>1, <1>4, StartsType, BlockEnds
<1> DEFINE before == {t \in Starts(b) : t <= i}
<1>6. before \subseteq Nat /\ b \in before /\ \A t \in before : t <= i
  BY <1>5
<1>7. PICK s \in before : \A t \in before : t <= s
  <2> HIDE DEF before
  <2>1. QED
    BY <1>5, <1>6, GreatestNat
<1>8. s \in Starts(b) /\ s <= i /\ s \in Nat /\ \A t \in Starts(b) : t <= i => t <= s
  BY <1>6, <1>7
<1>9. i \in Part(b, s)
  <2>1. CASE i = s
    BY <2>1 DEF Part
  <2>2. CASE i # s
    <3>1. i \in s + 1 .. BlockEnd(b) - 1
      BY <1>4, <1>5, <1>8, <2>2
    <3>2. ASSUME NEW t \in Starts(b), t \in s + 1 .. i PROVE FALSE
      BY <1>5, <1>8, <3>2
    <3>3. QED
      BY <1>3, <3>1, <3>2 DEF Part, AddedTo
  <2>3. QED
    BY <2>1, <2>2
<1>10. p \in Averaged(b, s)
  BY <1>2, <1>9, AveragedPart
<1>11. ASSUME NEW c \in blocks, NEW t \in Starts(c), p \in Averaged(c, t)
       PROVE  c = b /\ t = s
  <2>1. PICK j \in Part(c, t) : coord_pt[j] = p
    BY <1>11, AveragedPart
  <2>2. /\ j \in 0 .. Size - 1 /\ j \in c .. BlockEnd(c) - 1 /\ t <= j
        /\ \A u \in Starts(c) : u <= j => u <= t
    BY <1>1, PartType
  <2>3. j = i
    BY <1>2, <2>1, <2>2, SortedArray
  <2>4. c = b
    BY <1>1, <1>4, <2>2, <2>3, BlocksApart
  <2>5. t <= s /\ s <= t /\ t \in Nat
    BY <1>5, <1>8, <2>2, <2>3, <2>4
  <2>6. QED
    BY <1>8, <2>4, <2>5
<1>12. QED
  BY <1>8, <1>10, <1>11

\* The outputs with points of a voxel: one for its first start, and one for every
\* later start, which can only be where a block begins.
LEMMA FewForEach ==
    ASSUME SortInv, AveInv, stage = "done", NEW p \in DOMAIN cloud, Valid(p)
    PROVE  Cardinality({n \in DOMAIN downsampled : \E q \in downsampled[n] : Voxel(q) = Voxel(p)})
             <= 1 + Cardinality({b \in blocks \ {0} : KeyAt(b - 1) = Key(p) /\ KeyAt(b) = Key(p)})
<1> DEFINE outs == {n \in DOMAIN downsampled : \E q \in downsampled[n] : Voxel(q) = Voxel(p)}
           borders == {b \in blocks \ {0} : KeyAt(b - 1) = Key(p) /\ KeyAt(b) = Key(p)}
           starts == {s \in UNION {Starts(b) : b \in blocks} : KeyAt(s) = Key(p)}
           owner(s) == CHOOSE b \in blocks : s \in Starts(b)
           slot(s) == Slot(owner(s), s)
<1>1. Size \in Nat /\ BlocksOK /\ CloudOK /\ IsFiniteSet(0 .. Size - 1)
  BY FS_Interval DEF SortInv, CloudOK, AveInv
<1>2. IsFiniteSet(borders) /\ Cardinality(borders) \in Nat /\ borders \subseteq 0 .. Size - 1
  <2>1. borders \subseteq 0 .. Size - 1
    BY <1>1 DEF BlocksOK
  <2> HIDE DEF borders
  <2>2. QED
    BY <1>1, <2>1, FS_Subset, FS_CardinalityType
<1>3. IsFiniteSet(starts) /\ starts \subseteq Nat /\ starts \subseteq 0 .. Size - 1
  <2>1. \A b \in blocks : Starts(b) \subseteq 0 .. Size - 1
    BY <1>1, StartsType
  <2>2. starts \subseteq 0 .. Size - 1
    BY <2>1
  <2>3. 0 .. Size - 1 \subseteq Nat
    BY <1>1
  <2> HIDE DEF starts
  <2>4. QED
    BY <1>1, <2>2, <2>3, FS_Subset
<1>4. outs \subseteq {slot(s) : s \in starts}
  <2>1. ASSUME NEW n \in outs PROVE \E s \in starts : n = slot(s)
    <3>1. PICK q \in downsampled[n] : Voxel(q) = Voxel(p)
      OBVIOUS
    <3>2. PICK b \in blocks : \E s \in Starts(b) : n = Slot(b, s) /\ downsampled[n] = Averaged(b, s)
      BY OneSlotEach
    <3>3. PICK s \in Starts(b) : n = Slot(b, s) /\ downsampled[n] = Averaged(b, s)
      BY <3>2
    <3>4. PICK i \in Part(b, s) : coord_pt[i] = q
      BY <3>1, <3>3, AveragedPart
    <3>5. q \in DOMAIN cloud
      BY <1>1, <3>4, PartType, SortedArray
    <3>6. KeyAt(i) = Key(p)
      BY <1>1, <3>1, <3>4, <3>5, KeyOfVoxel DEF KeyAt
    <3>7. KeyAt(s) = Key(p)
      BY <1>1, <3>4, <3>6, PartKey
    <3>8. s \in starts
      BY <3>3, <3>7
    <3>9. owner(s) = b
      <4>1. ASSUME NEW c \in blocks, s \in Starts(c) PROVE c = b
        BY <1>1, <4>1, StartsType, BlocksApart
      <4>2. QED
        BY <4>1
    <3>10. QED
      BY <3>3, <3>8, <3>9
  <2>2. QED
    BY <2>1
<1>5. CASE starts = {}
  <2>1. outs = {}
    BY <1>4, <1>5
  <2> HIDE DEF outs, borders
  <2>2. Cardinality(outs) = 0
    BY <2>1, FS_EmptySet
  <2>3. Cardinality(outs) <= 1 + Cardinality(borders)
    BY <1>2, <2>2
  <2>4. QED
    BY <2>3 DEF outs, borders
<1>6. CASE starts # {}
  <2>1. PICK first \in starts : \A s \in starts : first <= s
    <3> HIDE DEF starts
    <3>1. QED
      BY <1>3, <1>6, LeastNat
  <2>2. ASSUME NEW s \in starts, s # first PROVE s \in borders
    <3>1. PICK b \in blocks : s \in Starts(b)
      OBVIOUS
    <3>2. /\ first \in 0 .. Size - 1 /\ s \in 0 .. Size - 1 /\ first < s
          /\ KeyAt(s) = Key(p) /\ KeyAt(first) = Key(p)
      BY <1>1, <1>3, <2>1, <2>2
    <3>3. s - 1 \in 0 .. Size - 1 /\ first <= s - 1 /\ s - 1 <= s /\ s # 0
      BY <1>1, <3>2
    <3>4. KeyAt(s - 1) \in Int /\ KeyAt(first) <= KeyAt(s - 1) /\ KeyAt(s - 1) <= KeyAt(s)
      BY <3>2, <3>3, SortedArray
    <3>5. KeyAt(s - 1) = Key(p)
      <4>1. KeyAt(s) \in Int
        BY <3>2, SortedArray
      <4>2. QED
        BY <3>2, <3>4, <4>1
    <3>6. s = b
      BY <3>1, <3>2, <3>5 DEF Starts
    <3>7. QED
      BY <3>1, <3>2, <3>3, <3>5, <3>6
  <2>3. starts \subseteq borders \cup {first}
    BY <2>2
  <2> HIDE DEF starts, outs, borders, slot
  <2>4. /\ IsFiniteSet(borders \cup {first})
        /\ Cardinality(borders \cup {first}) <= 1 + Cardinality(borders)
        /\ Cardinality(borders \cup {first}) \in Nat
    BY <1>2, FS_AddElement, FS_CardinalityType
  <2>5. Cardinality(starts) <= Cardinality(borders \cup {first}) /\ Cardinality(starts) \in Nat
    BY <1>3, <2>3, <2>4, FS_Subset, FS_CardinalityType
  <2> DEFINE image == {slot(s) : s \in starts}
             map == [s \in starts |-> slot(s)]
  <2>6. IsFiniteSet(image) /\ Cardinality(image) <= Cardinality(starts)
    <3>1. map \in Surjection(starts, image)
      BY DEF Surjection
    <3> HIDE DEF map, image
    <3>2. QED
      BY <1>3, <3>1, FS_Surjection
  <2>7. outs \subseteq image
    BY <1>4
  <2> HIDE DEF image
  <2>8. Cardinality(outs) <= Cardinality(image) /\ Cardinality(outs) \in Nat /\ Cardinality(image) \in Nat
    BY <2>6, <2>7, FS_Subset, FS_CardinalityType
  <2>9. Cardinality(outs) <= 1 + Cardinality(borders)
    BY <1>2, <2>4, <2>5, <2>6, <2>8
  <2>10. QED
    BY <2>9 DEF outs, borders
<1>7. QED
  BY <1>5, <1>6

\* Every point in range is averaged once and with its voxel's points only, and a
\* voxel has one average more than block borders in it.
LEMMA InvAveragedOnce == SortInv /\ AveInv => AveragedOnce
<1> SUFFICES ASSUME SortInv, AveInv, stage = "done"
             PROVE  /\ \A p \in DOMAIN cloud : Valid(p) =>
                         Cardinality({n \in DOMAIN downsampled : p \in downsampled[n]}) = 1
                    /\ \A n \in DOMAIN downsampled : \A p, q \in downsampled[n] : Voxel(p) = Voxel(q)
  BY FewForEach, Zenon DEF AveragedOnce
<1>1. Size \in Nat /\ BlocksOK /\ CloudOK
  BY DEF SortInv, CloudOK, AveInv
<1>2. ASSUME NEW p \in DOMAIN cloud, Valid(p)
      PROVE  Cardinality({n \in DOMAIN downsampled : p \in downsampled[n]}) = 1
  <2>1. PICK b \in blocks : \E s \in Starts(b) :
          /\ p \in Averaged(b, s)
          /\ \A c \in blocks : \A t \in Starts(c) : p \in Averaged(c, t) => c = b /\ t = s
    BY <1>2, OnePart, Zenon
  <2>2. PICK s \in Starts(b) :
          /\ p \in Averaged(b, s)
          /\ \A c \in blocks : \A t \in Starts(c) : p \in Averaged(c, t) => c = b /\ t = s
    BY <2>1
  <2>3. Slot(b, s) \in DOMAIN downsampled /\ downsampled[Slot(b, s)] = Averaged(b, s)
    BY OneSlotEach
  <2>4. ASSUME NEW n \in DOMAIN downsampled, p \in downsampled[n] PROVE n = Slot(b, s)
    <3>1. PICK c \in blocks : \E t \in Starts(c) : n = Slot(c, t) /\ downsampled[n] = Averaged(c, t)
      BY OneSlotEach
    <3>2. PICK t \in Starts(c) : n = Slot(c, t) /\ downsampled[n] = Averaged(c, t)
      BY <3>1
    <3>3. c = b /\ t = s
      BY <2>2, <2>4, <3>2
    <3>4. QED
      BY <3>2, <3>3
  <2>5. {n \in DOMAIN downsampled : p \in downsampled[n]} = {Slot(b, s)}
    BY <2>2, <2>3, <2>4
  <2>6. QED
    BY <2>5, FS_Singleton
<1>3. ASSUME NEW n \in DOMAIN downsampled, NEW p \in downsampled[n], NEW q \in downsampled[n]
      PROVE  Voxel(p) = Voxel(q)
  <2>1. PICK b \in blocks : \E s \in Starts(b) : downsampled[n] = Averaged(b, s)
    BY OneSlotEach
  <2>2. PICK s \in Starts(b) : downsampled[n] = Averaged(b, s)
    BY <2>1
  <2>3. PICK i \in Part(b, s) : coord_pt[i] = p
    BY <2>2, AveragedPart
  <2>4. PICK j \in Part(b, s) : coord_pt[j] = q
    BY <2>2, AveragedPart
  <2>5. p \in DOMAIN cloud /\ q \in DOMAIN cloud
    BY <1>1, <2>3, <2>4, PartType, SortedArray
  <2>6. KeyAt(i) = Key(p) /\ KeyAt(j) = Key(q) /\ KeyAt(i) = KeyAt(s) /\ KeyAt(j) = KeyAt(s)
    BY <1>1, <2>3, <2>4, PartKey DEF KeyAt
  <2>7. CASE Valid(p)
    BY <1>1, <2>5, <2>6, <2>7, KeyOfVoxel
  <2>8. CASE ~Valid(p)
    <3>1. KeyAt(s) = invalid_coord
      BY <1>1, <2>5, <2>6, <2>8, KeyValid
    <3>2. i = s /\ j = s
      BY <2>3, <2>4, <2>6, <3>1 DEF Part, AddedTo
    <3>3. QED
      BY <2>3, <2>4, <3>2
  <2>9. QED
    BY <2>7, <2>8
<1>4. QED
  BY <1>2, <1>3

-----------------------------------------------------------------------------
(* The theorems.                                                           *)
-----------------------------------------------------------------------------
\* What holds of the sorted array, the blocks and the output at all times.
THEOREM DownsamplingInvariant == Spec => [](SortInv /\ AveInv)
<1>1. Init => SortInv /\ AveInv
  BY SortInit, AveInit
<1>2. (SortInv /\ AveInv) /\ [Next]_vars => (SortInv /\ AveInv)'
  BY SortNext, AveNext
<1>3. QED
  BY <1>1, <1>2, PTL DEF Spec

\* quick_sort_omp: concurrent tasks never hold the same part of the array, and
\* between them and what is settled no position and no point is missing.
THEOREM TasksApartHolds == Spec => []TasksApart
<1>1. SortInv => TasksApart
  BY SortInvTasksApart
<1>2. QED
  BY <1>1, DownsamplingInvariant, PTL

\* voxelgrid_sampling_omp and _tbb: blocks that reserve output with fetch_add
\* never share a position, leave no gap and stay within the input's size.
THEOREM SlotsOnceHolds == Spec => []SlotsOnce
<1>1. SortInv /\ AveInv => SlotsOnce
  BY AveInvSlotsOnce
<1>2. QED
  BY <1>1, DownsamplingInvariant, PTL

\* When the call returns, every point in range is in one average, of points of
\* one voxel, and a voxel has one average more than block borders within it.
THEOREM AveragedOnceHolds == Spec => []AveragedOnce
<1>1. SortInv /\ AveInv => AveragedOnce
  BY InvAveragedOnce
<1>2. QED
  BY <1>1, DownsamplingInvariant, PTL

=============================================================================
