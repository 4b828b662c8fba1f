--------------------- MODULE IncrementalVoxelMap_proofs ---------------------
(***************************************************************************)
(* What holds of the incremental voxel map for every set of points, every  *)
(* horizon and clear cycle, and any sequence of scans: its index map is    *)
(* the inverse of its voxel vector, its voxels hold averages, and its      *)
(* storage implements VoxelMapSpec.  The map with voxels of points         *)
(* (FlatVoxelMap) is an IncrementalVoxelMap, so that all of this holds of  *)
(* it, its points stay with their voxels and within their limits, and its  *)
(* searches return the nearest points of the voxels within reach.          *)
(***************************************************************************)
EXTENDS FlatVoxelMap, FiniteSetTheorems, SequenceTheorems, TLAPS

IInv == TypeOK /\ IndexConsistent /\ MeansFinal /\ BoundedStaleness

-----------------------------------------------------------------------------
\* Points and voxel coordinates are triples of integers.
LEMMA CoordType ==
    ASSUME NEW p \in Points
    PROVE  p \in Coords /\ Abstract!Coord(p) \in Coords
<1>1. p \in Int \X Int \X Int
  BY PointsAssumption
<1>2. p[1] \in Int /\ p[2] \in Int /\ p[3] \in Int
  BY <1>1
<1>3. /\ p[1] \div LeafSize \in Int
      /\ p[2] \div LeafSize \in Int
      /\ p[3] \div LeafSize \in Int
  BY <1>2, LeafSizeAssumption
<1>4. QED
  BY <1>1, <1>3 DEF Abstract!Coord, Coords

\* Sums and multiples of such triples are triples.
LEMMA PlusScale ==
    ASSUME NEW u \in Coords, NEW v \in Coords, NEW c \in Nat
    PROVE  /\ Abstract!Plus(u, v) \in Coords
           /\ Scale(u, c) \in Coords
           /\ Scale(u, 1) = u
<1>1. /\ u[1] \in Int /\ u[2] \in Int /\ u[3] \in Int
      /\ v[1] \in Int /\ v[2] \in Int /\ v[3] \in Int
      /\ u = <<u[1], u[2], u[3]>>
  BY DEF Coords
<1>2. u[1] * c \in Int /\ u[2] * c \in Int /\ u[3] * c \in Int
  BY <1>1
<1>3. u[1] * 1 = u[1] /\ u[2] * 1 = u[2] /\ u[3] * 1 = u[3]
  BY <1>1
<1>4. QED
  BY <1>1, <1>2, <1>3 DEF Abstract!Plus, Scale, Coords

\* The divisor a voxel's mean has between operations.
Divided(v) == v.mean.divisor = IF v.finalized THEN v.num_points ELSE 1

\* Adding a point to a voxel (GaussianVoxel::add and the LRU stamp).
LEMMA TouchedFacts ==
    ASSUME NEW v \in Voxel, NEW p \in Points, lru_counter \in Nat, Divided(v)
    PROVE  /\ Touched(v, p) \in Voxel
           /\ Touched(v, p).coord = v.coord
           /\ Touched(v, p).lru = lru_counter
           /\ Touched(v, p).num_points = v.num_points + 1
           /\ Touched(v, p).num_points > 0
           /\ Divided(Touched(v, p))
           /\ Touched(v, p).finalized = FALSE
           /\ Touched(v, p).mean.total = Abstract!Plus(v.mean.total, p)
<1> DEFINE w == [v EXCEPT !.lru = lru_counter]
           s == IF w.finalized THEN Multiply(w.mean, w.num_points) ELSE w.mean
<1>1. /\ w \in Voxel /\ w.coord = v.coord /\ w.lru = lru_counter
      /\ w.num_points = v.num_points /\ w.finalized = v.finalized /\ w.mean = v.mean
  BY DEF Voxel
<1>2. v.mean \in [total : Coords, divisor : Nat]
  BY DEF Voxel
<1>3. s = [total |-> v.mean.total, divisor |-> 1]
  <2>1. CASE v.finalized
    BY <1>1, <1>2, <2>1 DEF Multiply, Divided
  <2>2. CASE ~v.finalized
    BY <1>1, <1>2, <2>2 DEF Divided
  <2>3. QED
    BY <2>1, <2>2
<1>4. AddTo(s, p) = [total |-> Abstract!Plus(v.mean.total, p), divisor |-> 1]
  <2>1. Scale(p, 1) = p
    BY CoordType, PlusScale
  <2>2. QED
    BY <1>3, <2>1 DEF AddTo
<1>5. Abstract!Plus(v.mean.total, p) \in Coords
  BY <1>2, CoordType, PlusScale
<1>6. Touched(v, p) = [w EXCEPT !.finalized = FALSE, !.num_points = @ + 1, !.mean = AddTo(s, p)]
  BY DEF Touched, add
<1> HIDE DEF w, s
<1>7. Touched(v, p) = [coord |-> v.coord, lru |-> lru_counter, finalized |-> FALSE,
                       num_points |-> v.num_points + 1,
                       mean |-> [total |-> Abstract!Plus(v.mean.total, p), divisor |-> 1]]
  BY <1>1, <1>4, <1>6 DEF Voxel
<1>8. v.num_points \in Nat /\ v.coord \in Coords
  BY DEF Voxel
<1>9. Touched(v, p) \in Voxel
  BY <1>5, <1>7, <1>8 DEF Voxel
<1>10. QED
  BY <1>7, <1>8, <1>9 DEF Divided

\* Finalizing a voxel keeps its points and divides their sum once.
LEMMA FinalizeFacts ==
    ASSUME NEW v \in Voxel, Divided(v), v.num_points > 0
    PROVE  /\ finalize(v) \in Voxel
           /\ finalize(v).coord = v.coord
           /\ finalize(v).lru = v.lru
           /\ finalize(v).num_points = v.num_points
           /\ finalize(v).finalized = TRUE
           /\ finalize(v).mean.total = v.mean.total
           /\ Divided(finalize(v))
<1>1. v.mean \in [total : Coords, divisor : Nat] /\ v.num_points \in Nat
  BY DEF Voxel
<1>2. CASE v.finalized
  BY <1>2 DEF finalize, Voxel
<1>3. CASE ~v.finalized
  <2>1. v.mean.divisor * v.num_points = v.num_points
    BY <1>1, <1>3 DEF Divided
  <2>2. Divide(v.mean, v.num_points) = [total |-> v.mean.total, divisor |-> v.num_points]
    BY <1>1, <2>1 DEF Divide
  <2>3. finalize(v) = [v EXCEPT !.finalized = TRUE, !.mean = Divide(v.mean, v.num_points)]
    BY <1>3 DEF finalize
  <2>4. finalize(v) = [coord |-> v.coord, lru |-> v.lru, finalized |-> TRUE,
                        num_points |-> v.num_points,
                        mean |-> [total |-> v.mean.total, divisor |-> v.num_points]]
    BY <2>2, <2>3 DEF Voxel
  <2>5. finalize(v) \in Voxel
    BY <1>1, <2>4 DEF Voxel
  <2>6. QED
    BY <2>4, <2>5 DEF Divided
<1>4. QED
  BY <1>2, <1>3

\* A function on 1 .. n is a sequence of length n.
LEMMA FunctionSeq ==
    ASSUME NEW S, NEW n \in Nat, NEW f \in [1 .. n -> S]
    PROVE  f \in Seq(S) /\ Len(f) = n
<1>1. f \in Seq(S)
  OBVIOUS
<1>2. QED
  BY <1>1, LenProperties

\* The positions of the vector hold voxels.
LEMMA FlatElements ==
    ASSUME TypeOK
    PROVE  /\ Len(flat_voxels) \in Nat
           /\ \A i \in 1 .. Len(flat_voxels) : flat_voxels[i] \in Voxel
  BY LenProperties, ElementOfSeq DEF TypeOK

-----------------------------------------------------------------------------
\* A new map is empty and consistent.
LEMMA InitIInv == Init => IInv
<1> SUFFICES ASSUME Init PROVE IInv
  OBVIOUS
<1>1. flat_voxels = <<>> /\ Len(flat_voxels) = 0 /\ DOMAIN voxels = {}
  BY DEF Init
<1>2. TypeOK
  <2>1. flat_voxels \in Seq(Voxel) /\ scan \in Seq(Points)
    BY DEF Init
  <2>2. voxels \in [DOMAIN voxels -> Nat \ {0}]
    BY DEF Init
  <2>3. search_offsets \in Seq(Coords)
    BY DEF Init, CenterOffset, Coords
  <2>4. QED
    BY <1>1, <2>1, <2>2, <2>3 DEF Init, TypeOK
<1>3. IndexConsistent
  BY <1>1 DEF IndexConsistent
<1>4. MeansFinal /\ BoundedStaleness
  BY <1>1 DEF MeansFinal, BoundedStaleness
<1>5. QED
  BY <1>2, <1>3, <1>4 DEF IInv

\* A point that falls into a voxel of the map.
LEMMA AddFound ==
    ASSUME IInv, NEW p \in Points, Abstract!Coord(p) \in DOMAIN voxels,
           flat_voxels' = [flat_voxels EXCEPT ![voxels[Abstract!Coord(p)]] = Touched(@, p)],
           UNCHANGED voxels
    PROVE  LET i == voxels[Abstract!Coord(p)] IN
           /\ i \in 1 .. Len(flat_voxels)
           /\ flat_voxels[i].coord = Abstract!Coord(p)
           /\ flat_voxels' \in Seq(Voxel)
           /\ Len(flat_voxels') = Len(flat_voxels)
           /\ flat_voxels'[i] = Touched(flat_voxels[i], p)
           /\ \A j \in 1 .. Len(flat_voxels) : j # i => flat_voxels'[j] = flat_voxels[j]
           /\ Divided(flat_voxels[i])
<1> DEFINE c == Abstract!Coord(p)
           i == voxels[c]
<1>1. i \in 1 .. Len(flat_voxels) /\ flat_voxels[i].coord = c
  <2>1. PICK j \in 1 .. Len(flat_voxels) : flat_voxels[j].coord = c
    BY DEF IInv, IndexConsistent
  <2>2. voxels[flat_voxels[j].coord] = j
    BY <2>1 DEF IInv, IndexConsistent
  <2>3. QED
    BY <2>1, <2>2
<1>2. flat_voxels \in Seq(Voxel) /\ lru_counter \in Nat
  BY DEF IInv, TypeOK
<1>3. flat_voxels[i] \in Voxel /\ Divided(flat_voxels[i])
  BY <1>1, FlatElements DEF IInv, MeansFinal, Divided
<1>4. Touched(flat_voxels[i], p) \in Voxel
  BY <1>2, <1>3, TouchedFacts
<1>5. flat_voxels' = [flat_voxels EXCEPT ![i] = Touched(flat_voxels[i], p)]
  OBVIOUS
<1> HIDE DEF i, c
<1>6. /\ flat_voxels' \in Seq(Voxel)
      /\ Len(flat_voxels') = Len(flat_voxels)
      /\ \A j \in 1 .. Len(flat_voxels) :
            flat_voxels'[j] = IF j = i THEN Touched(flat_voxels[i], p) ELSE flat_voxels[j]
  <2> DEFINE e == Touched(flat_voxels[i], p)
  <2>1. e \in Voxel
    BY <1>4
  <2> HIDE DEF e
  <2>2. /\ [flat_voxels EXCEPT ![i] = e] \in Seq(Voxel)
        /\ Len([flat_voxels EXCEPT ![i] = e]) = Len(flat_voxels)
        /\ \A j \in 1 .. Len(flat_voxels) :
              [flat_voxels EXCEPT ![i] = e][j] = IF j = i THEN e ELSE flat_voxels[j]
    BY <1>1, <1>2, <2>1, ExceptSeq
  <2>3. flat_voxels' = [flat_voxels EXCEPT ![i] = e]
    BY <1>5 DEF e
  <2>4. QED
    BY <2>2, <2>3 DEF e
<1>7. QED
  BY <1>1, <1>3, <1>6 DEF i, c

\* A point that opens a voxel.
LEMMA AddOpened ==
    ASSUME IInv, NEW p \in Points, Abstract!Coord(p) \notin DOMAIN voxels,
           flat_voxels' = Append(flat_voxels, Touched(NewVoxel(Abstract!Coord(p), lru_counter), p))
    PROVE  LET v == NewVoxel(Abstract!Coord(p), lru_counter) IN
           /\ v \in Voxel /\ Divided(v) /\ v.coord = Abstract!Coord(p)
           /\ v.num_points = 0 /\ v.mean.total = Abstract!Zero
           /\ flat_voxels' \in Seq(Voxel)
           /\ Len(flat_voxels') = Len(flat_voxels) + 1
           /\ flat_voxels'[Len(flat_voxels) + 1] = Touched(v, p)
           /\ \A j \in 1 .. Len(flat_voxels) : flat_voxels'[j] = flat_voxels[j]
<1> DEFINE v == NewVoxel(Abstract!Coord(p), lru_counter)
<1>1. flat_voxels \in Seq(Voxel) /\ lru_counter \in Nat
  BY DEF IInv, TypeOK
<1>2. Abstract!Coord(p) \in Coords /\ Abstract!Zero \in Coords
  BY CoordType DEF Abstract!Zero, Coords
<1>3. v \in Voxel /\ v.coord = Abstract!Coord(p) /\ v.num_points = 0 /\ v.finalized = FALSE
      /\ v.mean.total = Abstract!Zero /\ v.mean.divisor = 1
  BY <1>1, <1>2 DEF NewVoxel, Voxel
<1>4. Divided(v)
  BY <1>3 DEF Divided
<1> HIDE DEF v
<1>5. Touched(v, p) \in Voxel
  BY <1>1, <1>3, <1>4, TouchedFacts
<1>6. flat_voxels' = Append(flat_voxels, Touched(v, p))
  BY DEF v
<1>7. /\ flat_voxels' \in Seq(Voxel)
      /\ Len(flat_voxels') = Len(flat_voxels) + 1
      /\ flat_voxels'[Len(flat_voxels) + 1] = Touched(v, p)
      /\ \A j \in 1 .. Len(flat_voxels) : flat_voxels'[j] = flat_voxels[j]
  BY <1>1, <1>5, <1>6
<1>8. QED
  BY <1>3, <1>4, <1>7 DEF v

\* The points still to be added, and the one added next.
LEMMA ScanSplit ==
    ASSUME TypeOK, scan # <<>>
    PROVE  Head(scan) \in Points /\ Tail(scan) \in Seq(Points)
  BY HeadTailProperties DEF TypeOK

-----------------------------------------------------------------------------
\* Adding a point keeps the index, the means and the stamps.
LEMMA AddPointPreserves ==
    ASSUME IInv, AddPoint
    PROVE  IInv'
<1> DEFINE p == Head(scan)
           c == Abstract!Coord(p)
           N == Len(flat_voxels)
<1>1. /\ p \in Points /\ Tail(scan) \in Seq(Points)
      /\ scan' = Tail(scan) /\ inserting
      /\ UNCHANGED <<lru_counter, search_offsets, inserting>>
  BY ScanSplit DEF AddPoint, IInv
<1>2. /\ lru_counter \in Nat /\ N \in Nat
      /\ \A j \in 1 .. N : flat_voxels[j] \in Voxel
      /\ c \in Coords
  BY <1>1, FlatElements, CoordType DEF IInv, TypeOK
<1>a. /\ lru_counter % Cycle \in Nat
      /\ lru_counter <= lru_counter
      /\ lru_counter + Horizon >= lru_counter - (lru_counter % Cycle)
  <2>1. lru_counter % Cycle \in Nat /\ Horizon \in Nat
    BY <1>2, LruAssumption
  <2>2. QED
    BY <1>2, <2>1
<1>3. CASE c \in DOMAIN voxels
  <2> DEFINE i == voxels[c]
  <2>1. /\ flat_voxels' = [flat_voxels EXCEPT ![voxels[c]] = Touched(@, p)]
        /\ UNCHANGED voxels
    BY <1>3 DEF AddPoint, AddToVoxel, NextPosition
  <2>2. /\ i \in 1 .. N /\ flat_voxels[i].coord = c
        /\ flat_voxels' \in Seq(Voxel) /\ Len(flat_voxels') = N
        /\ flat_voxels'[i] = Touched(flat_voxels[i], p)
        /\ \A j \in 1 .. N : j # i => flat_voxels'[j] = flat_voxels[j]
        /\ Divided(flat_voxels[i])
    BY <1>1, <1>3, <2>1, AddFound
  <2>3. /\ flat_voxels'[i].coord = c
        /\ flat_voxels'[i].lru = lru_counter
        /\ flat_voxels'[i].num_points > 0
        /\ Divided(flat_voxels'[i])
    <3> DEFINE w == Touched(flat_voxels[i], p)
    <3>1. flat_voxels[i] \in Voxel /\ Divided(flat_voxels[i])
      BY <1>2, <2>2
    <3>2. w.coord = flat_voxels[i].coord /\ w.lru = lru_counter /\ w.num_points > 0 /\ Divided(w)
      BY <1>1, <1>2, <3>1, TouchedFacts
    <3>3. flat_voxels'[i] = w
      BY <2>2
    <3> HIDE DEF w
    <3>4. QED
      BY <2>2, <3>2, <3>3
  <2> HIDE DEF i, c, p
  <2>4. TypeOK'
    BY <1>1, <2>1, <2>2 DEF IInv, TypeOK
  <2>5. IndexConsistent'
    <3>1. \A j \in 1 .. N : flat_voxels'[j].coord = flat_voxels[j].coord
      BY <2>2, <2>3
    <3>2. QED
      BY <2>1, <2>2, <3>1 DEF IInv, IndexConsistent
  <2>6. MeansFinal'
    BY <1>1, <2>2, <2>3 DEF IInv, MeansFinal, Divided
  <2>7. BoundedStaleness'
    <3> SUFFICES ASSUME NEW j \in 1 .. Len(flat_voxels')
                 PROVE  /\ flat_voxels'[j].lru <= lru_counter
                        /\ flat_voxels'[j].lru + Horizon >= lru_counter - (lru_counter % Cycle)
      BY <1>1 DEF BoundedStaleness
    <3>1. CASE flat_voxels'[j].lru = lru_counter
      BY <1>a, <3>1
    <3>2. CASE j \in 1 .. N /\ flat_voxels'[j] = flat_voxels[j]
      BY <3>2 DEF IInv, BoundedStaleness
    <3>3. QED
      BY <1>2, <2>2, <2>3, <3>1, <3>2
  <2>8. QED
    BY <2>4, <2>5, <2>6, <2>7 DEF IInv
<1>4. CASE c \notin DOMAIN voxels
  <2> DEFINE v == NewVoxel(c, lru_counter)
             M == N + 1
  <2>1. /\ flat_voxels' = Append(flat_voxels, Touched(NewVoxel(c, lru_counter), p))
        /\ voxels' = [k \in DOMAIN voxels \cup {c} |-> IF k = c THEN M ELSE voxels[k]]
    BY <1>4 DEF AddPoint, AddToVoxel, NextPosition
  <2>2. /\ v \in Voxel /\ Divided(v) /\ v.coord = c
        /\ flat_voxels' \in Seq(Voxel) /\ Len(flat_voxels') = M
        /\ flat_voxels'[M] = Touched(v, p)
        /\ \A j \in 1 .. N : flat_voxels'[j] = flat_voxels[j]
    BY <1>1, <1>4, <2>1, AddOpened
  <2>3. /\ flat_voxels'[M].coord = c
        /\ flat_voxels'[M].lru = lru_counter
        /\ flat_voxels'[M].num_points > 0
        /\ Divided(flat_voxels'[M])
    <3> DEFINE w == Touched(v, p)
    <3>1. w.coord = v.coord /\ w.lru = lru_counter /\ w.num_points > 0 /\ Divided(w)
      BY <1>1, <1>2, <2>2, TouchedFacts
    <3>2. flat_voxels'[M] = w
      BY <2>2
    <3> HIDE DEF w
    <3>3. QED
      BY <2>2, <3>1, <3>2
  <2> HIDE DEF v, c, p
  <2>4. TypeOK'
    BY <1>1, <1>2, <2>1, <2>2 DEF IInv, TypeOK
  <2>5. IndexConsistent'
    <3>1. \A j \in 1 .. N : flat_voxels[j].coord # c /\ voxels[flat_voxels[j].coord] = j
                            /\ flat_voxels[j].coord \in DOMAIN voxels
      BY <1>4 DEF IInv, IndexConsistent
    <3>2. DOMAIN voxels = {flat_voxels[j].coord : j \in 1 .. N}
      BY DEF IInv, IndexConsistent
    <3>3. DOMAIN voxels' = {flat_voxels'[j].coord : j \in 1 .. M}
      BY <1>2, <2>1, <2>2, <2>3, <3>2
    <3>4. \A j \in 1 .. M : voxels'[flat_voxels'[j].coord] = j
      BY <1>2, <2>1, <2>2, <2>3, <3>1
    <3>5. QED
      BY <2>2, <3>3, <3>4 DEF IndexConsistent
  <2>6. MeansFinal'
    BY <1>1, <1>2, <2>2, <2>3 DEF IInv, MeansFinal, Divided
  <2>7. BoundedStaleness'
    <3> SUFFICES ASSUME NEW j \in 1 .. Len(flat_voxels')
                 PROVE  /\ flat_voxels'[j].lru <= lru_counter
                        /\ flat_voxels'[j].lru + Horizon >= lru_counter - (lru_counter % Cycle)
      BY <1>1 DEF BoundedStaleness
    <3>1. CASE flat_voxels'[j].lru = lru_counter
      BY <1>a, <3>1
    <3>2. CASE j \in 1 .. N /\ flat_voxels'[j] = flat_voxels[j]
      BY <3>2 DEF IInv, BoundedStaleness
    <3>3. QED
      BY <1>2, <2>2, <2>3, <3>1, <3>2
  <2>8. QED
    BY <2>4, <2>5, <2>6, <2>7 DEF IInv
<1>5. QED
  BY <1>3, <1>4

\* Starting an insert touches no voxel.
LEMMA StartInsertPreserves ==
    ASSUME IInv, StartInsert
    PROVE  IInv'
<1>1. /\ UNCHANGED <<flat_voxels, voxels, lru_counter, search_offsets>>
      /\ scan' \in Seq(Points)
      /\ inserting' = TRUE
  BY ScansAssumption DEF StartInsert
<1>2. TypeOK'
  BY <1>1 DEF IInv, TypeOK
<1>3. IndexConsistent' /\ BoundedStaleness'
  BY <1>1 DEF IInv, IndexConsistent, BoundedStaleness
<1>4. MeansFinal'
  BY <1>1 DEF IInv, MeansFinal
<1>5. QED
  BY <1>2, <1>3, <1>4 DEF IInv

\* Every pattern set_search_offsets can leave is a sequence of offsets.
LEMMA PatternType ==
    ASSUME NEW old \in Seq(Coords), NEW n
    PROVE  OffsetPattern(old, n) \in Seq(Coords)
<1>1. CenterOffset \in Seq(Coords) /\ AdjacentOffsets \in Seq(Coords)
  BY DEF CenterOffset, AdjacentOffsets, Coords
<1>2. CubeOffsets \in Seq(Coords)
  <2>1. CubeOffsets \in [1 .. 27 -> Coords]
    <3> SUFFICES ASSUME NEW m \in 1 .. 27
                 PROVE  <<((m - 1) \div 9) - 1, (((m - 1) \div 3) % 3) - 1, ((m - 1) % 3) - 1>> \in Coords
      BY DEF CubeOffsets
    <3>1. m - 1 \in Nat
      OBVIOUS
    <3>2. (m - 1) \div 9 \in Int /\ (m - 1) \div 3 \in Int /\ (m - 1) % 3 \in Int
      BY <3>1
    <3>3. ((m - 1) \div 3) % 3 \in Int
      BY <3>2
    <3>4. QED
      BY <3>2, <3>3 DEF Coords
  <2>2. QED
    BY <2>1, FunctionSeq
<1>3. old \o CubeOffsets \in Seq(Coords)
  BY <1>2, ConcatProperties
<1>4. QED
  BY <1>1, <1>3 DEF OffsetPattern

\* Choosing a pattern touches no voxel.
LEMMA SetSearchOffsetsPreserves ==
    ASSUME IInv, NEW n, SetSearchOffsets(n)
    PROVE  IInv'
<1>1. UNCHANGED <<flat_voxels, voxels, lru_counter, inserting, scan>>
  BY DEF SetSearchOffsets
<1>2. search_offsets' \in Seq(Coords)
  BY PatternType DEF SetSearchOffsets, IInv, TypeOK
<1>3. TypeOK'
  BY <1>1, <1>2 DEF IInv, TypeOK
<1>4. IndexConsistent' /\ BoundedStaleness' /\ MeansFinal'
  BY <1>1 DEF IInv, IndexConsistent, BoundedStaleness, MeansFinal
<1>5. QED
  BY <1>3, <1>4 DEF IInv

-----------------------------------------------------------------------------
\* Between two multiples of the cycle, counting one further leaves the last
\* multiple where it was.
LEMMA LastMultiple ==
    ASSUME NEW n \in Nat, NEW c \in Nat \ {0}, (n + 1) % c # 0
    PROVE  (n + 1) - ((n + 1) % c) = n - (n % c)
<1> DEFINE q == n \div c
           r == n % c
           q2 == (n + 1) \div c
           r2 == (n + 1) % c
<1>1. q \in Int /\ q2 \in Int /\ r \in 0 .. c - 1 /\ r2 \in 0 .. c - 1
  OBVIOUS
<1>2. n = c * q + r /\ n + 1 = c * q2 + r2
  OBVIOUS
<1>3. r2 >= 1
  BY <1>1
<1> HIDE DEF q, r, q2, r2
<1>4. q2 = q
  <2> DEFINE d == q2 - q
  <2>1. d \in Int
    BY <1>1
  <2>2. c * d = 1 + r - r2
    <3>1. c * d = c * q2 - c * q
      BY <1>1
    <3>2. c * q2 \in Int /\ c * q \in Int
      BY <1>1
    <3>3. QED
      BY <1>1, <1>2, <3>1, <3>2
  <2>3. c * d < c /\ c * d > -c
    BY <1>1, <1>3, <2>2
  <2> HIDE DEF d
  <2>4. ~(d >= 1)
    <3> SUFFICES ASSUME d >= 1 PROVE FALSE
      OBVIOUS
    <3>1. c * d >= c * 1 /\ c * 1 = c /\ c * d \in Int
      BY <2>1
    <3>2. QED
      BY <2>3, <3>1
  <2>5. ~(d <= -1)
    <3> SUFFICES ASSUME d <= -1 PROVE FALSE
      OBVIOUS
    <3>1. c * d <= c * (-1) /\ c * (-1) = -c /\ c * d \in Int
      BY <2>1
    <3>2. QED
      BY <2>3, <3>1
  <2>6. d = 0
    BY <2>1, <2>4, <2>5
  <2>7. QED
    BY <1>1, <2>6 DEF d
<1>5. c * q \in Int
  BY <1>1
<1>6. n - r = (n + 1) - r2
  BY <1>1, <1>2, <1>4, <1>5
<1>7. QED
  BY <1>6 DEF r, r2

\* Finalizing a vector of voxels position by position.
LEMMA FinalizedFacts ==
    ASSUME NEW vs \in Seq(Voxel),
           \A i \in 1 .. Len(vs) : Divided(vs[i]) /\ vs[i].num_points > 0
    PROVE  /\ Finalized(vs) \in Seq(Voxel)
           /\ Len(Finalized(vs)) = Len(vs)
           /\ \A i \in 1 .. Len(vs) :
                /\ Finalized(vs)[i] = finalize(vs[i])
                /\ Finalized(vs)[i].coord = vs[i].coord
                /\ Finalized(vs)[i].lru = vs[i].lru
                /\ Finalized(vs)[i].num_points = vs[i].num_points
                /\ Finalized(vs)[i].finalized = TRUE
                /\ Finalized(vs)[i].mean.total = vs[i].mean.total
                /\ Divided(Finalized(vs)[i])
<1> DEFINE f == Finalized(vs)
<1>1. Len(vs) \in Nat /\ \A i \in 1 .. Len(vs) : vs[i] \in Voxel
  BY LenProperties, ElementOfSeq
<1>2. \A i \in 1 .. Len(vs) : f[i] = finalize(vs[i])
  BY DEF Finalized
<1>3. f \in [1 .. Len(vs) -> Voxel]
  BY <1>1, FinalizeFacts DEF Finalized
<1>4. f \in Seq(Voxel) /\ Len(f) = Len(vs)
  BY <1>1, <1>3, FunctionSeq
<1> HIDE DEF f
<1>5. ASSUME NEW i \in 1 .. Len(vs)
      PROVE  /\ f[i].coord = vs[i].coord
             /\ f[i].lru = vs[i].lru
             /\ f[i].num_points = vs[i].num_points
             /\ f[i].finalized = TRUE
             /\ f[i].mean.total = vs[i].mean.total
             /\ Divided(f[i])
  <2>1. vs[i] \in Voxel /\ Divided(vs[i]) /\ vs[i].num_points > 0 /\ f[i] = finalize(vs[i])
    BY <1>1, <1>2
  <2> DEFINE w == finalize(vs[i])
  <2>2. /\ w.coord = vs[i].coord /\ w.lru = vs[i].lru /\ w.num_points = vs[i].num_points
        /\ w.finalized = TRUE /\ w.mean.total = vs[i].mean.total /\ Divided(w)
    BY <2>1, FinalizeFacts
  <2>3. f[i] = w
    BY <2>1
  <2> HIDE DEF w
  <2>4. QED
    BY <2>2, <2>3
<1>6. QED
  BY <1>2, <1>4, <1>5 DEF f

\* What a clear cycle leaves: the m voxels kept, in their order, keep[i] being
\* the old position of the i-th, and each one's coordinate mapped to its new
\* position.
Cleared(m, keep, now) ==
    /\ \A i, j \in 1 .. m : i < j => keep[i] < keep[j]
    /\ \A i \in 1 .. m : ~Expired(flat_voxels[keep[i]], now)
    /\ \A h \in 1 .. Len(flat_voxels) :
          ~Expired(flat_voxels[h], now) => \E i \in 1 .. m : keep[i] = h
    /\ flat_voxels' \in Seq(Voxel)
    /\ Len(flat_voxels') = m
    /\ \A i \in 1 .. m :
        /\ flat_voxels'[i].coord = flat_voxels[keep[i]].coord
        /\ flat_voxels'[i].lru = flat_voxels[keep[i]].lru
        /\ flat_voxels'[i].num_points = flat_voxels[keep[i]].num_points
        /\ flat_voxels'[i].finalized = TRUE
        /\ flat_voxels'[i].mean.total = flat_voxels[keep[i]].mean.total
        /\ Divided(flat_voxels'[i])
    /\ DOMAIN voxels' = {flat_voxels'[i].coord : i \in 1 .. m}
    /\ \A i \in 1 .. m : voxels'[flat_voxels'[i].coord] = i
    /\ voxels' \in [DOMAIN voxels' -> Nat \ {0}]

\* A clear cycle's compaction and rehash together leave that state.
LEMMA ClearFacts ==
    ASSUME IInv, NEW now \in Nat, ClearCycle(now)
    PROVE  \E m \in Nat : \E keep \in [1 .. m -> 1 .. Len(flat_voxels)] : Cleared(m, keep, now)
<1>0. PICK m \in 0 .. Len(flat_voxels) : \E keep \in [1 .. m -> 1 .. Len(flat_voxels)] :
        /\ Compaction(m, keep, now)
        /\ flat_voxels' = Finalized([i \in 1 .. m |-> flat_voxels[keep[i]]])
        /\ voxels' = [k \in {flat_voxels[i].coord : i \in Kept(now)} |->
                        CHOOSE i \in 1 .. m : flat_voxels[keep[i]].coord = k]
  BY DEF ClearCycle
<1>1. PICK keep \in [1 .. m -> 1 .. Len(flat_voxels)] :
        /\ Compaction(m, keep, now)
        /\ flat_voxels' = Finalized([i \in 1 .. m |-> flat_voxels[keep[i]]])
        /\ voxels' = [k \in {flat_voxels[i].coord : i \in Kept(now)} |->
                        CHOOSE i \in 1 .. m : flat_voxels[keep[i]].coord = k]
  BY <1>0
<1> DEFINE vs == [i \in 1 .. m |-> flat_voxels[keep[i]]]
           N == Len(flat_voxels)
<1>2. N \in Nat /\ m \in Nat /\ \A i \in 1 .. N : flat_voxels[i] \in Voxel
  BY FlatElements DEF IInv
<1>3. /\ \A i, j \in 1 .. m : i < j => keep[i] < keep[j]
      /\ Kept(now) = {keep[i] : i \in 1 .. m}
  BY <1>1 DEF Compaction
<1>4. \A i \in 1 .. m : keep[i] \in 1 .. N
  BY <1>1
<1>5. \A i \in 1 .. m : ~Expired(flat_voxels[keep[i]], now)
  BY <1>3 DEF Kept
<1>6. \A h \in 1 .. N : ~Expired(flat_voxels[h], now) => \E i \in 1 .. m : keep[i] = h
  BY <1>3 DEF Kept
<1>7. vs \in Seq(Voxel) /\ Len(vs) = m /\ \A i \in 1 .. m : vs[i] = flat_voxels[keep[i]]
  <2>1. vs \in [1 .. m -> Voxel]
    BY <1>2, <1>4
  <2>2. QED
    BY <1>2, <2>1, FunctionSeq
<1>8. \A i \in 1 .. Len(vs) : Divided(vs[i]) /\ vs[i].num_points > 0
  BY <1>4, <1>7 DEF IInv, MeansFinal, Divided
<1>9. flat_voxels' = Finalized(vs)
  BY <1>1
<1> HIDE DEF vs
<1>10. /\ flat_voxels' \in Seq(Voxel)
       /\ Len(flat_voxels') = m
       /\ \A i \in 1 .. m :
            /\ flat_voxels'[i].coord = vs[i].coord
            /\ flat_voxels'[i].lru = vs[i].lru
            /\ flat_voxels'[i].num_points = vs[i].num_points
            /\ flat_voxels'[i].finalized = TRUE
            /\ flat_voxels'[i].mean.total = vs[i].mean.total
            /\ Divided(flat_voxels'[i])
  BY <1>7, <1>8, <1>9, FinalizedFacts
<1>11. \A i, j \in 1 .. m : flat_voxels[keep[i]].coord = flat_voxels[keep[j]].coord => i = j
  <2> SUFFICES ASSUME NEW i \in 1 .. m, NEW j \in 1 .. m,
                      flat_voxels[keep[i]].coord = flat_voxels[keep[j]].coord
               PROVE  i = j
    OBVIOUS
  <2>1. keep[i] = keep[j]
    <3>1. /\ voxels[flat_voxels[keep[i]].coord] = keep[i]
          /\ voxels[flat_voxels[keep[j]].coord] = keep[j]
      BY <1>4 DEF IInv, IndexConsistent
    <3>2. QED
      BY <3>1
  <2>2. ~(i < j) /\ ~(j < i)
    BY <1>3, <1>4, <2>1
  <2>3. QED
    BY <2>2
<1>12. DOMAIN voxels' = {flat_voxels[keep[i]].coord : i \in 1 .. m}
  <2>1. DOMAIN voxels' = {flat_voxels[i].coord : i \in Kept(now)}
    BY <1>1
  <2>2. QED
    BY <1>3, <2>1
<1>13. ASSUME NEW i \in 1 .. m
       PROVE  voxels'[flat_voxels[keep[i]].coord] = i
  <2> DEFINE k == flat_voxels[keep[i]].coord
  <2>1. k \in {flat_voxels[h].coord : h \in Kept(now)}
    BY <1>3
  <2>2. voxels'[k] = CHOOSE j \in 1 .. m : flat_voxels[keep[j]].coord = k
    BY <1>1, <2>1
  <2>3. \A j \in 1 .. m : flat_voxels[keep[j]].coord = k => j = i
    BY <1>11
  <2>4. QED
    BY <2>2, <2>3
<1>a. \A i \in 1 .. m : flat_voxels'[i].coord = flat_voxels[keep[i]].coord
  BY <1>7, <1>10
<1>14. DOMAIN voxels' = {flat_voxels'[i].coord : i \in 1 .. m}
  BY <1>12, <1>a
<1>15. \A i \in 1 .. m : voxels'[flat_voxels'[i].coord] = i
  BY <1>13, <1>a
<1>16. voxels' \in [DOMAIN voxels' -> Nat \ {0}]
  <2>1. ASSUME NEW k \in DOMAIN voxels'
        PROVE  voxels'[k] \in Nat \ {0}
    <3>1. PICK i \in 1 .. m : k = flat_voxels'[i].coord
      BY <1>14
    <3>2. QED
      BY <1>2, <1>15, <3>1
  <2>2. voxels' = [k \in DOMAIN voxels' |-> voxels'[k]]
    BY <1>1
  <2>3. QED
    BY <2>1, <2>2
<1>17. Cleared(m, keep, now)
  <2>1. \A i \in 1 .. m :
          /\ flat_voxels'[i].coord = flat_voxels[keep[i]].coord
          /\ flat_voxels'[i].lru = flat_voxels[keep[i]].lru
          /\ flat_voxels'[i].num_points = flat_voxels[keep[i]].num_points
          /\ flat_voxels'[i].finalized = TRUE
          /\ flat_voxels'[i].mean.total = flat_voxels[keep[i]].mean.total
          /\ Divided(flat_voxels'[i])
    BY <1>7, <1>10
  <2>2. QED
    BY <1>3, <1>5, <1>6, <1>10, <1>14, <1>15, <1>16, <2>1 DEF Cleared
<1>18. QED
  BY <1>1, <1>2, <1>17

\* The end of an insert that deletes nothing.
LEMMA FinishPlain ==
    ASSUME IInv, FinishInsert, lru_counter' % Cycle # 0
    PROVE  IInv'
<1> DEFINE N == Len(flat_voxels)
<1>1. /\ flat_voxels' = Finalized(flat_voxels) /\ UNCHANGED voxels
      /\ lru_counter' = lru_counter + 1 /\ inserting' = FALSE
      /\ UNCHANGED <<search_offsets, scan>>
  BY DEF FinishInsert
<1>2. /\ flat_voxels \in Seq(Voxel) /\ lru_counter \in Nat /\ N \in Nat
      /\ \A i \in 1 .. N : flat_voxels[i] \in Voxel
  BY FlatElements DEF IInv, TypeOK
<1>3. \A i \in 1 .. N : Divided(flat_voxels[i]) /\ flat_voxels[i].num_points > 0
  BY DEF IInv, MeansFinal, Divided
<1>4. /\ flat_voxels' \in Seq(Voxel)
      /\ Len(flat_voxels') = N
      /\ \A i \in 1 .. N :
            /\ flat_voxels'[i].coord = flat_voxels[i].coord
            /\ flat_voxels'[i].lru = flat_voxels[i].lru
            /\ flat_voxels'[i].num_points = flat_voxels[i].num_points
            /\ flat_voxels'[i].finalized = TRUE
            /\ Divided(flat_voxels'[i])
  BY <1>1, <1>2, <1>3, FinalizedFacts
<1>5. TypeOK'
  <2>1. lru_counter' \in Nat /\ flat_voxels' \in Seq(Voxel)
    BY <1>1, <1>2, <1>4
  <2>2. QED
    BY <1>1, <2>1 DEF IInv, TypeOK
<1>6. IndexConsistent'
  BY <1>1, <1>4 DEF IInv, IndexConsistent
<1>7. MeansFinal'
  BY <1>3, <1>4 DEF MeansFinal, Divided
<1>8. BoundedStaleness'
  <2> SUFFICES ASSUME NEW i \in 1 .. N
               PROVE  /\ flat_voxels'[i].lru <= lru_counter'
                      /\ flat_voxels'[i].lru + Horizon >= lru_counter' - (lru_counter' % Cycle)
    BY <1>4 DEF BoundedStaleness
  <2>1. lru_counter' - (lru_counter' % Cycle) = lru_counter - (lru_counter % Cycle)
    BY <1>1, <1>2, LruAssumption, LastMultiple
  <2>2. /\ flat_voxels[i].lru <= lru_counter
        /\ flat_voxels[i].lru + Horizon >= lru_counter - (lru_counter % Cycle)
    BY DEF IInv, BoundedStaleness
  <2>3. flat_voxels[i].lru \in Nat
    BY <1>2 DEF Voxel
  <2>4. flat_voxels'[i].lru = flat_voxels[i].lru
    BY <1>4
  <2>5. flat_voxels'[i].lru <= lru_counter'
    BY <1>1, <1>2, <2>2, <2>3, <2>4
  <2>6. QED
    BY <2>1, <2>2, <2>4, <2>5
<1>9. QED
  BY <1>5, <1>6, <1>7, <1>8 DEF IInv

\* The end of an insert whose count is a multiple of the clear cycle.
LEMMA FinishClear ==
    ASSUME IInv, FinishInsert, lru_counter' % Cycle = 0
    PROVE  IInv'
<1> DEFINE now == lru_counter'
<1>1. /\ now = lru_counter + 1 /\ inserting' = FALSE
      /\ UNCHANGED <<search_offsets, scan>>
      /\ ClearCycle(now)
  BY DEF FinishInsert
<1>2. lru_counter \in Nat /\ now \in Nat /\ Horizon \in Nat
  BY <1>1, LruAssumption DEF IInv, TypeOK
<1>3. PICK m \in Nat : \E keep \in [1 .. m -> 1 .. Len(flat_voxels)] : Cleared(m, keep, now)
  BY <1>1, <1>2, ClearFacts
<1>4. PICK keep \in [1 .. m -> 1 .. Len(flat_voxels)] : Cleared(m, keep, now)
  BY <1>3
<1>5. \A i \in 1 .. m : keep[i] \in 1 .. Len(flat_voxels) /\ flat_voxels[keep[i]] \in Voxel
  BY <1>4, FlatElements DEF IInv
<1> HIDE DEF now
<1>6. TypeOK'
  <2>1. DOMAIN voxels' \subseteq Coords
    <3> SUFFICES ASSUME NEW k \in DOMAIN voxels' PROVE k \in Coords
      OBVIOUS
    <3>1. PICK i \in 1 .. m : k = flat_voxels'[i].coord
      BY <1>4 DEF Cleared
    <3>2. k = flat_voxels[keep[i]].coord
      BY <1>4, <3>1 DEF Cleared
    <3>3. QED
      BY <1>5, <3>2 DEF Voxel
  <2>2. flat_voxels' \in Seq(Voxel) /\ voxels' \in [DOMAIN voxels' -> Nat \ {0}]
    BY <1>4 DEF Cleared
  <2>3. QED
    BY <1>1, <1>2, <2>1, <2>2 DEF IInv, TypeOK, now
<1>7. IndexConsistent'
  BY <1>4 DEF Cleared, IndexConsistent
<1>8. MeansFinal'
  <2> SUFFICES ASSUME NEW i \in 1 .. m
               PROVE  /\ flat_voxels'[i].num_points > 0
                      /\ flat_voxels'[i].finalized = TRUE
                      /\ Divided(flat_voxels'[i])
    BY <1>4 DEF Cleared, MeansFinal, Divided
  <2>1. /\ flat_voxels'[i].num_points = flat_voxels[keep[i]].num_points
        /\ flat_voxels'[i].finalized = TRUE
        /\ Divided(flat_voxels'[i])
    BY <1>4 DEF Cleared
  <2>2. flat_voxels[keep[i]].num_points > 0
    BY <1>5 DEF IInv, MeansFinal
  <2>3. QED
    BY <2>1, <2>2
<1>9. BoundedStaleness'
  <2> SUFFICES ASSUME NEW i \in 1 .. m
               PROVE  /\ flat_voxels'[i].lru <= now
                      /\ flat_voxels'[i].lru + Horizon >= now - (now % Cycle)
    BY <1>4 DEF Cleared, BoundedStaleness, now
  <2>1. flat_voxels'[i].lru = flat_voxels[keep[i]].lru
    BY <1>4 DEF Cleared
  <2>2. flat_voxels[keep[i]].lru \in Nat
    BY <1>5 DEF Voxel
  <2>3. flat_voxels[keep[i]].lru <= lru_counter
    BY <1>5 DEF IInv, BoundedStaleness
  <2>4. ~(flat_voxels[keep[i]].lru + Horizon < now)
    BY <1>4 DEF Cleared, Expired
  <2>5. now % Cycle = 0
    BY DEF now
  <2>6. QED
    BY <1>1, <1>2, <2>1, <2>2, <2>3, <2>4, <2>5
<1>10. QED
  BY <1>6, <1>7, <1>8, <1>9 DEF IInv

\* The four facts together are kept by every step of the map.
LEMMA NextPreserves ==
    ASSUME IInv, [Next]_vars
    PROVE  IInv'
<1>1. CASE StartInsert
  BY <1>1, StartInsertPreserves
<1>2. CASE AddPoint
  BY <1>2, AddPointPreserves
<1>3. CASE FinishInsert
  BY <1>3, FinishPlain, FinishClear
<1>4. ASSUME NEW n \in NumOffsets, SetSearchOffsets(n)
      PROVE  IInv'
  BY <1>4, SetSearchOffsetsPreserves
<1>5. CASE UNCHANGED vars
  BY <1>5 DEF vars, IInv, TypeOK, IndexConsistent, MeansFinal, BoundedStaleness
<1>6. QED
  BY <1>1, <1>2, <1>3, <1>4, <1>5 DEF Next

\* The inductive invariant: types, index, means and stamps, in every state the
\* map can reach.
THEOREM Invariance == Spec => []IInv
<1>1. Init => IInv
  BY InitIInv
<1>2. IInv /\ [Next]_vars => IInv'
  BY NextPreserves
<1>3. QED
  BY <1>1, <1>2, PTL DEF Spec

\* The map's variables keep their types under insert() and set_search_offsets().
THEOREM TypeCorrectness == Spec => []TypeOK
<1>1. IInv => TypeOK
  BY DEF IInv
<1>2. QED
  BY <1>1, Invariance, PTL

\* voxels is the inverse of flat_voxels after any growth, deletion and rehash:
\* every voxel is found under its coordinate, and nothing else is found.
THEOREM IndexInverse == Spec => []IndexConsistent
<1>1. IInv => IndexConsistent
  BY DEF IInv
<1>2. QED
  BY <1>1, Invariance, PTL

\* add() and finalize() alternate in any order, yet between calls of insert()
\* every mean has been divided by its number of points exactly once.
THEOREM MeansDividedOnce == Spec => []MeansFinal
<1>1. IInv => MeansFinal
  BY DEF IInv
<1>2. QED
  BY <1>1, Invariance, PTL

\* For any horizon and clear cycle, a voxel outlives its horizon by less than
\* one cycle.
THEOREM StalenessBound == Spec => []BoundedStaleness
<1>1. IInv => BoundedStaleness
  BY DEF IInv
<1>2. QED
  BY <1>1, Invariance, PTL

-----------------------------------------------------------------------------
\* The abstract cell a stored voxel stands for.
CellOf(v) == [n |-> v.num_points, sum |-> v.mean.total, lru |-> v.lru]

\* Every entry of the index leads to the voxel of that coordinate.
LEMMA IndexEntry ==
    ASSUME IndexConsistent, NEW k \in DOMAIN voxels
    PROVE  /\ voxels[k] \in 1 .. Len(flat_voxels)
           /\ flat_voxels[voxels[k]].coord = k
<1>1. PICK i \in 1 .. Len(flat_voxels) : k = flat_voxels[i].coord
  BY DEF IndexConsistent
<1>2. voxels[k] = i
  BY <1>1 DEF IndexConsistent
<1>3. QED
  BY <1>1, <1>2

\* What the refinement mapping shows of the state.
LEMMA CellsFacts ==
    /\ Cells = [k \in DOMAIN voxels |-> CellOf(flat_voxels[voxels[k]])]
    /\ DOMAIN Cells = DOMAIN voxels
    /\ Cells' = [k \in DOMAIN voxels' |-> CellOf(flat_voxels'[voxels'[k]])]
    /\ DOMAIN Cells' = DOMAIN voxels'
  BY DEF Cells, CellOf

\* A new map stands for an abstract map without cells.
LEMMA InitRefines == Init => Abstract!InitSpec
<1> SUFFICES ASSUME Init PROVE Abstract!InitSpec
  OBVIOUS
<1>1. DOMAIN voxels = {} /\ lru_counter = 0
  BY DEF Init
<1>2. Cells = [k \in {} |-> Abstract!NewCell]
  BY <1>1, CellsFacts
<1>3. QED
  BY <1>1, <1>2 DEF Abstract!InitSpec

\* Adding a point to the storage counts it in the cell it falls into.
LEMMA AddPointRefines ==
    ASSUME IInv, AddPoint
    PROVE  Abstract!AddPoint(Head(scan))
<1> DEFINE p == Head(scan)
           c == Abstract!Coord(p)
           N == Len(flat_voxels)
           cell == [n |-> Abstract!CellAt(c).n + 1,
                    sum |-> Abstract!Plus(Abstract!CellAt(c).sum, p),
                    lru |-> lru_counter]
<1>1. p \in Points /\ UNCHANGED lru_counter /\ lru_counter \in Nat /\ N \in Nat
  BY ScanSplit, FlatElements DEF AddPoint, IInv, TypeOK
<1>2. IndexConsistent /\ \A j \in 1 .. N : flat_voxels[j] \in Voxel
  BY FlatElements DEF IInv
<1>3. /\ DOMAIN voxels' = DOMAIN voxels \cup {c}
      /\ CellOf(flat_voxels'[voxels'[c]]) = cell
      /\ \A k \in DOMAIN voxels : k # c => CellOf(flat_voxels'[voxels'[k]]) = Cells[k]
  <2>1. CASE c \in DOMAIN voxels
    <3> DEFINE i == voxels[c]
               w == Touched(flat_voxels[i], p)
    <3>1. /\ flat_voxels' = [flat_voxels EXCEPT ![voxels[c]] = Touched(@, p)]
          /\ UNCHANGED voxels
      BY <2>1 DEF AddPoint, AddToVoxel, NextPosition
    <3>2. /\ i \in 1 .. N
          /\ flat_voxels'[i] = w
          /\ \A j \in 1 .. N : j # i => flat_voxels'[j] = flat_voxels[j]
          /\ Divided(flat_voxels[i])
      BY <1>1, <2>1, <3>1, AddFound
    <3>3. /\ w.num_points = flat_voxels[i].num_points + 1 /\ w.lru = lru_counter
          /\ w.mean.total = Abstract!Plus(flat_voxels[i].mean.total, p)
      BY <1>1, <1>2, <3>2, TouchedFacts
    <3> HIDE DEF w
    <3>4. Abstract!CellAt(c) = CellOf(flat_voxels[i])
      BY <2>1, CellsFacts DEF Abstract!CellAt
    <3>5. CellOf(flat_voxels'[voxels'[c]]) = cell
      BY <3>1, <3>2, <3>3, <3>4 DEF CellOf
    <3>6. ASSUME NEW k \in DOMAIN voxels, k # c
          PROVE  CellOf(flat_voxels'[voxels'[k]]) = Cells[k]
      <4>1. voxels[k] \in 1 .. N /\ voxels[k] # i
        BY <1>2, <2>1, <3>6, IndexEntry
      <4>2. QED
        BY <3>1, <3>2, <4>1, CellsFacts
    <3>7. QED
      BY <2>1, <3>1, <3>5, <3>6
  <2>2. CASE c \notin DOMAIN voxels
    <3> DEFINE v == NewVoxel(c, lru_counter)
               w == Touched(v, p)
               M == N + 1
    <3>1. /\ flat_voxels' = Append(flat_voxels, Touched(NewVoxel(c, lru_counter), p))
          /\ voxels' = [k \in DOMAIN voxels \cup {c} |-> IF k = c THEN M ELSE voxels[k]]
      BY <2>2 DEF AddPoint, AddToVoxel, NextPosition
    <3>2. /\ v \in Voxel /\ Divided(v) /\ v.num_points = 0 /\ v.mean.total = Abstract!Zero
          /\ flat_voxels'[M] = w
          /\ \A j \in 1 .. N : flat_voxels'[j] = flat_voxels[j]
      BY <1>1, <2>2, <3>1, AddOpened
    <3> HIDE DEF v
    <3>3. /\ w.num_points = 0 + 1 /\ w.lru = lru_counter
          /\ w.mean.total = Abstract!Plus(Abstract!Zero, p)
      BY <1>1, <3>2, TouchedFacts
    <3> HIDE DEF w
    <3>4. Abstract!CellAt(c) = [n |-> 0, sum |-> Abstract!Zero, lru |-> 0]
      BY <2>2, CellsFacts DEF Abstract!CellAt, Abstract!NewCell
    <3>5. CellOf(flat_voxels'[voxels'[c]]) = cell
      BY <3>1, <3>2, <3>3, <3>4 DEF CellOf
    <3>6. ASSUME NEW k \in DOMAIN voxels, k # c
          PROVE  CellOf(flat_voxels'[voxels'[k]]) = Cells[k]
      <4>1. voxels[k] \in 1 .. N
        BY <1>2, IndexEntry
      <4>2. QED
        BY <3>1, <3>2, <3>6, <4>1, CellsFacts
    <3>7. QED
      BY <3>1, <3>5, <3>6
  <2>3. QED
    BY <2>1, <2>2
<1> HIDE DEF cell, c, p
<1>4. Cells' = [k \in DOMAIN Cells \cup {c} |-> IF k = c THEN cell ELSE Cells[k]]
  BY <1>3, CellsFacts
<1>5. QED
  BY <1>1, <1>4 DEF Abstract!AddPoint, cell, c, p

\* The end of an insert is a tick of the abstract map, and a clear cycle
\* forgets exactly the stale cells.
LEMMA FinishRefines ==
    ASSUME IInv, FinishInsert
    PROVE  Abstract!Tick
<1> DEFINE N == Len(flat_voxels)
           now == lru_counter'
           Fresh == {j \in DOMAIN Cells : ~Abstract!Stale(Cells[j], now)}
<1>1. lru_counter' = lru_counter + 1 /\ lru_counter \in Nat /\ now \in Nat
  BY DEF FinishInsert, IInv, TypeOK
<1>2. IndexConsistent /\ \A j \in 1 .. N : flat_voxels[j] \in Voxel
  BY FlatElements DEF IInv
<1>3. CASE lru_counter' % Cycle # 0
  <2>1. flat_voxels' = Finalized(flat_voxels) /\ UNCHANGED voxels
    BY <1>3 DEF FinishInsert
  <2>2. \A i \in 1 .. N : Divided(flat_voxels[i]) /\ flat_voxels[i].num_points > 0
    BY DEF IInv, MeansFinal, Divided
  <2>3. flat_voxels \in Seq(Voxel)
    BY DEF IInv, TypeOK
  <2>4. \A i \in 1 .. N : /\ flat_voxels'[i].num_points = flat_voxels[i].num_points
                          /\ flat_voxels'[i].lru = flat_voxels[i].lru
                          /\ flat_voxels'[i].mean.total = flat_voxels[i].mean.total
    BY <2>1, <2>2, <2>3, FinalizedFacts
  <2>5. \A k \in DOMAIN voxels : CellOf(flat_voxels'[voxels'[k]]) = CellOf(flat_voxels[voxels[k]])
    BY <1>2, <2>1, <2>4, IndexEntry DEF CellOf
  <2>6. Cells' = Cells
    BY <2>1, <2>5, CellsFacts
  <2>7. QED
    BY <1>1, <1>3, <2>6 DEF Abstract!Tick
<1>4. CASE lru_counter' % Cycle = 0
  <2>1. ClearCycle(now)
    BY <1>4 DEF FinishInsert
  <2>2. PICK m \in Nat : \E keep \in [1 .. m -> 1 .. N] : Cleared(m, keep, now)
    BY <1>1, <2>1, ClearFacts
  <2>3. PICK keep \in [1 .. m -> 1 .. N] : Cleared(m, keep, now)
    BY <2>2
  <2>4. \A k \in DOMAIN voxels :
           k \in Fresh <=> ~Expired(flat_voxels[voxels[k]], now)
    BY CellsFacts DEF Abstract!Stale, Expired, CellOf
  <2>5. ASSUME NEW i \in 1 .. m
        PROVE  /\ flat_voxels'[i].coord \in Fresh
               /\ voxels'[flat_voxels'[i].coord] = i
               /\ CellOf(flat_voxels'[i]) = Cells[flat_voxels'[i].coord]
    <3> DEFINE k == flat_voxels[keep[i]].coord
    <3>1. keep[i] \in 1 .. N /\ flat_voxels'[i].coord = k /\ voxels'[flat_voxels'[i].coord] = i
      BY <2>3 DEF Cleared
    <3>2. k \in DOMAIN voxels /\ voxels[k] = keep[i]
      BY <1>2, <3>1 DEF IndexConsistent
    <3>3. k \in Fresh
      <4>1. ~Expired(flat_voxels[keep[i]], now)
        BY <2>3 DEF Cleared
      <4>2. QED
        BY <2>4, <3>2, <4>1
    <3>4. CellOf(flat_voxels'[i]) = CellOf(flat_voxels[keep[i]])
      BY <2>3 DEF Cleared, CellOf
    <3>5. CellOf(flat_voxels'[i]) = Cells[k]
      BY <3>2, <3>4, CellsFacts
    <3>6. QED
      BY <3>1, <3>3, <3>5
  <2>6. ASSUME NEW k \in Fresh
        PROVE  \E i \in 1 .. m : flat_voxels'[i].coord = k
    <3>1. k \in DOMAIN voxels
      BY CellsFacts
    <3>2. voxels[k] \in 1 .. N /\ flat_voxels[voxels[k]].coord = k
      BY <1>2, <3>1, IndexEntry
    <3>3. PICK i \in 1 .. m : keep[i] = voxels[k]
      BY <2>3, <2>4, <3>1, <3>2 DEF Cleared
    <3>4. QED
      BY <2>3, <3>2, <3>3 DEF Cleared
  <2> HIDE DEF Fresh
  <2>7. DOMAIN voxels' = Fresh
    <3>1. DOMAIN voxels' = {flat_voxels'[i].coord : i \in 1 .. m}
      BY <2>3 DEF Cleared
    <3>2. QED
      BY <2>5, <2>6, <3>1
  <2>8. \A k \in Fresh : CellOf(flat_voxels'[voxels'[k]]) = Cells[k]
    BY <2>5, <2>6
  <2>9. Cells' = [k \in Fresh |-> Cells[k]]
    BY <2>7, <2>8, CellsFacts
  <2>10. QED
    BY <1>1, <1>4, <2>9 DEF Abstract!Tick, Fresh
<1>5. QED
  BY <1>3, <1>4

\* Steps that leave the voxels and the counter alone leave the abstract map
\* alone.
LEMMA StutterRefines ==
    ASSUME UNCHANGED <<flat_voxels, voxels, lru_counter>>
    PROVE  UNCHANGED <<lru_counter, Cells>>
  BY DEF Cells

\* The vector, the index map and the rehashing together implement the map of
\* VoxelMapSpec: no point is lost or counted twice, no voxel is forgotten early
\* or outside a clear cycle.
THEOREM Refinement == Spec => RefinesSpec
<1>1. Init => Abstract!InitSpec
  BY InitRefines
<1>2. IInv /\ [Next]_vars => [Abstract!NextSpec]_<<lru_counter, Cells>>
  <2> SUFFICES ASSUME IInv, [Next]_vars
               PROVE  Abstract!NextSpec \/ UNCHANGED <<lru_counter, Cells>>
    OBVIOUS
  <2>1. CASE StartInsert
    BY <2>1, StutterRefines DEF StartInsert
  <2>2. CASE AddPoint
    <3>1. Head(scan) \in Points
      BY <2>2, ScanSplit DEF AddPoint, IInv
    <3>2. QED
      BY <2>2, <3>1, AddPointRefines DEF Abstract!NextSpec
  <2>3. CASE FinishInsert
    BY <2>3, FinishRefines DEF Abstract!NextSpec
  <2>4. ASSUME NEW n \in NumOffsets, SetSearchOffsets(n)
        PROVE  UNCHANGED <<lru_counter, Cells>>
    BY <2>4, StutterRefines DEF SetSearchOffsets
  <2>5. CASE UNCHANGED vars
    BY <2>5, StutterRefines DEF vars
  <2>6. QED
    BY <2>1, <2>2, <2>3, <2>4, <2>5 DEF Next
<1>3. QED
  BY <1>1, <1>2, Invariance, PTL DEF Spec, RefinesSpec, Abstract!SpecMap, Abstract!specVars

-----------------------------------------------------------------------------
(* The map over FlatContainer.                                             *)
-----------------------------------------------------------------------------
\* The steps of the two maps are the same, whatever the voxels hold.
LEMMA FlatStep == [NextFlat]_flatVars => [Next]_vars
  BY DEF NextFlat, Next, AddPointFlat, FinishInsertFlat, flatVars

\* The map over FlatContainer is an incremental voxel map.
THEOREM FlatImplements == SpecFlat => Spec
<1>1. InitFlat => Init
  BY DEF InitFlat
<1>2. QED
  BY <1>1, FlatStep, PTL DEF SpecFlat, Spec

-----------------------------------------------------------------------------
\* The points of one voxel: not too many, none too close to an earlier one, and
\* all of the voxel.
Cell(points, coord) ==
    /\ points \in Seq(Points)
    /\ Len(points) \in 1 .. MaxNumPoints
    /\ \A i \in 1 .. Len(points) :
        /\ Abstract!Coord(points[i]) = coord
        /\ \A j \in 1 .. i - 1 : SqDist(points[j], points[i]) >= MinSqDist

LEMMA SqDistType ==
    ASSUME NEW p \in Points, NEW q \in Points
    PROVE  SqDist(p, q) \in Int
<1>1. /\ p[1] \in Int /\ p[2] \in Int /\ p[3] \in Int
      /\ q[1] \in Int /\ q[2] \in Int /\ q[3] \in Int
  BY PointsAssumption
<1>2. \A a, b \in Int : (a - b) * (a - b) \in Int
  OBVIOUS
<1>3. /\ (p[1] - q[1]) * (p[1] - q[1]) \in Int
      /\ (p[2] - q[2]) * (p[2] - q[2]) \in Int
      /\ (p[3] - q[3]) * (p[3] - q[3]) \in Int
  BY <1>1, <1>2
<1>4. QED
  BY <1>3 DEF SqDist

\* A squared distance is not negative.
LEMMA SqDistNat ==
    ASSUME NEW p \in Points, NEW q \in Points
    PROVE  SqDist(p, q) \in Nat
<1>1. /\ p[1] \in Int /\ p[2] \in Int /\ p[3] \in Int
      /\ q[1] \in Int /\ q[2] \in Int /\ q[3] \in Int
  BY PointsAssumption
<1>2. \A d \in Int : d * d \in Nat
  OBVIOUS
<1>3. \A a, b \in Int : (a - b) * (a - b) \in Nat
  BY <1>2
<1>4. /\ (p[1] - q[1]) * (p[1] - q[1]) \in Nat
      /\ (p[2] - q[2]) * (p[2] - q[2]) \in Nat
      /\ (p[3] - q[3]) * (p[3] - q[3]) \in Nat
  BY <1>1, <1>3
<1>5. QED
  BY <1>4 DEF SqDist

\* FlatContainer::add on the points of a voxel.
LEMMA ThinnedCell ==
    ASSUME NEW points, NEW coord, NEW p \in Points, Abstract!Coord(p) = coord,
           Cell(points, coord)
    PROVE  Cell(Thinned(points, p), coord)
<1>1. CASE Len(points) >= MaxNumPoints
           \/ \E i \in 1 .. Len(points) : SqDist(points[i], p) < MinSqDist
  BY <1>1 DEF Thinned
<1>2. CASE ~(Len(points) >= MaxNumPoints
             \/ \E i \in 1 .. Len(points) : SqDist(points[i], p) < MinSqDist)
  <2> DEFINE n == Len(points)
             longer == Append(points, p)
  <2>1. /\ points \in Seq(Points) /\ n \in Nat /\ n < MaxNumPoints
        /\ \A i \in 1 .. n : points[i] \in Points
    BY <1>2, LenProperties, ElementOfSeq, SettingAssumption DEF Cell
  <2>2. ASSUME NEW i \in 1 .. n PROVE SqDist(points[i], p) >= MinSqDist
    <3>1. SqDist(points[i], p) \in Int
      BY <2>1, SqDistType
    <3>2. ~(SqDist(points[i], p) < MinSqDist)
      BY <1>2
    <3>3. QED
      BY <3>1, <3>2, SettingAssumption
  <2>3. /\ longer \in Seq(Points) /\ Len(longer) = n + 1 /\ longer[n + 1] = p
        /\ \A i \in 1 .. n : longer[i] = points[i]
    BY <2>1, AppendProperties
  <2>4. Thinned(points, p) = longer
    BY <1>2 DEF Thinned
  <2> HIDE DEF longer
  <2>5. ASSUME NEW i \in 1 .. n + 1
        PROVE  /\ Abstract!Coord(longer[i]) = coord
               /\ \A j \in 1 .. i - 1 : SqDist(longer[j], longer[i]) >= MinSqDist
    <3>1. CASE i = n + 1
      BY <2>1, <2>2, <2>3, <3>1
    <3>2. CASE i # n + 1
      <4>1. i \in 1 .. n /\ \A j \in 1 .. i - 1 : j \in 1 .. n
        BY <2>1, <3>2
      <4>2. QED
        BY <2>3, <4>1 DEF Cell
    <3>3. QED
      BY <3>1, <3>2
  <2>6. n + 1 \in 1 .. MaxNumPoints
    BY <2>1, SettingAssumption
  <2>7. QED
    BY <2>3, <2>4, <2>5, <2>6 DEF Cell
<1>3. QED
  BY <1>1, <1>2

\* The first point of a voxel is always taken.
LEMMA FirstPoint ==
    ASSUME NEW p \in Points
    PROVE  Cell(Thinned(<<>>, p), Abstract!Coord(p))
<1>1. <<>> \in Seq(Points) /\ Len(<<>>) = 0
  BY EmptySeq
<1>2. Thinned(<<>>, p) = Append(<<>>, p)
  BY <1>1, SettingAssumption DEF Thinned
<1> DEFINE one == Append(<<>>, p)
<1>3. one \in Seq(Points) /\ Len(one) = 1 /\ one[1] = p
  BY <1>1, AppendProperties
<1> HIDE DEF one
<1>4. 1 \in 1 .. MaxNumPoints /\ \A i \in 1 .. 1 : i = 1 /\ 1 .. i - 1 = {}
  BY SettingAssumption
<1>5. Cell(one, Abstract!Coord(p))
  BY <1>3, <1>4 DEF Cell
<1>6. QED
  BY <1>2, <1>5 DEF one

\* Every voxel of the vector has its points at its position.
FlatInv ==
    /\ contents \in Seq(Seq(Points))
    /\ Len(contents) = Len(flat_voxels)
    /\ \A v \in 1 .. Len(contents) : Cell(contents[v], flat_voxels[v].coord)

LEMMA AddPointKeeps ==
    ASSUME IInv, FlatInv, AddPointFlat
    PROVE  FlatInv'
<1> DEFINE p == Head(scan)
           c == Abstract!Coord(p)
           n == Len(flat_voxels)
<1>1. p \in Points /\ AddToVoxel(p)
  BY ScanSplit DEF AddPointFlat, AddPoint, IInv
<1>2. /\ contents \in Seq(Seq(Points)) /\ Len(contents) = n /\ n \in Nat
      /\ \A v \in 1 .. n : Cell(contents[v], flat_voxels[v].coord)
      /\ \A v \in 1 .. n : flat_voxels[v] \in Voxel
  BY FlatElements DEF FlatInv, IInv
<1>3. /\ c \in DOMAIN voxels => contents' = [contents EXCEPT ![voxels[c]] = Thinned(@, p)]
      /\ c \notin DOMAIN voxels => contents' = Append(contents, Thinned(<<>>, p))
  BY DEF AddPointFlat
<1>4. CASE c \in DOMAIN voxels
  <2> DEFINE i == voxels[c]
  <2>1. /\ flat_voxels' = [flat_voxels EXCEPT ![i] = Touched(@, p)]
        /\ UNCHANGED voxels
    BY <1>1, <1>4 DEF AddToVoxel
  <2>2. /\ i \in 1 .. n /\ flat_voxels[i].coord = c
        /\ Len(flat_voxels') = n /\ flat_voxels'[i] = Touched(flat_voxels[i], p)
        /\ \A j \in 1 .. n : j # i => flat_voxels'[j] = flat_voxels[j]
        /\ Divided(flat_voxels[i])
    BY <1>1, <1>4, <2>1, AddFound
  <2> HIDE DEF p, c, i
  <2>3. flat_voxels'[i].coord = c
    <3>1. flat_voxels[i] \in Voxel /\ p \in Points /\ lru_counter \in Nat /\ Divided(flat_voxels[i])
      BY <1>1, <1>2, <2>2 DEF IInv, TypeOK
    <3>2. Touched(flat_voxels[i], p).coord = flat_voxels[i].coord
      BY <3>1, TouchedFacts
    <3>3. QED
      BY <2>2, <3>2
  <2>4. Cell(contents[i], c)
    BY <1>2, <2>2
  <2>5. Cell(Thinned(contents[i], p), c)
    BY <1>1, <2>4, ThinnedCell DEF c
  <2>6. Thinned(contents[i], p) \in Seq(Points)
    BY <2>5 DEF Cell
  <2>7. /\ contents' \in Seq(Seq(Points)) /\ Len(contents') = n
        /\ contents'[i] = Thinned(contents[i], p)
        /\ \A v \in 1 .. n : v # i => contents'[v] = contents[v]
    <3>1. contents' = [contents EXCEPT ![i] = Thinned(contents[i], p)]
      BY <1>3, <1>4 DEF i
    <3> DEFINE S == Seq(Points)
               e == Thinned(contents[i], p)
    <3>2. contents \in Seq(S) /\ e \in S /\ i \in 1 .. Len(contents)
      BY <1>2, <2>2, <2>6
    <3> HIDE DEF S, e
    <3>3. LET d == [contents EXCEPT ![i] = e] IN
          d \in Seq(S) /\ Len(d) = Len(contents)
          /\ \A j \in 1 .. Len(contents) : d[j] = IF j = i THEN e ELSE contents[j]
      BY ONLY <3>2, ExceptSeq
    <3>4. QED
      BY <1>2, <2>2, <3>1, <3>3 DEF S, e
  <2>8. QED
    BY <1>2, <2>2, <2>3, <2>5, <2>7 DEF FlatInv
<1>5. CASE c \notin DOMAIN voxels
  <2> DEFINE v0 == NewVoxel(c, lru_counter)
             e == Thinned(<<>>, p)
  <2>1. flat_voxels' = Append(flat_voxels, Touched(v0, p))
    BY <1>1, <1>5 DEF AddToVoxel
  <2>2. /\ v0 \in Voxel /\ Divided(v0) /\ v0.coord = c
        /\ Len(flat_voxels') = n + 1 /\ flat_voxels'[n + 1] = Touched(v0, p)
        /\ \A j \in 1 .. n : flat_voxels'[j] = flat_voxels[j]
    BY <1>1, <1>5, <2>1, AddOpened
  <2>3. flat_voxels'[n + 1].coord = c
    <3> HIDE DEF v0, p, c
    <3>1. p \in Points /\ lru_counter \in Nat
      BY <1>1 DEF IInv, TypeOK
    <3>2. Touched(v0, p).coord = v0.coord
      BY <2>2, <3>1, TouchedFacts
    <3>3. QED
      BY <2>2, <3>2
  <2>4. Cell(e, c)
    BY <1>1, FirstPoint
  <2>5. contents' = Append(contents, e)
    BY <1>3, <1>5
  <2> DEFINE S == Seq(Points)
  <2>6. e \in S /\ contents \in Seq(S)
    BY <1>2, <2>4 DEF Cell
  <2> HIDE DEF e, v0, c, p, S
  <2>7. /\ contents' \in Seq(S) /\ Len(contents') = n + 1 /\ contents'[n + 1] = e
        /\ \A v \in 1 .. n : contents'[v] = contents[v]
    BY <1>2, <2>5, <2>6, AppendProperties
  <2>8. ASSUME NEW v \in 1 .. n + 1 PROVE Cell(contents'[v], flat_voxels'[v].coord)
    <3>1. CASE v = n + 1
      BY <2>3, <2>4, <2>7, <3>1
    <3>2. CASE v # n + 1
      <4>1. v \in 1 .. n
        BY <1>2, <3>2
      <4>2. QED
        BY <1>2, <2>2, <2>7, <4>1
    <3>3. QED
      BY <3>1, <3>2
  <2>9. QED
    BY <2>2, <2>7, <2>8 DEF FlatInv, S
<1>6. QED
  BY <1>4, <1>5

\* Deletion and rehash leave voxels that were there.
LEMMA LeftBehind ==
    ASSUME IInv, FinishInsert
    PROVE  /\ Len(flat_voxels') \in Nat
           /\ \A i \in 1 .. Len(flat_voxels') : flat_voxels'[i].coord \in DOMAIN voxels
<1>1. /\ flat_voxels \in Seq(Voxel) /\ Len(flat_voxels) \in Nat /\ lru_counter \in Nat
      /\ \A i \in 1 .. Len(flat_voxels) : flat_voxels[i] \in Voxel
      /\ \A i \in 1 .. Len(flat_voxels) : flat_voxels[i].coord \in DOMAIN voxels
  BY FlatElements DEF IInv, TypeOK, IndexConsistent
<1>2. CASE lru_counter' % Cycle = 0
  <2>1. lru_counter' \in Nat /\ ClearCycle(lru_counter')
    BY <1>1, <1>2 DEF FinishInsert
  <2>2. PICK m \in Nat : \E keep \in [1 .. m -> 1 .. Len(flat_voxels)] : Cleared(m, keep, lru_counter')
    BY <2>1, ClearFacts
  <2>3. PICK keep \in [1 .. m -> 1 .. Len(flat_voxels)] : Cleared(m, keep, lru_counter')
    BY <2>2
  <2>4. QED
    BY <1>1, <2>3 DEF Cleared
<1>3. CASE lru_counter' % Cycle # 0
  <2>1. flat_voxels' = Finalized(flat_voxels)
    BY <1>3 DEF FinishInsert
  <2>2. \A i \in 1 .. Len(flat_voxels) : Divided(flat_voxels[i]) /\ flat_voxels[i].num_points > 0
    BY DEF IInv, MeansFinal, Divided
  <2>3. QED
    BY <1>1, <2>1, <2>2, FinalizedFacts
<1>4. QED
  BY <1>2, <1>3

LEMMA FinishKeeps ==
    ASSUME IInv, FlatInv, FinishInsertFlat
    PROVE  FlatInv'
<1> DEFINE n == Len(flat_voxels')
<1>1. FinishInsert /\ contents' = [i \in 1 .. n |-> contents[voxels[flat_voxels'[i].coord]]]
  BY DEF FinishInsertFlat, MovedAlong
<1>2. n \in Nat /\ \A i \in 1 .. n : flat_voxels'[i].coord \in DOMAIN voxels
  BY <1>1, LeftBehind
<1> HIDE DEF n
<1>3. \A k \in DOMAIN voxels : voxels[k] \in 1 .. Len(flat_voxels) /\ flat_voxels[voxels[k]].coord = k
  BY IndexEntry DEF IInv
<1>4. ASSUME NEW i \in 1 .. n
      PROVE  Cell(contents'[i], flat_voxels'[i].coord)
  <2> DEFINE k == flat_voxels'[i].coord
  <2>1. /\ voxels[k] \in 1 .. Len(contents) /\ flat_voxels[voxels[k]].coord = k
    BY <1>2, <1>3 DEF FlatInv
  <2>2. contents'[i] = contents[voxels[k]]
    BY <1>1
  <2>3. QED
    BY <2>1, <2>2 DEF FlatInv
<1>5. contents' \in [1 .. n -> Seq(Points)]
  BY <1>1, <1>4 DEF Cell
<1>6. contents' \in Seq(Seq(Points)) /\ Len(contents') = n
  BY <1>2, <1>5, FunctionSeq
<1>7. QED
  BY <1>4, <1>6 DEF FlatInv, n

LEMMA FlatStays ==
    ASSUME FlatInv, UNCHANGED <<flat_voxels, contents>>
    PROVE  FlatInv'
  BY DEF FlatInv

\* FlatInv is inductive on the invariant of the voxel map.
LEMMA CellsKept == SpecFlat => []FlatInv
<1>1. InitFlat => FlatInv
  <2>1. <<>> \in Seq(Seq(Points)) /\ Len(<<>>) = 0
    BY EmptySeq
  <2>2. QED
    BY <2>1 DEF InitFlat, Init, FlatInv
<1>2. IInv /\ FlatInv /\ [NextFlat]_flatVars => FlatInv'
  <2> SUFFICES ASSUME IInv, FlatInv, [NextFlat]_flatVars PROVE FlatInv'
    OBVIOUS
  <2>1. CASE StartInsert /\ UNCHANGED contents
    BY <2>1, FlatStays DEF StartInsert
  <2>2. CASE AddPointFlat
    BY <2>2, AddPointKeeps
  <2>3. CASE FinishInsertFlat
    BY <2>3, FinishKeeps
  <2>4. ASSUME NEW n \in NumOffsets, SetSearchOffsets(n) /\ UNCHANGED contents PROVE FlatInv'
    BY <2>4, FlatStays DEF SetSearchOffsets
  <2>5. CASE UNCHANGED flatVars
    BY <2>5, FlatStays DEF flatVars, vars
  <2>6. QED
    BY <2>1, <2>2, <2>3, <2>4, <2>5 DEF NextFlat
<1>3. QED
  BY <1>1, <1>2, FlatImplements, Invariance, PTL DEF SpecFlat

\* Every voxel keeps points of its own, at least one, not too many and not too
\* close to each other, through any scans and deletions.
THEOREM ThinnedCells == SpecFlat => []CellsThinned
<1>1. FlatInv => CellsThinned
  BY DEF FlatInv, CellsThinned, Cell
<1>2. QED
  BY <1>1, CellsKept, PTL

-----------------------------------------------------------------------------
(* Arithmetic.                                                             *)
-----------------------------------------------------------------------------
\* Every set of natural numbers has a least element.
LEMMA LeastNat ==
    ASSUME NEW S, S \subseteq Nat, S # {}
    PROVE  \E m \in S : \A n \in S : m <= n
<1> DEFINE R == {ss \in Nat \X Nat : ss[1] < ss[2]}
<1>1. IsWellFoundedOn(R, Nat)
  BY NatLessThanWellFounded DEF OpToRel
<1>2. \A m, n \in Nat : <<n, m>> \in R <=> n < m
  OBVIOUS
<1> HIDE DEF R
<1>3. PICK m \in S : \A n \in S : <<n, m>> \notin R
  BY <1>1, WFMin
<1>4. ASSUME NEW n \in S PROVE m <= n
  <2>1. m \in Nat /\ n \in Nat
    OBVIOUS
  <2>2. ~(n < m)
    BY <1>2, <1>3, <2>1
  <2>3. QED
    BY <2>1, <2>2
<1>5. QED
  BY <1>3, <1>4

LEMMA Apart ==
    ASSUME NEW s \in Nat \ {0}, NEW u \in Int, NEW v \in Int, u < v
    PROVE  s * v >= s * u + s
<1>1. PICK d \in Nat : v = u + 1 + d
  <2>1. v - u - 1 \in Nat /\ v = u + 1 + (v - u - 1)
    OBVIOUS
  <2>2. QED
    BY <2>1
<1>2. s * (u + 1 + d) = s * u + s + s * d /\ s * d >= 0
  OBVIOUS
<1>3. QED
  BY <1>1, <1>2

\* Quotient and remainder are what they are taken from.
LEMMA DivMod ==
    ASSUME NEW s \in Nat \ {0}, NEW x \in Int
    PROVE  x \div s \in Int /\ x % s \in 0 .. s - 1 /\ x = s * (x \div s) + (x % s)
<1>1. s \in Int /\ s > 0 /\ x \in Int
  OBVIOUS
<1>2. x \div s \in Int /\ x % s \in Int
  BY <1>1
<1>3. x = s * (x \div s) + (x % s)
  BY <1>1
<1>4. 0 <= x % s /\ x % s < s
  BY <1>1
<1>5. QED
  BY <1>1, <1>2, <1>3, <1>4

LEMMA Digits ==
    ASSUME NEW s \in Nat \ {0}, NEW x \in Int, NEW a \in 0 .. s - 1, NEW y \in Int, x = a + s * y
    PROVE  x % s = a /\ x \div s = y
<1> DEFINE d == x \div s
           m == x % s
<1>1. d \in Int /\ m \in 0 .. s - 1 /\ x = s * d + m /\ s * d \in Int
  BY DivMod
<1> HIDE DEF d, m
<1>2. s * y \in Int
  OBVIOUS
<1>3. ~(d < y)
  <2>1. d < y => s * y >= s * d + s
    BY <1>1, Apart
  <2>2. QED
    BY <1>1, <1>2, <2>1
<1>4. ~(y < d)
  <2>1. y < d => s * d >= s * y + s
    BY <1>1, Apart
  <2>2. QED
    BY <1>1, <1>2, <2>1
<1>5. d = y
  BY <1>1, <1>3, <1>4
<1>6. m = a
  BY <1>1, <1>2, <1>5
<1>7. QED
  BY <1>5, <1>6 DEF d, m

-----------------------------------------------------------------------------
(* Counting.                                                               *)
-----------------------------------------------------------------------------
LEMMA AtMost ==
    ASSUME NEW m \in Nat, NEW f, NEW S, \A x \in S : \E j \in 1 .. m : f[j] = x
    PROVE  IsFiniteSet(S) /\ Cardinality(S) <= m
<1> DEFINE at == [x \in S |-> CHOOSE j \in 1 .. m : f[j] = x]
<1>1. \A x \in S : at[x] \in 1 .. m /\ f[at[x]] = x
  OBVIOUS
<1>2. at \in [S -> 1 .. m]
  BY <1>1
<1> HIDE DEF at
<1>3. at \in Injection(S, 1 .. m)
  BY <1>1, <1>2 DEF Injection, IsInjective
<1>4. IsFiniteSet(1 .. m) /\ Cardinality(1 .. m) = m
  BY FS_Interval
<1>5. QED
  BY <1>3, <1>4, FS_Injection

LEMMA AtLeast ==
    ASSUME NEW m \in Nat, NEW f, NEW S, IsFiniteSet(S),
           \A j \in 1 .. m : f[j] \in S,
           \A i, j \in 1 .. m : i # j => f[i] # f[j]
    PROVE  m <= Cardinality(S)
<1> DEFINE g == [j \in 1 .. m |-> f[j]]
<1>1. g \in Injection(1 .. m, S)
  BY DEF Injection, IsInjective
<1>2. Cardinality(1 .. m) = m
  BY FS_Interval
<1>3. Cardinality(1 .. m) <= Cardinality(S)
  BY <1>1, FS_Injection
<1>4. QED
  BY <1>2, <1>3

-----------------------------------------------------------------------------
(* The result buffer, as for the k-d tree.                                 *)
-----------------------------------------------------------------------------
\* A buffer for k neighbours: sorted, without repetition, filled from the front.
Buffer(r, k) ==
    /\ r.found \in 0 .. k
    /\ r.indices \in [1 .. k -> Int]
    /\ r.distances \in [1 .. k -> 0 .. MaxDistance]
    /\ \A i, j \in 1 .. k : i <= j => r.distances[i] <= r.distances[j]
    /\ \A i \in 1 .. k : i > r.found => r.distances[i] = MaxDistance
    /\ \A i, j \in 1 .. r.found : i # j => r.indices[i] # r.indices[j]

TakenOf(r) == {r.indices[i] : i \in 1 .. r.found}

\* The worst entry of a buffer is its last.
LEMMA WorstOf ==
    ASSUME NEW r, NEW k \in Nat \ {0}, Buffer(r, k)
    PROVE  Len(r.distances) = k /\ worst_distance(r) = r.distances[k]
<1>1. r.distances \in [1 .. k -> 0 .. MaxDistance] /\ k \in Nat
  BY DEF Buffer
<1>2. r.distances \in Seq(0 .. MaxDistance)
  BY <1>1, SeqDef
<1>3. Len(r.distances) = k
  BY <1>1, <1>2, LenProperties
<1>4. QED
  BY <1>3 DEF worst_distance, Last

LEMMA EmptyBuffer ==
    ASSUME NEW k \in Nat \ {0}
    PROVE  Buffer(EmptyResult(k), k) /\ EmptyResult(k).found = 0
  BY DistanceAssumption DEF Buffer, EmptyResult, INVALID

\* Where push inserts: behind the entries that are not worse.
LEMMA PlaceOf ==
    ASSUME NEW k \in Nat \ {0}, NEW end \in 1 .. k, NEW ds \in [1 .. k -> 0 .. MaxDistance], NEW d \in Nat,
           \A i, j \in 1 .. k : i <= j => ds[i] <= ds[j],
           NEW loc \in 1 .. end, \A j \in loc .. end - 1 : d < ds[j],
           \A i \in 1 .. end : (\A j \in i .. end - 1 : d < ds[j]) => loc <= i
    PROVE  \A j \in 1 .. k : j < loc => ds[j] <= d
<1> SUFFICES ASSUME NEW j \in 1 .. k, j < loc, ~(ds[j] <= d) PROVE FALSE
  OBVIOUS
<1>1. j \in 1 .. end /\ ds[j] \in Nat /\ d < ds[j]
  BY DistanceAssumption
<1>2. \A i \in j .. end - 1 : d < ds[i]
  <2> SUFFICES ASSUME NEW i \in j .. end - 1 PROVE d < ds[i]
    OBVIOUS
  <2>1. i \in 1 .. k /\ j <= i
    OBVIOUS
  <2>2. ds[j] <= ds[i] /\ ds[i] \in Nat
    BY <2>1, DistanceAssumption
  <2>3. QED
    BY <1>1, <2>2
<1>3. loc <= j
  BY <1>1, <1>2
<1>4. QED
  BY <1>3

\* A push keeps the buffer sorted; what it displaces, or refuses, is no closer
\* than the worst that stays.
LEMMA PushBuffer ==
    ASSUME NEW r, NEW k \in Nat \ {0}, Buffer(r, k), NEW x \in Int, NEW d \in Nat, d < MaxDistance,
           x \notin TakenOf(r), NEW s, s = push(r, x, d)
    PROVE  /\ Buffer(s, k)
           /\ worst_distance(s) <= worst_distance(r)
           /\ \A i \in 1 .. s.found :
                 \/ s.indices[i] = x /\ s.distances[i] = d
                 \/ \E j \in 1 .. r.found : s.indices[i] = r.indices[j] /\ s.distances[i] = r.distances[j]
           /\ \A j \in 1 .. r.found :
                 r.indices[j] \in TakenOf(s) \/ r.distances[j] >= worst_distance(s)
           /\ x \in TakenOf(s) \/ d >= worst_distance(s)
<1> DEFINE end == IF r.found < k THEN r.found + 1 ELSE k
           loc == Min({i \in 1 .. end : \A j \in i .. end - 1 : d < r.distances[j]})
           put(f, v) == [i \in 1 .. k |-> IF i = loc THEN v
                                          ELSE IF i > loc /\ i <= end THEN f[i - 1] ELSE f[i]]
<1>1. r.found \in 0 .. k /\ MaxDistance \in Nat
  BY DistanceAssumption DEF Buffer
<1>2. r.indices \in [1 .. k -> Int] /\ r.distances \in [1 .. k -> 0 .. MaxDistance]
  BY DEF Buffer
<1>3. \A i, j \in 1 .. k : i <= j => r.distances[i] <= r.distances[j]
  BY DEF Buffer
<1>4. \A i \in 1 .. k : i > r.found => r.distances[i] = MaxDistance
  BY DEF Buffer
<1>5. \A i, j \in 1 .. r.found : i # j => r.indices[i] # r.indices[j]
  BY DEF Buffer
<1>6. Len(r.distances) = k /\ worst_distance(r) = r.distances[k]
  BY WorstOf
<1>7. s = IF d >= r.distances[k] THEN r
          ELSE [found |-> IF r.found < k THEN r.found + 1 ELSE k,
                indices |-> put(r.indices, x), distances |-> put(r.distances, d)]
  BY <1>6 DEF push
<1>8. \A i \in 1 .. k : r.distances[i] \in Nat
  BY <1>1, <1>2
<1>9. CASE d >= r.distances[k]
  <2>1. s = r
    BY <1>7, <1>9
  <2>2. r.distances[k] \in Nat
    BY <1>8
  <2>3. QED
    BY <1>6, <1>9, <2>1, <2>2 DEF TakenOf
<1>10. CASE ~(d >= r.distances[k])
  <2>1. end \in 1 .. k
    BY <1>1
  <2>2. d < r.distances[k]
    BY <1>8, <1>10
  <2>3. s.found = end /\ s.indices = put(r.indices, x) /\ s.distances = put(r.distances, d)
    BY <1>7, <1>10
  <2>4. r.found <= end /\ end <= r.found + 1 /\ (end = r.found => end = k) /\ end \in Nat
    BY <1>1
  <2> HIDE DEF end
  <2>5. /\ loc \in 1 .. end
        /\ \A j \in 1 .. k : j < loc => r.distances[j] <= d
        /\ \A j \in loc .. end - 1 : d < r.distances[j]
    <3> DEFINE ds == r.distances
    <3>1. ds \in [1 .. k -> 0 .. MaxDistance] /\ \A i, j \in 1 .. k : i <= j => ds[i] <= ds[j]
      BY <1>2, <1>3
    <3> DEFINE Worse == {i \in 1 .. end : \A j \in i .. end - 1 : d < ds[j]}
    <3>2. end \in Worse /\ Worse \subseteq Nat
      BY <2>1
    <3>3. \E m \in Worse : \A n \in Worse : m <= n
      BY <3>2, LeastNat
    <3>4. loc \in Worse /\ \A n \in Worse : loc <= n
      BY <3>3 DEF Min
    <3> HIDE DEF ds, loc
    <3>5. /\ loc \in 1 .. end /\ \A j \in loc .. end - 1 : d < ds[j]
          /\ \A i \in 1 .. end : (\A j \in i .. end - 1 : d < ds[j]) => loc <= i
      BY <3>4
    <3> HIDE DEF Worse
    <3>6. \A j \in 1 .. k : j < loc => ds[j] <= d
      BY <2>1, <3>1, <3>5, PlaceOf
    <3>7. QED
      BY <3>5, <3>6 DEF ds
  <2> HIDE DEF loc
  <2>6. \A i \in 1 .. k : i < loc => s.distances[i] = r.distances[i] /\ s.indices[i] = r.indices[i]
    BY <2>1, <2>3, <2>5
  <2>7. s.distances[loc] = d /\ s.indices[loc] = x /\ loc \in 1 .. k
    BY <2>1, <2>3, <2>5
  <2>8. \A i \in 1 .. k : i > loc /\ i <= end =>
              s.distances[i] = r.distances[i - 1] /\ s.indices[i] = r.indices[i - 1]
    BY <2>1, <2>3, <2>5
  <2>9. \A i \in 1 .. k : i > end => s.distances[i] = r.distances[i] /\ s.indices[i] = r.indices[i]
    BY <2>1, <2>3, <2>5
  <2>10. s.found = end
    BY <2>3
  <2>11. s.indices \in [1 .. k -> Int]
    BY <1>2, <2>1, <2>3, <2>5
  <2>12. s.distances \in [1 .. k -> 0 .. MaxDistance]
    BY <1>1, <1>2, <2>1, <2>3, <2>5
  <2> HIDE DEF put
  <2>13. \A i \in 1 .. k : s.distances[i] \in Nat
    BY <1>1, <2>12
  <2>14. \A i \in 1 .. k : i > s.found => s.distances[i] = MaxDistance
    <3> SUFFICES ASSUME NEW i \in 1 .. k, i > end PROVE s.distances[i] = MaxDistance
      BY <2>10
    <3>1. i > r.found
      BY <1>1, <2>4
    <3>2. QED
      BY <1>4, <2>9, <3>1
  \* sorted
  <2>15. ASSUME NEW i \in 1 .. k, NEW j \in 1 .. k, i < j PROVE s.distances[i] <= s.distances[j]
    <3>1. CASE j > end
      <4>1. s.distances[j] = MaxDistance
        BY <2>10, <2>14, <3>1
      <4>2. QED
        BY <1>1, <2>12, <4>1
    <3>2. CASE j < loc
      <4>1. s.distances[i] = r.distances[i] /\ s.distances[j] = r.distances[j]
        BY <2>6, <2>7, <2>15, <3>2
      <4>2. QED
        BY <1>3, <2>15, <4>1
    <3>3. CASE j = loc
      <4>1. s.distances[i] = r.distances[i] /\ s.distances[j] = d /\ r.distances[i] <= d
        BY <2>5, <2>6, <2>7, <2>15, <3>3
      <4>2. QED
        BY <4>1
    <3>4. CASE j > loc /\ j <= end
      <4>1. s.distances[j] = r.distances[j - 1] /\ j - 1 \in 1 .. k /\ j - 1 \in loc .. end - 1
        BY <2>1, <2>7, <2>8, <3>4
      <4>2. d < r.distances[j - 1] /\ r.distances[j - 1] \in Nat
        BY <1>8, <2>5, <4>1
      <4>3. CASE i < loc
        <5>1. s.distances[i] = r.distances[i] /\ r.distances[i] <= d /\ r.distances[i] \in Nat
          BY <1>8, <2>5, <2>6, <4>3
        <5>2. QED
          BY <4>1, <4>2, <5>1
      <4>4. CASE i = loc
        BY <2>7, <4>1, <4>2, <4>4
      <4>5. CASE i > loc
        <5>1. s.distances[i] = r.distances[i - 1] /\ i - 1 \in 1 .. k /\ i - 1 <= j - 1
          BY <2>1, <2>7, <2>8, <2>15, <3>4, <4>5
        <5>2. r.distances[i - 1] <= r.distances[j - 1]
          BY <1>3, <4>1, <5>1
        <5>3. QED
          BY <4>1, <5>1, <5>2
      <4>6. QED
        BY <2>7, <4>3, <4>4, <4>5
    <3>5. QED
      BY <2>1, <2>7, <3>1, <3>2, <3>3, <3>4
  <2>16. \A i, j \in 1 .. k : i <= j => s.distances[i] <= s.distances[j]
    <3> SUFFICES ASSUME NEW i \in 1 .. k, NEW j \in 1 .. k, i <= j PROVE s.distances[i] <= s.distances[j]
      OBVIOUS
    <3>1. CASE i = j
      BY <2>13, <3>1
    <3>2. CASE i < j
      BY <2>15, <3>2
    <3>3. QED
      BY <3>1, <3>2
  \* where the entries come from
  <2>17. ASSUME NEW i \in 1 .. end
         PROVE  \/ i = loc /\ s.indices[i] = x /\ s.distances[i] = d
                \/ /\ i < loc /\ i \in 1 .. r.found
                   /\ s.indices[i] = r.indices[i] /\ s.distances[i] = r.distances[i]
                \/ /\ i > loc /\ i - 1 \in 1 .. r.found
                   /\ s.indices[i] = r.indices[i - 1] /\ s.distances[i] = r.distances[i - 1]
    <3>1. i \in 1 .. k
      BY <2>1
    <3>2. CASE i = loc
      BY <2>7, <3>2
    <3>3. CASE i < loc
      <4>1. i \in 1 .. r.found
        BY <1>1, <2>1, <2>4, <2>5, <3>3
      <4>2. QED
        BY <2>6, <3>1, <3>3, <4>1
    <3>4. CASE i > loc
      <4>1. i - 1 \in 1 .. r.found
        BY <1>1, <2>1, <2>4, <2>5, <3>4
      <4>2. QED
        BY <2>8, <3>1, <3>4, <4>1
    <3>5. QED
      BY <2>7, <3>1, <3>2, <3>3, <3>4
  <2>18. \A i \in 1 .. r.found : r.indices[i] # x
    BY DEF TakenOf
  <2>19. ASSUME NEW i \in 1 .. end, NEW j \in 1 .. end, i # j
         PROVE  s.indices[i] # s.indices[j]
    <3> DEFINE From(l, m) == \/ l = loc /\ m = 0 /\ s.indices[l] = x
                             \/ m \in 1 .. r.found /\ s.indices[l] = r.indices[m]
                                /\ ((l < loc /\ m = l) \/ (l > loc /\ m = l - 1))
    <3>1. \A l \in 1 .. end : \E m \in 0 .. r.found : From(l, m)
      <4> SUFFICES ASSUME NEW l \in 1 .. end PROVE \E m \in 0 .. r.found : From(l, m)
        OBVIOUS
      <4>1. CASE l = loc
        BY <1>1, <2>17, <4>1
      <4>2. CASE l < loc
        <5>1. l \in 1 .. r.found /\ s.indices[l] = r.indices[l]
          BY <1>1, <2>7, <2>17, <4>2
        <5>2. From(l, l)
          BY <4>2, <5>1
        <5>3. l \in 0 .. r.found
          BY <1>1, <5>1
        <5>4. QED
          BY <5>2, <5>3
      <4>3. CASE l > loc
        <5>1. From(l, l - 1) /\ l - 1 \in 0 .. r.found
          BY <1>1, <2>7, <2>17, <4>3
        <5>2. QED
          BY <5>1
      <4>4. QED
        BY <2>7, <4>1, <4>2, <4>3
    <3>2. PICK m \in 0 .. r.found : From(i, m)
      BY <3>1
    <3>3. PICK n \in 0 .. r.found : From(j, n)
      BY <3>1
    <3>4. m # n
      BY <2>19, <3>2, <3>3, <2>7, <1>1
    <3>5. QED
      BY <1>1, <1>5, <2>18, <3>2, <3>3, <3>4
  <2>20. Buffer(s, k)
    <3>1. s.found \in 0 .. k
      BY <2>1, <2>10
    <3>2. QED
      BY <2>10, <2>11, <2>12, <2>14, <2>16, <2>19, <3>1 DEF Buffer
  <2>21. worst_distance(s) = s.distances[k]
    BY <2>20, WorstOf
  <2>22. s.distances[k] <= r.distances[k]
    <3>1. k \in 1 .. k
      OBVIOUS
    <3>2. CASE k > end
      BY <1>8, <2>9, <3>1, <3>2
    <3>3. CASE k = loc
      BY <1>8, <2>2, <2>7, <3>1, <3>3
    <3>4. CASE k <= end /\ loc < k
      <4>1. s.distances[k] = r.distances[k - 1] /\ k - 1 \in 1 .. k
        BY <2>7, <2>8, <3>1, <3>4
      <4>2. QED
        BY <1>3, <3>1, <4>1
    <3>5. QED
      BY <2>1, <2>7, <3>2, <3>3, <3>4
  <2>23. ASSUME NEW j \in 1 .. r.found
         PROVE  r.indices[j] \in TakenOf(s) \/ r.distances[j] >= worst_distance(s)
    <3>1. j \in 1 .. k /\ j <= end
      BY <1>1, <2>4
    <3>2. CASE j < loc
      <4>1. j \in 1 .. s.found /\ s.indices[j] = r.indices[j]
        BY <2>6, <2>10, <3>1, <3>2
      <4>2. QED
        BY <4>1 DEF TakenOf
    <3>3. CASE j >= loc /\ j + 1 <= end
      <4>1. j + 1 \in 1 .. k /\ j + 1 > loc /\ j + 1 - 1 = j
        BY <2>1, <2>7, <3>1, <3>3
      <4>2. j + 1 \in 1 .. s.found /\ s.indices[j + 1] = r.indices[j]
        <5>1. s.indices[j + 1] = r.indices[(j + 1) - 1]
          BY <2>8, <3>3, <4>1
        <5>2. QED
          BY <2>10, <3>3, <4>1, <5>1
      <4>3. QED
        BY <4>2 DEF TakenOf
    <3>4. CASE j >= loc /\ ~(j + 1 <= end)
      <4>1. j = end
        BY <2>4, <3>1, <3>4
      <4>2. j = k
        BY <1>1, <2>4, <3>1, <4>1
      <4>3. s.distances[k] \in Nat /\ r.distances[k] \in Nat
        BY <1>8, <2>13
      <4>4. QED
        BY <2>21, <2>22, <4>2, <4>3
    <3>5. QED
      BY <2>7, <3>2, <3>3, <3>4
  <2>24. x \in TakenOf(s)
    BY <2>5, <2>7, <2>10 DEF TakenOf
  <2>25. ASSUME NEW i \in 1 .. s.found
         PROVE  \/ s.indices[i] = x /\ s.distances[i] = d
                \/ \E j \in 1 .. r.found : s.indices[i] = r.indices[j] /\ s.distances[i] = r.distances[j]
    BY <2>10, <2>17
  <2>26. QED
    BY <1>6, <2>20, <2>21, <2>22, <2>23, <2>24, <2>25
<1>11. QED
  BY <1>9, <1>10

-----------------------------------------------------------------------------
(* Loops.                                                                  *)
-----------------------------------------------------------------------------
\* The values s[0], s[1], ... of the state of a loop whose step t is f[t], and
\* steps that lead from one of the sets G[0], G[1], ... to the next.
Course(s, n, base, f) == s = [t \in 0 .. n |-> IF t = 0 THEN base ELSE f[t][s[t - 1]]]
Leads(n, G, f) == \A t \in 1 .. n : \A x \in G[t - 1] : f[t][x] \in G[t]

LEMMA LoopRuns ==
    ASSUME NEW n \in Nat, NEW G, NEW base \in G[0], NEW f, Leads(n, G, f)
    PROVE  \E s : Course(s, n, base, f) /\ \A t \in 0 .. n : s[t] \in G[t]
<1> DEFINE Upto(s, m) == Course(s, m, base, f) /\ \A t \in 0 .. m : s[t] \in G[t]
           Bad == {m \in Nat : m <= n /\ ~ \E s : Upto(s, m)}
<1>1. Bad = {}
  <2> SUFFICES ASSUME Bad # {} PROVE FALSE
    OBVIOUS
  <2>1. PICK m \in Bad : \A l \in Bad : m <= l
    BY LeastNat
  <2>2. m \in Nat /\ m <= n /\ ~ \E s : Upto(s, m)
    OBVIOUS
  <2>3. CASE m = 0
    <3> DEFINE s == [t \in 0 .. 0 |-> base]
    <3>1. s = [t \in 0 .. 0 |-> IF t = 0 THEN base ELSE f[t][s[t - 1]]] /\ s[0] \in G[0]
      OBVIOUS
    <3>2. Upto(s, 0)
      BY <3>1 DEF Course
    <3>3. QED
      BY <2>2, <2>3, <3>2
  <2>4. CASE m # 0
    <3>1. m - 1 \in Nat /\ m - 1 <= n /\ m - 1 \notin Bad
      BY <2>1, <2>2, <2>4
    <3>2. PICK s : Upto(s, m - 1)
      BY <3>1
    <3>3. /\ s = [t \in 0 .. m - 1 |-> IF t = 0 THEN base ELSE f[t][s[t - 1]]]
          /\ \A t \in 0 .. m - 1 : s[t] \in G[t]
      BY <3>2 DEF Course
    <3> DEFINE u == [t \in 0 .. m |-> IF t = m THEN f[m][s[m - 1]] ELSE s[t]]
    <3>4. m \in 1 .. n /\ m - 1 \in 0 .. m - 1
      BY <2>2, <2>4
    <3>5. u[m] = f[m][s[m - 1]] /\ u[m] \in G[m]
      BY <3>3, <3>4 DEF Leads
    <3>6. \A t \in 0 .. m - 1 : u[t] = s[t]
      BY <3>4
    <3>7. DOMAIN u = 0 .. m /\ u = [t \in 0 .. m |-> u[t]]
      OBVIOUS
    <3> HIDE DEF u, Bad
    <3>8. ASSUME NEW t \in 0 .. m
          PROVE  u[t] = (IF t = 0 THEN base ELSE f[t][u[t - 1]]) /\ u[t] \in G[t]
      <4>1. CASE t = m
        <5>1. u[t - 1] = s[m - 1] /\ t # 0
          BY <2>4, <3>4, <3>6, <4>1
        <5>2. QED
          BY <3>5, <4>1, <5>1
      <4>2. CASE t # m
        <5>1. t \in 0 .. m - 1 /\ (t # 0 => t - 1 \in 0 .. m - 1)
          BY <2>2, <4>2
        <5>2. u[t] = s[t] /\ (t # 0 => u[t - 1] = s[t - 1])
          BY <3>6, <5>1
        <5>3. s[t] = (IF t = 0 THEN base ELSE f[t][s[t - 1]]) /\ s[t] \in G[t]
          BY <3>3, <5>1
        <5>4. QED
          BY <5>2, <5>3
      <4>3. QED
        BY <4>1, <4>2
    <3>9. u = [t \in 0 .. m |-> IF t = 0 THEN base ELSE f[t][u[t - 1]]]
      BY <3>7, <3>8
    <3>10. Upto(u, m)
      BY <3>8, <3>9 DEF Course
    <3>11. QED
      BY <2>2, <3>10
  <2>5. QED
    BY <2>3, <2>4
<1>2. QED
  BY <1>1

LEMMA LoopEnds ==
    ASSUME NEW n \in Nat, NEW G, NEW s, s[0] \in G[0],
           \A t \in 1 .. n : s[t - 1] \in G[t - 1] => s[t] \in G[t]
    PROVE  s[n] \in G[n]
<1> DEFINE Bad == {m \in Nat : m <= n /\ s[m] \notin G[m]}
<1> SUFFICES ASSUME Bad # {} PROVE FALSE
  OBVIOUS
<1>1. PICK m \in Bad : \A l \in Bad : m <= l
  BY LeastNat
<1>2. m \in Nat /\ m <= n /\ s[m] \notin G[m]
  OBVIOUS
<1>3. m \in 1 .. n /\ m - 1 \in Nat
  BY <1>2
<1>4. m - 1 \notin Bad
  BY <1>1, <1>3
<1>5. s[m - 1] \in G[m - 1]
  BY <1>3, <1>4
<1>6. QED
  BY <1>2, <1>3, <1>5

-----------------------------------------------------------------------------
(* The indices of the points of a voxel.                                   *)
-----------------------------------------------------------------------------
LEMMA IndexSplits ==
    ASSUME NEW v \in Nat \ {0}, NEW i \in 1 .. MaxNumPoints
    PROVE  /\ calc_index(v - 1, i - 1) \in Nat
           /\ voxel_id(calc_index(v - 1, i - 1)) = v - 1
           /\ point_id(calc_index(v - 1, i - 1)) = i - 1
<1> DEFINE s == PointIds
           y == v - 1
           a == i - 1
           x == a + s * y
<1>1. s \in Nat \ {0} /\ a \in 0 .. s - 1 /\ y \in Nat
  BY SettingAssumption, PointIdsAssumption
<1>2. calc_index(v - 1, i - 1) = y * s + a
  BY DEF calc_index
<1> HIDE DEF s, y, a
<1>3. x \in Nat /\ y * s + a = x
  BY <1>1
<1>4. x % s = a /\ x \div s = y
  <2> HIDE DEF x
  <2>1. x = a + s * y
    BY DEF x
  <2>2. QED
    BY <1>1, <1>3, <2>1, Digits
<1> HIDE DEF x
<1>5. QED
  BY <1>2, <1>3, <1>4 DEF voxel_id, point_id, s, y, a

IndicesOf(v) == {calc_index(v - 1, i - 1) : i \in 1 .. Len(contents[v])}

LEMMA CellPoints ==
    ASSUME FlatInv, NEW v \in 1 .. Len(contents)
    PROVE  /\ v \in Nat \ {0} /\ Len(contents[v]) \in 1 .. MaxNumPoints
           /\ \A i \in 1 .. Len(contents[v]) :
                 /\ contents[v][i] \in Points
                 /\ calc_index(v - 1, i - 1) \in Nat
                 /\ voxel_id(calc_index(v - 1, i - 1)) = v - 1
                 /\ point_id(calc_index(v - 1, i - 1)) = i - 1
                 /\ PointAt(calc_index(v - 1, i - 1)) = contents[v][i]
<1>1. Len(contents) \in Nat
  BY LenProperties DEF FlatInv
<1>2. v \in Nat \ {0}
  BY <1>1
<1>3. contents[v] \in Seq(Points) /\ Len(contents[v]) \in 1 .. MaxNumPoints
  BY DEF FlatInv, Cell
<1>4. ASSUME NEW i \in 1 .. Len(contents[v])
      PROVE  /\ contents[v][i] \in Points
             /\ calc_index(v - 1, i - 1) \in Nat
             /\ voxel_id(calc_index(v - 1, i - 1)) = v - 1
             /\ point_id(calc_index(v - 1, i - 1)) = i - 1
             /\ PointAt(calc_index(v - 1, i - 1)) = contents[v][i]
  <2>1. i \in 1 .. MaxNumPoints /\ contents[v][i] \in Points
    BY <1>3, ElementOfSeq, SettingAssumption
  <2> DEFINE x == calc_index(v - 1, i - 1)
  <2>2. x \in Nat /\ voxel_id(x) = v - 1 /\ point_id(x) = i - 1
    BY <1>2, <2>1, IndexSplits
  <2> HIDE DEF x
  <2>3. (v - 1) + 1 = v /\ (i - 1) + 1 = i
    BY <1>2, <2>1, SettingAssumption
  <2>4. PointAt(x) = contents[v][i]
    BY <2>2, <2>3 DEF PointAt
  <2>5. QED
    BY <2>1, <2>2, <2>4 DEF x
<1>5. QED
  BY <1>2, <1>3, <1>4

-----------------------------------------------------------------------------
(* The searches.                                                           *)
-----------------------------------------------------------------------------
\* A buffer in which the points of S have been entered: the k nearest of them,
\* each with its distance.
Results(k) == [found : 0 .. k, indices : [1 .. k -> Int], distances : [1 .. k -> 0 .. MaxDistance]]
Far(x, q) == SqDist(PointAt(x), q)
Entered(r, k, q, S) ==
    /\ r \in Results(k)
    /\ Buffer(r, k)
    /\ TakenOf(r) \subseteq S
    /\ \A m \in 1 .. r.found : r.distances[m] = Far(r.indices[m], q)
    /\ \A x \in S : Far(x, q) \in Nat /\ Far(x, q) < MaxDistance
    /\ \A x \in S : x \in TakenOf(r) \/ Far(x, q) >= worst_distance(r)
Holding(k, q, S) == {r \in Results(k) : Entered(r, k, q, S)}

LEMMA PushHeld ==
    ASSUME NEW k \in Nat \ {0}, NEW q, NEW S, NEW r \in Holding(k, q, S),
           NEW x \in Int, x \notin S, Far(x, q) \in Nat, Far(x, q) < MaxDistance
    PROVE  push(r, x, Far(x, q)) \in Holding(k, q, S \cup {x})
<1> DEFINE d == Far(x, q)
           s == push(r, x, d)
<1>1. Entered(r, k, q, S)
  BY DEF Holding
<1>2. d \in Nat /\ d < MaxDistance
  OBVIOUS
<1>3. Buffer(r, k) /\ x \notin TakenOf(r)
  BY <1>1 DEF Entered
<1> HIDE DEF s, d
<1>4. s = push(r, x, d)
  BY DEF s
<1>5. /\ Buffer(s, k)
      /\ worst_distance(s) <= worst_distance(r)
      /\ \A i \in 1 .. s.found :
            \/ s.indices[i] = x /\ s.distances[i] = d
            \/ \E j \in 1 .. r.found : s.indices[i] = r.indices[j] /\ s.distances[i] = r.distances[j]
      /\ \A j \in 1 .. r.found :
            r.indices[j] \in TakenOf(s) \/ r.distances[j] >= worst_distance(s)
      /\ x \in TakenOf(s) \/ d >= worst_distance(s)
  BY <1>2, <1>3, <1>4, PushBuffer
<1>6. worst_distance(r) \in Nat /\ worst_distance(s) \in Nat
  <2>1. ASSUME NEW b, Buffer(b, k) PROVE worst_distance(b) \in Nat
    <3>1. worst_distance(b) = b.distances[k]
      BY <2>1, WorstOf
    <3>2. b.distances[k] \in 0 .. MaxDistance
      BY <2>1 DEF Buffer
    <3>3. QED
      BY <3>1, <3>2, DistanceAssumption
  <2>2. QED
    BY <1>3, <1>5, <2>1
<1>7. s \in Results(k)
  <2>1. /\ s.found \in 0 .. k /\ s.indices \in [1 .. k -> Int]
        /\ s.distances \in [1 .. k -> 0 .. MaxDistance]
    BY <1>5 DEF Buffer
  <2>2. r \in Results(k)
    BY <1>1 DEF Entered
  <2>3. s = r \/ s = [found |-> s.found, indices |-> s.indices, distances |-> s.distances]
    BY <1>4 DEF push
  <2>4. QED
    BY <2>1, <2>2, <2>3 DEF Results
<1>8. TakenOf(s) \subseteq S \cup {x}
  <2> SUFFICES ASSUME NEW i \in 1 .. s.found PROVE s.indices[i] \in S \cup {x}
    BY DEF TakenOf
  <2>1. CASE s.indices[i] = x
    BY <2>1
  <2>2. CASE \E j \in 1 .. r.found : s.indices[i] = r.indices[j]
    BY <1>1, <2>2 DEF Entered, TakenOf
  <2>3. QED
    BY <1>5, <2>1, <2>2
<1>9. \A m \in 1 .. s.found : s.distances[m] = Far(s.indices[m], q)
  <2> SUFFICES ASSUME NEW m \in 1 .. s.found PROVE s.distances[m] = Far(s.indices[m], q)
    OBVIOUS
  <2>1. CASE s.indices[m] = x /\ s.distances[m] = d
    BY <2>1 DEF d
  <2>2. CASE \E j \in 1 .. r.found : s.indices[m] = r.indices[j] /\ s.distances[m] = r.distances[j]
    BY <1>1, <2>2 DEF Entered
  <2>3. QED
    BY <1>5, <2>1, <2>2
<1>10. \A y \in S \cup {x} : Far(y, q) \in Nat /\ Far(y, q) < MaxDistance
  BY <1>1, <1>2 DEF Entered, d
<1>11. ASSUME NEW y \in S \cup {x} PROVE y \in TakenOf(s) \/ Far(y, q) >= worst_distance(s)
  <2>1. CASE y = x
    BY <1>5, <2>1 DEF d
  <2>2. CASE y \in S /\ y \notin TakenOf(r)
    <3>1. Far(y, q) >= worst_distance(r) /\ Far(y, q) \in Nat
      BY <1>1, <2>2 DEF Entered
    <3>2. QED
      BY <1>5, <1>6, <3>1
  <2>3. CASE y \in S /\ y \in TakenOf(r)
    <3>1. PICK j \in 1 .. r.found : y = r.indices[j]
      BY <2>3 DEF TakenOf
    <3>2. r.distances[j] = Far(y, q)
      BY <1>1, <3>1 DEF Entered
    <3>3. QED
      BY <1>5, <3>1, <3>2
  <2>4. QED
    BY <2>1, <2>2, <2>3
<1>12. QED
  BY <1>5, <1>7, <1>8, <1>9, <1>10, <1>11 DEF Holding, Entered, s, d

\* One voxel: FlatContainer::knn_search enters its points.
Entering(v, q, r) ==
    CHOOSE after : after = [i \in 0 .. Len(contents[v]) |->
        IF i = 0 THEN r
        ELSE push(after[i - 1], calc_index(v - 1, i - 1), SqDist(contents[v][i], q))]

LEMMA VoxelHeld ==
    ASSUME FlatInv, NEW k \in Nat \ {0}, NEW q \in Points, NEW S,
           NEW v \in 1 .. Len(contents), S \cap IndicesOf(v) = {},
           NEW r \in Holding(k, q, S)
    PROVE  push_points(r, v, q) \in Holding(k, q, S \cup IndicesOf(v))
<1> DEFINE n == Len(contents[v])
           X(i) == calc_index(v - 1, i - 1)
           Sofar(i) == S \cup {X(j) : j \in 1 .. i}
           G == [i \in 0 .. n |-> Holding(k, q, Sofar(i))]
           f == [i \in 1 .. n |-> [a \in Results(k) |-> push(a, X(i), SqDist(contents[v][i], q))]]
           OneRun(s) == s = [i \in 0 .. n |-> IF i = 0 THEN r ELSE push(s[i - 1], X(i), SqDist(contents[v][i], q))]
<1>1. n \in Nat
  BY CellPoints, SettingAssumption
<1>2. ASSUME NEW i \in 1 .. n
      PROVE  /\ X(i) \in Nat /\ Far(X(i), q) = SqDist(contents[v][i], q)
             /\ Far(X(i), q) \in Nat /\ Far(X(i), q) < MaxDistance
             /\ \A j \in 1 .. n : X(j) = X(i) => j = i
  <2>1. /\ X(i) \in Nat /\ PointAt(X(i)) = contents[v][i] /\ contents[v][i] \in Points
        /\ point_id(X(i)) = i - 1
    BY CellPoints
  <2>2. Far(X(i), q) = SqDist(contents[v][i], q)
    BY <2>1 DEF Far
  <2>3. SqDist(contents[v][i], q) \in Nat /\ SqDist(contents[v][i], q) < MaxDistance
    BY <2>1, SqDistNat, OverflowAssumption
  <2>4. \A j \in 1 .. n : X(j) = X(i) => j = i
    <3>1. \A j \in 1 .. n : point_id(X(j)) = j - 1
      BY CellPoints
    <3> HIDE DEF X, n
    <3>2. QED
      BY <1>1, <2>1, <3>1
  <2>5. QED
    BY <2>1, <2>2, <2>3, <2>4
<1>3. IndicesOf(v) = {X(j) : j \in 1 .. n}
  BY DEF IndicesOf
<1>4. Sofar(0) = S /\ Sofar(n) = S \cup IndicesOf(v)
  BY <1>3
<1> HIDE DEF n, X
<1>5. ASSUME NEW i \in 1 .. n, NEW a \in Holding(k, q, Sofar(i - 1))
      PROVE  push(a, X(i), SqDist(contents[v][i], q)) \in Holding(k, q, Sofar(i))
  <2>1. X(i) \notin Sofar(i - 1)
    <3>1. X(i) \notin S
      BY <1>3
    <3>2. \A j \in 1 .. i - 1 : j \in 1 .. n /\ j # i
      BY <1>1
    <3>3. QED
      BY <1>2, <3>1, <3>2
  <2>2. Sofar(i) = Sofar(i - 1) \cup {X(i)}
    <3>1. 1 .. i = (1 .. i - 1) \cup {i}
      BY <1>1
    <3>2. QED
      BY <3>1
  <2> HIDE DEF Sofar
  <2>3. X(i) \in Int /\ Far(X(i), q) \in Nat /\ Far(X(i), q) < MaxDistance
    BY <1>2
  <2>4. push(a, X(i), Far(X(i), q)) \in Holding(k, q, Sofar(i - 1) \cup {X(i)})
    BY <2>1, <2>3, PushHeld
  <2>5. QED
    BY <1>2, <2>2, <2>4
<1>6. r \in G[0]
  <2>1. G[0] = Holding(k, q, Sofar(0))
    BY <1>1
  <2>2. QED
    BY <1>4, <2>1
<1> HIDE DEF Sofar
<1>7. \A i \in 1 .. n : \A a \in G[i - 1] :
         f[i][a] \in G[i] /\ f[i][a] = push(a, X(i), SqDist(contents[v][i], q))
  <2> SUFFICES ASSUME NEW i \in 1 .. n, NEW a \in G[i - 1]
               PROVE  f[i][a] \in G[i] /\ f[i][a] = push(a, X(i), SqDist(contents[v][i], q))
    OBVIOUS
  <2>1. i \in 0 .. n /\ i - 1 \in 0 .. n
    BY <1>1
  <2>2. a \in Holding(k, q, Sofar(i - 1))
    BY <2>1
  <2>3. a \in Results(k)
    BY <2>2 DEF Holding
  <2>4. f[i][a] = push(a, X(i), SqDist(contents[v][i], q))
    BY <2>3
  <2>5. QED
    BY <1>5, <2>1, <2>2, <2>4
<1> HIDE DEF f, G
<1>8. \E s : OneRun(s)
  <2>1. Leads(n, G, f)
    BY <1>7 DEF Leads
  <2>2. PICK s : Course(s, n, r, f) /\ \A t \in 0 .. n : s[t] \in G[t]
    BY <1>1, <1>6, <2>1, LoopRuns
  <2>3. ASSUME NEW i \in 0 .. n, i # 0 PROVE f[i][s[i - 1]] = push(s[i - 1], X(i), SqDist(contents[v][i], q))
    <3>1. i \in 1 .. n /\ i - 1 \in 0 .. n
      BY <1>1, <2>3
    <3>2. QED
      BY <1>7, <2>2, <3>1
  <2>4. s = [i \in 0 .. n |-> IF i = 0 THEN r ELSE push(s[i - 1], X(i), SqDist(contents[v][i], q))]
    BY <2>2, <2>3 DEF Course
  <2>5. QED
    BY <2>4
<1> DEFINE w == Entering(v, q, r)
<1>9. OneRun(w)
  <2>1. w = CHOOSE s : OneRun(s)
    BY DEF Entering, n, X
  <2> HIDE DEF w, OneRun
  <2>2. QED
    BY <1>8, <2>1
<1> HIDE DEF w
<1>10. w[0] = r /\ \A i \in 1 .. n : w[i] = push(w[i - 1], X(i), SqDist(contents[v][i], q))
  BY <1>1, <1>9
<1>11. \A i \in 1 .. n : w[i - 1] \in G[i - 1] => w[i] \in G[i]
  BY <1>7, <1>10
<1>12. w[n] \in G[n]
  BY <1>1, <1>6, <1>10, <1>11, LoopEnds
<1>13. push_points(r, v, q) = w[n]
  BY DEF push_points, Entering, w, n
<1>14. n \in 0 .. n
  BY <1>1
<1>15. QED
  BY <1>4, <1>12, <1>13, <1>14 DEF G

\* The points that the first m offsets of a search lead to.
At(q, m) == AddCoords(Abstract!Coord(q), search_offsets[m])
Met(q, m) == IF At(q, m) \in DOMAIN voxels THEN IndicesOf(voxels[At(q, m)]) ELSE {}
MetUpTo(q, m) == UNION {Met(q, l) : l \in 1 .. m}
DistinctOffsets ==
    \A l, m \in 1 .. Len(search_offsets) : search_offsets[l] = search_offsets[m] => l = m

Searching(q, k) ==
    CHOOSE after : after = [m \in 0 .. Len(search_offsets) |->
        IF m = 0 THEN EmptyResult(k)
        ELSE IF At(q, m) \notin DOMAIN voxels THEN after[m - 1]
        ELSE push_points(after[m - 1], voxels[At(q, m)], q)]

\* No two offsets lead to the same voxel.
LEMMA MetOnce ==
    ASSUME IInv, FlatInv, DistinctOffsets, NEW q \in Points,
           NEW l \in 1 .. Len(search_offsets), NEW m \in 1 .. Len(search_offsets), l # m
    PROVE  Met(q, l) \cap Met(q, m) = {}
<1> SUFFICES ASSUME NEW x, x \in Met(q, l), x \in Met(q, m) PROVE FALSE
  OBVIOUS
<1>1. ASSUME NEW i \in 1 .. Len(search_offsets), x \in Met(q, i)
      PROVE  At(q, i) = flat_voxels[voxel_id(x) + 1].coord
  <2>1. At(q, i) \in DOMAIN voxels /\ x \in IndicesOf(voxels[At(q, i)])
    BY <1>1 DEF Met
  <2> DEFINE v == voxels[At(q, i)]
  <2>2. v \in 1 .. Len(contents) /\ flat_voxels[v].coord = At(q, i)
    BY <2>1, IndexEntry DEF IInv, FlatInv
  <2>3. PICK j \in 1 .. Len(contents[v]) : x = calc_index(v - 1, j - 1)
    BY <2>1 DEF IndicesOf
  <2> HIDE DEF v
  <2>4. v \in Nat \ {0} /\ voxel_id(x) = v - 1
    BY <2>2, <2>3, CellPoints
  <2>5. voxel_id(x) + 1 = v
    BY <2>4
  <2>6. QED
    BY <2>2, <2>5
<1>2. At(q, l) = At(q, m)
  BY <1>1
<1>3. search_offsets[l] \in Coords /\ search_offsets[m] \in Coords /\ Abstract!Coord(q) \in Coords
  BY CoordType, ElementOfSeq DEF IInv, TypeOK
<1>4. \A c, o, p \in Coords : Abstract!Plus(c, o) = Abstract!Plus(c, p) => o = p
  <2> SUFFICES ASSUME NEW c \in Coords, NEW o \in Coords, NEW p \in Coords,
                      Abstract!Plus(c, o) = Abstract!Plus(c, p)
               PROVE  o = p
    OBVIOUS
  <2>1. c[1] + o[1] = c[1] + p[1] /\ c[2] + o[2] = c[2] + p[2] /\ c[3] + o[3] = c[3] + p[3]
    BY DEF Abstract!Plus
  <2>2. /\ c[1] \in Int /\ c[2] \in Int /\ c[3] \in Int
        /\ o[1] \in Int /\ o[2] \in Int /\ o[3] \in Int
        /\ p[1] \in Int /\ p[2] \in Int /\ p[3] \in Int
    BY DEF Coords
  <2> DEFINE Cancels(a, b, d) == a + b = a + d => b = d
  <2>3. \A a, b, d \in Int : Cancels(a, b, d)
    OBVIOUS
  <2>4. Cancels(c[1], o[1], p[1]) /\ Cancels(c[2], o[2], p[2]) /\ Cancels(c[3], o[3], p[3])
    <3> HIDE DEF Cancels
    <3>1. QED
      BY <2>2, <2>3
  <2>5. o[1] = p[1] /\ o[2] = p[2] /\ o[3] = p[3]
    BY <2>1, <2>4
  <2>6. o = <<o[1], o[2], o[3]>> /\ p = <<p[1], p[2], p[3]>>
    BY DEF Coords
  <2>7. QED
    BY <2>5, <2>6
<1>5. search_offsets[l] = search_offsets[m]
  BY <1>2, <1>3, <1>4 DEF At, AddCoords
<1>6. QED
  BY <1>5 DEF DistinctOffsets

\* A search enters the points of every voxel that an offset leads to.
LEMMA SearchHeld ==
    ASSUME IInv, FlatInv, DistinctOffsets, NEW q \in Points, NEW k \in Nat \ {0}
    PROVE  knn_search(q, k) \in Holding(k, q, MetUpTo(q, Len(search_offsets)))
<1> DEFINE n == Len(search_offsets)
           base == EmptyResult(k)
           Visit(r, m) == IF At(q, m) \notin DOMAIN voxels THEN r
                          ELSE push_points(r, voxels[At(q, m)], q)
           G == [m \in 0 .. n |-> Holding(k, q, MetUpTo(q, m))]
           f == [m \in 1 .. n |-> [r \in Results(k) |-> Visit(r, m)]]
           OneRun(s) == s = [m \in 0 .. n |-> IF m = 0 THEN base ELSE Visit(s[m - 1], m)]
<1>1. n \in Nat
  BY LenProperties DEF IInv, TypeOK
<1> HIDE DEF n
<1>2. base \in G[0]
  <2>1. MetUpTo(q, 0) = {}
    BY DEF MetUpTo
  <2>2. Buffer(base, k) /\ base.found = 0
    BY EmptyBuffer
  <2>3. base \in Results(k)
    BY DistanceAssumption DEF EmptyResult, Results, INVALID
  <2> HIDE DEF base
  <2>4. TakenOf(base) = {} /\ 1 .. base.found = {}
    BY <2>2 DEF TakenOf
  <2>5. Entered(base, k, q, {})
    BY <2>2, <2>3, <2>4 DEF Entered
  <2>6. QED
    BY <1>1, <2>1, <2>3, <2>5 DEF Holding
<1>3. ASSUME NEW m \in 1 .. n, NEW r \in Holding(k, q, MetUpTo(q, m - 1))
      PROVE  Visit(r, m) \in Holding(k, q, MetUpTo(q, m))
  <2>1. MetUpTo(q, m) = MetUpTo(q, m - 1) \cup Met(q, m)
    <3>1. 1 .. m = (1 .. m - 1) \cup {m}
      BY <1>1
    <3>2. QED
      BY <3>1 DEF MetUpTo
  <2>2. CASE At(q, m) \notin DOMAIN voxels
    <3>1. Met(q, m) = {} /\ Visit(r, m) = r
      BY <2>2 DEF Met
    <3>2. QED
      BY <2>1, <3>1
  <2>3. CASE At(q, m) \in DOMAIN voxels
    <3> DEFINE v == voxels[At(q, m)]
    <3>1. Met(q, m) = IndicesOf(v) /\ Visit(r, m) = push_points(r, v, q)
      BY <2>3 DEF Met
    <3>2. v \in 1 .. Len(contents)
      BY <2>3, IndexEntry DEF IInv, FlatInv
    <3>3. MetUpTo(q, m - 1) \cap Met(q, m) = {}
      <4>1. ASSUME NEW l \in 1 .. m - 1 PROVE Met(q, l) \cap Met(q, m) = {}
        <5>1. l \in 1 .. n /\ l # m
          BY <1>1
        <5>2. QED
          BY <5>1, MetOnce DEF n
      <4>2. QED
        BY <4>1 DEF MetUpTo
    <3> HIDE DEF v
    <3>4. push_points(r, v, q) \in Holding(k, q, MetUpTo(q, m - 1) \cup IndicesOf(v))
      BY <3>1, <3>2, <3>3, VoxelHeld
    <3>5. QED
      BY <2>1, <3>1, <3>4
  <2>4. QED
    BY <2>2, <2>3
<1> HIDE DEF Visit, base
<1>4. \A m \in 1 .. n : \A r \in G[m - 1] : f[m][r] \in G[m] /\ f[m][r] = Visit(r, m)
  <2> SUFFICES ASSUME NEW m \in 1 .. n, NEW r \in G[m - 1]
               PROVE  f[m][r] \in G[m] /\ f[m][r] = Visit(r, m)
    OBVIOUS
  <2>1. m \in 0 .. n /\ m - 1 \in 0 .. n
    BY <1>1
  <2>2. r \in Holding(k, q, MetUpTo(q, m - 1))
    BY <2>1
  <2>3. r \in Results(k)
    BY <2>2 DEF Holding
  <2>4. f[m][r] = Visit(r, m)
    BY <2>3
  <2>5. QED
    BY <1>3, <2>1, <2>2, <2>4
<1> HIDE DEF f, G
<1>5. \E s : OneRun(s)
  <2>1. Leads(n, G, f)
    BY <1>4 DEF Leads
  <2>2. PICK s : Course(s, n, base, f) /\ \A t \in 0 .. n : s[t] \in G[t]
    BY <1>1, <1>2, <2>1, LoopRuns
  <2>3. ASSUME NEW m \in 0 .. n, m # 0 PROVE f[m][s[m - 1]] = Visit(s[m - 1], m)
    <3>1. m \in 1 .. n /\ m - 1 \in 0 .. n
      BY <1>1, <2>3
    <3>2. QED
      BY <1>4, <2>2, <3>1
  <2>4. s = [m \in 0 .. n |-> IF m = 0 THEN base ELSE Visit(s[m - 1], m)]
    BY <2>2, <2>3 DEF Course
  <2>5. QED
    BY <2>4
<1> DEFINE w == Searching(q, k)
<1>6. OneRun(w)
  <2>1. w = CHOOSE s : OneRun(s)
    BY DEF Searching, Visit, base, n
  <2> HIDE DEF w, OneRun
  <2>2. QED
    BY <1>5, <2>1
<1> HIDE DEF w
<1>7. w[0] = base /\ \A m \in 1 .. n : w[m] = Visit(w[m - 1], m)
  BY <1>1, <1>6
<1>8. \A m \in 1 .. n : w[m - 1] \in G[m - 1] => w[m] \in G[m]
  BY <1>4, <1>7
<1>9. w[n] \in G[n]
  BY <1>1, <1>2, <1>7, <1>8, LoopEnds
<1>10. knn_search(q, k) = w[n]
  BY DEF knn_search, Searching, At, w, n
<1>11. n \in 0 .. n
  BY <1>1
<1>12. QED
  BY <1>9, <1>10, <1>11 DEF G, n

\* Those are the points of the voxels within reach.
Candidates(q) == {i \in point_indices : voxel_id(i) + 1 \in Reached(q)}
LEMMA MetReached ==
    ASSUME IInv, FlatInv, NEW q \in Points
    PROVE  MetUpTo(q, Len(search_offsets)) = Candidates(q)
<1> DEFINE n == Len(search_offsets)
<1>1. ASSUME NEW x \in MetUpTo(q, n) PROVE x \in Candidates(q)
  <2>1. PICK m \in 1 .. n : x \in Met(q, m)
    BY DEF MetUpTo
  <2>2. At(q, m) \in DOMAIN voxels /\ x \in IndicesOf(voxels[At(q, m)])
    BY <2>1 DEF Met
  <2> DEFINE v == voxels[At(q, m)]
  <2>3. v \in 1 .. Len(contents) /\ flat_voxels[v].coord = At(q, m) /\ Len(contents) = Len(flat_voxels)
    BY <2>2, IndexEntry DEF IInv, FlatInv
  <2>4. PICK j \in 1 .. Len(contents[v]) : x = calc_index(v - 1, j - 1)
    BY <2>2 DEF IndicesOf
  <2> HIDE DEF v
  <2>5. x \in point_indices
    BY <2>3, <2>4 DEF point_indices
  <2>6. v \in Nat \ {0} /\ voxel_id(x) = v - 1
    BY <2>3, <2>4, CellPoints
  <2>7. voxel_id(x) + 1 = v
    BY <2>6
  <2>8. v \in Reached(q)
    BY <2>3 DEF Reached, At
  <2>9. QED
    BY <2>5, <2>7, <2>8 DEF Candidates
<1>2. ASSUME NEW x \in Candidates(q) PROVE x \in MetUpTo(q, n)
  <2>1. x \in point_indices /\ voxel_id(x) + 1 \in Reached(q)
    BY DEF Candidates
  <2>2. PICK v \in 1 .. Len(contents) : \E i \in 1 .. Len(contents[v]) : x = calc_index(v - 1, i - 1)
    BY <2>1 DEF point_indices
  <2>3. v \in Nat \ {0} /\ voxel_id(x) = v - 1
    BY <2>2, CellPoints
  <2>4. voxel_id(x) + 1 = v
    BY <2>3
  <2>5. PICK m \in 1 .. n : AddCoords(Abstract!Coord(q), search_offsets[m]) = flat_voxels[v].coord
    BY <2>1, <2>4 DEF Reached
  <2>6. At(q, m) = flat_voxels[v].coord /\ v \in 1 .. Len(flat_voxels)
    BY <2>5 DEF At, FlatInv
  <2>7. At(q, m) \in DOMAIN voxels /\ voxels[At(q, m)] = v
    BY <2>6 DEF IInv, IndexConsistent
  <2>8. x \in Met(q, m)
    BY <2>2, <2>7 DEF Met, IndicesOf
  <2>9. QED
    BY <2>8 DEF MetUpTo
<1>3. QED
  BY <1>1, <1>2

LEMMA IndicesFinite ==
    ASSUME FlatInv
    PROVE  IsFiniteSet(point_indices)
<1> DEFINE Of(v) == {calc_index(v - 1, i - 1) : i \in 1 .. Len(contents[v])}
           V == 1 .. Len(contents)
<1>1. IsFiniteSet(V)
  BY LenProperties, FS_Interval DEF FlatInv
<1>2. ASSUME NEW v \in V PROVE IsFiniteSet(Of(v))
  <2>1. Len(contents[v]) \in Nat
    BY CellPoints, SettingAssumption
  <2> DEFINE g == [i \in 1 .. Len(contents[v]) |-> calc_index(v - 1, i - 1)]
  <2>2. \A x \in Of(v) : \E j \in 1 .. Len(contents[v]) : g[j] = x
    OBVIOUS
  <2> HIDE DEF g, Of
  <2>3. QED
    BY <2>1, <2>2, AtMost
<1> DEFINE All == {Of(v) : v \in V}
<1>3. IsFiniteSet(All)
  <2>1. Len(contents) \in Nat
    BY LenProperties DEF FlatInv
  <2> DEFINE g == [v \in V |-> Of(v)]
  <2>2. \A S \in All : \E v \in 1 .. Len(contents) : g[v] = S
    OBVIOUS
  <2> HIDE DEF g, All
  <2>3. QED
    BY <2>1, <2>2, AtMost
<1>4. IsFiniteSet(UNION All)
  <2>1. \A S \in All : IsFiniteSet(S)
    BY <1>2
  <2> HIDE DEF All
  <2>2. QED
    BY <1>3, <2>1, FS_UNION
<1>5. QED
  BY <1>4 DEF point_indices

\* What a search returns.
LEMMA SearchReturns ==
    ASSUME IInv, FlatInv, DistinctOffsets, NEW q \in Points, NEW k \in Nat \ {0}
    PROVE  LET r == knn_search(q, k)
               taken == {r.indices[m] : m \in 1 .. r.found}
           IN  /\ r.found = IF Cardinality(Candidates(q)) < k THEN Cardinality(Candidates(q)) ELSE k
               /\ taken \subseteq Candidates(q) /\ Cardinality(taken) = r.found
               /\ \A m \in 1 .. r.found : r.distances[m] = SqDist(PointAt(r.indices[m]), q)
               /\ \A i \in Candidates(q) \ taken : SqDist(PointAt(i), q) >= r.distances[r.found]
<1> DEFINE r == knn_search(q, k)
           C == Candidates(q)
           taken == {r.indices[m] : m \in 1 .. r.found}
           n == r.found
<1>1. Entered(r, k, q, C)
  BY SearchHeld, MetReached DEF Holding
<1> HIDE DEF r, C
<1>2. /\ n \in 0 .. k /\ n \in Nat
      /\ r.distances \in [1 .. k -> 0 .. MaxDistance]
      /\ \A i \in 1 .. k : i > n => r.distances[i] = MaxDistance
      /\ \A i, j \in 1 .. n : i # j => r.indices[i] # r.indices[j]
      /\ Len(r.distances) = k /\ worst_distance(r) = r.distances[k]
  <2>1. Buffer(r, k)
    BY <1>1 DEF Entered
  <2>2. Len(r.distances) = k /\ worst_distance(r) = r.distances[k]
    BY <2>1, WorstOf
  <2>3. n \in 0 .. k /\ n \in Nat
    BY <2>1 DEF Buffer
  <2>4. QED
    BY <2>1, <2>2, <2>3 DEF Buffer
<1>3. taken = TakenOf(r) /\ taken \subseteq C
  BY <1>1 DEF Entered, TakenOf
<1>4. IsFiniteSet(C)
  <2>1. C \subseteq point_indices
    BY DEF C, Candidates
  <2>2. QED
    BY <2>1, IndicesFinite, FS_Subset
<1>5. IsFiniteSet(taken) /\ Cardinality(taken) = n
  <2>1. IsFiniteSet(taken) /\ Cardinality(taken) <= n
    <3>1. \A x \in taken : \E j \in 1 .. n : r.indices[j] = x
      OBVIOUS
    <3> DEFINE is == r.indices
    <3> HIDE DEF taken, n, is
    <3>2. \A x \in taken : \E j \in 1 .. n : is[j] = x
      BY <3>1 DEF is
    <3>3. QED
      BY <1>2, <3>2, AtMost
  <2>2. n <= Cardinality(taken)
    <3> DEFINE is == r.indices
    <3>1. \A j \in 1 .. n : is[j] \in taken
      OBVIOUS
    <3>2. \A i, j \in 1 .. n : i # j => is[i] # is[j]
      BY <1>2
    <3> HIDE DEF taken, n, is
    <3>3. QED
      BY <1>2, <2>1, <3>1, <3>2, AtLeast
  <2>3. Cardinality(taken) \in Nat
    BY <2>1, FS_CardinalityType
  <2>4. QED
    BY <1>2, <2>1, <2>2, <2>3
<1>6. \A x \in C : x \in taken \/ Far(x, q) >= r.distances[k]
  BY <1>1, <1>2, <1>3 DEF Entered
<1>7. n < k => C = taken
  <2> SUFFICES ASSUME n < k, NEW x \in C, x \notin taken PROVE FALSE
    BY <1>3
  <2>1. r.distances[k] = MaxDistance
    BY <1>2
  <2>2. Far(x, q) \in Nat /\ Far(x, q) < MaxDistance /\ Far(x, q) >= MaxDistance
    BY <1>1, <1>6, <2>1 DEF Entered
  <2>3. QED
    BY <2>2, DistanceAssumption
<1>8. Cardinality(C) \in Nat /\ Cardinality(taken) <= Cardinality(C)
  BY <1>3, <1>4, FS_CardinalityType, FS_Subset
<1>9. n = IF Cardinality(C) < k THEN Cardinality(C) ELSE k
  <2>1. CASE n < k
    BY <1>2, <1>5, <1>7, <2>1
  <2>2. CASE n = k
    BY <1>2, <1>5, <1>8, <2>2
  <2>3. QED
    BY <1>2, <2>1, <2>2
<1>10. \A m \in 1 .. n : r.distances[m] = SqDist(PointAt(r.indices[m]), q)
  BY <1>1 DEF Entered, Far
<1>11. ASSUME NEW i \in C \ taken PROVE SqDist(PointAt(i), q) >= r.distances[n]
  <2>1. n = k
    BY <1>2, <1>7
  <2>2. Far(i, q) >= r.distances[k]
    BY <1>6
  <2>3. QED
    BY <2>1, <2>2 DEF Far
<1> HIDE DEF taken
<1>12. /\ r.found = IF Cardinality(C) < k THEN Cardinality(C) ELSE k
       /\ taken \subseteq C /\ Cardinality(taken) = r.found
       /\ \A m \in 1 .. r.found : r.distances[m] = SqDist(PointAt(r.indices[m]), q)
       /\ \A i \in C \ taken : SqDist(PointAt(i), q) >= r.distances[r.found]
  BY <1>3, <1>5, <1>9, <1>10, <1>11
<1>13. QED
  BY <1>12 DEF r, C, taken

\* Two patterns without the cube never hold an offset twice.
LEMMA PatternDistinct ==
    ASSUME NEW old, NEW n, n # 27
    PROVE  LET o == OffsetPattern(old, n) IN
           \A l, m \in 1 .. Len(o) : o[l] = o[m] => l = m
<1>1. OffsetPattern(old, n) \in {AdjacentOffsets, CenterOffset}
  BY DEF OffsetPattern
<1>2. Len(CenterOffset) = 1 /\ Len(AdjacentOffsets) = 7
  BY DEF CenterOffset, AdjacentOffsets
<1>3. \A l, m \in 1 .. 1 : l = m
  OBVIOUS
<1>4. \A l, m \in 1 .. 7 : AdjacentOffsets[l] = AdjacentOffsets[m] => l = m
  <2> SUFFICES ASSUME NEW l \in 1 .. 7, NEW m \in 1 .. 7, AdjacentOffsets[l] = AdjacentOffsets[m]
               PROVE  l = m
    OBVIOUS
  <2> DEFINE code(o) == o[1] + 3 * o[2] + 9 * o[3]
  <2>1. code(AdjacentOffsets[l]) = code(AdjacentOffsets[m])
    OBVIOUS
  <2>2. /\ code(AdjacentOffsets[1]) = 0 /\ code(AdjacentOffsets[2]) = 1
        /\ code(AdjacentOffsets[3]) = 3 /\ code(AdjacentOffsets[4]) = 9
        /\ code(AdjacentOffsets[5]) = -1 /\ code(AdjacentOffsets[6]) = -3
        /\ code(AdjacentOffsets[7]) = -9
    BY DEF AdjacentOffsets
  <2> HIDE DEF code
  <2>3. /\ l \in {1, 2, 3, 4, 5, 6, 7} /\ m \in {1, 2, 3, 4, 5, 6, 7}
    OBVIOUS
  <2>4. QED
    BY <2>1, <2>2, <2>3
<1>5. QED
  BY <1>1, <1>2, <1>3, <1>4

\* As long as nobody asks for the cube of 27, whose offsets pile up, a search
\* between inserts returns the k nearest points of the voxels within reach,
\* each once and under an index from which the map finds it again, for any
\* scans, horizon, clear cycle, limits of the cells and k.
THEOREM SearchExactHolds ==
    ASSUME 27 \notin NumOffsets
    PROVE  SpecFlat => []SearchExact
<1>1. InitFlat => DistinctOffsets
  <2>1. Len(CenterOffset) = 1 /\ \A l, m \in 1 .. 1 : l = m
    BY DEF CenterOffset
  <2>2. QED
    BY <2>1 DEF InitFlat, Init, DistinctOffsets
<1>2. DistinctOffsets /\ [NextFlat]_flatVars => DistinctOffsets'
  <2> SUFFICES ASSUME DistinctOffsets, [NextFlat]_flatVars PROVE DistinctOffsets'
    OBVIOUS
  <2>1. CASE UNCHANGED search_offsets
    BY <2>1 DEF DistinctOffsets
  <2>2. ASSUME NEW n \in NumOffsets, SetSearchOffsets(n) PROVE DistinctOffsets'
    <3>1. search_offsets' = OffsetPattern(search_offsets, n) /\ n # 27
      BY <2>2 DEF SetSearchOffsets
    <3>2. QED
      BY <3>1, PatternDistinct DEF DistinctOffsets
  <2>3. StartInsert \/ AddPointFlat \/ FinishInsertFlat => UNCHANGED search_offsets
    BY DEF StartInsert, AddPointFlat, AddPoint, FinishInsertFlat, FinishInsert
  <2>4. UNCHANGED flatVars => UNCHANGED search_offsets
    BY DEF flatVars, vars
  <2>5. QED
    BY <2>1, <2>2, <2>3, <2>4 DEF NextFlat
<1>3. IInv /\ FlatInv /\ DistinctOffsets => SearchExact
  <2> SUFFICES ASSUME IInv, FlatInv, DistinctOffsets, NEW q \in Points, NEW k \in Neighbors
               PROVE  LET r == knn_search(q, k)
                          candidates == {i \in point_indices : voxel_id(i) + 1 \in Reached(q)}
                          taken == {r.indices[m] : m \in 1 .. r.found}
                      IN  /\ r.found = IF Cardinality(candidates) < k THEN Cardinality(candidates) ELSE k
                          /\ taken \subseteq candidates /\ Cardinality(taken) = r.found
                          /\ \A m \in 1 .. r.found : r.distances[m] = SqDist(PointAt(r.indices[m]), q)
                          /\ \A i \in candidates \ taken : SqDist(PointAt(i), q) >= r.distances[r.found]
    BY DEF SearchExact
  <2>1. k \in Nat \ {0}
    BY NeighborsAssumption
  <2>2. QED
    BY <2>1, SearchReturns DEF Candidates
<1>4. SpecFlat => []FlatInv
  BY CellsKept
<1>5. QED
  BY <1>1, <1>2, <1>3, <1>4, FlatImplements, Invariance, PTL DEF SpecFlat

=============================================================================
