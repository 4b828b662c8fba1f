------------------------ MODULE IncrementalVoxelMap ------------------------
(***************************************************************************)
(* IncrementalVoxelMap<GaussianVoxel>: a vector of voxels, a hash map from *)
(* voxel coordinates to positions in that vector, and LRU deletion that    *)
(* compacts the vector and rebuilds the hash map.  insert() is carried out *)
(* point by point; its tail (the counter, the deletion, the rehash and the *)
(* finalisation of all voxels) is one step.                                *)
(***************************************************************************)
EXTENDS Integers, Sequences, FiniteSets

CONSTANTS
    Points,       \* transformed points, <<x, y, z>>
    LeafSize,     \* 1 / inv_leaf_size
    Horizon,      \* lru_horizon
    Cycle,        \* lru_clear_cycle
    Scans,        \* the point clouds insert() is called with
    NumOffsets,   \* the arguments set_search_offsets() is called with
    MaxInserts    \* bound on the number of calls of insert()

VARIABLES
    flat_voxels,     \* flat_voxels: coord, lru and GaussianVoxel contents
    voxels,          \* voxels: coordinate -> position in flat_voxels (from 1)
    lru_counter,
    search_offsets,
    inserting,       \* insert() is running ...
    scan             \* ... and these points are still to be added

vars == <<flat_voxels, voxels, lru_counter, search_offsets, inserting, scan>>

ASSUME PointsAssumption == Points \subseteq Int \X Int \X Int
ASSUME LeafSizeAssumption == LeafSize \in Nat \ {0}
ASSUME LruAssumption == Horizon \in Nat /\ Cycle \in Nat \ {0}
ASSUME ScansAssumption == Scans \subseteq Seq(Points)
ASSUME BoundAssumption == MaxInserts \in Nat

\* The map's promise, read off this state (the refinement mapping).
Cells == [k \in DOMAIN voxels |->
            LET v == flat_voxels[voxels[k]]
            IN  [n |-> v.num_points, sum |-> v.mean.total, lru |-> v.lru]]

Abstract == INSTANCE VoxelMapSpec WITH clock <- lru_counter, cells <- Cells

-----------------------------------------------------------------------------
\* GaussianVoxel.  mean is the quotient total / divisor of a vector and a
\* number: while the voxel collects points it holds their sum, and once
\* finalized their average.
NewVoxel(coord, lru) ==
    [coord |-> coord, lru |-> lru, finalized |-> FALSE, num_points |-> 0,
     mean |-> [total |-> Abstract!Zero, divisor |-> 1]]

Scale(u, c) == <<u[1] * c, u[2] * c, u[3] * c>>
Multiply(mean, n) ==
    IF mean.divisor = n THEN [mean EXCEPT !.divisor = 1]
    ELSE [mean EXCEPT !.total = Scale(mean.total, n)]
Divide(mean, n) == [mean EXCEPT !.divisor = @ * n]
AddTo(mean, p) == [mean EXCEPT !.total = Abstract!Plus(@, Scale(p, mean.divisor))]


add(v, p) ==
    LET sum == IF v.finalized THEN Multiply(v.mean, v.num_points) ELSE v.mean
    IN  [v EXCEPT !.finalized = FALSE, !.num_points = @ + 1, !.mean = AddTo(sum, p)]

finalize(v) ==
    IF v.finalized THEN v
    ELSE [v EXCEPT !.finalized = TRUE, !.mean = Divide(@, v.num_points)]

-----------------------------------------------------------------------------
\* set_search_offsets
CenterOffset == <<<<0, 0, 0>>>>
AdjacentOffsets ==
    <<<<0, 0, 0>>, <<1, 0, 0>>, <<0, 1, 0>>, <<0, 0, 1>>, <<-1, 0, 0>>, <<0, -1, 0>>, <<0, 0, -1>>>>
CubeOffsets == [m \in 1 .. 27 |->
    <<((m - 1) \div 9) - 1, (((m - 1) \div 3) % 3) - 1, ((m - 1) % 3) - 1>>]

\* Faulty variants of a definition stand before it; the properties notice them.
AlwaysAppends(old, num_offsets) ==
    old \o (IF num_offsets = 7 THEN AdjacentOffsets
            ELSE IF num_offsets = 27 THEN CubeOffsets ELSE CenterOffset)

OffsetPattern(old, num_offsets) ==
    IF num_offsets = 7 THEN AdjacentOffsets
    ELSE IF num_offsets = 27 THEN old \o CubeOffsets     \* emplace_back
    ELSE CenterOffset                                    \* 1, or a warning and 1

SetSearchOffsets(num_offsets) ==
    /\ ~inserting
    /\ search_offsets' = OffsetPattern(search_offsets, num_offsets)
    /\ UNCHANGED <<flat_voxels, voxels, lru_counter, inserting, scan>>

-----------------------------------------------------------------------------
Init ==
    /\ flat_voxels = <<>>
    /\ voxels = [k \in {} |-> 0]
    /\ lru_counter = 0
    /\ search_offsets = CenterOffset
    /\ inserting = FALSE
    /\ scan = <<>>

StartInsert ==
    /\ ~inserting
    /\ lru_counter < MaxInserts
    /\ \E s \in Scans : scan' = s
    /\ inserting' = TRUE
    /\ UNCHANGED <<flat_voxels, voxels, lru_counter, search_offsets>>

NoStamp(v, p) == add(v, p)
LastPosition == Len(flat_voxels)

\* The flat vector and the index map after voxels.find(coord) and, if it finds
\* nothing, the two emplacements.
Touched(v, p) == add([v EXCEPT !.lru = lru_counter], p)
NextPosition == Len(flat_voxels) + 1

AddToVoxel(p) ==
    LET coord == Abstract!Coord(p) IN
    \/ /\ coord \in DOMAIN voxels
       /\ flat_voxels' = [flat_voxels EXCEPT ![voxels[coord]] = Touched(@, p)]
       /\ UNCHANGED voxels
    \/ /\ coord \notin DOMAIN voxels
       /\ flat_voxels' = Append(flat_voxels, Touched(NewVoxel(coord, lru_counter), p))
       /\ voxels' = [k \in DOMAIN voxels \cup {coord} |->
                        IF k = coord THEN NextPosition ELSE voxels[k]]

AddPoint ==
    /\ inserting
    /\ scan # <<>>
    /\ AddToVoxel(Head(scan))
    /\ scan' = Tail(scan)
    /\ UNCHANGED <<lru_counter, search_offsets, inserting>>

\* remove_if: the voxels that stay, in their old order.  keep[i] is the old
\* position of the voxel that becomes the i-th.
ExpiresLate(v, now) == v.lru + Horizon + 1 < now
Expired(v, now) == v.lru + Horizon < now
Kept(now) == {i \in 1 .. Len(flat_voxels) : ~Expired(flat_voxels[i], now)}
Compaction(m, keep, now) ==
    /\ \A i, j \in 1 .. m : i < j => keep[i] < keep[j]
    /\ Kept(now) = {keep[i] : i \in 1 .. m}

Finalized(vs) == [i \in 1 .. Len(vs) |-> finalize(vs[i])]

ClearCycle(now) ==
    \E m \in 0 .. Len(flat_voxels) : \E keep \in [1 .. m -> 1 .. Len(flat_voxels)] :
        /\ Compaction(m, keep, now)
        /\ flat_voxels' = Finalized([i \in 1 .. m |-> flat_voxels[keep[i]]])
        /\ voxels' = [k \in {flat_voxels[i].coord : i \in Kept(now)} |->
                        CHOOSE i \in 1 .. m : flat_voxels[keep[i]].coord = k]

FinishInsert ==
    /\ inserting
    /\ scan = <<>>
    /\ lru_counter' = lru_counter + 1
    /\ \/ /\ lru_counter' % Cycle = 0
          /\ ClearCycle(lru_counter')
       \/ /\ lru_counter' % Cycle # 0
          /\ flat_voxels' = Finalized(flat_voxels)
          /\ UNCHANGED voxels
    /\ inserting' = FALSE
    /\ UNCHANGED <<search_offsets, scan>>

Next ==
    \/ StartInsert
    \/ AddPoint
    \/ FinishInsert
    \/ \E n \in NumOffsets : SetSearchOffsets(n)

Spec == Init /\ [][Next]_vars

-----------------------------------------------------------------------------
Coords == Int \X Int \X Int
Voxel == [coord : Coords, lru : Nat, finalized : BOOLEAN, num_points : Nat,
          mean : [total : Coords, divisor : Nat]]

\* The types of the map's state.
TypeOK ==
    /\ flat_voxels \in Seq(Voxel)
    /\ voxels \in [DOMAIN voxels -> Nat \ {0}]
    /\ DOMAIN voxels \subseteq Coords
    /\ lru_counter \in Nat
    /\ search_offsets \in Seq(Coords)
    /\ inserting \in BOOLEAN
    /\ scan \in Seq(Points)

\* The hash map is exactly the inverse of the vector: every voxel is found
\* under its own coordinate, and nothing else is found -- across growth, and
\* across deletions that move voxels to other positions.
IndexConsistent ==
    /\ DOMAIN voxels = {flat_voxels[i].coord : i \in 1 .. Len(flat_voxels)}
    /\ \A i \in 1 .. Len(flat_voxels) : voxels[flat_voxels[i].coord] = i

\* Between calls of insert() every voxel holds the average of its points, and
\* a voxel exists only for points it holds.
MeansFinal ==
    \A i \in 1 .. Len(flat_voxels) :
        LET v == flat_voxels[i] IN
        /\ v.num_points > 0
        /\ v.mean.divisor = IF v.finalized THEN v.num_points ELSE 1
        /\ ~inserting => v.finalized

\* A voxel outlives its horizon by less than one clear cycle, and is never
\* stamped with a time to come.
BoundedStaleness ==
    \A i \in 1 .. Len(flat_voxels) :
        /\ flat_voxels[i].lru <= lru_counter
        /\ flat_voxels[i].lru + Horizon >= lru_counter - (lru_counter % Cycle)

\* The storage implements the promise.
RefinesSpec == Abstract!SpecMap

-----------------------------------------------------------------------------
\* The voxels a search around the voxel center looks at, in order
\* (nearest_neighbor_search and knn_search push each one's points).
AddCoords(u, v) == Abstract!Plus(u, v)
Visited(center) ==
    {m \in 1 .. Len(search_offsets) : AddCoords(center, search_offsets[m]) \in DOMAIN voxels}

\* set_search_offsets' comment: "1: center only, 7: center + 6 adjacent
\* neighbors, 27: center + 26 neighbors".  No search meets a voxel twice, so
\* no point can take two places among the k nearest.
VisitedOnce ==
    \A center \in DOMAIN voxels : \A m, n \in Visited(center) :
        voxels[AddCoords(center, search_offsets[m])] = voxels[AddCoords(center, search_offsets[n])]
            => m = n
=============================================================================
