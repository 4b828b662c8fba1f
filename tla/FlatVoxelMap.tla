---------------------------- MODULE FlatVoxelMap ----------------------------
(***************************************************************************)
(* IncrementalVoxelMap<FlatContainer>: the voxel map of                    *)
(* IncrementalVoxelMap with voxels that hold points, and the searches over *)
(* the voxels around a query.  The steps are those of IncrementalVoxelMap; *)
(* contents[i] are the points of flat_voxels[i].                           *)
(***************************************************************************)
EXTENDS IncrementalVoxelMap, KnnResult

CONSTANTS
    MinSqDist,     \* min_sq_dist_in_cell
    MaxNumPoints,  \* max_num_points_in_cell
    PointIds,      \* 2^point_id_bits
    Neighbors      \* the values of k asked for

VARIABLE contents
flatVars == <<vars, contents>>

ASSUME SettingAssumption == MinSqDist \in Nat /\ MaxNumPoints \in Nat \ {0}
ASSUME NeighborsAssumption == Neighbors \subseteq Nat \ {0}
ASSUME PointIdsAssumption == PointIds \in Nat /\ PointIds >= MaxNumPoints

SqDist(p, q) ==
    LET square(i) == (p[i] - q[i]) * (p[i] - q[i]) IN square(1) + square(2) + square(3)

\* No distance overflows.
ASSUME OverflowAssumption == \A p, q \in Points : SqDist(p, q) < MaxDistance

\* FlatContainer::add: points too close to one that is there, and points
\* beyond the maximum, are dropped.
Thinned(points, p) ==
    IF Len(points) >= MaxNumPoints \/ \E i \in 1 .. Len(points) : SqDist(points[i], p) < MinSqDist
    THEN points
    ELSE Append(points, p)

InitFlat == Init /\ contents = <<>>

AddPointFlat ==
    LET p == Head(scan)
        coord == Abstract!Coord(p)
    IN  /\ AddPoint
        /\ contents' = IF coord \in DOMAIN voxels
                       THEN [contents EXCEPT ![voxels[coord]] = Thinned(@, p)]
                       ELSE Append(contents, Thinned(<<>>, p))

\* A voxel and its contents are one object: after a deletion the contents are
\* where their voxel is.  The faulty variant leaves them where they were.
StayBehind(after) == SubSeq(contents, 1, Len(after))
MovedAlong(after) == [i \in 1 .. Len(after) |-> contents[voxels[after[i].coord]]]

FinishInsertFlat == FinishInsert /\ contents' = MovedAlong(flat_voxels')

NextFlat ==
    \/ StartInsert /\ UNCHANGED contents
    \/ AddPointFlat
    \/ FinishInsertFlat
    \/ \E n \in NumOffsets : SetSearchOffsets(n) /\ UNCHANGED contents

SpecFlat == InitFlat /\ [][NextFlat]_flatVars

-----------------------------------------------------------------------------
\* Point indices: the voxel's position in the upper bits, the point's in the
\* lower ones, both from 0.
calc_index(voxel_id, point_id) == voxel_id * PointIds + point_id
voxel_id(i) == i \div PointIds
point_id(i) == i % PointIds
PointAt(i) == contents[voxel_id(i) + 1][point_id(i) + 1]

point_indices ==
    UNION {{calc_index(v - 1, i - 1) : i \in 1 .. Len(contents[v])} : v \in 1 .. Len(contents)}

\* FlatContainer::knn_search over the points of a voxel.
push_points(result, v, q) ==
    LET after[i \in 0 .. Len(contents[v])] ==
            IF i = 0 THEN result
            ELSE push(after[i - 1], calc_index(v - 1, i - 1), SqDist(contents[v][i], q))
    IN  after[Len(contents[v])]

\* knn_search, offset by offset; nearest_neighbor_search is that for k = 1.
knn_search(q, k) ==
    LET coord(m) == AddCoords(Abstract!Coord(q), search_offsets[m])
        after[m \in 0 .. Len(search_offsets)] ==
            IF m = 0 THEN EmptyResult(k)
            ELSE IF coord(m) \notin DOMAIN voxels THEN after[m - 1]
            ELSE push_points(after[m - 1], voxels[coord(m)], q)
    IN  after[Len(search_offsets)]

-----------------------------------------------------------------------------
\* Every voxel holds points of its own, no two too close and not too many,
\* and has held its first one since it was made, whatever was deleted and
\* moved since (flat_container.hpp:15 "This container stores only up to
\* max_num_points_in_cell points and avoids insertings points that are too
\* close to existing points").
CellsThinned ==
    /\ Len(contents) = Len(flat_voxels)
    /\ \A v \in 1 .. Len(contents) :
        /\ Len(contents[v]) \in 1 .. MaxNumPoints
        /\ \A i \in 1 .. Len(contents[v]) :
            /\ Abstract!Coord(contents[v][i]) = flat_voxels[v].coord
            /\ \A j \in 1 .. i - 1 : SqDist(contents[v][j], contents[v][i]) >= MinSqDist

\* The voxels within reach of a query, by the pattern that was asked for last.
Reached(q) ==
    LET center == Abstract!Coord(q) IN
    {v \in 1 .. Len(flat_voxels) :
        \E m \in 1 .. Len(search_offsets) : AddCoords(center, search_offsets[m]) = flat_voxels[v].coord}

\* Between inserts a search returns the k nearest of the points in the voxels
\* within reach, each once and under an index from which the map finds it
\* again: the index is put together from a position that changes while the
\* result is being collected (incremental_voxelmap.hpp:127).
SearchExact ==
    ~inserting =>
        \A q \in Points, k \in Neighbors :
            LET r == knn_search(q, k)
                candidates == {i \in point_indices : voxel_id(i) + 1 \in Reached(q)}
                taken == {r.indices[m] : m \in 1 .. r.found}
            IN  /\ r.found = IF Cardinality(candidates) < k THEN Cardinality(candidates) ELSE k
                /\ taken \subseteq candidates /\ Cardinality(taken) = r.found
                /\ \A m \in 1 .. r.found : r.distances[m] = SqDist(PointAt(r.indices[m]), q)
                /\ \A i \in candidates \ taken : SqDist(PointAt(i), q) >= r.distances[r.found]
=============================================================================
