----------------------------- MODULE Downsampling ----------------------------
(***************************************************************************)
(* voxelgrid_sampling and its OpenMP and TBB versions: points are keyed by *)
(* packed voxel coordinates, sorted by key, and averaged run by run.  The  *)
(* parallel versions sort with tasks (quick_sort_omp), average blocks of   *)
(* the sorted array concurrently, and let each block take its share of the *)
(* output with an atomic counter.  One block is the serial version.        *)
(*                                                                         *)
(* A point is its number in the cloud, and an average is the set of points *)
(* it is taken over.  A sort task holds its points as a set: std::sort and *)
(* std::partition may leave equal elements in any order.                   *)
(***************************************************************************)
EXTENDS Integers, FiniteSets, Functions

CONSTANTS
    Clouds,         \* the inputs, functions from point numbers to <<x, y, z>>
    LeafSize,       \* leaf_size
    CoordBits,      \* coord_bit_size (21 in the code)
    SortThreshold,  \* shorter ranges are sorted by std::sort (1024 in the code)
    Blockings       \* where the blocks of the averaging loop may begin, besides 0

VARIABLES
    cloud,        \* the points
    stage,        \* "sort", "average" or "done"
    pending,      \* sort tasks: range of positions -> points to be put there
    coord_pt,     \* the settled part of the sorted array: position -> point
    blocks,       \* where the blocks begin
    base,         \* point_index_begin of the blocks that have reserved output
    written,      \* the blocks whose points have been set
    num_points,   \* the atomic counter
    downsampled   \* output position -> points averaged

vars == <<cloud, stage, pending, coord_pt, blocks, base, written, num_points, downsampled>>

ASSUME CloudsAssumption ==
    \A c \in Clouds :
        /\ IsFiniteSet(DOMAIN c) /\ DOMAIN c = 0 .. Cardinality(DOMAIN c) - 1
        /\ c \in [DOMAIN c -> Int \X Int \X Int]
ASSUME BitsAssumption == LeafSize \in Nat \ {0} /\ CoordBits \in Nat \ {0}
ASSUME ThresholdAssumption == SortThreshold \in Nat \ {0}
ASSUME BlockingsAssumption == \A c \in Blockings : c \subseteq Nat \ {0}

Size == Cardinality(DOMAIN cloud)

-----------------------------------------------------------------------------
\* Voxel keys.
Side == 2 ^ CoordBits
invalid_coord == Side * Side * Side       \* above every packed key
Offset == 2 ^ (CoordBits - 1)
Coord(p, axis) == (cloud[p][axis] \div LeafSize) + Offset
Valid(p) == \A axis \in 1 .. 3 : Coord(p, axis) \in 0 .. Side - 1

Key(p) ==
    IF Valid(p) THEN Coord(p, 1) + Side * (Coord(p, 2) + Side * Coord(p, 3))
    ELSE invalid_coord

\* The ways std::sort may lay out the points ps from position first on.
Layouts(ps, first) ==
    {f \in Bijection(first .. first + Cardinality(ps) - 1, ps) :
        \A i, j \in DOMAIN f : i < j => Key(f[i]) <= Key(f[j])}

Merged(f, g) == [x \in DOMAIN f \cup DOMAIN g |-> IF x \in DOMAIN g THEN g[x] ELSE f[x]]
Task(first, last, ps) == [r \in IF ps = {} THEN {} ELSE {<<first, last>>} |-> ps]
Without(r) == [s \in DOMAIN pending \ {r} |-> pending[s]]

-----------------------------------------------------------------------------
Init ==
    /\ cloud \in Clouds
    /\ stage = IF Size = 0 THEN "done" ELSE "sort"
    /\ pending = Task(0, Size, DOMAIN cloud)
    /\ coord_pt = <<>>
    /\ blocks = {}
    /\ base = <<>>
    /\ written = {}
    /\ num_points = 0
    /\ downsampled = <<>>

SortShort(r) ==
    /\ stage = "sort"
    /\ r \in DOMAIN pending
    /\ r[2] - r[1] < SortThreshold
    /\ \E f \in Layouts(pending[r], r[1]) : coord_pt' = Merged(coord_pt, f)
    /\ pending' = Without(r)
    /\ UNCHANGED <<cloud, stage, blocks, base, written, num_points, downsampled>>

\* Faulty variants of a definition stand before it; the properties notice them.
\* Here the upper task gets the pivot again.
KeepsPivot(ps, pivot) == {p \in ps : Key(pivot) <= Key(p)}
Above(ps, pivot) == {p \in ps : Key(pivot) < Key(p)}

\* Two std::partitions around the pivot (a median of some of the elements), and
\* a task for either side.
Partition(r) ==
    /\ stage = "sort"
    /\ r \in DOMAIN pending
    /\ r[2] - r[1] >= SortThreshold
    /\ \E pivot \in pending[r] :
         LET ps      == pending[r]
             below   == {p \in ps : Key(p) < Key(pivot)}
             above   == Above(ps, pivot)
             middle1 == r[1] + Cardinality(below)
             middle2 == r[2] - Cardinality(above)
         IN  /\ pending' = Merged(Merged(Without(r), Task(r[1], middle1, below)),
                                  Task(middle2, r[2], above))
             /\ \E f \in Layouts({p \in ps : Key(p) = Key(pivot)}, middle1) :
                    coord_pt' = Merged(coord_pt, f)
    /\ UNCHANGED <<cloud, stage, blocks, base, written, num_points, downsampled>>

\* The barrier after the sort.
StartBlocks ==
    /\ stage = "sort"
    /\ DOMAIN pending = {}
    /\ stage' = "average"
    /\ \E c \in Blockings : blocks' = {0} \cup (c \cap 0 .. Size - 1)
    /\ UNCHANGED <<cloud, pending, coord_pt, base, written, num_points, downsampled>>

-----------------------------------------------------------------------------
BlockEnd(b) == CHOOSE e \in (blocks \cup {Size}) \ 0 .. b :
                  \A c \in blocks \ 0 .. b : e <= c
KeyAt(i) == Key(coord_pt[i])

\* Positions of block b at which a sum begins, and the positions added to it.
Starts(b) ==
    {b} \cup {i \in b + 1 .. BlockEnd(b) - 1 :
                KeyAt(i) # invalid_coord /\ KeyAt(i - 1) # KeyAt(i)}
AddedTo(b, s) ==
    {i \in s + 1 .. BlockEnd(b) - 1 :
        KeyAt(i) # invalid_coord /\ Starts(b) \cap s + 1 .. i = {}}

\* Faulty: the first sum of a block begins with nothing.
StartsEmpty(b, s) == {coord_pt[i] : i \in AddedTo(b, s) \cup ({s} \ {b})}
Averaged(b, s) == {coord_pt[i] : i \in AddedTo(b, s) \cup {s}}

Reserved(b) == Cardinality(Starts(b))

\* Faulty: the counter's new value is taken for the old one.
AddsBeforeFetch(b) == num_points + Reserved(b)
Fetched(b) == num_points

\* num_points.fetch_add(sub_points.size())
Reserve(b) ==
    /\ stage = "average"
    /\ b \in blocks \ DOMAIN base
    /\ base' = Merged(base, [c \in {b} |-> Fetched(b)])
    /\ num_points' = num_points + Reserved(b)
    /\ UNCHANGED <<cloud, stage, pending, coord_pt, blocks, written, downsampled>>

\* The block's averages are set, in the order of its runs.
Write(b) ==
    /\ stage = "average"
    /\ b \in DOMAIN base \ written
    /\ written' = written \cup {b}
    /\ downsampled' =
         Merged(downsampled,
                [n \in base[b] .. base[b] + Cardinality(Starts(b)) - 1 |->
                    LET s == CHOOSE t \in Starts(b) :
                                Cardinality(Starts(b) \cap 0 .. t - 1) = n - base[b]
                    IN  Averaged(b, s)])
    /\ UNCHANGED <<cloud, stage, pending, coord_pt, blocks, base, num_points>>

\* downsampled.resize(num_points), when every block is done.
Finish ==
    /\ stage = "average"
    /\ written = blocks
    /\ stage' = "done"
    /\ downsampled' = Restrict(downsampled, 0 .. num_points - 1)
    /\ UNCHANGED <<cloud, pending, coord_pt, blocks, base, written, num_points>>

Next ==
    \/ \E r \in DOMAIN pending : SortShort(r)
    \/ \E r \in DOMAIN pending : Partition(r)
    \/ StartBlocks
    \/ \E b \in blocks : Reserve(b)
    \/ \E b \in blocks : Write(b)
    \/ Finish

Spec == Init /\ [][Next]_vars

\* The caller's threads run all tasks and all blocks before the call returns.
FairSpec == Spec /\ WF_vars(Next)

-----------------------------------------------------------------------------
\* Sort tasks work on disjoint parts of the array, and on no settled position;
\* settled and pending parts make up the whole array and hold every point once.
Positions(r) == r[1] .. r[2] - 1
TasksApart ==
    stage = "sort" =>
        /\ \A r \in DOMAIN pending :
             /\ Cardinality(pending[r]) = r[2] - r[1]
             /\ Positions(r) \cap DOMAIN coord_pt = {}
             /\ \A s \in DOMAIN pending \ {r} :
                  Positions(r) \cap Positions(s) = {} /\ pending[r] \cap pending[s] = {}
        /\ (UNION {Positions(r) : r \in DOMAIN pending}) \cup DOMAIN coord_pt = 0 .. Size - 1
        /\ (UNION {pending[r] : r \in DOMAIN pending}) \cup Range(coord_pt) = DOMAIN cloud

\* No two blocks reserve the same output position, none is left out, and all lie
\* within the size of the input, to which downsampled is resized before the
\* blocks write unchecked.
SlotsOnce ==
    LET slots(b) == base[b] .. base[b] + Cardinality(Starts(b)) - 1 IN
    /\ \A b, c \in DOMAIN base : b # c => slots(b) \cap slots(c) = {}
    /\ UNION {slots(b) : b \in DOMAIN base} = 0 .. num_points - 1
    /\ num_points <= Size

Voxel(p) == [axis \in 1 .. 3 |-> cloud[p][axis] \div LeafSize]

\* Every point in range is averaged exactly once, with points of its own voxel
\* only; a voxel has one average, and one more for each block border inside it.
AveragedOnce ==
    stage = "done" =>
        /\ \A p \in DOMAIN cloud : Valid(p) =>
              Cardinality({n \in DOMAIN downsampled : p \in downsampled[n]}) = 1
        /\ \A n \in DOMAIN downsampled : \A p, q \in downsampled[n] : Voxel(p) = Voxel(q)
        /\ \A p \in DOMAIN cloud : Valid(p) =>
              Cardinality({n \in DOMAIN downsampled : \E q \in downsampled[n] : Voxel(q) = Voxel(p)})
                 <= 1 + Cardinality({b \in blocks \ {0} : KeyAt(b - 1) = Key(p) /\ KeyAt(b) = Key(p)})

\* The call returns: quick sort's tasks get shorter, and every block is carried out.
DownsamplingTerminates == <>(stage = "done")

\* voxelgrid_sampling's comment: "Points outside the valid range will be ignored."
InvalidIgnored ==
    stage = "done" => \A n \in DOMAIN downsampled : \A p \in downsampled[n] : Valid(p)
=============================================================================
