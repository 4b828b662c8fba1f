------------------------------ MODULE GpuCloud ------------------------------
(***************************************************************************)
(* A GPU point cloud through its preprocessing: raw points are set, the    *)
(* Downsampler replaces them by the centroids of their voxels and builds   *)
(* the hash index over the voxels' keys, and estimate_covariances searches *)
(* every point's neighbours through that index.  One cloud, one            *)
(* Downsampler and the function-local static buffers are reused over many  *)
(* clouds.  The threads that build the index interleave at every           *)
(* atomicCAS; the kernels whose threads write only their own element are   *)
(* one step each.  A covariance is the set of positions it is computed     *)
(* from.                                                                   *)
(***************************************************************************)
EXTENDS VoxelKeys, SequencesExt

CONSTANTS
    RawClouds,       \* sequences of positions a caller may load
    Neighbors,       \* values of num_neighbors
    Hash,            \* voxel_hash before masking
    EMPTY,           \* the key of a free slot
    MinCapacity,     \* smallest table (16 in the code)
    MaxShell,        \* MAX_SHELL (12 in the code)
    MinNeighbors,    \* below it the covariance is the identity (5 in the code)
    BfMaxPoints,     \* BF_MAX_POINTS (8192 in the code)
    MaxClouds        \* bound on the number of clouds loaded

VARIABLES
    points,      \* cloud.points
    keys,        \* cloud.keys
    covs,        \* cloud.covs: per point, what the covariance was computed from
    table,       \* cloud.index: position -> [key, value]
    thread,      \* hash_insert_kernel: unfinished thread -> [pos, claimed]
    found,       \* static: per query, number of neighbours selected by force
    sel_j,       \* static: per query, these neighbours
    stage,       \* "raw" (points loaded), "insert" (index under way), "ready"
    raw,         \* history: the points last loaded
    asked,       \* history: num_neighbors of the covariances, 0 before
    clouds       \* history: number of clouds loaded

cloudVars == <<points, keys, covs, table, thread, found, sel_j, stage, raw, asked, clouds>>

ASSUME RawAssumption == RawClouds \subseteq Seq(Int \X Int)
ASSUME NeighborsAssumption == Neighbors \subseteq Nat \ {0}
ASSUME HashAssumption == Hash \in [ValidKeys -> Nat] /\ EMPTY \notin ValidKeys
ASSUME CapacityAssumption == MinCapacity \in Nat \ {0}
\* A shell must not meet itself around the range of coordinates.
ASSUME ShellAssumption == MaxShell \in Nat /\ 2 * MaxShell + 1 <= Side
ASSUME LimitAssumption == {MinNeighbors, BfMaxPoints, MaxClouds} \subseteq Nat

-----------------------------------------------------------------------------
\* The hash index.
\* Faulty variants of a definition stand before it; the properties notice them.
TightCapacity(n) ==
    CHOOSE cap \in {MinCapacity * 2^e : e \in 0 .. n} :
        /\ cap >= n
        /\ cap = MinCapacity \/ cap \div 2 < n

Capacity(n) ==
    CHOOSE cap \in {MinCapacity * 2^e : e \in 0 .. n} :
        /\ cap >= 2 * n
        /\ cap = MinCapacity \/ cap \div 2 < 2 * n

FreeTable(cap) == [pos \in 0 .. cap - 1 |-> [key |-> EMPTY, value |-> 0]]

Probe(t, key, d) == (Hash[key] + d) % Cardinality(DOMAIN t)

\* The index stored with a key, -1 when a free slot comes first.  A probe that
\* meets neither goes round for ever.
NeverEnds == -2
hash_lookup(t, key) ==
    LET distances == 0 .. Cardinality(DOMAIN t) - 1
        stops == {d \in distances : t[Probe(t, key, d)].key \in {key, EMPTY}}
    IN  IF stops = {} THEN NeverEnds
        ELSE LET slot == t[Probe(t, key, Min(stops))]
             IN  IF slot.key = key THEN slot.value ELSE -1

-----------------------------------------------------------------------------
\* Downsampler::run.  Sorting by key is stable: a point stands after as many as
\* are sorted before it.
SortedBefore(i, j) ==
    \/ voxel_key(points[i]) < voxel_key(points[j])
    \/ voxel_key(points[i]) = voxel_key(points[j]) /\ i < j
SortedValues ==
    [r \in DOMAIN points |->
        CHOOSE i \in DOMAIN points :
            Cardinality({j \in DOMAIN points : SortedBefore(j, i)}) + 1 = r]

SortedKeys(values) == [i \in DOMAIN values |-> voxel_key(points[values[i]])]

NewRun(sorted, i) == sorted[i] # INVALID_KEY /\ (i = 1 \/ sorted[i - 1] # sorted[i])

\* The exclusive prefix sum of the flags numbers the runs.
Starts(sorted) ==
    LET flagged == {i \in DOMAIN sorted : NewRun(sorted, i)}
        prefix(i) == Cardinality({j \in flagged : j < i})
    IN  [b \in 1 .. Cardinality(flagged) |-> CHOOSE i \in flagged : prefix(i) + 1 = b]

EndOfArray(sorted) == Len(sorted) + 1
InvalidStart(sorted) == Min({i \in DOMAIN sorted : sorted[i] = INVALID_KEY} \cup {Len(sorted) + 1})

\* The centroid of the points of one bucket, rounded.
Centroid(values, first, past) ==
    LET sum(a) == SumFunction([r \in first .. past - 1 |-> points[values[r]][a]])
    IN  <<sum(1) \div (past - first), sum(2) \div (past - first)>>

\* A bucket ends where the next one starts, the last where the invalid keys do.
PastBucket(sorted, b) ==
    LET starts == Starts(sorted)
    IN  IF b < Len(starts) THEN starts[b + 1] ELSE InvalidStart(sorted)

Centroids(values, sorted) ==
    [b \in DOMAIN Starts(sorted) |->
        Centroid(values, Starts(sorted)[b], PastBucket(sorted, b))]

BucketKeys(sorted) == [b \in DOMAIN Starts(sorted) |-> sorted[Starts(sorted)[b]]]

-----------------------------------------------------------------------------
\* estimate_covariances.
Candidate(q, j) == [d2 |-> SqDist(points[q], points[j]), j |-> j]

\* Insertion into the k best, which keeps them sorted: what comes after the
\* candidate moves up by one.
Merge(top, c, k) ==
    LET n == Len(top)
        place == Min({r \in DOMAIN top : lex_less(c, top[r])} \cup {n + 1})
    IN  IF n < k \/ lex_less(c, top[n])
        THEN [r \in 1 .. Min({n + 1, k}) |->
                 IF r < place THEN top[r] ELSE IF r = place THEN c ELSE top[r - 1]]
        ELSE top

\* The point in the voxel at an offset from that of query q.
PointAt(q, o) == hash_lookup(table, coord_key(Moved(key_coord(keys[q]), o)))

\* Shell s: every voxel of it is looked up and the hits merged.
ScanShell(q, top, s, k) ==
    LET best[t \in 0 .. CubeSize(s)] ==
            IF t = 0 THEN top
            ELSE LET j == PointAt(q, NthOffset(t, s))
                 IN  IF ShellOf(NthOffset(t, s)) = s /\ j >= 0
                     THEN Merge(best[t - 1], Candidate(q, j), k)
                     ELSE best[t - 1]
    IN  best[CubeSize(s)]

FracMin(p) == Min(UNION {{Frac(p)[a], Res - Frac(p)[a]} : a \in Axes})

WideBound(q, s) == FracMin(points[q]) + (s + 1) * Res
StopBound(q, s) == FracMin(points[q]) + s * Res

\* The warp of query q: shell after shell until the k-th best is closer than
\* anything outside the cube can be.
ShellSearch(q, k) ==
    LET search[n \in 0 .. MaxShell + 1] ==
            IF n = 0 THEN [top |-> <<>>, stop |-> FALSE]
            ELSE IF search[n - 1].stop THEN search[n - 1]
            ELSE LET s == n - 1
                     top == ScanShell(q, search[n - 1].top, s, k)
                 IN  [top |-> top,
                      stop |-> Len(top) >= k /\ top[k].d2 <= Sq(StopBound(q, s))]
    IN  search[MaxShell + 1]

\* Round r selects the first candidate after the one selected before.
SelectByForce(q, k) ==
    LET all == {Candidate(q, j) : j \in DOMAIN points}
        select[r \in 0 .. k] ==
            IF r = 0 THEN <<>>
            ELSE LET prev == select[r - 1]
                     rest == {c \in all : prev = <<>> \/ lex_less(Last(prev), c)}
                 IN  IF rest = {} THEN prev
                     ELSE Append(prev, CHOOSE c \in rest : \A x \in rest \ {c} : lex_less(c, x))
    IN  [r \in DOMAIN select[k] |-> select[k][r].j]

Identity == {}
CovOf(indices) ==
    IF Len(indices) < MinNeighbors THEN Identity ELSE {points[indices[r]] : r \in DOMAIN indices}

Keeps(size, default, old) == IF Len(old) = size THEN old ELSE [q \in 1 .. size |-> default]

-----------------------------------------------------------------------------
InitCloud ==
    /\ points = <<>> /\ keys = <<>> /\ covs = <<>> /\ table = <<>>
    /\ thread = <<>>
    /\ found = <<>> /\ sel_j = <<>>
    /\ stage = "ready"
    /\ raw = <<>> /\ asked = 0 /\ clouds = 0

\* GpuCloud::from_host makes a new cloud, set_points refills the one there is.
Load ==
    /\ stage = "ready"
    /\ clouds < MaxClouds
    /\ clouds' = clouds + 1
    /\ stage' = "raw"
    /\ raw' \in RawClouds
    /\ points' = raw'
    /\ asked' = 0
    /\ \/ keys' = <<>> /\ covs' = <<>> /\ table' = <<>>
       \/ UNCHANGED <<keys, covs, table>>
    /\ UNCHANGED <<thread, found, sel_j>>

\* No point, or no point in range: the run returns and leaves index and covs.
RunNothing ==
    /\ stage = "raw"
    /\ BucketKeys(SortedKeys(SortedValues)) = <<>>
    /\ points' = <<>>
    /\ keys' = <<>>
    /\ stage' = "ready"
    /\ UNCHANGED <<covs, table, thread, found, sel_j, raw, asked, clouds>>

\* VoxelHashIndex::build: the table is cleared and a thread launched per key.

Build(n) ==
    /\ table' = FreeTable(Capacity(n))
    /\ thread' = [i \in 1 .. n |-> [pos |-> Hash[keys'[i]] % Capacity(n), claimed |-> FALSE]]

Run ==
    LET values == SortedValues
        sorted == SortedKeys(values)
    IN  /\ stage = "raw"
        /\ BucketKeys(sorted) # <<>>
        /\ points' = Centroids(values, sorted)
        /\ keys' = BucketKeys(sorted)
        /\ Build(Len(BucketKeys(sorted)))
        /\ stage' = "insert"
        /\ UNCHANGED <<covs, found, sel_j, raw, asked, clouds>>

\* One atomicCAS of thread i.  Keys are unique, so it never meets its own.
ClaimSlot(i) ==
    LET pos == thread[i].pos IN
    /\ i \in DOMAIN thread
    /\ ~thread[i].claimed
    /\ \/ /\ table[pos].key = EMPTY
          /\ table' = [table EXCEPT ![pos].key = keys[i]]
          /\ thread' = [thread EXCEPT ![i].claimed = TRUE]
       \/ /\ table[pos].key # EMPTY
          /\ thread' = [thread EXCEPT ![i].pos = (pos + 1) % Cardinality(DOMAIN table)]
          /\ UNCHANGED table
    /\ UNCHANGED <<points, keys, covs, found, sel_j, stage, raw, asked, clouds>>

StoreIndex(i) ==
    /\ i \in DOMAIN thread
    /\ thread[i].claimed
    /\ table' = [table EXCEPT ![thread[i].pos].value = i]
    /\ thread' = [t \in DOMAIN thread \ {i} |-> thread[t]]
    /\ UNCHANGED <<points, keys, covs, found, sel_j, stage, raw, asked, clouds>>

IndexBuilt ==
    /\ stage = "insert"
    /\ DOMAIN thread = {}
    /\ stage' = "ready"
    /\ UNCHANGED <<points, keys, covs, table, thread, found, sel_j, raw, asked, clouds>>

\* A query the shells have answered is skipped by the brute-force kernels.
Answered(result, k) == result.stop /\ Len(result.top) >= k

\* The kernels of estimate_covariances, one after the other.
EstimateCovariances(k) ==
    LET n == Len(keys)
        shell == [q \in DOMAIN keys |-> ShellSearch(q, k)]
        by_shells == [q \in DOMAIN keys |-> CovOf([r \in DOMAIN shell[q].top |-> shell[q].top[r].j])]
    IN  /\ stage = "ready"
        /\ keys # <<>>
        /\ asked' = k
        /\ \/ /\ n <= BfMaxPoints
              /\ sel_j' = [q \in DOMAIN keys |-> IF Answered(shell[q], k)
                                                 THEN Keeps(n, <<>>, sel_j)[q]
                                                 ELSE SelectByForce(q, k)]
              /\ found' = [q \in DOMAIN keys |-> IF Answered(shell[q], k) THEN 0 ELSE Len(sel_j'[q])]
              /\ covs' = [q \in DOMAIN keys |-> IF found'[q] = 0 THEN by_shells[q]
                                                ELSE CovOf(SubSeq(sel_j'[q], 1, found'[q]))]
           \/ /\ n > BfMaxPoints
              /\ sel_j' = Keeps(n, <<>>, sel_j)
              /\ found' = Keeps(n, 0, found)
              /\ covs' = by_shells
        /\ UNCHANGED <<points, keys, table, thread, stage, raw, clouds>>

NextCloud ==
    \/ Load
    \/ RunNothing
    \/ Run
    \/ \E i \in DOMAIN thread : ClaimSlot(i)
    \/ \E i \in DOMAIN thread : StoreIndex(i)
    \/ IndexBuilt
    \/ \E k \in Neighbors : EstimateCovariances(k)

CloudSpec == InitCloud /\ [][NextCloud]_cloudVars

-----------------------------------------------------------------------------
SumOf(members, a) == SumFunction([i \in members |-> raw[i][a]])

\* Once a cloud is downsampled it has one point per occupied voxel, in the order
\* of the keys: the mean of exactly the raw points of that voxel, whatever is
\* out of range, and whatever cloud the buffers held before.
BucketsExact ==
    stage # "raw" =>
        /\ {keys[b] : b \in DOMAIN keys} = {voxel_key(raw[i]) : i \in DOMAIN raw} \ {INVALID_KEY}
        /\ \A b \in 2 .. Len(keys) : keys[b - 1] < keys[b]
        /\ \A b \in DOMAIN keys :
              LET members == {i \in DOMAIN raw : voxel_key(raw[i]) = keys[b]} IN
              points[b] = [a \in Axes |-> SumOf(members, a) \div Cardinality(members)]

\* However its threads raced, the index gives every voxel of the cloud the
\* position of its point and ends at a free slot for every other voxel, also
\* when the table held another cloud before.
IndexExact ==
    stage = "ready" /\ keys # <<>> =>
        \A key \in ValidKeys :
            hash_lookup(table, key) =
                IF \E b \in DOMAIN keys : keys[b] = key
                THEN CHOOSE b \in DOMAIN keys : keys[b] = key
                ELSE -1

\* preproc/covariance.cu: "Exact for every point whose k-th neighbor lies within
\* MAX_SHELL voxels", and for all points of a cloud small enough for the
\* brute-force pass.  A covariance is computed from k nearest points (from all,
\* if there are fewer), or is the identity if these are too few.
NeighborsExact ==
    asked # 0 =>
        \A q \in DOMAIN keys :
            LET nearest == SelectByForce(q, asked)
                furthest == SqDist(points[q], points[Last(nearest)])
                exact == \/ Len(keys) <= BfMaxPoints
                         \/ Len(nearest) = asked /\ furthest <= Sq(MaxShell * Res)
            IN  exact =>
                IF Len(nearest) < MinNeighbors THEN covs[q] = Identity
                ELSE /\ Cardinality(covs[q]) = Len(nearest)
                     /\ \A p \in covs[q] :
                           /\ \E j \in DOMAIN points : points[j] = p
                           /\ SqDist(points[q], p) <= furthest
                     /\ \A j \in DOMAIN points :
                           SqDist(points[q], points[j]) < furthest => points[j] \in covs[q]

\* gpu_cloud.hpp: "O(1) voxel hash index over keys (built by Downsampler)".
IndexOverKeys ==
    stage = "ready" =>
        {table[pos].key : pos \in DOMAIN table} \ {EMPTY} = {keys[b] : b \in DOMAIN keys}

=============================================================================
