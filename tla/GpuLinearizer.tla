---------------------------- MODULE GpuLinearizer ----------------------------
(***************************************************************************)
(* The device side of GPU registration: the batch neighbour search, the    *)
(* linearization kernel with one partial sum per warp, and the             *)
(* re-evaluation of the error with cached correspondences, as              *)
(* GicpGpu::align and VgicpGpu::align call them over many pairs of clouds  *)
(* with the same scratch buffers.  Warps of one kernel run in any order.   *)
(* Poses are translations; a factor's contribution is the record of the    *)
(* pair, the pose it is evaluated at and the pose its weight was fused at. *)
(* What accepts a trial is in module Registration: here any trial may be   *)
(* accepted.                                                               *)
(***************************************************************************)
EXTENDS VoxelKeys, SequencesExt

CONSTANTS
    Targets,      \* downsampled clouds (or voxel maps): positions by key
    Sources,      \* sequences of positions
    Poses,        \* translations
    max_dist_sq,
    Engines,      \* subset of {"gicp", "vgicp"}
    Strategies,   \* subset of {"Voxel3", "Voxel5", "ExactBF"}
    WarpSize,     \* 32 in the code
    BlockSize,    \* 256 in the code
    MaxKernels    \* bound on the number of kernels launched

VARIABLES
    engine, nn,    \* the engine object and its search strategy
    target, source,
    pose,          \* result.T_target_source
    T,             \* d_T_, the pose on the device
    nn_hits,       \* nn_j_ and nn_d2_, the result of the batch search
    out_hits,      \* the result of nn_search
    partials,      \* per warp of the buffer: the contributions summed in it
    inlier_count,
    cache,         \* the correspondence cache: per source point [j, at]
    running,       \* warps of the launched kernel that have not run
    phase,         \* what align is at
    h_out,         \* the sum the host has computed: contributions -> how often added
    inliers,
    pairs,         \* history: the pairs of the last linearization and its pose
    kernels        \* history: number of kernels launched

vars == <<engine, nn, target, source, pose, T, nn_hits, out_hits, partials,
          inlier_count, cache, running, phase, h_out, inliers, pairs, kernels>>

ASSUME CloudsAssumption ==
    /\ Targets \cup Sources \subseteq Seq(Int \X Int)
    /\ \A t \in Targets : \A i, j \in DOMAIN t :
          /\ voxel_key(t[i]) # INVALID_KEY
          /\ i < j => voxel_key(t[i]) < voxel_key(t[j])
ASSUME PosesAssumption == Poses \subseteq Int \X Int
ASSUME BlockAssumption ==
    WarpSize \in Nat \ {0} /\ BlockSize \in Nat \ {0} /\ BlockSize % WarpSize = 0
ASSUME MenuAssumption ==
    Engines \subseteq {"gicp", "vgicp"} /\ Strategies \subseteq {"Voxel3", "Voxel5", "ExactBF"}
ASSUME BoundsAssumption == max_dist_sq \in Nat /\ MaxKernels \in Nat

-----------------------------------------------------------------------------
\* Neighbour search.  None stands for index -1.
None == 0
NoHit == [d2 |-> -1, j |-> None]

\* What the index finds at a key (GpuCloud's IndexExact).
Find(key) ==
    IF \E j \in DOMAIN target : voxel_key(target[j]) = key
    THEN CHOOSE j \in DOMAIN target : voxel_key(target[j]) = key
    ELSE None

HitAt(q, o) ==
    LET j == Find(coord_key(Moved(key_coord(voxel_key(q)), o)))
    IN  IF j = None THEN NoHit ELSE [d2 |-> SqDist(q, target[j]), j |-> j]

Better(a, b) == a.j # None /\ (b.j = None \/ a.d2 < b.d2)

\* The reduction over the lanes of a warp.
Nearer(hits, than) ==
    LET better == {h \in hits : Better(h, than)}
    IN  IF better = {} THEN than
        ELSE CHOOSE h \in better : \A g \in better : g.d2 >= h.d2

\* Faulty variants of a definition stand before it; the properties notice them.
FarSideGap(q, o, a) == IF o[a] = 0 THEN 0 ELSE Abs(o[a]) * Res

\* Distance, in units, from a position to the nearest point of the voxel at an
\* offset on one axis.
Gap(q, o, a) ==
    IF o[a] = 0 THEN 0
    ELSE (Abs(o[a]) - 1) * Res + IF o[a] > 0 THEN Res - Frac(q)[a] ELSE Frac(q)[a]
GapSq(q, o) == Sq(Gap(q, o, 1)) + Sq(Gap(q, o, 2))

WideExpand == Sq(3 * Res)
expand_d2 == Sq(2 * Res)

\* nn_batch_kernel, the warp of one query.
BatchSearch(q) ==
    LET window == Nearer({HitAt(q, o) : o \in Cube(2)}, NoHit)
        prune_ref == IF window.j # None THEN window.d2 ELSE max_dist_sq
        ring == {o \in Cube(4) \ Cube(2) : GapSq(q, o) < prune_ref}
    IN  IF voxel_key(q) = INVALID_KEY THEN [NoHit EXCEPT !.d2 = 0]
        ELSE IF window.j = None \/ window.d2 > expand_d2
        THEN Nearer({HitAt(q, o) : o \in ring}, window)
        ELSE window

\* Every target point, in nn_query<ExactBF>.
ExactSearch(q) == Nearer({[d2 |-> SqDist(q, target[j]), j |-> j] : j \in DOMAIN target}, NoHit)

\* nn_query, the search of one thread: voxel after voxel, pruned by the best so
\* far, or by cap while there is none (cap < 0: no limit). A voxel of the window,
\* or without a point, leaves the best alone.
nn_query(q, strategy, cap) ==
    LET r == IF strategy = "Voxel3" THEN 1 ELSE 2
        keep(best, h) == IF Better(h, best) THEN h ELSE best
        window[t \in 0 .. CubeSize(r)] ==
            IF t = 0 THEN NoHit ELSE keep(window[t - 1], HitAt(q, NthOffset(t, r)))
        inside == window[CubeSize(r)]
        pruned(best, o) ==
            IF best.j # None THEN GapSq(q, o) >= best.d2 ELSE cap >= 0 /\ GapSq(q, o) >= cap
        beyond(o) == ShellOf(o) > r /\ HitAt(q, o).j # None
        visit(best, o) == IF pruned(best, o) THEN best ELSE keep(best, HitAt(q, o))
        expand[t \in 0 .. CubeSize(4)] ==
            IF t = 0 THEN inside
            ELSE IF beyond(NthOffset(t, 4)) THEN visit(expand[t - 1], NthOffset(t, 4))
            ELSE expand[t - 1]
    IN  IF strategy = "ExactBF" THEN ExactSearch(q)
        ELSE IF voxel_key(q) = INVALID_KEY THEN [NoHit EXCEPT !.d2 = 0]
        ELSE IF inside.j = None \/ inside.d2 > expand_d2 THEN expand[CubeSize(4)]
        ELSE inside

-----------------------------------------------------------------------------
\* Buffers and launches.
N == Len(source)
At(i, t) == Moved(source[i], t)
Blocks == (N + BlockSize - 1) \div BlockSize
LaunchedWarps == 0 .. Blocks * (BlockSize \div WarpSize) - 1
ThreadsOf(w) == {i \in DOMAIN source : (i - 1) \div WarpSize = w}

BufferWarps == Blocks * (BlockSize \div WarpSize)

\* A buffer of another size is allocated anew, and holds nothing of use.
Resized(buffer, indices, nothing) ==
    IF DOMAIN buffer = indices THEN buffer ELSE [i \in indices |-> nothing]

NoPair == [j |-> None, at |-> <<>>]
FreshCache == Resized(cache, DOMAIN source, NoPair)

KeepsEntry(entry) == entry

\* A rejected point's entry keeps its weight.
RejectedEntry(entry) == [entry EXCEPT !.j = None]

\* The pair of source point i at the pose on the device.
PairOf(i) ==
    LET q == At(i, T)
        hit == IF engine = "vgicp"
               THEN IF voxel_key(q) = INVALID_KEY THEN NoHit ELSE HitAt(q, <<0, 0>>)
               ELSE IF nn = "ExactBF" THEN ExactSearch(q)
               ELSE nn_hits[i]
    IN  IF hit.j # None /\ hit.d2 <= max_dist_sq THEN hit.j ELSE None

Contribution(i, pair) == [i |-> i, j |-> pair.j, at |-> T, fused |-> pair.at]

\* The host's sum over the buffer: how often it adds each contribution.
HostSum ==
    [c \in UNION {partials[w] : w \in DOMAIN partials} |->
        Cardinality({w \in DOMAIN partials : c \in partials[w]})]

-----------------------------------------------------------------------------
Init ==
    /\ engine \in Engines
    /\ nn \in Strategies
    /\ target = <<>> /\ source = <<>>
    /\ pose = <<0, 0>> /\ T = <<0, 0>>
    /\ nn_hits = <<>> /\ out_hits = <<>>
    /\ partials = <<>> /\ inlier_count = 0
    /\ cache = <<>>
    /\ running = {}
    /\ phase = "idle"
    /\ h_out = <<>> /\ inliers = 0
    /\ pairs = <<>>
    /\ kernels = 0

\* The caller has another pair of clouds.
NewClouds ==
    /\ phase = "idle"
    /\ target' \in Targets
    /\ source' \in Sources
    /\ phase' = "given"
    /\ UNCHANGED <<engine, nn, pose, T, nn_hits, out_hits, partials, inlier_count, cache,
                   running, h_out, inliers, pairs, kernels>>

\* nn_search: one thread per query, without a limit on the distance.
NnSearch ==
    /\ phase = "given"
    /\ engine = "gicp"
    /\ target # <<>>
    /\ out_hits' = [i \in DOMAIN source |-> nn_query(source[i], nn, -1)]
    /\ phase' = "searched"
    /\ UNCHANGED <<engine, nn, target, source, pose, T, nn_hits, partials, inlier_count,
                   cache, running, h_out, inliers, pairs, kernels>>

\* GicpGpu::align begins with an empty cache.  VgicpGpu::align keeps its own and
\* sets every entry to -1; with nothing to align it returns.
StartAlign ==
    /\ phase = "given"
    /\ pose' \in Poses
    /\ pairs' = <<>>
    /\ \/ /\ engine = "gicp"
          /\ cache' = <<>>
          /\ phase' = "outer"
          /\ UNCHANGED <<partials>>
       \/ /\ engine = "vgicp"
          /\ N = 0 \/ target = <<>>
          /\ phase' = "idle"
          /\ UNCHANGED <<cache, partials>>
       \/ /\ engine = "vgicp"
          /\ N > 0 /\ target # <<>>
          /\ cache' = [i \in DOMAIN source |-> [FreshCache[i] EXCEPT !.j = None]]
          /\ partials' = Resized(partials, 0 .. BufferWarps - 1, {})
          /\ phase' = "outer"
    /\ UNCHANGED <<engine, nn, target, source, T, nn_hits, out_hits, inlier_count, running,
                   h_out, inliers, kernels>>

Launch ==
    /\ kernels < MaxKernels
    /\ kernels' = kernels + 1
    /\ partials' = Resized(partials, 0 .. BufferWarps - 1, {})
    /\ running' = LaunchedWarps

\* linearize_and_reduce has nothing to do: a zero system.
LinearizeNothing ==
    /\ phase = "outer"
    /\ N = 0 \/ target = <<>>
    /\ h_out' = <<>>
    /\ inliers' = 0
    /\ phase' = "linearized"
    /\ UNCHANGED <<engine, nn, target, source, pose, T, nn_hits, out_hits, partials,
                   inlier_count, cache, running, pairs, kernels>>

\* Sizes the scratch, uploads the pose and launches: first the batch search.
Linearize ==
    /\ phase = "outer"
    /\ N > 0 /\ target # <<>>
    /\ Launch
    /\ cache' = FreshCache
    /\ T' = pose
    /\ inlier_count' = 0
    /\ pairs' = [i \in DOMAIN source |-> NoPair]
    /\ nn_hits' = IF engine = "gicp" /\ nn \in {"Voxel3", "Voxel5"}
                  THEN [i \in DOMAIN source |-> BatchSearch(At(i, pose))]
                  ELSE Resized(nn_hits, DOMAIN source, NoHit)
    /\ phase' = "linearize"
    /\ UNCHANGED <<engine, nn, target, source, pose, out_hits, h_out, inliers>>

\* Warp w of the linearization kernel.
LinearizeWarp(w) ==
    LET pair == [i \in ThreadsOf(w) |->
                    IF PairOf(i) = None THEN RejectedEntry(cache[i])
                    ELSE [j |-> PairOf(i), at |-> T]]
        inlier == {i \in ThreadsOf(w) : pair[i].j # None}
    IN  /\ phase = "linearize"
        /\ w \in running
        /\ running' = running \ {w}
        /\ cache' = [i \in DOMAIN cache |-> IF i \in ThreadsOf(w) THEN pair[i] ELSE cache[i]]
        /\ pairs' = [i \in DOMAIN pairs |-> IF i \in ThreadsOf(w) THEN pair[i] ELSE pairs[i]]
        /\ partials' = [v \in DOMAIN partials \cup {w} |->
                           IF v = w THEN {Contribution(i, pair[i]) : i \in inlier} ELSE partials[v]]
        /\ inlier_count' = inlier_count + Cardinality(inlier)
        /\ UNCHANGED <<engine, nn, target, source, pose, T, nn_hits, out_hits, phase, h_out,
                       inliers, kernels>>

SumLinearized ==
    /\ phase = "linearize"
    /\ running = {}
    /\ h_out' = HostSum
    /\ inliers' = inlier_count
    /\ phase' = "linearized"
    /\ UNCHANGED <<engine, nn, target, source, pose, T, nn_hits, out_hits, partials,
                   inlier_count, cache, running, pairs, kernels>>

\* eval_error_cached at a trial pose.
TryPose ==
    /\ phase \in {"linearized", "evaluated"}
    /\ N > 0
    /\ Launch
    /\ T' \in Poses
    /\ nn_hits' = Resized(nn_hits, DOMAIN source, NoHit)
    /\ phase' = "evaluate"
    /\ UNCHANGED <<engine, nn, target, source, pose, out_hits, inlier_count, cache, h_out,
                   inliers, pairs>>

\* A warp of the error kernel, which reads the cached pairs.
ErrorWarp(w) ==
    /\ phase = "evaluate"
    /\ w \in running
    /\ ThreadsOf(w) \subseteq DOMAIN cache
    /\ running' = running \ {w}
    /\ partials' = [v \in DOMAIN partials \cup {w} |->
                       IF v # w THEN partials[v]
                       ELSE {Contribution(i, cache[i]) : i \in {k \in ThreadsOf(w) : cache[k].j # None}}]
    /\ UNCHANGED <<engine, nn, target, source, pose, T, nn_hits, out_hits, inlier_count,
                   cache, phase, h_out, inliers, pairs, kernels>>

\* Reading a cache that was never allocated is an error the next call reports.
ErrorFails(w) ==
    /\ phase = "evaluate"
    /\ w \in running
    /\ ~(ThreadsOf(w) \subseteq DOMAIN cache)
    /\ phase' = "failed"
    /\ UNCHANGED <<engine, nn, target, source, pose, T, nn_hits, out_hits, partials,
                   inlier_count, cache, running, h_out, inliers, pairs, kernels>>

SumErrors ==
    /\ phase = "evaluate"
    /\ running = {}
    /\ h_out' = HostSum
    /\ phase' = "evaluated"
    /\ UNCHANGED <<engine, nn, target, source, pose, T, nn_hits, out_hits, partials,
                   inlier_count, cache, running, inliers, pairs, kernels>>

\* The trial is accepted: the next iteration linearizes there.
AcceptPose ==
    /\ phase = "evaluated"
    /\ pose' = T
    /\ phase' = "outer"
    /\ UNCHANGED <<engine, nn, target, source, T, nn_hits, out_hits, partials, inlier_count,
                   cache, running, h_out, inliers, pairs, kernels>>

\* align, or nn_search, returns.  With no source point the error is 0 and the
\* step as well, which counts as converged.
Return ==
    /\ phase \in {"searched", "evaluated"} \/ (phase = "linearized" /\ N = 0)
    /\ phase' = "idle"
    /\ UNCHANGED <<engine, nn, target, source, pose, T, nn_hits, out_hits, partials,
                   inlier_count, cache, running, h_out, inliers, pairs, kernels>>

Next ==
    \/ NewClouds \/ NnSearch
    \/ StartAlign \/ LinearizeNothing \/ Linearize
    \/ \E w \in running : LinearizeWarp(w)
    \/ SumLinearized
    \/ TryPose
    \/ \E w \in running : ErrorWarp(w)
    \/ \E w \in running : ErrorFails(w)
    \/ SumErrors \/ AcceptPose \/ Return

Spec == Init /\ [][Next]_vars

-----------------------------------------------------------------------------
Nearest(q) == Min({SqDist(q, target[j]) : j \in DOMAIN target})
FourLeaves == Sq(4 * Res)

\* nn_search finds the nearest point whenever it is within four leaves, except
\* that Voxel3 may settle for another one within two leaves.
SearchNearest ==
    phase = "searched" =>
        \A i \in DOMAIN source :
            LET near == Nearest(source[i])
                hit == out_hits[i]
            IN  voxel_key(source[i]) # INVALID_KEY /\ near <= FourLeaves =>
                \/ hit.d2 = near
                \/ nn = "Voxel3" /\ near > Sq(Res) /\ hit.j # None /\ hit.d2 <= expand_d2

\* The pairs GICP linearizes are exactly those of an exact search with the
\* rejection distance, as long as that is at most four leaves, although only
\* some voxels are probed; at the distance itself either may happen.
PairsNearest ==
    phase = "linearized" /\ engine = "gicp" /\ pairs # <<>> /\ max_dist_sq <= FourLeaves =>
        \A i \in DOMAIN source :
            IF pairs[i].j # None
            THEN SqDist(At(i, T), target[pairs[i].j]) = Nearest(At(i, T))
            ELSE voxel_key(At(i, T)) = INVALID_KEY \/ Nearest(At(i, T)) >= max_dist_sq

\* Every sum the host downloads adds each paired source point exactly once, with
\* the pair of this alignment's last linearization, at the pose just uploaded
\* and with the weight fused at that linearization: nothing is left over from a
\* larger cloud, another pair of clouds or another pose.  While the kernel runs
\* every launched warp, idle ones in the last block included, has a place in the
\* buffer of partial sums.
SumsFresh ==
    /\ running \subseteq DOMAIN partials
    /\ phase \in {"linearized", "evaluated"} /\ target # <<>> =>
        LET paired == {i \in DOMAIN source : pairs[i].j # None} IN
        /\ h_out = [c \in {Contribution(i, pairs[i]) : i \in paired} |-> 1]
        /\ inliers = Cardinality(paired)
        /\ phase = "linearized" => \A i \in paired : pairs[i].at = pose

\* reduction.hpp: "Per source point: target point index or -1".
CachePerPoint == phase = "evaluate" => DOMAIN cache = DOMAIN source
=============================================================================
