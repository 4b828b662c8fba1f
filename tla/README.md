# TLA+ models of small_gicp

TLA+ modules, TLC instances and TLAPS proofs for the point cloud registration
library in this repository: the header library `src/include/small_gicp`, its
compiled helper `src/src/small_gicp`, and the CUDA engine in `src/cuda`.  Paths
below are relative to `src/include/small_gicp` unless they begin with `src/`.

## The system

A scan arrives as a point cloud.  It is *downsampled* on a voxel grid, a *k-d
tree* is built over it, normals or covariances are *estimated* from the tree's
neighbourhoods, and *registration* aligns it to a target, which is another cloud
with its tree or an *incremental voxel map* of all scans so far.  The aligned scan
is then inserted into the map.  Every step exists in a serial version and in
parallel ones (OpenMP, TBB), and most of them on the GPU.

| Component | State it keeps | Operations | What it touches | Hard behaviour |
|---|---|---|---|---|
| k-d tree construction (`ann/kdtree*.hpp`) | node array sized up front, shared node counter, permuted index array | `build_tree`, recursive `create_node` | the cloud, read only | tasks share the counter and the index array; the node array is written unchecked |
| k-d tree search (`ann/kdtree.hpp`, `ann/knn_result.hpp`) | recursion, bounded sorted result buffer | `knn_search`, `push`, `fulfilled` | the built tree | pruning, ties, early termination, buffer limits |
| voxel map, CPU (`ann/incremental_voxelmap.hpp`, `gaussian_voxelmap.hpp`, `flat_container.hpp`) | vector of voxels, hash map into it, LRU counter, search offsets, the voxels' contents | `insert`, `set_search_offsets`, searches | registration searches it, accessors keep positions | deletion moves voxels, means are un-divided and divided again, contents have limits |
| voxel map, GPU (`src/cuda/src/voxel/voxel_hash_map.cu`) | open-addressed table of sums, live count on device and host | `insert` as kernels: claim, accumulate, finalize, evict, grow and rehash | the VGICP kernel probes it | threads race by atomicCAS; eviction and reuse of slots; growth |
| registration (`registration/*`, `factors/*`) | factors with their correspondence, system, pose, loop counters | `align`: linearise, reduce, solve, try, accept or retry | a nearest neighbour search on the target | correspondences found at one pose are used at others; parallel sums; retry limits |
| GPU registration (`src/cuda/src/reg/*`) | pose, hits, correspondence cache and partial sums on the device | `align` of GICP and VGICP, `linearize_and_reduce`, `eval_error_cached` | hash index or voxel map | cache and buffers reused by calls with other sizes; warps write partial sums |
| GPU downsampling and hash index (`src/cuda/src/voxel/downsample.cu`, `hash_index.cu`) | sorted keys, bucket starts, probe table | `run`, `build`, `hash_lookup` | the cloud's points, keys, index | threads race by atomicCAS; early returns keep an old index |
| GPU neighbour search and covariances (`src/cuda/src/nn/*`, `src/cuda/src/preproc/covariance.cu`) | function-local static buffers | `nn_search`, `nn_query`, `estimate_covariances` | the hash index | shells and prunings that must not lose a neighbour |
| downsampling (`util/downsampling*.hpp`, `util/sort_omp.hpp`) | sorted key array, atomic output counter | key, sort, average | produces the cloud | sort tasks and blocks run concurrently; block borders cut voxels |
| normal and covariance estimation (`util/normal_estimation*.hpp`) | none | one computation per point | k-d tree search | none besides the search |
| registration helper, Python functions (`src/src/small_gicp/registration`, `src/src/python`) | none; the caller's clouds | `preprocess_points`, `estimate_*`, `align` | all of the above | which cloud, tree, map and setting reaches the registration |
| PCL bindings (`pcl/pcl_registration_impl.hpp`) | two clouds, their trees, covariances and voxel maps, settings | setters, swap, clears, `computeTransformation` | registration, covariance estimation | what is kept from call to call must follow its cloud |
| odometry engines (`src/src/benchmark/odometry_benchmark_small_*.cpp`, `src/cuda/bench/odometry_gpu.cpp`) | target or model, pose | `estimate`, once per frame | all of the above | the last frame, the pose and the model advance together |
| streaming odometry (`src/src/benchmark/odometry_benchmark_small_gicp_tbb_flow.cpp`) | flow graph, last frame, trajectory | preprocess, pair, register, output | all of the above | frames overtake one another between sequencers |
| ROS conversion, drivers, point containers, Lie algebra | none of their own | conversion and forwarding | | |

What makes each one correct, and what the properties below are for:

- *construction*: no call is handed a node that is taken or does not exist, no two
  calls permute the same indices, the finished tree holds every point once and its
  thresholds separate its subtrees, and no task waits forever;
- *search*: the answer is the k nearest, whatever was pruned, unless the caller
  allowed an early stop;
- *voxel maps*: what is stored is exactly what a map without storage would hold,
  through growth, deletion and reuse of storage;
- *registration*: the system solved is the sum over all factors at the current
  pose, an accepted step never makes things worse, and the error reported belongs to
  the pose reported;
- *GPU registration*: each sum holds every paired source point once, with the pair
  and at the pose of this alignment, and the pairs are those of an exact search;
- *downsampling*: every point is averaged once, with points of its voxel only, and
  no two blocks write the same output;
- *GPU preprocessing*: a cloud is exactly the means of its voxels, its index finds every
  one of them and nothing else, and the neighbours are the nearest;
- *helper, bindings*: tree, features and clouds that meet in a registration belong
  together, after any sequence of calls;
- *odometry*: every engine gives the trajectory of a sequential program, or keeps a
  complete model; in the flow graph no task sees a frame that another is still writing.

The full list of hazards, at the lines where they bite and with the properties that
cover them, is under `hazards` in `PROJECT.json`.

## Modules

| Module | Models | Checked by | Proofs |
|---|---|---|---|
| `KdTreeBuild` | k-d tree construction, serial and parallel | `MCKdTree` | `KdTree_proofs` |
| `KnnResult` | the sorted result buffer of every search | in its users | |
| `KdTreeSearch` | a query on the tree `KdTreeBuild` leaves; extends both | `MCKdTree` | `KdTree_proofs` |
| `VoxelMapSpec` | what a voxel map promises, without storage | by refinement | |
| `IncrementalVoxelMap` | the CPU map over `GaussianVoxel`, which implements `VoxelMapSpec` | in `FlatVoxelMap` | `IncrementalVoxelMap_proofs` |
| `FlatVoxelMap` | the CPU map over `FlatContainer`, and its searches; extends `IncrementalVoxelMap` and `KnnResult` | `MCIncrementalVoxelMap` | `IncrementalVoxelMap_proofs` |
| `VoxelHashMap` | the GPU map | `MCVoxelHashMap` | `VoxelHashMap_proofs` |
| `VoxelKeys` | packed voxel keys and offsets of the GPU engine | in its users | |
| `GpuCloud` | a GPU cloud through downsampling, indexing and covariances | `MCGpuCloud` | `Gpu_proofs` |
| `GpuLinearizer` | the kernels and buffers of GPU registration and its neighbour search | `MCGpuLinearizer` | `Gpu_proofs` |
| `Registration` | `align` with Gauss-Newton, Levenberg-Marquardt and the GPU's port | `MCRegistration` | `Registration_proofs` |
| `Downsampling` | voxel grid downsampling with its sort | `MCDownsampling` | `Downsampling_proofs` |
| `RegistrationHelper` | estimation, preprocessing and alignment functions of the helper and of Python | in `OnlineOdometry` | |
| `PclRegistration` | `RegistrationPCL` with everything it keeps; extends `RegistrationHelper` | in `OnlineOdometry` | `OnlineOdometry_proofs` |
| `OnlineOdometry` | the engines that work frame by frame; extends `PclRegistration`, implements `OdometrySpec` | `MCOnlineOdometry` | `OnlineOdometry_proofs` |
| `OdometrySpec` | odometry one frame after the other | by refinement | |
| `OdometryFlow` | streaming odometry's flow graph, which implements `OdometrySpec` | `MCOdometryFlow` | `OdometryFlow_proofs` |

Some definitions are preceded by a variant that is marked faulty: the change a
plausible bug would make.  No specification uses them; for each property one of them,
put in the place of the definition it stands before, makes TLC report the property
violated (`mutants` in `PROJECT.json`).

### KdTreeBuild and KdTreeSearch

A call of `create_node` is identified by the range of `kdtree.indices` it works on;
`pc` says where each call stands.  `CreateNode` is `node_count++`, `WriteLeaf` and
`Partition` the two ways on, `AssignLeft` and `AssignRight` the stores of the results
of the two recursive calls, `TaskWait` the wait for both.  A range longer than
`ParallelThreshold` (512 in the code) starts both halves at once; others go left, then
right, so the serial builder is the instance with a large threshold.  `find_axis` may
return any axis, and `nth_element` may leave any arrangement its contract allows, so
part of the index array is kept as the set of points in it.  `KdTreeSearch` makes the
recursion of `knn_search` a stack of frames; a leaf may be scanned in any order, since
`nth_element` fixes none.  The result buffer is modelled entry by entry.

### VoxelMapSpec, IncrementalVoxelMap and FlatVoxelMap

`VoxelMapSpec` maps voxel coordinates to the number and sum of their points and the
time of the last one; `Tick` is the end of a scan.  In `IncrementalVoxelMap` there is
a vector and an index into it, and `insert` adds point by point (`AddPoint`); its tail,
which increments the counter, deletes, compacts, rehashes and finalises, is one step
(`FinishInsert`), as nothing runs concurrently with it.  A mean is kept as a quotient,
so that dividing twice, or adding to a mean instead of to a sum, is visible.
`RefinesSpec` is the refinement, under the mapping `Cells`: the quotient's dividend is
the sum as long as it is divided only by the count.

The map is a template over its voxels' contents.  `FlatVoxelMap` adds the other kind,
`FlatContainer`: `contents` holds the points of each voxel, `Thinned` is
`FlatContainer::add`, and every step is a step of `IncrementalVoxelMap`.  There the
searches live: `knn_search` goes over the offsets, looks each voxel up, offers its
points to a `KnnResult` and composes their indices from two positions.  The comment at
`ann/flat_container.hpp:36`, that an input point will *not be ignored*, is taken for a
slip: the test below it is the one of line 15.

### VoxelHashMap

The kernels of one `insert` run one after another on a stream; the barrier between two
kernels is a guard.  In the kernels that claim slots and that rehash, every atomicCAS
of a thread is an action, and threads interleave arbitrarily.  Kernels whose threads
touch only their own slot are part of the step at the kernel boundary.  A slot's sum
counts, voxel by voxel, whose points went in.  Freshly allocated memory holds any
value of `Uninit`.  `promised` is a history variable: the map that a storage-free voxel
map would be after the same inserts.  `past` records that a slot was evicted, the
table grown, or a hole made in a probe chain that no rehash has repaired; `MatchesPromise`
holds up to an eviction (its sums, up to a growth of the table); what comes after is
told under *Violated expectations*.

### Registration

Poses are translations along a line and errors squared distances.  What is kept is the
control: which correspondence a factor holds and from which pose, how factors are
shared out among threads, what is compared with what, which counters stop which loop,
and what is reported.  A linear system with right-hand side 0 has solution 0; any
other may lead to any other pose, because the direction and length of the real step
depend on rotations, on H and on lambda, and nothing in the loop may rely on
them.  `GPU` is `GicpGpu` with exact neighbours: no general factor, its own inlier count,
an `e` that stays what the linearisation returned.  A general factor is the square of
the distance to a prior, weighted; `Weight = 0` is `NullFactor`.

### VoxelKeys, GpuCloud and GpuLinearizer

Positions have two axes, in units of a fraction of a leaf, and keys pack `CoordBits`
bits per axis, with the wrap-around of the code where it does not check and its check
where it does.  `GpuCloud` is one cloud object and one `Downsampler`, loaded and run
over and over; `stage` says how far it is.  `Run` is `Downsampler::run` with its two
early returns in `RunNothing`.  CUB's stable sort and prefix sums are what they return:
a value is sorted to the position of its rank, ties by index, so that a bucket is a run
of equal keys.  The mean of a bucket is a sum over its positions, whatever their order,
divided once.  In `hash_insert_kernel` the
atomicCAS (`ClaimSlot`) and the store that follows it (`StoreIndex`) are steps of their
own.  `EstimateCovariances` is the shell search of a warp and the brute-force kernels
that answer what it leaves open.  A covariance is the set of positions it is of.

`GpuLinearizer` is `Linearizer` with the calls of `GicpGpu::align` and
`VgicpGpu::align`, over clouds that change between alignments, so that buffers shrink,
grow and keep what was in them.  `Linearize` sizes the buffers, uploads the pose and
searches; warps run in any order (`LinearizeWarp`, `ErrorWarp`) and each writes its
partial sum; the host sums the whole buffer (`HostSum`).  A contribution is the record
of its source point, its pair, its pose and the pose its weight was fused at; a sum is
how many times it holds each of them, so that one that is missing, stale or added twice
shows.
Which trial is accepted is the business of `Registration`; here any may be.

### Downsampling

Keys are computed as the code does, with `CoordBits` bits (21 in the code) per
coordinate and an offset, and with the check for points out of range.  The sort is
`quick_sort_omp` with its tasks; its three-way medians are any pivot, since the pivot
only changes the order of work.  `std::sort` of the serial version and TBB's parallel
sort leave what some run of these tasks leaves.  Averaging works on blocks: one for the
serial version, blocks of one size for OpenMP, those that TBB chooses otherwise.  An
average is the set of points it is taken over.

### RegistrationHelper, PclRegistration and OnlineOdometry

These are about which data reach `Registration::align`, so a cloud stands for its
points, and what is computed carries the clouds it was computed from: features know
whose they are, among whose points the neighbours were and whether there were enough of
them; a tree is named by the cloud it is over.  `RegistrationHelper` has the functions
of the helper and of the Python module, as calls a program makes in any order on clouds
it keeps.  Two things stay the caller's contract: that a tree it passes itself is the
cloud's, and that what a factor reads has been estimated (`Reads`).

`PclRegistration` keeps, for source and target, cloud, tree, covariances and voxel map.
Every setter, `swapSourceAndTarget`, the clears and `computeTransformation` are actions.
Its base class, `pcl::Registration`, is external: it refuses empty clouds and missing
ones.

`OnlineOdometry` is `estimate` of every engine under the loop that feeds it.  A pose is
named by what it was estimated from.  Engines that align to the frame before implement
`OdometrySpec`, as the flow graph does, so that they are all interchangeable
(`SameTrajectory`); those that align to a model cannot, and keep a complete model
instead (`ModelComplete`).  The kinds "python" and "calls" are no engines but any
sequence of calls of the two modules below.  One of the engines, `small_vgicp_omp`,
leaves its reduction at the default number of threads, whatever is asked for; no result
depends on it.

### OdometrySpec and OdometryFlow

`node` says at which node of the flow graph a frame is, `running` whose task is being
carried out there.  A task starts (`Start`, which reads what the body reads) and
finishes (`Finish`: `Preprocess`, `Pair`, `Register` or `Output`, then `try_put` along
the edge), so tasks overlap in every way; `Forward` is a sequencer passing on the next
id.  TBB itself is modelled as the code relies on it: a `function_node` of unlimited
concurrency may run all its messages at once, one of concurrency 1 queues them, and
`wait_for_all` waits for tasks but not for frames a sequencer holds back.  The caller's
thread counts towards `num_threads` and executes tasks only once it waits.
`last_frame` is a static variable and is the one thing that survives from one call of
`estimate` to the next, so the first frame of a later call is aligned to the last frame
of an earlier one; `OdometrySpec` says the same.  A pose is the sequence of relative
transformations it is a product of, so that any other order, a missing factor or one
between other frames is a different pose.  Stopwatches, throughput and the viewer are
left out.

## Runs

| Run | Shows | Bounds |
|---|---|---|
| `kdtree` | every interleaving of the build gives a tree on which queries are right | 8 points on 2 axes, with a tie across the median; leaves of 3, tasks above 4: three levels, parallel at the root and serial below, leaves of 2; k of 1 and 3, with and without early stop |
| `voxelmap` | index, means, stamps and kept points stay in step with the vector; refinement; searches are right after every scan | scans of up to 2 points out of 5 in 3 voxels, on both sides of 0, two of them too close; voxels of up to 2 points; horizon 1, cycle 2, 4 inserts: voxels expire, come back, and expire again; patterns of 1 and 7 offsets, set in any order |
| `gpu_voxelmap` | threads that collide, wrap around, grow and reuse slots | 3 voxels with one probe chain around the end of a table of 4, doubled when crowded; horizon 1, cycle 2, 4 inserts |
| `registration` | the three optimisers | 4 source and 3 target points with ties and outliers, 8 poses, 3 iterations of 2 trials, 2 threads |
| `gpu_linearizer` | sums, pairs and searches over reused buffers | targets of 5, 4 and no points, sources of 5, 3 and none in warps of 2 and blocks of 4, so that warps are idle; 2 poses, 4 kernels: an alignment with trials and a further one |
| `gpu_cloud` | downsampling, index and neighbours over reused buffers | 5 raw clouds, two of them without a point in range in two different ways; 2 clouds one after the other; 3 neighbours of at most 5 points, brute force up to 4 points |
| `downsampling` | sort tasks and blocks in every order | 6 points: three in one voxel, neighbours across 0 and on another axis, the border of the range and beyond; 1 to 4 blocks |
| `odometry_flow` | every order of the flow graph's tasks gives the trajectory of sequential odometry, and `estimate` returns | calls with 4, 0 and 2 frames; 1, 2 and 4 threads: the caller alone, and enough for frames to overtake |
| `online_odometry` | all engines are right, and no sequence of calls mixes clouds | 3 frames; 2 more clouds, one too small for covariances and one empty; 2 clouds of a caller |
| `gpu_voxelmap_count`, `registration_prior`, `pcl_resolution` | expected violations, see below | |

The bounds are small, but every action fires in them, and so do the cases that
matter: each cycle of growth, deletion and reuse is passed at least twice, each
comparison meets equality and both sides of it, and as many actors compete as the code
treats differently (two threads for a reduction, three for a probe chain).  The
properties themselves do not mention the bounds.

Deadlock is checked where the system runs on; `registration`, `downsampling`,
`odometry_flow` and `online_odometry` (whose calls are given) and the GPU runs (whose
numbers of inserts, clouds and kernels are bounded) really stop.

### Violated expectations

Three runs check what a comment or a test of the repository says, and fail:

- `gpu_voxelmap_count`: evicting without a tombstone gives a voxel two slots;
- `registration_prior`: Levenberg-Marquardt passes `&e` instead of `&new_e` to the
  general factor;
- `pcl_resolution`: a voxel map outlives a change of the resolution.

Further configurations, each violated as well, can be run by hand
(`tlc -config <cfg> <module>`):

| Configuration | Module | Violated | Because |
|---|---|---|---|
| `MCIncrementalVoxelMapCube.cfg` | `MCIncrementalVoxelMap` | `VisitedOnce` | `set_search_offsets(27)` appends its 27 offsets to those already set |
| `MCVoxelHashMapSums.cfg` | `MCVoxelHashMap` | `SumsOwnPoints` | a reclaimed slot keeps the sums of the voxel evicted |
| `MCRegistrationPort.cfg` | `MCRegistration` | `ErrorAsPorted` | the GPU optimiser reports the error before its last step |
| `MCDownsamplingInvalid.cfg` | `MCDownsampling` | `InvalidIgnored` | the first point of a block is emitted even when out of range |
| `MCHelperDistance.cfg` | `MCOnlineOdometry` | `DistanceAsSet` | `align` of the helper does not pass its distance on for VGICP |
| `MCGpuLinearizerCache.cfg` | `MCGpuLinearizer` | `CachePerPoint` | with an empty target the cache keeps the size of an earlier source |
| `MCGpuCloudStale.cfg` | `MCGpuCloud` | `IndexOverKeys` | downsampling to nothing leaves the former index; harmless while the cloud's size is asked first |

The counterexamples are told in `findings` in `PROJECT.json`, except the last, which no
caller can observe.

Three differences are modelled as they are and are not findings, as no text of the
repository rules on them: the GPU map ignores a scan without a point in range, while the
CPU map's clock advances with it; `RegistrationResult::iterations` is the index of
the last iteration; and `Voxel3` may settle for a neighbour that is not the nearest
although the nearest is within its reach (`SearchNearest` says when).

### Fairness

`KdTreeBuild` assumes weak fairness of every call's steps: a thread that waits in
`taskwait` or `parallel_invoke` executes queued tasks itself, so a runnable task is
run eventually.  `VoxelHashMap` assumes it of every thread of a launched kernel and of
the stream, not of the caller, who may stop inserting at any time.  A query, `align` and
`voxelgrid_sampling` are calls that run until they return: weak fairness of their
steps.  So is `estimate`: weak fairness of the caller's steps within a call and of the
graph, as a thread that waits for the graph executes its tasks; not of the next call.
The runs without liveness need none.

## Proofs

TLAPS proves, for every value of the constants that satisfies the modules' assumptions:

- `KdTree_proofs`, construction: `TypeOK`, `NodesInBounds`, `NodesUnique` and `NoIndexRace`
  are invariants of `Spec`.  The invariant that is inductive, `IInv`, adds `Nested`
  (two calls work on disjoint ranges, or one inside one half of the other's), `Fresh`
  (nothing works inside a range not yet split, nor in the right half before the left
  call has returned, when the call goes left then right), `Sized` (which ranges are
  split) and `Counted` (the counter is the number of calls that took a node, and each
  has its own below it).  Disjoint work follows from `Nested` and `Fresh`.  That the
  node array suffices is a counting argument: give every call one point of its own, a
  leaf its first point and an inner node the last point of its left half.  Calls that
  are disjoint or nested get different points because every leaf has two points or more,
  so there are never more nodes than points.  This is where `MaxLeafSize >= 3` is
  needed: a range of three split at a leaf size of 1 or 2 leaves a leaf of one point,
  such trees can have more nodes than points, and the code would write past its array.
- `KdTree_proofs`, the tree: `TreeCorrect` is an invariant.  To `IInv` is added `TreeInv`:
  a call's range holds as many points as it is long and, once split, two halves apart at
  the threshold (`Contents`); nodes taken belong to calls and lead to the nodes of their
  halves, nodes not taken look like leaves (`Links`); and every call but the root's was
  made by one that waits for it (`Waits`).  A finished root has then finished everything
  below it, and what a subtree holds is found by induction on the length of its range.
- `KdTree_proofs`, the search: `NearestFound` is an invariant of `SearchSpec`, for any
  coordinates, queries, `k` and `epsilon`.  In `SearchInv` the result is a sorted buffer
  of different points, and every point is in the result, or pending under exactly one
  frame of the stack, or no closer than the worst entry.  What is pruned is no closer
  than the worst entry as the split separates the subtree from the query.  The axes are
  any of the three, and `OverflowAssumption` says that no distance reaches `MaxDistance`,
  which an empty buffer holds.
- `IncrementalVoxelMap_proofs`: `TypeOK`, `IndexConsistent`, `MeansFinal` and
  `BoundedStaleness` are invariants, and their conjunction is inductive:
  `IndexConsistent` through a deletion needs the kept positions to be increasing, and
  the means need that no voxel is empty.  With it, every step maps to a step of
  `VoxelMapSpec` or to a stutter (`Refinement`): a point added is `AddPoint`, the end
  of an insert is `Tick`, and the deletion removes what the promise calls stale.  No
  assumption is made on `MaxInserts` or on the size of scans.
  It also proves of `FlatVoxelMap` that `SpecFlat` implies the `Spec` of `IncrementalVoxelMap`
  (`FlatImplements`), so all of the above holds of the map over `FlatContainer`; and that
  `CellsThinned` is an invariant.  A deletion moves contents with their voxels, which
  needs that the index is the inverse of the vector.
  `SearchExact` is an invariant as long as nobody asks for 27 offsets, which repeat
  (*Violated expectations*): the other patterns' offsets are distinct, and the index is the
  inverse of the vector, so no voxel is met twice; the loops keep that the buffer holds
  the k nearest of the points offered so far.  It is assumed that k is positive, that no
  distance overflows and that a voxel's points fit the bits of a point's index.
- `VoxelHashMap_proofs`: `OwnSlot` and `LiveCounted` are invariants.  A thread takes a
  slot that is free or carries its own voxel; one that another thread has taken carries
  that thread's voxel, so nobody takes it again.  The count needs that only used slots
  are rehashed, each by one thread.  `MatchesPromise` is one too (`PromiseKeptByTable`),
  for any hash function, table size and number of inserts.  Until the first eviction
  every slot in use is reached from its voxel's home position without meeting that voxel
  or a free slot (`Chained`), and so is the next position of every thread that still
  probes (`ProbesInv`): what a thread writes therefore breaks no chain, and two slots of
  one voxel are the same slot.  The stamps and, until the table grows, the sums equal the
  promise's (`StampsInv`, `SumsInv`), so that an eviction removes nothing unless the
  promise expires it.
- `OdometryFlow_proofs`: `TypeOK`, `NoDataRace` and `AlignsPrepared` are invariants, and
  every step maps to a step of `OdometrySpec` or to a stutter (`Refinement`), for any
  number of calls, frames and threads.  The inductive invariant says of both nodes of
  concurrency 1 that the queue holds consecutive ids, ending below the sequencer's
  counter (`Fifo`), so that the number of frames such a node has served tells whose turn
  it is; `last_frame` is the frame before that one, and the trajectory is as long.
  That a call leaves nothing behind in a sequencer when the graph is idle follows from
  the counters (`IdleIsDone`).
- `OnlineOdometry_proofs`: `CachesBelong`, `InputsBelong` and `ModelComplete` are
  invariants and `Spec` implements `OdometrySpec` (`Refinement`), for any clouds,
  settings, sequence of calls and number of frames.  The inductive invariant adds that
  a `RegistrationPCL` holds no empty cloud (else covariances that are there could not be
  told from covariances that are not) and asks for five neighbours or more, and, for the
  engines, what each has kept between two frames.

- `Downsampling_proofs`: `TasksApart`, `SlotsOnce` and `AveragedOnce` are invariants, for
  any clouds, grid, thresholds, pivots and blocks.  Of the sort (`SortInv`): pending tasks
  have disjoint positions and points, their points and the settled entries make up the
  cloud, and two positions may hold points in the wrong order only within one task; so
  when no task is left the array is a sorted permutation.  Of the averaging (`AveInv`):
  each block that has reserved owns as many output slots as runs of equal keys begin in
  it, reservations are disjoint and fill the output from 0 on, and what is written is the
  runs of the blocks that wrote, in order.  A run that crosses a block border is emitted
  by the block it begins in and skipped by the others, so together they average every
  point once.
- `Registration_proofs`: `SystemIsSerialSum` and `FinalError` are invariants and
  `Descends` holds of every step, for any poses, points, threads and limits.  `IInv` says
  that the threads' sums add up to the factors linearised so far, each matched at the
  present pose (`Linearizing`), that the system is the sum over all (`Solving`), and that
  the reported error is that of the pose kept with the correspondences kept
  (`Reporting`).  Rejected trials may not change correspondences, and do not.  A step
  descends as the objective, which takes the maximal distance for a factor without a
  correspondence, is at most the frozen error plus these constants, and no new matching
  makes it larger.  `FinalError` is stated for no prior (`Weight = 0`), as the code
  is wrong with one (*Violated expectations*).
- `Gpu_proofs`, `GpuLinearizer`: `SumsFresh`, `PairsNearest` and `SearchNearest` are
  invariants.  `SumInv` says, for every phase, which warps have written their partial sums
  and that these hold the pairs of this alignment; a buffer has exactly as many slots as
  warps are launched.  `NearInv` carries what the search returned to the pairs.  The
  geometric part is that a point within four leaves is in the cube of voxels searched, and
  that a voxel pruned by its gap to the query holds nothing closer than the best so far.
  For `nn_search` the loops over the cubes are followed step by step.
- `Gpu_proofs`, `GpuCloud`: `IndexExact`, `BucketsExact` and `NeighborsExact` are
  invariants of `CloudSpec`, for any hash, raw clouds and table sizes.  `IndexInv` says of a table that is being filled
  that every claimed slot is reached by its key's probe over slots that are taken, no two
  slots hold one key, and every unfinished thread stands where its key's probe leads and
  no slot before it is free or its own key's (`Tabled`, `Threaded`).  A table is larger than
  the number of keys, so a probe meets a free slot (pigeonhole) and a lookup stops at
  the key or proves it absent.  For the means, the positions of a bucket are the run of
  its key in the sorted array, and the sort is a bijection between them and the raw
  points of that voxel, so that the sums are equal.
- `NeighborsExact` rests on both: the mean of what is in a voxel is in it, so every point
  is where its key says, and a lookup finds it (`Preprocessed`).  The offsets of a cube
  are visited once each and, as a cube is not wider than the range of coordinates
  (`ShellAssumption`), no key is met twice; merging a new candidate into the k best keeps
  them the k best (`MergeBest`); so after shell s the list is the k best of the cube of s
  (`ScanBest`).  What is outside the cube is not closer than the bound that stops the
  search (`StopBelow`), and not within `MaxShell` leaves after the last shell
  (`OutsideFar`).  The k best of a part then are as close as the k best of all: were one
  of all closer than the k-th of the part, k elements would be held in fewer than k
  places (`AllHeld`, `PartAgrees`, `PartHolds`).  The rounds of the brute-force kernel
  append the next best (`RoundBest`).  `CovInv` adds that a raw cloud has no
  covariances asked for, so that none is of points that were replaced.

Inductions over data are proved by a minimal counterexample: a non-empty set of natural
numbers has a least element (`LeastNat`), which suffices for sums and for finite sets.
Folds of the community modules are expanded to the recursion they are defined by.

Only model-checked: all liveness, which the provers do not reach.  Lemmas on `KnnResult`'s buffer stand in
both `KdTree_proofs` and `IncrementalVoxelMap_proofs`, each with what it needs of them.

## Not modelled

Floating point and everything that is only numerical (eigenvectors and the
regularisation of covariances, the exponential map, Cholesky solving, robust kernels,
plane ICP's Jacobians); file input, visualisation, conversions of arrays and messages;
benchmarks of other libraries.  Projective search, which has neither shared nor evolving
state.  `merge_sort_omp` and the radix sort, which the library's functions do not call.
Node indices beyond 32 bits.  `components` in `PROJECT.json` names what is left out of
each part that is modelled.

## What is left

`VoxelHashMap` searched by the VGICP kernel while it has holes: what registration
loses by a voxel with two slots.
