----------------------------- MODULE Gpu_proofs -----------------------------
(***************************************************************************)
(* What holds of the GPU engine for any clouds, leaf, table, block and     *)
(* warp sizes.  Registration: every sum adds each pair of the last         *)
(* linearization once, through any reuse of the buffers, and with a        *)
(* rejection distance of at most four leaves the voxels that are probed    *)
(* hold the nearest point.  Preprocessing: a downsampled cloud has the     *)
(* mean of the raw points of every occupied voxel, the hash index finds    *)
(* it, however the threads that built the index raced, and through it      *)
(* every covariance is computed from the nearest points.                   *)
(***************************************************************************)
EXTENDS GpuLinearizer, GpuCloud, FiniteSetTheorems, SequenceTheorems, TLAPS

-----------------------------------------------------------------------------
(* Arithmetic.                                                             *)
-----------------------------------------------------------------------------
\* Every set of natural numbers has a least element.
LEMMA LeastNat ==
    ASSUME NEW S, S \subseteq Nat, S # {}
    PROVE  \E m \in S : \A n \in S : m <= n
<1> DEFINE R == {ss \in Nat \X Nat : ss[1] < ss[2]}
<1>1. IsWellFoundedOn(R, Nat)
  BY NatLessThanWellFounded DEF OpToRel
<1>2. \A m, n \in Nat : <<n, m>> \in R <=> n < m
  OBVIOUS
<1> HIDE DEF R
<1>3. PICK m \in S : \A n \in S : <<n, m>> \notin R
  BY <1>1, WFMin
<1>4. ASSUME NEW n \in S PROVE m <= n
  <2>1. m \in Nat /\ n \in Nat
    OBVIOUS
  <2>2. ~(n < m)
    BY <1>2, <1>3, <2>1
  <2>3. QED
    BY <2>1, <2>2
<1>5. QED
  BY <1>3, <1>4

LEMMA Apart ==
    ASSUME NEW s \in Nat \ {0}, NEW u \in Int, NEW v \in Int, u < v
    PROVE  s * v >= s * u + s
<1>1. PICK d \in Nat : v = u + 1 + d
  <2>1. v - u - 1 \in Nat /\ v = u + 1 + (v - u - 1)
    OBVIOUS
  <2>2. QED
    BY <2>1
<1>2. s * (u + 1 + d) = s * u + s + s * d /\ s * d >= 0
  OBVIOUS
<1>3. QED
  BY <1>1, <1>2

\* Quotient and remainder are what they are taken from.
LEMMA DivMod ==
    ASSUME NEW s \in Nat \ {0}, NEW x \in Int
    PROVE  x \div s \in Int /\ x % s \in 0 .. s - 1 /\ x = s * (x \div s) + (x % s)
<1>1. s \in Int /\ s > 0 /\ x \in Int
  OBVIOUS
<1>2. x \div s \in Int /\ x % s \in Int
  BY <1>1
<1>3. x = s * (x \div s) + (x % s)
  BY <1>1
<1>4. 0 <= x % s /\ x % s < s
  BY <1>1
<1>5. QED
  BY <1>1, <1>2, <1>3, <1>4

LEMMA Digits ==
    ASSUME NEW s \in Nat \ {0}, NEW x \in Int, NEW a \in 0 .. s - 1, NEW y \in Int, x = a + s * y
    PROVE  x % s = a /\ x \div s = y
<1> DEFINE d == x \div s
           m == x % s
<1>1. d \in Int /\ m \in 0 .. s - 1 /\ x = s * d + m /\ s * d \in Int
  BY DivMod
<1> HIDE DEF d, m
<1>2. s * y \in Int
  OBVIOUS
<1>3. ~(d < y)
  <2>1. d < y => s * y >= s * d + s
    BY <1>1, Apart
  <2>2. QED
    BY <1>1, <1>2, <2>1
<1>4. ~(y < d)
  <2>1. y < d => s * d >= s * y + s
    BY <1>1, Apart
  <2>2. QED
    BY <1>1, <1>2, <2>1
<1>5. d = y
  BY <1>1, <1>3, <1>4
<1>6. m = a
  BY <1>1, <1>2, <1>5
<1>7. QED
  BY <1>5, <1>6 DEF d, m

LEMMA SqGrows ==
    ASSUME NEW x \in Int, NEW y \in Int, 0 <= x, x <= y \/ x <= -y
    PROVE  Sq(x) \in Nat /\ Sq(y) \in Nat /\ Sq(x) <= Sq(y)
<1>1. \A u, v \in Nat : u <= v => u * u \in Nat /\ v * v \in Nat /\ u * u <= v * v
  <2>1. ASSUME NEW u \in Nat, NEW v \in Nat, u <= v
        PROVE  u * u \in Nat /\ v * v \in Nat /\ u * u <= v * v
    <3>1. PICK d \in Nat : v = u + d
      <4>1. v - u \in Nat /\ v = u + (v - u)
        BY <2>1
      <4>2. QED
        BY <4>1
    <3>2. (u + d) * (u + d) = u * u + 2 * (u * d) + d * d /\ u * u \in Nat /\ u * d \in Nat /\ d * d \in Nat
      OBVIOUS
    <3>3. QED
      BY <3>1, <3>2
  <2>2. QED
    BY <2>1
<1>2. (-y) * (-y) = y * y
  OBVIOUS
<1>3. CASE x <= y
  <2>1. x \in Nat /\ y \in Nat
    BY <1>3
  <2>2. QED
    BY <1>1, <1>3, <2>1 DEF Sq
<1>4. CASE x <= -y
  <2>1. x \in Nat /\ -y \in Nat
    BY <1>4
  <2>2. QED
    BY <1>1, <1>2, <1>4, <2>1 DEF Sq
<1>5. QED
  BY <1>3, <1>4

LEMMA SqType == \A x \in Int : Sq(x) \in Nat
<1>1. ASSUME NEW x \in Int PROVE Sq(x) \in Nat
  <2>1. CASE x >= 0
    BY <2>1, SqGrows
  <2>2. CASE x < 0
    <3>1. -x \in Int /\ 0 <= -x
      BY <2>2
    <3>2. QED
      BY <3>1, SqGrows
  <2>3. QED
    BY <2>1, <2>2
<1>2. QED
  BY <1>1

LEMMA SideType == Side \in Nat \ {0} /\ COORD_OFFSET \in Int
<1>1. CoordBits \in Nat
  BY CoordBitsAssumption
<1>2. IsFiniteSet(1 .. CoordBits) /\ Cardinality(1 .. CoordBits) = CoordBits
  BY <1>1, FS_Interval
<1>3. IsFiniteSet(SUBSET (1 .. CoordBits)) /\ Cardinality(SUBSET (1 .. CoordBits)) = Side
  BY <1>2, FS_SUBSET DEF Side
<1>4. Side \in Nat /\ Side # 0
  BY <1>3, FS_CardinalityType, FS_EmptySet
<1>5. COORD_OFFSET \in Int
  BY <1>4 DEF COORD_OFFSET
<1>6. QED
  BY <1>4, <1>5

-----------------------------------------------------------------------------
(* Clouds and launches.                                                    *)
-----------------------------------------------------------------------------
IsCloud(c) == c \in Seq(Int \X Int)

\* The keys of a target are valid, and each is at one position.
IsTarget(t) ==
    /\ IsCloud(t)
    /\ \A i, j \in DOMAIN t :
          voxel_key(t[i]) # INVALID_KEY /\ (i < j => voxel_key(t[i]) < voxel_key(t[j]))

CloudsOK ==
    /\ IsTarget(target) /\ IsCloud(source)
    /\ T \in Int \X Int /\ pose \in Int \X Int

LEMMA CloudsInit == Init => CloudsOK
<1> SUFFICES ASSUME Init PROVE CloudsOK
  OBVIOUS
<1>1. target = <<>> /\ source = <<>> /\ T = <<0, 0>> /\ pose = <<0, 0>>
  BY DEF Init
<1>2. <<>> \in Seq(Int \X Int) /\ DOMAIN <<>> = {}
  OBVIOUS
<1>3. QED
  BY <1>1, <1>2 DEF CloudsOK, IsTarget, IsCloud

LEMMA CloudsNext == CloudsOK /\ [Next]_vars => CloudsOK'
<1> SUFFICES ASSUME CloudsOK, [Next]_vars PROVE CloudsOK'
  OBVIOUS
<1>1. CASE NewClouds
  <2>1. target' \in Targets /\ source' \in Sources /\ T' = T /\ pose' = pose
    BY <1>1 DEF NewClouds
  <2>2. IsTarget(target') /\ IsCloud(source')
    BY <2>1, CloudsAssumption DEF IsTarget, IsCloud
  <2>3. QED
    BY <2>1, <2>2 DEF CloudsOK
<1>2. CASE StartAlign
  <2>1. target' = target /\ source' = source /\ T' = T /\ pose' \in Poses
    BY <1>2 DEF StartAlign
  <2>2. QED
    BY <2>1, PosesAssumption DEF CloudsOK
<1>3. CASE Linearize
  <2>1. target' = target /\ source' = source /\ T' = pose /\ pose' = pose
    BY <1>3 DEF Linearize
  <2>2. QED
    BY <2>1 DEF CloudsOK
<1>4. CASE TryPose
  <2>1. target' = target /\ source' = source /\ T' \in Poses /\ pose' = pose
    BY <1>4 DEF TryPose
  <2>2. QED
    BY <2>1, PosesAssumption DEF CloudsOK
<1>5. CASE AcceptPose
  <2>1. target' = target /\ source' = source /\ T' = T /\ pose' = T
    BY <1>5 DEF AcceptPose
  <2>2. QED
    BY <2>1 DEF CloudsOK
<1> DEFINE Still == UNCHANGED <<target, source, T, pose>>
<1>6. Still => CloudsOK'
  BY DEF CloudsOK
<1>7. NnSearch => Still
  BY DEF NnSearch
<1>8. LinearizeNothing => Still
  BY DEF LinearizeNothing
<1>9. (\E w \in running : LinearizeWarp(w)) => Still
  BY DEF LinearizeWarp
<1>10. SumLinearized => Still
  BY DEF SumLinearized
<1>11. (\E w \in running : ErrorWarp(w)) => Still
  BY DEF ErrorWarp
<1>12. (\E w \in running : ErrorFails(w)) => Still
  BY DEF ErrorFails
<1>13. SumErrors => Still
  BY DEF SumErrors
<1>14. Return => Still
  BY DEF Return
<1>15. UNCHANGED vars => Still
  BY DEF vars
<1> HIDE DEF Still
<1>16. QED
  BY <1>1, <1>2, <1>3, <1>4, <1>5, <1>6, <1>7, <1>8, <1>9, <1>10, <1>11, <1>12, <1>13,
     <1>14, <1>15 DEF Next

WarpOf(i) == (i - 1) \div WarpSize

LEMMA SourceLen ==
    ASSUME IsCloud(source)
    PROVE  /\ N \in Nat /\ DOMAIN source = 1 .. N /\ IsFiniteSet(DOMAIN source)
           /\ N > 0 <=> source # <<>>
           /\ \A i \in DOMAIN source : source[i] \in Int \X Int
<1>1. N \in Nat /\ DOMAIN source = 1 .. N /\ (N > 0 <=> source # <<>>)
      /\ \A i \in DOMAIN source : source[i] \in Int \X Int
  BY DEF IsCloud, N
<1>2. QED
  BY <1>1, FS_Interval

\* The launched warps are enough for every source point.
LEMMA EveryThread ==
    ASSUME IsCloud(source), NEW i \in DOMAIN source
    PROVE  WarpOf(i) \in LaunchedWarps
<1> DEFINE s == WarpSize
           b == BlockSize
           k == b \div s
           n == Blocks
           d == WarpOf(i)
<1>1. s \in Nat \ {0} /\ b \in Nat \ {0} /\ b % s = 0
  BY BlockAssumption
<1>2. N \in Nat /\ i \in 1 .. N
  BY SourceLen
<1>3. k \in Int /\ b = s * k
  <2>1. b \div s \in Int /\ b = s * (b \div s) + (b % s)
    BY <1>1, DivMod
  <2>2. QED
    BY <1>1, <2>1
<1>4. n \in Int /\ b * n >= N
  <2>1. N + b - 1 \in Int
    BY <1>1, <1>2
  <2>2. /\ (N + b - 1) \div b \in Int /\ (N + b - 1) % b \in 0 .. b - 1
        /\ N + b - 1 = b * ((N + b - 1) \div b) + ((N + b - 1) % b)
    BY <1>1, <2>1, DivMod
  <2>3. QED
    BY <1>1, <1>2, <2>2 DEF Blocks
<1>5. d \in Int /\ s * d <= i - 1 /\ s * d > i - 1 - s
  <2>1. i - 1 \in Int
    BY <1>2
  <2> DEFINE e == (i - 1) \div s
             r == (i - 1) % s
  <2>2. e \in Int /\ r \in 0 .. s - 1 /\ i - 1 = s * e + r
    BY <1>1, <2>1, DivMod
  <2>3. d = e
    BY DEF WarpOf
  <2> HIDE DEF d, e, r, s
  <2>4. QED
    BY <1>1, <1>2, <2>2, <2>3
<1> HIDE DEF s, b, k, n, d
<1>6. b * n = s * (n * k) /\ n * k \in Int
  BY <1>1, <1>3, <1>4
<1>7. d < n * k
  <2> DEFINE m == n * k
  <2>1. m \in Int /\ s * m >= N
    BY <1>4, <1>6
  <2> HIDE DEF m
  <2>2. m < d => s * d >= s * m + s
    BY <1>1, <1>5, <2>1, Apart
  <2>3. d < m
    BY <1>1, <1>2, <1>5, <2>1, <2>2
  <2>4. QED
    BY <2>3 DEF m
<1>8. d >= 0
  <2>1. d < 0 => s * 0 >= s * d + s
    BY <1>1, <1>5, Apart
  <2>2. QED
    BY <1>1, <1>2, <1>5, <2>1
<1>9. QED
  BY <1>5, <1>6, <1>7, <1>8 DEF LaunchedWarps, d, n, k, s, b

LEMMA ResizedTo ==
    ASSUME NEW buffer, NEW indices, NEW nothing
    PROVE  DOMAIN Resized(buffer, indices, nothing) = indices
  BY DEF Resized

-----------------------------------------------------------------------------
(* The sums.                                                               *)
-----------------------------------------------------------------------------
IsEntry(e) == e = [j |-> e.j, at |-> e.at]
EntriesOK == \A i \in DOMAIN cache : IsEntry(cache[i])

\* The paired source points, and what a warp has to contribute.
Paired == {i \in DOMAIN source : pairs[i].j # None}
Sent(w) == {Contribution(i, pairs[i]) : i \in Paired \cap ThreadsOf(w)}
Everything == [c \in {Contribution(i, pairs[i]) : i \in Paired} |-> 1]
WarpsSent == \A w \in LaunchedWarps \ running : partials[w] = Sent(w)

\* Warps run only while a kernel does, each with its place in the buffer.
Warps ==
    /\ running \subseteq DOMAIN partials
    /\ phase \in {"linearize", "evaluate"} =>
          N > 0 /\ DOMAIN partials = LaunchedWarps /\ running \subseteq LaunchedWarps
    /\ phase \notin {"linearize", "evaluate", "failed"} => running = {}

\* The cache follows the pairs; the points of a warp that has not run have none.
PerPoint == DOMAIN pairs = DOMAIN source /\ DOMAIN cache = DOMAIN source
Linearizing ==
    phase = "linearize" =>
        /\ target # <<>> /\ T = pose
        /\ PerPoint
        /\ \A i \in DOMAIN source :
              IF WarpOf(i) \in running THEN pairs[i].j = None
              ELSE cache[i] = pairs[i] /\ (pairs[i].j # None => pairs[i].at = pose)
        /\ inlier_count = Cardinality(Paired)
        /\ WarpsSent

Linearized ==
    phase \in {"linearized", "evaluate", "evaluated"} /\ target # <<>> =>
        /\ N > 0 => PerPoint /\ \A i \in DOMAIN source : cache[i] = pairs[i]
        /\ inliers = Cardinality(Paired)
        /\ phase = "linearized" => \A i \in Paired : pairs[i].at = pose
        /\ IF phase = "evaluate" THEN WarpsSent ELSE h_out = Everything

SumInv == EntriesOK /\ Warps /\ Linearizing /\ Linearized

LEMMA SumInit == Init => SumInv
<1> SUFFICES ASSUME Init PROVE SumInv
  OBVIOUS
<1>1. cache = <<>> /\ running = {} /\ phase = "idle"
  BY DEF Init
<1>2. QED
  BY <1>1 DEF SumInv, EntriesOK, Warps, Linearizing, Linearized

LEMMA PairedFinite == IsCloud(source) => IsFiniteSet(Paired) /\ Paired \subseteq DOMAIN source
<1>1. Paired \subseteq DOMAIN source
  BY DEF Paired
<1>2. QED
  BY <1>1, SourceLen, FS_Subset

\* When every warp has sent its pairs, the host adds each of them once.
LEMMA SumOfAll ==
    ASSUME IsCloud(source), WarpsSent, running = {}, DOMAIN partials = LaunchedWarps
    PROVE  HostSum = Everything
<1> DEFINE sent == {Contribution(i, pairs[i]) : i \in Paired}
           from(c) == {w \in DOMAIN partials : c \in partials[w]}
<1>1. \A w \in LaunchedWarps : partials[w] = Sent(w)
  BY DEF WarpsSent
<1>2. \A i \in Paired : i \in DOMAIN source /\ WarpOf(i) \in LaunchedWarps /\ i \in ThreadsOf(WarpOf(i))
  BY EveryThread DEF Paired, ThreadsOf, WarpOf
<1>3. ASSUME NEW i \in Paired PROVE from(Contribution(i, pairs[i])) = {WarpOf(i)}
  <2>1. WarpOf(i) \in from(Contribution(i, pairs[i]))
    BY <1>1, <1>2 DEF Sent
  <2>2. ASSUME NEW w \in from(Contribution(i, pairs[i])) PROVE w = WarpOf(i)
    <3>1. PICK k \in Paired \cap ThreadsOf(w) : Contribution(i, pairs[i]) = Contribution(k, pairs[k])
      BY <1>1 DEF Sent
    <3>2. i = k
      BY <3>1 DEF Contribution
    <3>3. QED
      BY <3>1, <3>2 DEF ThreadsOf, WarpOf
  <2>3. QED
    BY <2>1, <2>2
<1>4. ASSUME NEW c \in sent PROVE Cardinality(from(c)) = 1
  <2>1. PICK i \in Paired : c = Contribution(i, pairs[i])
    OBVIOUS
  <2>2. from(c) = {WarpOf(i)}
    BY <1>3, <2>1
  <2>3. QED
    BY <2>2, FS_Singleton
<1>5. (UNION {partials[w] : w \in DOMAIN partials}) = sent
  <2>1. ASSUME NEW w \in LaunchedWarps, NEW c \in partials[w] PROVE c \in sent
    BY <1>1 DEF Sent
  <2>2. ASSUME NEW i \in Paired
        PROVE  \E w \in LaunchedWarps : Contribution(i, pairs[i]) \in partials[w]
    BY <1>1, <1>2 DEF Sent
  <2>3. QED
    BY <2>1, <2>2
<1>6. HostSum = [c \in sent |-> Cardinality(from(c))]
  BY <1>5 DEF HostSum
<1>7. QED
  BY <1>4, <1>6 DEF Everything

\* Nothing is summed at, nor left over by, the other steps.
LEMMA SumRest ==
    ASSUME SumInv, EntriesOK', running' = running, running = {},
           phase' \notin {"linearize", "linearized", "evaluate", "evaluated", "failed"}
    PROVE  SumInv'
  BY DEF SumInv, Warps, Linearizing, Linearized

LEMMA Resting ==
    ASSUME SumInv, NewClouds \/ NnSearch \/ StartAlign \/ AcceptPose \/ Return
    PROVE  SumInv'
<1>1. running = {} /\ running' = running
  BY DEF SumInv, Warps, NewClouds, NnSearch, StartAlign, AcceptPose, Return
<1>2. phase' \in {"given", "searched", "idle", "outer"}
  BY DEF NewClouds, NnSearch, StartAlign, AcceptPose, Return
<1>3. EntriesOK'
  <2>1. CASE NewClouds \/ NnSearch \/ AcceptPose \/ Return
    <3>1. cache' = cache
      BY <2>1 DEF NewClouds, NnSearch, AcceptPose, Return
    <3>2. QED
      BY <3>1 DEF SumInv, EntriesOK
  <2>2. CASE StartAlign
    <3>1. CASE cache' = <<>> \/ cache' = cache
      BY <3>1 DEF SumInv, EntriesOK
    <3>2. CASE cache' = [i \in DOMAIN source |-> [FreshCache[i] EXCEPT !.j = None]]
      <4>1. \A i \in DOMAIN source : IsEntry(FreshCache[i])
        BY DEF SumInv, EntriesOK, FreshCache, Resized, IsEntry, NoPair
      <4>2. \A e : IsEntry(e) => IsEntry([e EXCEPT !.j = None])
        BY DEF IsEntry
      <4>3. QED
        BY <3>2, <4>1, <4>2 DEF EntriesOK
    <3>3. QED
      BY <2>2, <3>1, <3>2 DEF StartAlign
  <2>3. QED
    BY <2>1, <2>2
<1>4. QED
  BY <1>1, <1>2, <1>3, SumRest

LEMMA NothingToSum ==
    ASSUME SumInv, CloudsOK, LinearizeNothing
    PROVE  SumInv'
<1>1. /\ phase = "outer" /\ phase' = "linearized" /\ h_out' = <<>> /\ inliers' = 0
      /\ N = 0 \/ target = <<>>
      /\ running' = running /\ cache' = cache /\ source' = source /\ target' = target
      /\ partials' = partials
  BY DEF LinearizeNothing
<1>2. EntriesOK' /\ Warps' /\ Linearizing'
  BY <1>1 DEF SumInv, EntriesOK, Warps, Linearizing
<1>3. ASSUME target' # <<>> PROVE N' = 0 /\ Paired' = {}
  <2>1. N' = 0 /\ IsCloud(source')
    BY <1>1, <1>3 DEF CloudsOK, N
  <2>2. DOMAIN source' = {}
    BY <2>1 DEF IsCloud, N
  <2>3. QED
    BY <2>1, <2>2 DEF Paired
<1>4. ASSUME target' # <<>> PROVE h_out' = Everything' /\ inliers' = Cardinality(Paired')
  <2>1. Everything' = [c \in {} |-> 1]
    BY <1>3, <1>4 DEF Everything
  <2>2. <<>> = [c \in {} |-> 1]
    OBVIOUS
  <2>3. QED
    BY <1>1, <1>3, <1>4, <2>1, <2>2, FS_EmptySet
<1>5. Linearized'
  BY <1>1, <1>3, <1>4 DEF Linearized
<1>6. QED
  BY <1>2, <1>5 DEF SumInv

LEMMA LaunchSizes ==
    ASSUME Launch, source' = source
    PROVE  /\ running' = LaunchedWarps /\ DOMAIN partials' = LaunchedWarps
           /\ LaunchedWarps' = LaunchedWarps
<1>1. running' = LaunchedWarps /\ partials' = Resized(partials, 0 .. BufferWarps - 1, {})
  BY DEF Launch
<1>2. DOMAIN partials' = 0 .. BufferWarps - 1
  BY <1>1, ResizedTo
<1>3. QED
  BY <1>1, <1>2 DEF BufferWarps, LaunchedWarps, Blocks, N

\* What a step on the same clouds leaves alone.
LEMMA SameClouds ==
    ASSUME source' = source
    PROVE  /\ LaunchedWarps' = LaunchedWarps /\ N' = N
           /\ \A w : ThreadsOf(w)' = ThreadsOf(w)
           /\ pairs' = pairs => Paired' = Paired
           /\ pairs' = pairs /\ T' = T => Everything' = Everything /\ \A w : Sent(w)' = Sent(w)
<1>1. LaunchedWarps' = LaunchedWarps /\ N' = N
  BY DEF LaunchedWarps, Blocks, N
<1>2. ASSUME NEW w PROVE ThreadsOf(w)' = ThreadsOf(w)
  BY DEF ThreadsOf
<1>3. pairs' = pairs => Paired' = Paired
  BY DEF Paired
<1>4. pairs' = pairs /\ T' = T => Everything' = Everything
  BY <1>3 DEF Everything, Contribution
<1>5. ASSUME NEW w, pairs' = pairs, T' = T PROVE Sent(w)' = Sent(w)
  BY <1>2, <1>3, <1>5 DEF Sent, Contribution
<1>6. QED
  BY <1>1, <1>2, <1>3, <1>4, <1>5

LEMMA LinearizeStarts ==
    ASSUME SumInv, CloudsOK, Linearize
    PROVE  SumInv'
<1>1. /\ phase' = "linearize" /\ target' = target /\ source' = source /\ pose' = pose
      /\ T' = pose /\ N > 0 /\ target # <<>> /\ Launch
      /\ cache' = FreshCache /\ inlier_count' = 0
      /\ pairs' = [i \in DOMAIN source |-> NoPair]
  BY DEF Linearize
<1>2. IsCloud(source) /\ IsCloud(source')
  BY <1>1 DEF CloudsOK
<1>3. /\ running' = LaunchedWarps /\ DOMAIN partials' = LaunchedWarps
      /\ LaunchedWarps' = LaunchedWarps /\ N' = N
  BY <1>1, LaunchSizes, SameClouds
<1>4. EntriesOK' /\ DOMAIN cache' = DOMAIN source
  <2>1. DOMAIN FreshCache = DOMAIN source
    BY ResizedTo DEF FreshCache
  <2>2. \A i \in DOMAIN source : IsEntry(FreshCache[i])
    BY DEF SumInv, EntriesOK, FreshCache, Resized, IsEntry, NoPair
  <2>3. QED
    BY <1>1, <2>1, <2>2 DEF EntriesOK
<1>5. Warps' /\ Linearized'
  BY <1>1, <1>3 DEF Warps, Linearized
<1>6. ASSUME NEW i \in DOMAIN source PROVE WarpOf(i) \in running' /\ pairs'[i].j = None
  BY <1>1, <1>2, <1>3, EveryThread DEF NoPair
<1>7. Paired' = {}
  BY <1>1, <1>6 DEF Paired
<1>8. inlier_count' = Cardinality(Paired') /\ WarpsSent'
  BY <1>1, <1>3, <1>7, FS_EmptySet DEF WarpsSent
<1>9. PerPoint'
  BY <1>1, <1>4 DEF PerPoint
<1>10. Linearizing'
  BY <1>1, <1>6, <1>8, <1>9 DEF Linearizing
<1>11. QED
  BY <1>4, <1>5, <1>10 DEF SumInv

LEMMA LinearizeWarpKeeps ==
    ASSUME SumInv, CloudsOK, NEW w \in running, LinearizeWarp(w)
    PROVE  SumInv'
<1> DEFINE pair == [i \in ThreadsOf(w) |->
                      IF PairOf(i) = None THEN RejectedEntry(cache[i])
                      ELSE [j |-> PairOf(i), at |-> T]]
           inlier == {i \in ThreadsOf(w) : pair[i].j # None}
<1>1. /\ phase = "linearize" /\ phase' = phase /\ source' = source /\ target' = target
      /\ pose' = pose /\ T' = T
      /\ running' = running \ {w}
      /\ cache' = [i \in DOMAIN cache |-> IF i \in ThreadsOf(w) THEN pair[i] ELSE cache[i]]
      /\ pairs' = [i \in DOMAIN pairs |-> IF i \in ThreadsOf(w) THEN pair[i] ELSE pairs[i]]
      /\ partials' = [v \in DOMAIN partials \cup {w} |->
                         IF v = w THEN {Contribution(i, pair[i]) : i \in inlier} ELSE partials[v]]
      /\ inlier_count' = inlier_count + Cardinality(inlier)
  BY DEF LinearizeWarp
<1>2. /\ IsCloud(source) /\ EntriesOK /\ running \subseteq LaunchedWarps
      /\ DOMAIN partials = LaunchedWarps /\ N > 0
      /\ target # <<>> /\ T = pose /\ DOMAIN pairs = DOMAIN source /\ DOMAIN cache = DOMAIN source
      /\ \A i \in DOMAIN source :
            IF WarpOf(i) \in running THEN pairs[i].j = None
            ELSE cache[i] = pairs[i] /\ (pairs[i].j # None => pairs[i].at = pose)
      /\ inlier_count = Cardinality(Paired) /\ WarpsSent
  BY <1>1 DEF CloudsOK, SumInv, Warps, Linearizing, PerPoint
<1>3. LaunchedWarps' = LaunchedWarps /\ N' = N /\ \A v : ThreadsOf(v)' = ThreadsOf(v)
  BY <1>1, SameClouds
<1>4. \A i \in DOMAIN source : i \in ThreadsOf(w) <=> WarpOf(i) = w
  BY DEF ThreadsOf, WarpOf
<1>5. ASSUME NEW i \in ThreadsOf(w)
      PROVE  IsEntry(pair[i]) /\ (pair[i].j # None => pair[i].at = T)
  <2>1. IsEntry(cache[i])
    BY <1>2 DEF EntriesOK, ThreadsOf
  <2>2. CASE PairOf(i) = None
    <3>1. pair[i] = [cache[i] EXCEPT !.j = None]
      BY <2>2 DEF RejectedEntry
    <3>2. pair[i] = [j |-> None, at |-> cache[i].at]
      BY <2>1, <3>1 DEF IsEntry
    <3>3. QED
      BY <3>2 DEF IsEntry
  <2>3. CASE PairOf(i) # None
    <3>1. pair[i] = [j |-> PairOf(i), at |-> T]
      BY <2>3
    <3>2. QED
      BY <3>1 DEF IsEntry
  <2>4. QED
    BY <2>2, <2>3
<1> HIDE DEF pair
<1>6. EntriesOK'
  BY <1>1, <1>2, <1>5 DEF EntriesOK
<1>7. Warps' /\ Linearized'
  BY <1>1, <1>2, <1>3 DEF Warps, Linearized
<1>8. ASSUME NEW i \in DOMAIN source
      PROVE  /\ i \in ThreadsOf(w) => pairs'[i] = pair[i] /\ cache'[i] = pair[i]
             /\ i \notin ThreadsOf(w) => pairs'[i] = pairs[i] /\ cache'[i] = cache[i]
  BY <1>1, <1>2
<1>9. ASSUME NEW i \in DOMAIN source
      PROVE  IF WarpOf(i) \in running' THEN pairs'[i].j = None
             ELSE cache'[i] = pairs'[i] /\ (pairs'[i].j # None => pairs'[i].at = pose')
  <2>1. CASE i \in ThreadsOf(w)
    <3>1. WarpOf(i) \notin running'
      BY <1>1, <1>4, <2>1
    <3>2. QED
      BY <1>1, <1>2, <1>5, <1>8, <2>1, <3>1
  <2>2. CASE i \notin ThreadsOf(w)
    <3>1. WarpOf(i) \in running' <=> WarpOf(i) \in running
      BY <1>1, <1>4, <2>2
    <3>2. QED
      BY <1>1, <1>2, <1>8, <2>2, <3>1
  <2>3. QED
    BY <2>1, <2>2
<1>10. Paired' = Paired \cup inlier /\ Paired \cap inlier = {} /\ inlier \subseteq DOMAIN source
  <2>1. \A i \in ThreadsOf(w) : i \in DOMAIN source /\ pairs[i].j = None
    BY <1>2, <1>4 DEF ThreadsOf
  <2>2. inlier \subseteq DOMAIN source /\ Paired \cap inlier = {}
    BY <2>1 DEF Paired
  <2>3. ASSUME NEW i \in DOMAIN source
        PROVE  pairs'[i].j # None <=> i \in Paired \/ i \in inlier
    BY <1>8, <2>1 DEF Paired
  <2>4. Paired' = {i \in DOMAIN source : pairs'[i].j # None}
    BY <1>1 DEF Paired
  <2>5. Paired \subseteq DOMAIN source
    BY DEF Paired
  <2>6. QED
    BY <2>2, <2>3, <2>4, <2>5
<1>11. inlier_count' = Cardinality(Paired')
  <2>1. IsFiniteSet(Paired) /\ IsFiniteSet(inlier)
    BY <1>2, <1>10, PairedFinite, SourceLen, FS_Subset
  <2>2. Cardinality(Paired \cup inlier) = Cardinality(Paired) + Cardinality(inlier)
    <3> HIDE DEF inlier
    <3>1. Cardinality(Paired \cup inlier) =
             Cardinality(Paired) + Cardinality(inlier) - Cardinality(Paired \cap inlier)
      BY <2>1, FS_Union
    <3>2. Cardinality(Paired \cap inlier) = 0
      BY <1>10, FS_EmptySet
    <3>3. Cardinality(Paired) \in Nat /\ Cardinality(inlier) \in Nat
      BY <2>1, FS_CardinalityType
    <3>4. QED
      BY <3>1, <3>2, <3>3
  <2>3. QED
    BY <1>1, <1>2, <1>10, <2>2
<1>12. ASSUME NEW v \in LaunchedWarps' \ running' PROVE partials'[v] = Sent(v)'
  <2>1. Sent(v)' = {Contribution(i, pairs'[i]) : i \in (Paired \cup inlier) \cap ThreadsOf(v)}
    BY <1>1, <1>3, <1>10 DEF Sent, Contribution
  <2>2. CASE v = w
    <3>1. partials'[v] = {Contribution(i, pair[i]) : i \in inlier}
      BY <1>1, <2>2
    <3>2. (Paired \cup inlier) \cap ThreadsOf(v) = inlier
      <4>1. \A i \in ThreadsOf(w) : i \notin Paired
        BY <1>2, <1>4 DEF Paired, ThreadsOf
      <4>2. QED
        BY <2>2, <4>1
    <3>3. \A i \in inlier : pairs'[i] = pair[i]
      BY <1>8, <1>10
    <3>4. QED
      BY <2>1, <3>1, <3>2, <3>3
  <2>3. CASE v # w
    <3>1. v \in LaunchedWarps \ running /\ partials'[v] = partials[v]
      BY <1>1, <1>2, <1>3, <2>3
    <3>2. (Paired \cup inlier) \cap ThreadsOf(v) = Paired \cap ThreadsOf(v)
      <4>1. \A i \in ThreadsOf(w) : i \notin ThreadsOf(v)
        BY <2>3 DEF ThreadsOf
      <4>2. QED
        BY <4>1
    <3>3. \A i \in Paired \cap ThreadsOf(v) : pairs'[i] = pairs[i]
      BY <1>4, <1>8, <2>3 DEF Paired, ThreadsOf
    <3>4. Sent(v)' = Sent(v)
      BY <2>1, <3>2, <3>3 DEF Sent
    <3>5. QED
      BY <1>2, <3>1, <3>4 DEF WarpsSent
  <2>4. QED
    BY <2>2, <2>3
<1>13. PerPoint' /\ WarpsSent'
  BY <1>1, <1>2, <1>12 DEF PerPoint, WarpsSent
<1>14. Linearizing'
  BY <1>1, <1>2, <1>9, <1>11, <1>13 DEF Linearizing
<1>15. QED
  BY <1>6, <1>7, <1>14 DEF SumInv

LEMMA SumLinearizedKeeps ==
    ASSUME SumInv, CloudsOK, SumLinearized
    PROVE  SumInv'
<1>1. /\ phase = "linearize" /\ phase' = "linearized" /\ running = {}
      /\ h_out' = HostSum /\ inliers' = inlier_count
      /\ UNCHANGED <<source, target, pose, T, partials, cache, running, pairs>>
  BY DEF SumLinearized
<1>2. /\ IsCloud(source) /\ EntriesOK /\ DOMAIN partials = LaunchedWarps /\ N > 0
      /\ PerPoint /\ WarpsSent /\ inlier_count = Cardinality(Paired)
      /\ \A i \in DOMAIN source :
            cache[i] = pairs[i] /\ (pairs[i].j # None => pairs[i].at = pose)
  BY <1>1 DEF CloudsOK, SumInv, Warps, Linearizing
<1>3. /\ N' = N /\ Paired' = Paired /\ Everything' = Everything
  BY <1>1, SameClouds
<1>4. h_out' = Everything'
  BY <1>1, <1>2, <1>3, SumOfAll
<1>5. EntriesOK' /\ Warps' /\ Linearizing' /\ PerPoint'
  BY <1>1, <1>2 DEF EntriesOK, Warps, Linearizing, PerPoint
<1>6. \A i \in Paired' : pairs'[i].at = pose'
  BY <1>1, <1>2, <1>3 DEF Paired
<1>7. Linearized'
  BY <1>1, <1>2, <1>3, <1>4, <1>5, <1>6 DEF Linearized
<1>8. QED
  BY <1>5, <1>7 DEF SumInv

LEMMA TryPoseKeeps ==
    ASSUME SumInv, CloudsOK, TryPose
    PROVE  SumInv'
<1>1. /\ phase \in {"linearized", "evaluated"} /\ phase' = "evaluate" /\ N > 0 /\ Launch
      /\ UNCHANGED <<source, target, cache, inliers, pairs>>
  BY DEF TryPose
<1>2. /\ running' = LaunchedWarps /\ DOMAIN partials' = LaunchedWarps
      /\ LaunchedWarps' = LaunchedWarps
  BY <1>1, LaunchSizes
<1>3. N' = N /\ Paired' = Paired
  BY <1>1, SameClouds
<1>4. EntriesOK' /\ Warps' /\ Linearizing'
  BY <1>1, <1>2, <1>3 DEF SumInv, EntriesOK, Warps, Linearizing
<1>5. WarpsSent'
  BY <1>2 DEF WarpsSent
<1>6. Linearized'
  BY <1>1, <1>3, <1>5 DEF SumInv, Linearized, PerPoint
<1>7. QED
  BY <1>4, <1>6 DEF SumInv

LEMMA ErrorWarpKeeps ==
    ASSUME SumInv, CloudsOK, NEW w \in running, ErrorWarp(w)
    PROVE  SumInv'
<1> DEFINE sent == {Contribution(i, cache[i]) : i \in {k \in ThreadsOf(w) : cache[k].j # None}}
<1>1. /\ phase = "evaluate" /\ phase' = phase /\ running' = running \ {w}
      /\ partials' = [v \in DOMAIN partials \cup {w} |-> IF v # w THEN partials[v] ELSE sent]
      /\ UNCHANGED <<source, target, pose, T, cache, inliers, pairs>>
  BY DEF ErrorWarp
<1>2. DOMAIN partials = LaunchedWarps /\ running \subseteq LaunchedWarps /\ N > 0
  BY <1>1 DEF SumInv, Warps
<1>3. /\ N' = N /\ Paired' = Paired /\ LaunchedWarps' = LaunchedWarps
      /\ \A v : Sent(v)' = Sent(v)
  BY <1>1, SameClouds
<1>4. EntriesOK' /\ Warps' /\ Linearizing'
  BY <1>1, <1>2, <1>3 DEF SumInv, EntriesOK, Warps, Linearizing
<1>5. ASSUME target # <<>> PROVE WarpsSent'
  <2>1. \A i \in DOMAIN source : cache[i] = pairs[i]
    BY <1>1, <1>2, <1>5 DEF SumInv, Linearized
  <2>2. sent = Sent(w)
    <3>1. {k \in ThreadsOf(w) : cache[k].j # None} = Paired \cap ThreadsOf(w)
      BY <2>1 DEF Paired, ThreadsOf
    <3>2. QED
      BY <2>1, <3>1 DEF Sent, Paired
  <2>3. WarpsSent
    BY <1>1, <1>5 DEF SumInv, Linearized
  <2> HIDE DEF sent
  <2>4. ASSUME NEW v \in LaunchedWarps' \ running' PROVE partials'[v] = Sent(v)'
    <3>1. v \in LaunchedWarps /\ (v # w => v \notin running)
      BY <1>1, <1>3
    <3>2. partials'[v] = IF v # w THEN partials[v] ELSE sent
      BY <1>1, <1>2, <3>1
    <3>3. QED
      BY <1>3, <2>2, <2>3, <3>1, <3>2 DEF WarpsSent
  <2>5. QED
    BY <2>4 DEF WarpsSent
<1>6. Linearized'
  BY <1>1, <1>3, <1>5 DEF SumInv, Linearized, PerPoint
<1>7. QED
  BY <1>4, <1>6 DEF SumInv

LEMMA SumErrorsKeeps ==
    ASSUME SumInv, CloudsOK, SumErrors
    PROVE  SumInv'
<1>1. /\ phase = "evaluate" /\ phase' = "evaluated" /\ running = {} /\ h_out' = HostSum
      /\ UNCHANGED <<source, target, pose, T, partials, cache, running, inliers, pairs>>
  BY DEF SumErrors
<1>2. IsCloud(source) /\ DOMAIN partials = LaunchedWarps
  BY <1>1 DEF CloudsOK, SumInv, Warps
<1>3. N' = N /\ Paired' = Paired /\ Everything' = Everything
  BY <1>1, SameClouds
<1>4. target # <<>> => h_out' = Everything'
  BY <1>1, <1>2, <1>3, SumOfAll DEF SumInv, Linearized
<1>5. EntriesOK' /\ Warps' /\ Linearizing'
  BY <1>1 DEF SumInv, EntriesOK, Warps, Linearizing
<1>6. Linearized'
  BY <1>1, <1>3, <1>4 DEF SumInv, Linearized, PerPoint
<1>7. QED
  BY <1>5, <1>6 DEF SumInv

LEMMA SumNext == SumInv /\ CloudsOK /\ [Next]_vars => SumInv'
<1> SUFFICES ASSUME SumInv, CloudsOK, [Next]_vars PROVE SumInv'
  OBVIOUS
<1>1. CASE NewClouds \/ NnSearch \/ StartAlign \/ AcceptPose \/ Return
  BY <1>1, Resting
<1>2. CASE LinearizeNothing
  BY <1>2, NothingToSum
<1>3. CASE Linearize
  BY <1>3, LinearizeStarts
<1>4. CASE \E w \in running : LinearizeWarp(w)
  BY <1>4, LinearizeWarpKeeps
<1>5. CASE SumLinearized
  BY <1>5, SumLinearizedKeeps
<1>6. CASE TryPose
  BY <1>6, TryPoseKeeps
<1>7. CASE \E w \in running : ErrorWarp(w)
  BY <1>7, ErrorWarpKeeps
<1>8. CASE \E w \in running : ErrorFails(w)
  <2>1. phase' = "failed" /\ UNCHANGED <<partials, cache, running>>
    BY <1>8 DEF ErrorFails
  <2>2. QED
    BY <2>1 DEF SumInv, EntriesOK, Warps, Linearizing, Linearized
<1>9. CASE SumErrors
  BY <1>9, SumErrorsKeeps
<1>10. CASE UNCHANGED vars
  <2>1. UNCHANGED <<phase, source, target, pose, T, partials, cache, running, inliers, pairs,
                    inlier_count, h_out>>
    BY <1>10 DEF vars
  <2>2. /\ N' = N /\ Paired' = Paired /\ LaunchedWarps' = LaunchedWarps
        /\ Everything' = Everything /\ \A v : Sent(v)' = Sent(v)
    BY <2>1, SameClouds
  <2>3. EntriesOK' /\ Warps' /\ PerPoint' = PerPoint /\ WarpsSent' = WarpsSent
    BY <2>1, <2>2 DEF SumInv, EntriesOK, Warps, PerPoint, WarpsSent
  <2>4. Linearizing'
    BY <2>1, <2>2, <2>3 DEF SumInv, Linearizing
  <2>5. Linearized'
    BY <2>1, <2>2, <2>3 DEF SumInv, Linearized
  <2>6. QED
    BY <2>3, <2>4, <2>5 DEF SumInv
<1>11. QED
  BY <1>1, <1>2, <1>3, <1>4, <1>5, <1>6, <1>7, <1>8, <1>9, <1>10 DEF Next

LEMMA SumInvFresh == SumInv => SumsFresh
<1> SUFFICES ASSUME SumInv PROVE SumsFresh
  OBVIOUS
<1>1. running \subseteq DOMAIN partials
  BY DEF SumInv, Warps
<1>2. ASSUME phase \in {"linearized", "evaluated"}, target # <<>>
      PROVE  /\ h_out = Everything /\ inliers = Cardinality(Paired)
             /\ phase = "linearized" => \A i \in Paired : pairs[i].at = pose
  BY <1>2 DEF SumInv, Linearized
<1>3. QED
  BY <1>1, <1>2 DEF SumsFresh, Everything, Paired

-----------------------------------------------------------------------------
(* Voxels and distances.                                                   *)
-----------------------------------------------------------------------------
\* The offset from the voxel of q to that of p.
Offset(q, p) == <<Voxel(p)[1] - Voxel(q)[1], Voxel(p)[2] - Voxel(q)[2]>>

\* On one axis, of two positions f and g into the voxels u and v: the gap to the
\* voxel is no more than the distance, and k voxels apart is more than k leaves.
LEMMA AxisGap ==
    ASSUME NEW r \in Nat \ {0}, NEW u \in Int, NEW v \in Int,
           NEW g \in 0 .. r - 1, NEW f \in 0 .. r - 1, NEW x \in Int, NEW y \in Int,
           x = r * u + g, y = r * v + f
    PROVE  LET o == v - u
               gap == IF o = 0 THEN 0 ELSE (Abs(o) - 1) * r + IF o > 0 THEN r - g ELSE g IN
           /\ gap \in Int /\ 0 <= gap /\ (gap <= x - y \/ gap <= -(x - y))
           /\ \A k \in Nat : Abs(o) > k => k * r < x - y \/ k * r < -(x - y)
<1> DEFINE o == v - u
           gap == IF o = 0 THEN 0 ELSE (Abs(o) - 1) * r + IF o > 0 THEN r - g ELSE g
<1>1. o \in Int /\ r * v = r * u + r * o /\ r * o \in Int /\ r * u \in Int
  OBVIOUS
<1>2. y - x = r * o + f - g
  BY <1>1
<1>3. CASE o = 0
  <2>1. gap = 0 /\ Abs(o) = 0
    BY <1>3 DEF Abs
  <2>2. 0 <= x - y \/ 0 <= -(x - y)
    OBVIOUS
  <2>3. QED
    BY <2>1, <2>2
<1>4. CASE o > 0
  <2>1. Abs(o) = o
    BY <1>1, <1>4 DEF Abs
  <2>2. gap = (o - 1) * r + (r - g)
    BY <1>4, <2>1
  <2>3. (o - 1) * r = r * o - r
    BY <1>1
  <2>4. r * o >= r
    <3>1. r * o >= r * 0 + r
      BY <1>1, <1>4, Apart
    <3>2. QED
      BY <1>1, <3>1
  <2>5. gap \in Int /\ 0 <= gap /\ gap <= y - x
    <3> HIDE DEF gap, o
    <3>1. QED
      BY <1>1, <1>2, <2>2, <2>3, <2>4
  <2>6. ASSUME NEW k \in Nat, Abs(o) > k PROVE k * r < y - x
    <3>1. r * o >= r * k + r
      BY <1>1, <2>1, <2>6, Apart
    <3>2. k * r = r * k /\ r * k \in Int
      OBVIOUS
    <3> HIDE DEF o
    <3>3. QED
      BY <1>1, <1>2, <3>1, <3>2
  <2>7. QED
    BY <2>5, <2>6
<1>5. CASE o < 0
  <2> DEFINE m == -o
  <2>1. Abs(o) = m /\ m \in Int /\ m > 0
    BY <1>1, <1>5 DEF Abs
  <2>2. gap = (m - 1) * r + g
    <3>1. o # 0 /\ ~(o > 0)
      BY <1>1, <1>5
    <3>2. gap = (Abs(o) - 1) * r + g
      <4> HIDE DEF o
      <4>1. QED
        BY <3>1
    <3>3. QED
      BY <2>1, <3>2
  <2>3. (m - 1) * r = r * m - r /\ r * m = -(r * o) /\ r * m \in Int
    BY <1>1
  <2>4. r * m >= r
    <3>1. r * m >= r * 0 + r
      BY <2>1, Apart
    <3>2. QED
      BY <2>1, <3>1
  <2>5. gap \in Int /\ 0 <= gap /\ gap <= x - y
    <3> HIDE DEF gap, m, o
    <3>1. QED
      BY <1>1, <1>2, <2>2, <2>3, <2>4
  <2>6. ASSUME NEW k \in Nat, Abs(o) > k PROVE k * r < x - y
    <3>1. r * m >= r * k + r
      BY <2>1, <2>6, Apart
    <3>2. k * r = r * k /\ r * k \in Int
      OBVIOUS
    <3> HIDE DEF m, o
    <3>3. QED
      BY <1>1, <1>2, <2>3, <3>1, <3>2
  <2>7. QED
    BY <2>5, <2>6
<1>6. QED
  BY <1>1, <1>3, <1>4, <1>5

LEMMA VoxelParts ==
    ASSUME NEW p \in Int \X Int, NEW a \in Axes
    PROVE  /\ p[a] \in Int /\ Voxel(p)[a] \in Int /\ Frac(p)[a] \in 0 .. Res - 1
           /\ p[a] = Res * Voxel(p)[a] + Frac(p)[a]
<1>1. p[a] \in Int
  BY DEF Axes
<1>2. Voxel(p)[a] = p[a] \div Res /\ Frac(p)[a] = p[a] % Res
  BY DEF Voxel, Frac
<1>3. /\ p[a] \div Res \in Int /\ p[a] % Res \in 0 .. Res - 1
      /\ p[a] = Res * (p[a] \div Res) + (p[a] % Res)
  BY <1>1, ResAssumption, DivMod
<1>4. QED
  BY <1>1, <1>2, <1>3

LEMMA OffsetType ==
    ASSUME NEW q \in Int \X Int, NEW p \in Int \X Int
    PROVE  /\ Offset(q, p) \in Int \X Int
           /\ \A a \in Axes : Offset(q, p)[a] = Voxel(p)[a] - Voxel(q)[a]
<1>1. \A a \in Axes : Voxel(p)[a] \in Int /\ Voxel(q)[a] \in Int
  BY VoxelParts
<1>2. Offset(q, p)[1] = Voxel(p)[1] - Voxel(q)[1] /\ Offset(q, p)[2] = Voxel(p)[2] - Voxel(q)[2]
  BY DEF Offset
<1>3. QED
  BY <1>1, <1>2 DEF Axes, Offset

LEMMA GapBelow ==
    ASSUME NEW q \in Int \X Int, NEW p \in Int \X Int, NEW a \in Axes
    PROVE  LET o == Offset(q, p)
               d == q[a] - p[a] IN
           /\ d \in Int /\ Gap(q, o, a) \in Int /\ 0 <= Gap(q, o, a)
           /\ Gap(q, o, a) <= d \/ Gap(q, o, a) <= -d
           /\ \A k \in Nat : Abs(o[a]) > k => k * Res < d \/ k * Res < -d
<1> DEFINE o == Offset(q, p)
<1>1. /\ q[a] \in Int /\ Voxel(q)[a] \in Int /\ Frac(q)[a] \in 0 .. Res - 1
      /\ q[a] = Res * Voxel(q)[a] + Frac(q)[a]
  BY VoxelParts
<1>2. /\ p[a] \in Int /\ Voxel(p)[a] \in Int /\ Frac(p)[a] \in 0 .. Res - 1
      /\ p[a] = Res * Voxel(p)[a] + Frac(p)[a]
  BY VoxelParts
<1>3. o[a] = Voxel(p)[a] - Voxel(q)[a]
  BY OffsetType
<1>4. Gap(q, o, a) = IF o[a] = 0 THEN 0
                     ELSE (Abs(o[a]) - 1) * Res + IF o[a] > 0 THEN Res - Frac(q)[a] ELSE Frac(q)[a]
  BY DEF Gap
<1>5. Res \in Nat \ {0}
  BY ResAssumption
<1> DEFINE u == Voxel(q)[a]
           v == Voxel(p)[a]
           g == Frac(q)[a]
           f == Frac(p)[a]
           x == q[a]
           y == p[a]
           gap == Gap(q, o, a)
           oa == o[a]
<1>6. /\ u \in Int /\ v \in Int /\ g \in 0 .. Res - 1 /\ f \in 0 .. Res - 1 /\ x \in Int /\ y \in Int
      /\ x = Res * u + g /\ y = Res * v + f /\ oa = v - u
      /\ gap = IF oa = 0 THEN 0 ELSE (Abs(oa) - 1) * Res + IF oa > 0 THEN Res - g ELSE g
  BY <1>1, <1>2, <1>3, <1>4
<1>7. /\ gap \in Int /\ 0 <= gap /\ (gap <= x - y \/ gap <= -(x - y))
      /\ \A k \in Nat : Abs(oa) > k => k * Res < x - y \/ k * Res < -(x - y)
  <2> HIDE DEF u, v, g, f, x, y, gap, oa
  <2>1. QED
    BY <1>5, <1>6, AxisGap
<1>8. QED
  BY <1>6, <1>7

LEMMA DistType ==
    ASSUME NEW q \in Int \X Int, NEW p \in Int \X Int
    PROVE  SqDist(q, p) \in Nat
<1>1. q[1] - p[1] \in Int /\ q[2] - p[2] \in Int
  OBVIOUS
<1>2. Sq(q[1] - p[1]) \in Nat /\ Sq(q[2] - p[2]) \in Nat
  BY <1>1, SqType
<1>3. QED
  BY <1>2 DEF SqDist

\* The gaps to a voxel bound the distance of the positions in it from below.
LEMMA GapSqBelow ==
    ASSUME NEW q \in Int \X Int, NEW p \in Int \X Int
    PROVE  GapSq(q, Offset(q, p)) \in Nat /\ GapSq(q, Offset(q, p)) <= SqDist(q, p)
<1> DEFINE gap(a) == Gap(q, Offset(q, p), a)
           d(a) == q[a] - p[a]
<1>1. ASSUME NEW a \in Axes PROVE Sq(gap(a)) \in Nat /\ Sq(d(a)) \in Nat /\ Sq(gap(a)) <= Sq(d(a))
  <2>1. d(a) \in Int /\ gap(a) \in Int /\ 0 <= gap(a) /\ (gap(a) <= d(a) \/ gap(a) <= -d(a))
    BY GapBelow
  <2> HIDE DEF gap, d
  <2>2. QED
    BY <2>1, SqGrows
<1>2. 1 \in Axes /\ 2 \in Axes
  BY DEF Axes
<1>3. /\ Sq(gap(1)) \in Nat /\ Sq(d(1)) \in Nat /\ Sq(gap(1)) <= Sq(d(1))
      /\ Sq(gap(2)) \in Nat /\ Sq(d(2)) \in Nat /\ Sq(gap(2)) <= Sq(d(2))
  BY <1>1, <1>2
<1>4. GapSq(q, Offset(q, p)) = Sq(gap(1)) + Sq(gap(2)) /\ SqDist(q, p) = Sq(d(1)) + Sq(d(2))
  BY DEF GapSq, SqDist
<1> HIDE DEF gap, d
<1>5. QED
  BY <1>3, <1>4

\* Outside the cube of k voxels everything is further away than k leaves.
LEMMA OutsideFar ==
    ASSUME NEW q \in Int \X Int, NEW p \in Int \X Int, NEW k \in Nat,
           Offset(q, p) \notin Cube(k)
    PROVE  Sq(k * Res) < SqDist(q, p)
<1> DEFINE o == Offset(q, p)
           d(a) == q[a] - p[a]
           r == k * Res
<1>1. r \in Nat
  BY ResAssumption
<1>2. PICK a \in Axes : Abs(o[a]) > k
  <2>1. o \in Int \X Int
    BY OffsetType
  <2>2. o[1] \in Int /\ o[2] \in Int /\ o = <<o[1], o[2]>>
    BY <2>1
  <2>3. o[1] \in -k .. k /\ o[2] \in -k .. k => o \in Cube(k)
    BY <2>2 DEF Cube
  <2>4. ~(o[1] \in -k .. k) \/ ~(o[2] \in -k .. k)
    BY <2>3
  <2>5. Abs(o[1]) > k \/ Abs(o[2]) > k
    <3> HIDE DEF o
    <3>1. QED
      BY <2>2, <2>4 DEF Abs
  <2>6. QED
    BY <2>5 DEF Axes
<1>3. d(a) \in Int /\ (r < d(a) \/ r < -d(a))
  BY <1>2, GapBelow
<1>4. Sq(r) < Sq(d(a))
  <2> HIDE DEF d, r
  <2>1. r + 1 \in Int /\ 0 <= r + 1 /\ (r + 1 <= d(a) \/ r + 1 <= -d(a))
    BY <1>1, <1>3
  <2>2. Sq(r + 1) <= Sq(d(a)) /\ Sq(r + 1) \in Nat /\ Sq(d(a)) \in Nat
    BY <1>3, <2>1, SqGrows
  <2>3. Sq(r + 1) = Sq(r) + 2 * r + 1 /\ Sq(r) \in Int
    BY <1>1 DEF Sq
  <2>4. QED
    BY <1>1, <2>2, <2>3
<1>5. Sq(d(1)) \in Nat /\ Sq(d(2)) \in Nat /\ SqDist(q, p) = Sq(d(1)) + Sq(d(2))
  <2>1. d(1) \in Int /\ d(2) \in Int
    OBVIOUS
  <2>2. QED
    BY <2>1, SqType DEF SqDist
<1>6. a = 1 \/ a = 2
  BY DEF Axes
<1>7. Sq(r) \in Nat
  BY <1>1, SqType
<1> HIDE DEF d
<1>8. QED
  BY <1>4, <1>5, <1>6, <1>7

-----------------------------------------------------------------------------
(* Keys.                                                                   *)
-----------------------------------------------------------------------------
LEMMA KeyParts ==
    ASSUME NEW p \in Int \X Int, voxel_key(p) # INVALID_KEY
    PROVE  /\ \A a \in Axes : Voxel(p)[a] + COORD_OFFSET \in 0 .. Side - 1
           /\ voxel_key(p) = coord_key(Voxel(p))
           /\ key_coord(voxel_key(p)) = <<Voxel(p)[1], Voxel(p)[2]>>
<1> DEFINE u == Voxel(p)[1] + COORD_OFFSET
           v == Voxel(p)[2] + COORD_OFFSET
<1>1. /\ \A a \in Axes : Voxel(p)[a] + COORD_OFFSET \in 0 .. Side - 1
      /\ voxel_key(p) = coord_key(Voxel(p))
  BY DEF voxel_key
<1>2. /\ Voxel(p)[1] \in Int /\ Voxel(p)[2] \in Int
      /\ Side \in Nat \ {0} /\ COORD_OFFSET \in Int
      /\ u \in 0 .. Side - 1 /\ v \in 0 .. Side - 1
  BY <1>1, VoxelParts, SideType DEF Axes
<1>3. u % Side = u /\ v % Side = v
  <2> HIDE DEF u, v
  <2>1. ASSUME NEW x \in 0 .. Side - 1 PROVE x % Side = x
    <3>1. x \in Int /\ 0 \in Int /\ x = x + Side * 0
      BY <1>2
    <3>2. QED
      BY <1>2, <3>1, Digits
  <2>2. QED
    BY <1>2, <2>1
<1>4. voxel_key(p) = u + Side * v
  BY <1>1, <1>3 DEF coord_key
<1>5. voxel_key(p) % Side = u /\ voxel_key(p) \div Side = v
  <2> DEFINE key == voxel_key(p)
  <2>1. key \in Int /\ key = u + Side * v
    BY <1>2, <1>4
  <2> HIDE DEF u, v, key
  <2>2. v \in Int
    BY <1>2
  <2>3. key % Side = u /\ key \div Side = v
    BY <1>2, <2>1, <2>2, Digits
  <2>4. QED
    BY <2>3 DEF key
<1>6. key_coord(voxel_key(p)) = <<u - COORD_OFFSET, v - COORD_OFFSET>>
  BY <1>5 DEF key_coord
<1>7. u - COORD_OFFSET = Voxel(p)[1] /\ v - COORD_OFFSET = Voxel(p)[2]
  BY <1>2
<1>8. QED
  BY <1>1, <1>6, <1>7

-----------------------------------------------------------------------------
(* What a search finds.                                                    *)
-----------------------------------------------------------------------------
Dist(q, j) == SqDist(q, target[j])
IsHit(q, h) == h.j # None => h.j \in DOMAIN target /\ h.d2 = Dist(q, h.j)

LEMMA TargetType ==
    ASSUME IsTarget(target)
    PROVE  /\ \A j \in DOMAIN target :
                 j \in Nat /\ j # None /\ target[j] \in Int \X Int /\ voxel_key(target[j]) # INVALID_KEY
           /\ \A q \in Int \X Int, j \in DOMAIN target : Dist(q, j) \in Nat
<1>1. DOMAIN target = 1 .. Len(target) /\ Len(target) \in Nat
      /\ \A j \in DOMAIN target : target[j] \in Int \X Int
  BY DEF IsTarget, IsCloud
<1>2. ASSUME NEW j \in DOMAIN target PROVE voxel_key(target[j]) # INVALID_KEY
  BY DEF IsTarget
<1>3. QED
  BY <1>1, <1>2, DistType DEF None, Dist

\* The index finds the one position that has a key.
LEMMA FindsKey ==
    ASSUME IsTarget(target), NEW j \in DOMAIN target
    PROVE  Find(voxel_key(target[j])) = j
<1> DEFINE k == CHOOSE i \in DOMAIN target : voxel_key(target[i]) = voxel_key(target[j])
<1>1. Find(voxel_key(target[j])) = k
  BY DEF Find
<1>2. k \in DOMAIN target /\ voxel_key(target[k]) = voxel_key(target[j])
  OBVIOUS
<1> HIDE DEF k
<1>3. k \in Nat /\ j \in Nat
  BY <1>2, TargetType
<1>4. \A i \in DOMAIN target : voxel_key(target[i]) \in Int
  <2>1. ASSUME NEW i \in DOMAIN target PROVE voxel_key(target[i]) \in Int
    <3> DEFINE p == target[i]
    <3>1. p \in Int \X Int /\ voxel_key(p) # INVALID_KEY
      BY TargetType
    <3> HIDE DEF p
    <3>2. voxel_key(p) = coord_key(Voxel(p)) /\ \A a \in Axes : Voxel(p)[a] + COORD_OFFSET \in 0 .. Side - 1
      BY <3>1, KeyParts
    <3> DEFINE u == Voxel(p)[1] + COORD_OFFSET
               v == Voxel(p)[2] + COORD_OFFSET
    <3>3. u \in Int /\ v \in Int /\ Side \in Nat \ {0}
      BY <3>1, VoxelParts, SideType DEF Axes
    <3>4. u % Side \in Int /\ v % Side \in Int
      <4> HIDE DEF u, v
      <4>1. u % Side \in 0 .. Side - 1 /\ v % Side \in 0 .. Side - 1
        BY <3>3, DivMod
      <4>2. QED
        BY <3>3, <4>1
    <3>5. voxel_key(p) = (u % Side) + Side * (v % Side)
      BY <3>2 DEF coord_key
    <3>6. voxel_key(p) \in Int
      <4> DEFINE a == u % Side
                 b == v % Side
      <4>1. a \in Int /\ b \in Int /\ voxel_key(p) = a + Side * b
        BY <3>4, <3>5
      <4> HIDE DEF a, b
      <4>2. QED
        BY <3>3, <4>1
    <3>7. QED
      BY <3>6 DEF p
  <2>2. QED
    BY <2>1
<1>5. ~(k < j) /\ ~(j < k)
  <2>1. k < j => voxel_key(target[k]) < voxel_key(target[j])
    BY <1>2 DEF IsTarget
  <2>2. j < k => voxel_key(target[j]) < voxel_key(target[k])
    BY <1>2 DEF IsTarget
  <2>3. QED
    BY <1>2, <1>4, <2>1, <2>2
<1>6. QED
  BY <1>1, <1>3, <1>5

\* Whatever a voxel holds is a point of the target, and the voxel at a point's
\* offset holds that point.
LEMMA HitIs ==
    ASSUME IsTarget(target), NEW q \in Int \X Int, voxel_key(q) # INVALID_KEY
    PROVE  /\ \A o : IsHit(q, HitAt(q, o))
           /\ \A j \in DOMAIN target :
                 HitAt(q, Offset(q, target[j])) = [d2 |-> Dist(q, j), j |-> j]
<1>1. ASSUME NEW o PROVE IsHit(q, HitAt(q, o))
  <2> DEFINE key == coord_key(Moved(key_coord(voxel_key(q)), o))
             j == Find(key)
  <2>1. CASE j = None
    <3>1. HitAt(q, o) = NoHit
      BY <2>1 DEF HitAt
    <3>2. QED
      BY <3>1 DEF NoHit, IsHit
  <2>2. CASE j # None
    <3>1. HitAt(q, o) = [d2 |-> SqDist(q, target[j]), j |-> j]
      BY <2>2 DEF HitAt
    <3>2. j \in DOMAIN target
      BY <2>2 DEF Find
    <3>3. QED
      BY <3>1, <3>2 DEF IsHit, Dist
  <2>3. QED
    BY <2>1, <2>2
<1>2. ASSUME NEW j \in DOMAIN target
      PROVE  HitAt(q, Offset(q, target[j])) = [d2 |-> Dist(q, j), j |-> j]
  <2> DEFINE p == target[j]
             o == Offset(q, p)
             c == Moved(key_coord(voxel_key(q)), o)
  <2>1. p \in Int \X Int /\ voxel_key(p) # INVALID_KEY /\ j # None
    BY TargetType
  <2>2. key_coord(voxel_key(q)) = <<Voxel(q)[1], Voxel(q)[2]>>
    BY KeyParts
  <2>3. /\ voxel_key(p) = coord_key(Voxel(p))
        /\ Voxel(p)[1] \in Int /\ Voxel(p)[2] \in Int /\ Voxel(q)[1] \in Int /\ Voxel(q)[2] \in Int
    BY <2>1, KeyParts, VoxelParts DEF Axes
  <2>4. c[1] = Voxel(p)[1] /\ c[2] = Voxel(p)[2]
    <3>1. /\ c[1] = Voxel(q)[1] + (Voxel(p)[1] - Voxel(q)[1])
          /\ c[2] = Voxel(q)[2] + (Voxel(p)[2] - Voxel(q)[2])
      BY <2>2 DEF Moved, Offset
    <3>2. QED
      BY <2>3, <3>1
  <2>5. coord_key(c) = voxel_key(p)
    <3> HIDE DEF c
    <3>1. QED
      BY <2>3, <2>4 DEF coord_key
  <2>6. Find(coord_key(c)) = j
    BY <2>5, FindsKey
  <2>7. QED
    BY <2>1, <2>6 DEF HitAt, Dist
<1>3. QED
  BY <1>1, <1>2

\* The reduction keeps a nearest hit.
LEMMA NearerIs ==
    ASSUME IsTarget(target), NEW q \in Int \X Int, NEW hits, NEW than,
           \A h \in hits : IsHit(q, h), IsHit(q, than)
    PROVE  LET r == Nearer(hits, than) IN
           /\ IsHit(q, r)
           /\ r \in hits \cup {than}
           /\ than.j # None => r.j # None /\ r.d2 <= than.d2
           /\ \A h \in hits : h.j # None => r.j # None /\ r.d2 <= h.d2
<1> DEFINE better == {h \in hits : Better(h, than)}
<1>1. \A h \in hits \cup {than} : h.j # None => h.d2 \in Nat
  BY TargetType DEF IsHit
<1>2. \A h \in better : h \in hits /\ h.j # None /\ (than.j # None => h.d2 < than.d2)
  BY DEF Better
<1>3. \A h \in hits : h \notin better /\ h.j # None => than.j # None /\ ~(h.d2 < than.d2)
  BY DEF Better
<1>4. Nearer(hits, than) = IF better = {} THEN than
                           ELSE CHOOSE h \in better : \A g \in better : g.d2 >= h.d2
  BY DEF Nearer
<1> HIDE DEF better
<1>5. CASE better = {}
  <2>1. Nearer(hits, than) = than
    BY <1>4, <1>5
  <2>2. \A h \in hits : h.j # None => than.j # None /\ than.d2 <= h.d2
    BY <1>1, <1>3, <1>5
  <2>3. than.j # None => than.d2 <= than.d2
    BY <1>1
  <2>4. QED
    BY <2>1, <2>2, <2>3
<1>6. CASE better # {}
  <2> DEFINE dists == {h.d2 : h \in better}
             r == CHOOSE h \in better : \A g \in better : g.d2 >= h.d2
  <2>1. \A h \in better : h.d2 \in Nat
    BY <1>1, <1>2
  <2>2. \E h \in better : \A g \in better : g.d2 >= h.d2
    <3>1. dists \subseteq Nat /\ dists # {}
      BY <1>6, <2>1
    <3>2. PICK m \in dists : \A n \in dists : m <= n
      <4> HIDE DEF dists
      <4>1. QED
        BY <3>1, LeastNat
    <3>3. PICK h \in better : m = h.d2
      OBVIOUS
    <3>4. \A g \in better : g.d2 >= h.d2
      BY <2>1, <3>2, <3>3
    <3>5. QED
      BY <3>4
  <2>3. r \in better /\ \A g \in better : g.d2 >= r.d2
    BY <2>2
  <2>4. Nearer(hits, than) = r
    BY <1>4, <1>6
  <2> HIDE DEF r
  <2>5. r \in hits /\ r.j # None /\ r.d2 \in Nat /\ (than.j # None => r.d2 < than.d2)
    BY <1>2, <2>1, <2>3
  <2>6. than.j # None => r.d2 <= than.d2
    BY <1>1, <2>5
  <2>7. ASSUME NEW h \in hits, h.j # None PROVE r.d2 <= h.d2
    <3>1. h.d2 \in Nat
      BY <1>1, <2>7
    <3>2. CASE h \in better
      BY <2>3, <2>5, <3>1, <3>2
    <3>3. CASE h \notin better
      <4>1. than.j # None /\ ~(h.d2 < than.d2) /\ than.d2 \in Nat
        BY <1>1, <1>3, <2>7, <3>3
      <4>2. QED
        BY <2>5, <3>1, <4>1
    <3>4. QED
      BY <3>2, <3>3
  <2>8. QED
    BY <2>4, <2>5, <2>6, <2>7
<1>7. QED
  BY <1>5, <1>6

\* As far as the rejection distance goes, a search misses nothing.
Found(q, h) ==
    /\ IsHit(q, h)
    /\ \/ voxel_key(q) = INVALID_KEY /\ h.j = None
       \/ \A k \in DOMAIN target :
             (h.j # None /\ h.d2 <= Dist(q, k)) \/ Dist(q, k) >= max_dist_sq

LEMMA BatchFound ==
    ASSUME IsTarget(target), NEW q \in Int \X Int, max_dist_sq <= FourLeaves
    PROVE  Found(q, BatchSearch(q))
<1> DEFINE window == Nearer({HitAt(q, o) : o \in Cube(2)}, NoHit)
           prune_ref == IF window.j # None THEN window.d2 ELSE max_dist_sq
           ring == {o \in Cube(4) \ Cube(2) : GapSq(q, o) < prune_ref}
           widened == Nearer({HitAt(q, o) : o \in ring}, window)
           hit == BatchSearch(q)
<1>1. CASE voxel_key(q) = INVALID_KEY
  <2>1. hit = [NoHit EXCEPT !.d2 = 0]
    BY <1>1 DEF BatchSearch
  <2>2. hit.j = None
    BY <2>1 DEF NoHit
  <2>3. QED
    BY <1>1, <2>2 DEF Found, IsHit
<1>2. CASE voxel_key(q) # INVALID_KEY
  <2>1. /\ \A o : IsHit(q, HitAt(q, o))
        /\ \A j \in DOMAIN target :
              HitAt(q, Offset(q, target[j])) = [d2 |-> Dist(q, j), j |-> j]
    BY <1>2, HitIs
  <2>2. IsHit(q, NoHit)
    BY DEF IsHit, NoHit
  <2>3. /\ IsHit(q, window)
        /\ \A o \in Cube(2) : HitAt(q, o).j # None => window.j # None /\ window.d2 <= HitAt(q, o).d2
    BY <2>1, <2>2, NearerIs
  <2>4. hit = IF window.j = None \/ window.d2 > expand_d2 THEN widened ELSE window
    BY <1>2 DEF BatchSearch
  <2> HIDE DEF window
  <2>5. /\ IsHit(q, widened)
        /\ window.j # None => widened.j # None /\ widened.d2 <= window.d2
        /\ \A o \in ring : HitAt(q, o).j # None => widened.j # None /\ widened.d2 <= HitAt(q, o).d2
    BY <2>1, <2>3, NearerIs
  <2>6. IsHit(q, hit) /\ (window.j # None => hit.j # None /\ hit.d2 <= window.d2)
    <3>1. window.j # None => window.d2 <= window.d2
      BY <2>3, TargetType DEF IsHit
    <3>2. QED
      BY <2>3, <2>4, <2>5, <3>1
  <2> HIDE DEF widened, ring, hit, prune_ref
  <2>7. /\ window.j # None => window.d2 \in Nat
        /\ hit.j # None => hit.d2 \in Nat
        /\ widened.j # None => widened.d2 \in Nat
        /\ max_dist_sq \in Nat
    BY <2>3, <2>5, <2>6, TargetType, BoundsAssumption DEF IsHit
  <2>8. ASSUME NEW k \in DOMAIN target
        PROVE  (hit.j # None /\ hit.d2 <= Dist(q, k)) \/ Dist(q, k) >= max_dist_sq
    <3> DEFINE p == target[k]
               o == Offset(q, p)
               d == Dist(q, k)
    <3>1. p \in Int \X Int /\ k # None /\ d \in Nat /\ d = SqDist(q, p)
      BY TargetType DEF Dist
    <3>2. HitAt(q, o) = [d2 |-> d, j |-> k]
      BY <2>1
    <3> HIDE DEF d, p
    <3>3. HitAt(q, o).j # None /\ HitAt(q, o).d2 = d
      BY <3>1, <3>2
    <3>4. ASSUME window.j # None, window.d2 <= d PROVE hit.j # None /\ hit.d2 <= d
      BY <2>6, <2>7, <3>1, <3>4
    <3>5. CASE o \in Cube(2)
      BY <2>3, <3>3, <3>4, <3>5 DEF d
    <3>6. CASE o \notin Cube(4)
      <4>1. FourLeaves < d
        BY <3>1, <3>6, OutsideFar DEF FourLeaves
      <4>2. FourLeaves \in Nat
        <5>1. 4 * Res \in Int
          BY ResAssumption
        <5>2. QED
          BY <5>1, SqType DEF FourLeaves
      <4>3. d >= max_dist_sq
        BY <2>7, <3>1, <4>1, <4>2
      <4>4. QED
        BY <4>3 DEF d
    <3>7. CASE o \in Cube(4) \ Cube(2)
      <4>1. expand_d2 < d /\ expand_d2 \in Nat
        <5>1. expand_d2 < d
          BY <3>1, <3>7, OutsideFar DEF expand_d2
        <5>2. 2 * Res \in Int
          BY ResAssumption
        <5>3. QED
          BY <5>1, <5>2, SqType DEF expand_d2
      <4>2. CASE ~(window.j = None \/ window.d2 > expand_d2)
        <5>1. window.j # None /\ window.d2 <= d
          BY <2>7, <3>1, <4>1, <4>2
        <5>2. QED
          BY <3>4, <5>1 DEF d
      <4>3. CASE (window.j = None \/ window.d2 > expand_d2) /\ GapSq(q, o) < prune_ref
        <5>1. o \in ring
          BY <3>7, <4>3 DEF ring
        <5>2. hit = widened
          BY <2>4, <4>3
        <5>3. QED
          BY <2>5, <3>3, <5>1, <5>2 DEF d
      <4>4. CASE ~(GapSq(q, o) < prune_ref)
        <5>1. GapSq(q, o) \in Nat /\ GapSq(q, o) <= d
          BY <3>1, GapSqBelow
        <5>2. CASE window.j # None
          <6>1. prune_ref = window.d2
            BY <5>2 DEF prune_ref
          <6>2. window.d2 <= d
            BY <2>7, <3>1, <4>4, <5>1, <5>2, <6>1
          <6>3. QED
            BY <3>4, <5>2, <6>2 DEF d
        <5>3. CASE window.j = None
          <6>1. prune_ref = max_dist_sq
            BY <5>3 DEF prune_ref
          <6>2. d >= max_dist_sq
            BY <2>7, <3>1, <4>4, <5>1, <6>1
          <6>3. QED
            BY <6>2 DEF d
        <5>4. QED
          BY <5>2, <5>3
      <4>5. QED
        BY <4>2, <4>3, <4>4
    <3>8. QED
      BY <3>5, <3>6, <3>7
  <2>9. QED
    BY <2>6, <2>8 DEF Found, hit
<1>3. QED
  BY <1>1, <1>2

LEMMA ExactFound ==
    ASSUME IsTarget(target), NEW q \in Int \X Int
    PROVE  Found(q, ExactSearch(q))
<1> DEFINE hits == {[d2 |-> SqDist(q, target[j]), j |-> j] : j \in DOMAIN target}
<1>1. \A h \in hits : IsHit(q, h)
  BY DEF IsHit, Dist
<1>2. IsHit(q, NoHit)
  BY DEF IsHit, NoHit
<1>3. ExactSearch(q) = Nearer(hits, NoHit)
  BY DEF ExactSearch
<1>4. ASSUME NEW k \in DOMAIN target
      PROVE  \E h \in hits : h.j # None /\ h.d2 = Dist(q, k)
  <2>1. [d2 |-> SqDist(q, target[k]), j |-> k] \in hits /\ k # None
    BY TargetType
  <2>2. QED
    BY <2>1 DEF Dist
<1> HIDE DEF hits
<1> DEFINE r == Nearer(hits, NoHit)
<1>5. IsHit(q, r) /\ \A h \in hits : h.j # None => r.j # None /\ r.d2 <= h.d2
  BY <1>1, <1>2, NearerIs
<1> HIDE DEF r
<1>6. \A k \in DOMAIN target : r.j # None /\ r.d2 <= Dist(q, k)
  BY <1>4, <1>5
<1>7. QED
  BY <1>3, <1>5, <1>6 DEF Found, r

\* The nearest point's distance.
LEMMA NearestIs ==
    ASSUME IsTarget(target), target # <<>>, NEW q \in Int \X Int
    PROVE  /\ Nearest(q) \in Nat
           /\ \E k \in DOMAIN target : Nearest(q) = Dist(q, k)
           /\ \A k \in DOMAIN target : Nearest(q) <= Dist(q, k)
<1> DEFINE dists == {SqDist(q, target[k]) : k \in DOMAIN target}
<1>1. \A k \in DOMAIN target : Dist(q, k) \in Nat /\ Dist(q, k) = SqDist(q, target[k])
  BY TargetType DEF Dist
<1>2. DOMAIN target # {}
  <2>1. target \in Seq(Int \X Int) /\ target # <<>>
    BY DEF IsTarget, IsCloud
  <2>2. DOMAIN target = 1 .. Len(target) /\ Len(target) \in Nat /\ Len(target) # 0
    BY <2>1
  <2>3. 1 \in DOMAIN target
    BY <2>2
  <2>4. QED
    BY <2>3
<1>3. dists \subseteq Nat /\ dists # {} /\ Nearest(q) = Min(dists)
  BY <1>1, <1>2 DEF Nearest
<1>4. Nearest(q) \in dists /\ \A d \in dists : Nearest(q) <= d
  <2> HIDE DEF dists
  <2>1. \E m \in dists : \A d \in dists : m <= d
    BY <1>3, LeastNat
  <2>2. QED
    BY <1>3, <2>1 DEF Min
<1>5. QED
  BY <1>1, <1>3, <1>4

\* The pair a warp makes of a search result.
Rejected(h) == IF h.j # None /\ h.d2 <= max_dist_sq THEN h.j ELSE None
PairGood(q, j) ==
    IF j # None THEN j \in DOMAIN target /\ \A k \in DOMAIN target : Dist(q, j) <= Dist(q, k)
    ELSE voxel_key(q) = INVALID_KEY \/ \A k \in DOMAIN target : Dist(q, k) >= max_dist_sq

LEMMA PairOfFound ==
    ASSUME IsTarget(target), NEW q \in Int \X Int, NEW h, Found(q, h)
    PROVE  PairGood(q, Rejected(h))
<1>1. /\ \A k \in DOMAIN target : Dist(q, k) \in Nat
      /\ max_dist_sq \in Nat
      /\ h.j # None => h.j \in DOMAIN target /\ h.d2 = Dist(q, h.j)
  BY TargetType, BoundsAssumption DEF Found, IsHit
<1>2. CASE h.j # None /\ h.d2 <= max_dist_sq
  <2>1. Rejected(h) = h.j /\ h.j # None
    BY <1>2 DEF Rejected
  <2>2. ASSUME NEW k \in DOMAIN target PROVE Dist(q, h.j) <= Dist(q, k)
    <3>1. h.d2 <= Dist(q, k) \/ Dist(q, k) >= max_dist_sq
      BY <1>2 DEF Found
    <3>2. QED
      BY <1>1, <1>2, <3>1
  <2>3. QED
    BY <1>1, <1>2, <2>1, <2>2 DEF PairGood
<1>3. CASE ~(h.j # None /\ h.d2 <= max_dist_sq)
  <2>1. Rejected(h) = None
    BY <1>3 DEF Rejected
  <2>2. CASE voxel_key(q) = INVALID_KEY
    BY <2>1, <2>2 DEF PairGood
  <2>3. CASE voxel_key(q) # INVALID_KEY
    <3>1. ASSUME NEW k \in DOMAIN target PROVE Dist(q, k) >= max_dist_sq
      <4>1. (h.j # None /\ h.d2 <= Dist(q, k)) \/ Dist(q, k) >= max_dist_sq
        BY <2>3 DEF Found
      <4>2. QED
        BY <1>1, <1>3, <4>1
    <3>2. QED
      BY <2>1, <3>1 DEF PairGood
  <2>4. QED
    BY <2>2, <2>3
<1>4. QED
  BY <1>2, <1>3

-----------------------------------------------------------------------------
(* The pairs.                                                              *)
-----------------------------------------------------------------------------
Nothing == N = 0 \/ target = <<>>

\* What the search handed the kernel, and what its warps have made of it.
NearInv ==
    /\ nn \in Strategies
    /\ phase \in {"outer", "linearized", "evaluate", "evaluated"} /\ Nothing => pairs = <<>>
    /\ phase = "linearize" /\ engine = "gicp" /\ nn # "ExactBF" /\ max_dist_sq <= FourLeaves =>
          \A i \in DOMAIN source : Found(At(i, T), nn_hits[i])
    /\ phase \in {"linearize", "linearized"} /\ engine = "gicp" /\ ~Nothing
             /\ max_dist_sq <= FourLeaves =>
          \A i \in DOMAIN source : WarpOf(i) \notin running => PairGood(At(i, T), pairs[i].j)

LEMMA PositionType ==
    ASSUME CloudsOK
    PROVE  \A i \in DOMAIN source : At(i, T) \in Int \X Int /\ At(i, pose) \in Int \X Int
<1>1. ASSUME NEW i \in DOMAIN source PROVE source[i] \in Int \X Int
  BY <1>1, SourceLen DEF CloudsOK
<1>2. QED
  BY <1>1 DEF At, Moved, CloudsOK

LEMMA NearInit == Init => NearInv
  BY DEF Init, NearInv

LEMMA NearRest ==
    ASSUME NearInv, phase' \notin {"linearize", "linearized"}, nn' = nn,
           phase' \in {"outer", "linearized", "evaluate", "evaluated"} /\ Nothing' => pairs' = <<>>
    PROVE  NearInv'
  BY DEF NearInv

LEMMA NearResting ==
    ASSUME NearInv, CloudsOK, SumInv,
           NewClouds \/ NnSearch \/ StartAlign \/ TryPose \/ SumErrors \/ AcceptPose \/ Return
    PROVE  NearInv'
<1>1. phase' \notin {"linearize", "linearized"} /\ nn' = nn
  BY DEF NewClouds, NnSearch, StartAlign, TryPose, SumErrors, AcceptPose, Return
<1>2. CASE NewClouds \/ NnSearch \/ Return
  <2>1. phase' \notin {"outer", "linearized", "evaluate", "evaluated"}
    BY <1>2 DEF NewClouds, NnSearch, Return
  <2>2. QED
    BY <1>1, <2>1, NearRest
<1>3. CASE StartAlign
  <2>1. pairs' = <<>>
    BY <1>3 DEF StartAlign
  <2>2. QED
    BY <1>1, <2>1, NearRest
<1>4. CASE TryPose \/ SumErrors \/ AcceptPose
  <2>1. /\ phase \in {"linearized", "evaluated", "evaluate"}
        /\ source' = source /\ target' = target /\ pairs' = pairs
    BY <1>4 DEF TryPose, SumErrors, AcceptPose
  <2>2. Nothing' = Nothing
    BY <2>1 DEF Nothing, N
  <2>3. QED
    BY <1>1, <2>1, <2>2, NearRest DEF NearInv
<1>5. QED
  BY <1>2, <1>3, <1>4

LEMMA NearLinearize ==
    ASSUME NearInv, CloudsOK, SumInv, Linearize
    PROVE  NearInv'
<1>1. /\ phase' = "linearize" /\ T' = pose /\ N > 0 /\ target # <<>> /\ Launch
      /\ UNCHANGED <<engine, nn, target, source>>
      /\ nn_hits' = IF engine = "gicp" /\ nn \in {"Voxel3", "Voxel5"}
                    THEN [i \in DOMAIN source |-> BatchSearch(At(i, pose))]
                    ELSE Resized(nn_hits, DOMAIN source, NoHit)
  BY DEF Linearize
<1>2. IsTarget(target) /\ IsCloud(source) /\ nn \in {"Voxel3", "Voxel5", "ExactBF"}
  BY MenuAssumption DEF CloudsOK, NearInv
<1>3. ASSUME engine = "gicp", nn # "ExactBF", max_dist_sq <= FourLeaves, NEW i \in DOMAIN source
      PROVE  Found(At(i, T), nn_hits[i])'
  <2>1. Found(At(i, pose), BatchSearch(At(i, pose)))
    BY <1>2, <1>3, BatchFound, PositionType
  <2>2. nn_hits'[i] = BatchSearch(At(i, pose))
    BY <1>1, <1>2, <1>3
  <2>3. At(i, T)' = At(i, pose)
    BY <1>1 DEF At
  <2>4. QED
    BY <1>1, <2>1, <2>2, <2>3 DEF Found, IsHit, Dist
<1>4. \A i \in DOMAIN source' : WarpOf(i) \in running'
  BY <1>1, <1>2, LaunchSizes, EveryThread
<1>5. QED
  BY <1>1, <1>3, <1>4 DEF NearInv

LEMMA NearWarp ==
    ASSUME NearInv, CloudsOK, SumInv, NEW w \in running, LinearizeWarp(w)
    PROVE  NearInv'
<1> DEFINE pair == [i \in ThreadsOf(w) |->
                      IF PairOf(i) = None THEN RejectedEntry(cache[i])
                      ELSE [j |-> PairOf(i), at |-> T]]
<1>1. /\ phase = "linearize" /\ phase' = phase
      /\ UNCHANGED <<engine, nn, target, source, T, nn_hits>>
      /\ running' = running \ {w}
      /\ pairs' = [i \in DOMAIN pairs |-> IF i \in ThreadsOf(w) THEN pair[i] ELSE pairs[i]]
  BY DEF LinearizeWarp
<1>2. /\ IsTarget(target) /\ IsCloud(source) /\ target # <<>> /\ N > 0
      /\ DOMAIN pairs = DOMAIN source /\ DOMAIN cache = DOMAIN source /\ EntriesOK
  BY <1>1 DEF CloudsOK, SumInv, Linearizing, Warps, PerPoint
<1>3. ASSUME NEW i \in DOMAIN source PROVE At(i, T)' = At(i, T) /\ At(i, T) \in Int \X Int
  BY <1>1, PositionType DEF At
<1>4. ASSUME engine = "gicp", max_dist_sq <= FourLeaves, NEW i \in DOMAIN source,
             WarpOf(i) \notin running'
      PROVE  PairGood(At(i, T), pairs'[i].j)
  <2>1. CASE WarpOf(i) # w
    <3>1. WarpOf(i) \notin running
      BY <1>1, <1>4, <2>1
    <3>2. i \notin ThreadsOf(w)
      BY <2>1 DEF ThreadsOf, WarpOf
    <3>3. pairs'[i] = pairs[i]
      BY <1>1, <1>2, <3>2
    <3>4. PairGood(At(i, T), pairs[i].j)
      BY <1>1, <1>2, <1>4, <3>1 DEF NearInv, Nothing
    <3>5. QED
      BY <3>3, <3>4
  <2>2. CASE WarpOf(i) = w
    <3> DEFINE hit == IF nn = "ExactBF" THEN ExactSearch(At(i, T)) ELSE nn_hits[i]
    <3>1. Found(At(i, T), hit)
      <4>1. CASE nn = "ExactBF"
        BY <1>2, <1>3, <4>1, ExactFound
      <4>2. CASE nn # "ExactBF"
        BY <1>1, <1>4, <4>2 DEF NearInv
      <4>3. QED
        BY <4>1, <4>2
    <3>2. PairOf(i) = Rejected(hit)
      BY <1>4 DEF PairOf, Rejected
    <3> HIDE DEF hit
    <3>3. i \in ThreadsOf(w)
      BY <2>2 DEF ThreadsOf, WarpOf
    <3>4. pair[i].j = PairOf(i)
      <4>1. CASE PairOf(i) = None
        <5>1. pair[i] = [cache[i] EXCEPT !.j = None]
          BY <3>3, <4>1 DEF RejectedEntry
        <5>2. IsEntry(cache[i])
          BY <1>2 DEF EntriesOK
        <5>3. QED
          BY <4>1, <5>1, <5>2 DEF IsEntry
      <4>2. CASE PairOf(i) # None
        <5>1. pair[i] = [j |-> PairOf(i), at |-> T]
          BY <3>3, <4>2
        <5>2. QED
          BY <5>1
      <4>3. QED
        BY <4>1, <4>2
    <3> HIDE DEF pair
    <3>5. pairs'[i] = pair[i]
      BY <1>1, <1>2, <3>3
    <3>6. QED
      BY <1>2, <1>3, <3>1, <3>2, <3>4, <3>5, PairOfFound
  <2>3. QED
    BY <2>1, <2>2
<1>5. QED
  <2>1. engine = "gicp" /\ max_dist_sq <= FourLeaves =>
           \A i \in DOMAIN source' : WarpOf(i) \notin running' => PairGood(At(i, T), pairs[i].j)'
    BY <1>1, <1>3, <1>4 DEF PairGood, Dist
  <2>2. engine = "gicp" /\ nn # "ExactBF" /\ max_dist_sq <= FourLeaves =>
           \A i \in DOMAIN source' : Found(At(i, T), nn_hits[i])'
    BY <1>1, <1>3 DEF NearInv, Found, IsHit, Dist
  <2>3. QED
    BY <1>1, <2>1, <2>2 DEF NearInv

LEMMA NearNext == NearInv /\ CloudsOK /\ SumInv /\ [Next]_vars => NearInv'
<1> SUFFICES ASSUME NearInv, CloudsOK, SumInv, [Next]_vars PROVE NearInv'
  OBVIOUS
<1>1. CASE NewClouds \/ NnSearch \/ StartAlign \/ TryPose \/ SumErrors \/ AcceptPose \/ Return
  BY <1>1, NearResting
<1>2. CASE LinearizeNothing
  <2>1. /\ phase = "outer" /\ phase' = "linearized" /\ Nothing
        /\ UNCHANGED <<nn, source, target, pairs>>
    BY <1>2 DEF LinearizeNothing, Nothing
  <2>2. Nothing' = Nothing
    BY <2>1 DEF Nothing, N
  <2>3. QED
    BY <2>1, <2>2 DEF NearInv
<1>3. CASE Linearize
  BY <1>3, NearLinearize
<1>4. CASE \E w \in running : LinearizeWarp(w)
  BY <1>4, NearWarp
<1>5. CASE SumLinearized
  <2>1. /\ phase = "linearize" /\ phase' = "linearized"
        /\ UNCHANGED <<engine, nn, source, target, T, running, pairs>>
    BY <1>5 DEF SumLinearized
  <2>2. ~Nothing
    BY <2>1 DEF SumInv, Linearizing, Warps, CloudsOK, Nothing, N, IsCloud
  <2>3. Nothing' = Nothing
    BY <2>1 DEF Nothing, N
  <2>4. \A q, j : PairGood(q, j)' = PairGood(q, j)
    BY <2>1 DEF PairGood, Dist
  <2>5. QED
    BY <2>1, <2>2, <2>3, <2>4 DEF NearInv, At
<1>6. CASE \E w \in running : ErrorWarp(w)
  <2>1. /\ phase = "evaluate" /\ phase' = "evaluate"
        /\ UNCHANGED <<nn, source, target, pairs>>
    BY <1>6 DEF ErrorWarp
  <2>2. Nothing' = Nothing
    BY <2>1 DEF Nothing, N
  <2>3. QED
    BY <2>1, <2>2, NearRest DEF NearInv
<1>7. CASE \E w \in running : ErrorFails(w)
  <2>1. phase' = "failed" /\ nn' = nn
    BY <1>7 DEF ErrorFails
  <2>2. QED
    BY <2>1, NearRest
<1>8. CASE UNCHANGED vars
  <2>1. UNCHANGED <<phase, engine, nn, source, target, T, running, pairs, nn_hits>>
    BY <1>8 DEF vars
  <2>2. Nothing' = Nothing
    BY <2>1 DEF Nothing, N
  <2>3. \A q, j : PairGood(q, j)' = PairGood(q, j) /\ Found(q, j)' = Found(q, j)
    BY <2>1 DEF PairGood, Found, IsHit, Dist
  <2>4. QED
    BY <2>1, <2>2, <2>3 DEF NearInv, At
<1>9. QED
  BY <1>1, <1>2, <1>3, <1>4, <1>5, <1>6, <1>7, <1>8 DEF Next

LEMMA NearInvNearest == NearInv /\ CloudsOK /\ SumInv => PairsNearest
<1> SUFFICES ASSUME NearInv, CloudsOK, SumInv,
                    phase = "linearized", engine = "gicp", pairs # <<>>, max_dist_sq <= FourLeaves,
                    NEW i \in DOMAIN source
             PROVE  IF pairs[i].j # None
                    THEN SqDist(At(i, T), target[pairs[i].j]) = Nearest(At(i, T))
                    ELSE voxel_key(At(i, T)) = INVALID_KEY \/ Nearest(At(i, T)) >= max_dist_sq
  BY DEF PairsNearest
<1> DEFINE q == At(i, T)
<1>1. IsTarget(target) /\ target # <<>> /\ running = {} /\ q \in Int \X Int
  BY PositionType DEF NearInv, Nothing, CloudsOK, SumInv, Warps
<1>2. PairGood(q, pairs[i].j)
  BY <1>1 DEF NearInv, Nothing
<1> HIDE DEF q
<1>3. \A k \in DOMAIN target : Dist(q, k) = SqDist(q, target[k]) /\ Dist(q, k) \in Nat
  BY <1>1, TargetType DEF Dist
<1>4. PICK k \in DOMAIN target : Nearest(q) = Dist(q, k)
  BY <1>1, NearestIs
<1>5. \A j \in DOMAIN target : Nearest(q) <= Dist(q, j)
  BY <1>1, NearestIs
<1>6. CASE pairs[i].j # None
  <2>1. pairs[i].j \in DOMAIN target /\ Dist(q, pairs[i].j) <= Dist(q, k)
    BY <1>2, <1>6 DEF PairGood
  <2>2. Dist(q, pairs[i].j) = Nearest(q)
    BY <1>3, <1>4, <1>5, <2>1
  <2>3. QED
    BY <1>3, <1>6, <2>1, <2>2 DEF q
<1>7. CASE pairs[i].j = None
  <2>1. voxel_key(q) = INVALID_KEY \/ Dist(q, k) >= max_dist_sq
    BY <1>2, <1>7 DEF PairGood
  <2>2. QED
    BY <1>4, <1>7, <2>1 DEF q
<1>8. QED
  BY <1>6, <1>7

-----------------------------------------------------------------------------
\* The inductive invariant: the buffers, the cache and the pairs of every
\* alignment belong to its clouds, and what its warps have done so far is a part
\* of the sum and of the pairs.
THEOREM LinearizerInvariant == Spec => [](CloudsOK /\ SumInv /\ NearInv)
<1>1. Init => CloudsOK /\ SumInv /\ NearInv
  BY CloudsInit, SumInit, NearInit
<1>2. CloudsOK /\ SumInv /\ NearInv /\ [Next]_vars => (CloudsOK /\ SumInv /\ NearInv)'
  BY CloudsNext, SumNext, NearNext
<1>3. QED
  BY <1>1, <1>2, PTL DEF Spec

\* Every sum that linearize_and_reduce and eval_error_cached download adds each
\* paired source point exactly once, with the pair, pose and weight of this
\* alignment, for any clouds, warps, blocks and order of the warps, and whatever
\* the buffers held before.
THEOREM SumsFreshHolds == Spec => []SumsFresh
<1>1. CloudsOK /\ SumInv /\ NearInv => SumsFresh
  BY SumInvFresh
<1>2. QED
  BY <1>1, LinearizerInvariant, PTL

\* The batch search of GICP pairs each source point with its nearest target
\* point for any leaf size, target and rejection distance up to four leaves:
\* neither the ring that is left out when the window has a hit nor the voxels
\* pruned by their gap can hold a nearer point.
THEOREM PairsNearestHolds == Spec => []PairsNearest
<1>1. CloudsOK /\ SumInv /\ NearInv => PairsNearest
  BY NearInvNearest
<1>2. QED
  BY <1>1, LinearizerInvariant, PTL

-----------------------------------------------------------------------------
(* The search of one thread.                                               *)
-----------------------------------------------------------------------------
\* A loop of n steps with its state in A, step t being f[t], has a course.
Steps(n, A, f) == \A t \in 1 .. n : \A x \in A : f[t][x] \in A
Runs(s, n, A, base, f) == s \in [0 .. n -> A] /\ s[0] = base /\ \A t \in 1 .. n : s[t] = f[t][s[t - 1]]
LEMMA LoopRuns ==
    ASSUME NEW n \in Nat, NEW A, NEW base \in A, NEW f, Steps(n, A, f)
    PROVE  \E s : Runs(s, n, A, base, f)
<1> DEFINE Upto(s, m) == s \in [0 .. m -> A] /\ s[0] = base /\ \A t \in 1 .. m : s[t] = f[t][s[t - 1]]
           Bad == {m \in Nat : m <= n /\ ~ \E s : Upto(s, m)}
<1>1. Bad = {}
  <2> SUFFICES ASSUME Bad # {} PROVE FALSE
    OBVIOUS
  <2>1. PICK m \in Bad : \A l \in Bad : m <= l
    BY LeastNat
  <2>2. m \in Nat /\ m <= n /\ ~ \E s : Upto(s, m)
    OBVIOUS
  <2>3. CASE m = 0
    <3> DEFINE s == [t \in 0 .. 0 |-> base]
    <3>1. Upto(s, 0)
      OBVIOUS
    <3>2. QED
      BY <2>2, <2>3, <3>1
  <2>4. CASE m # 0
    <3>1. m - 1 \in Nat /\ m - 1 <= n /\ m - 1 \notin Bad
      BY <2>1, <2>2, <2>4
    <3>2. PICK s : Upto(s, m - 1)
      BY <3>1
    <3> DEFINE u == [t \in 0 .. m |-> IF t = m THEN f[m][s[m - 1]] ELSE s[t]]
    <3>3. m \in 1 .. n /\ m - 1 \in 0 .. m - 1
      BY <2>2, <2>4
    <3>4. f[m][s[m - 1]] \in A
      BY <3>2, <3>3 DEF Steps
    <3>5. u \in [0 .. m -> A] /\ u[0] = base
      BY <2>2, <2>4, <3>2, <3>4
    <3>6. ASSUME NEW t \in 1 .. m PROVE u[t] = f[t][u[t - 1]]
      <4>1. t - 1 \in 0 .. m - 1 /\ t - 1 # m /\ t - 1 \in 0 .. m /\ t \in 0 .. m
        BY <2>2
      <4>2. u[t - 1] = s[t - 1]
        BY <4>1
      <4>3. CASE t = m
        BY <4>1, <4>2, <4>3
      <4>4. CASE t # m
        <5>1. t \in 1 .. m - 1
          BY <2>2, <4>4
        <5>2. QED
          BY <3>2, <4>1, <4>2, <4>4, <5>1
      <4>5. QED
        BY <4>3, <4>4
    <3> HIDE DEF u
    <3>7. QED
      BY <2>2, <3>5, <3>6
  <2>5. QED
    BY <2>3, <2>4
<1>2. \E s : Upto(s, n)
  BY <1>1
<1>3. QED
  BY <1>2 DEF Runs

Keep(best, h) == IF Better(h, best) THEN h ELSE best
Window(q, r) ==
    CHOOSE w : w = [t \in 0 .. CubeSize(r) |->
        IF t = 0 THEN NoHit ELSE Keep(w[t - 1], HitAt(q, NthOffset(t, r)))]
Inside(q, r) == Window(q, r)[CubeSize(r)]
Pruned(q, best, o) == IF best.j # None THEN GapSq(q, o) >= best.d2 ELSE -1 >= 0 /\ GapSq(q, o) >= -1
Visit(q, r, best, o) ==
    IF ShellOf(o) > r /\ HitAt(q, o).j # None
    THEN IF Pruned(q, best, o) THEN best ELSE Keep(best, HitAt(q, o))
    ELSE best
Expansion(q, r) ==
    CHOOSE e : e = [t \in 0 .. CubeSize(4) |->
        IF t = 0 THEN Inside(q, r) ELSE Visit(q, r, e[t - 1], NthOffset(t, 4))]
Range3(s) == IF s = "Voxel3" THEN 1 ELSE 2

LEMMA QueryIs ==
    ASSUME NEW q, NEW s
    PROVE  nn_query(q, s, -1) =
             IF s = "ExactBF" THEN ExactSearch(q)
             ELSE IF voxel_key(q) = INVALID_KEY THEN [NoHit EXCEPT !.d2 = 0]
             ELSE IF Inside(q, Range3(s)).j = None \/ Inside(q, Range3(s)).d2 > expand_d2
             THEN Expansion(q, Range3(s))[CubeSize(4)]
             ELSE Inside(q, Range3(s))
BY DEF nn_query, Inside, Window, Expansion, Visit, Pruned, Keep, Range3

\* The loops go over the whole cube.
LEMMA CubeCovered ==
    ASSUME NEW r \in Nat
    PROVE  /\ CubeSize(r) \in Nat
           /\ \A o \in Cube(r) : \E t \in 1 .. CubeSize(r) : NthOffset(t, r) = o
<1> DEFINE k == 2 * r + 1
<1>1. k \in Nat \ {0} /\ k * k \in Nat /\ CubeSize(r) = k * k
  BY DEF CubeSize
<1>2. ASSUME NEW o \in Cube(r) PROVE \E t \in 1 .. CubeSize(r) : NthOffset(t, r) = o
  <2>1. o[1] \in -r .. r /\ o[2] \in -r .. r /\ o = <<o[1], o[2]>>
    BY DEF Cube
  <2> DEFINE x == o[1] + r
             y == o[2] + r
             t == k * x + y + 1
  <2>2. x \in 0 .. k - 1 /\ y \in 0 .. k - 1 /\ o[1] = x - r /\ o[2] = y - r
    BY <2>1
  <2> HIDE DEF x, y, k
  <2>3. k * x \in Nat /\ k * x + k <= k * k
    <3>1. k * x + k = k * (x + 1) /\ k * (x + 1) <= k * k /\ k * x \in Nat
      <4>1. k * x + k = k * (x + 1) /\ k * x \in Nat
        BY <1>1, <2>2
      <4>2. x < k - 1 => k * (k - 1) >= k * x + k
        BY <1>1, <2>2, Apart
      <4>3. k * (k - 1) = k * k - k
        BY <1>1
      <4>4. QED
        BY <1>1, <2>2, <4>1, <4>2, <4>3
    <3>2. QED
      BY <3>1
  <2>4. t \in 1 .. k * k /\ t - 1 = y + k * x
    BY <1>1, <2>2, <2>3
  <2>5. (t - 1) % k = y /\ (t - 1) \div k = x
    <3> DEFINE z == t - 1
    <3>1. z \in Int /\ x \in Int /\ y \in 0 .. k - 1 /\ z = y + k * x
      BY <1>1, <2>2, <2>4
    <3> HIDE DEF z, t
    <3>2. z % k = y /\ z \div k = x
      BY <1>1, <3>1, Digits
    <3>3. QED
      BY <3>2 DEF z
  <2>6. NthOffset(t, r) = <<((t - 1) \div k) - r, ((t - 1) % k) - r>>
    BY DEF NthOffset, k
  <2> HIDE DEF t
  <2>7. NthOffset(t, r) = o
    BY <2>1, <2>2, <2>5, <2>6
  <2>8. QED
    BY <1>1, <2>4, <2>7
<1>3. QED
  BY <1>1, <1>2

\* Keeping the better of two hits.
Closer(a, b) == b.j # None => a.j # None /\ a.d2 <= b.d2
LEMMA KeepIs ==
    ASSUME IsTarget(target), NEW q \in Int \X Int, NEW best, NEW h, IsHit(q, best), IsHit(q, h)
    PROVE  /\ IsHit(q, Keep(best, h)) /\ Keep(best, h) \in {best, h}
           /\ Closer(Keep(best, h), best) /\ Closer(Keep(best, h), h)
<1>1. \A g : IsHit(q, g) /\ g.j # None => g.d2 \in Nat
  BY TargetType DEF IsHit
<1>2. best.j # None => best.d2 \in Nat
  BY <1>1
<1>3. h.j # None => h.d2 \in Nat
  BY <1>1
<1>4. QED
  BY <1>2, <1>3 DEF Keep, Better, Closer

LEMMA CloserAll ==
    ASSUME IsTarget(target), NEW q \in Int \X Int, NEW a, NEW b, NEW c,
           IsHit(q, a), IsHit(q, b), IsHit(q, c), Closer(a, b), Closer(b, c)
    PROVE  Closer(a, c)
<1>1. \A g : IsHit(q, g) /\ g.j # None => g.d2 \in Nat
  BY TargetType DEF IsHit
<1>2. (a.j # None => a.d2 \in Nat) /\ (b.j # None => b.d2 \in Nat) /\ (c.j # None => c.d2 \in Nat)
  BY <1>1
<1>3. QED
  BY <1>2 DEF Closer

\* The window keeps a nearest point of the voxels next to the query.
LEMMA WindowFinds ==
    ASSUME IsTarget(target), NEW q \in Int \X Int, voxel_key(q) # INVALID_KEY, NEW r \in Nat
    PROVE  /\ IsHit(q, Inside(q, r))
           /\ \A o \in Cube(r) : Closer(Inside(q, r), HitAt(q, o))
<1> DEFINE n == CubeSize(r)
           H(t) == HitAt(q, NthOffset(t, r))
           A == {NoHit} \cup {H(t) : t \in 1 .. n}
           f == [t \in 1 .. n |-> [x \in A |-> Keep(x, H(t))]]
           Course(w) == w = [t \in 0 .. n |-> IF t = 0 THEN NoHit ELSE Keep(w[t - 1], H(t))]
<1>1. n \in Nat
  BY CubeCovered
<1>2. \A t \in 1 .. n : \A x \in A : f[t][x] \in A /\ f[t][x] = Keep(x, H(t))
  BY DEF Keep
<1>3. NoHit \in A
  OBVIOUS
<1>4. \E w : Course(w) /\ w \in [0 .. n -> A]
  <2> HIDE DEF f, A, n, H
  <2>a. Steps(n, A, f)
    BY <1>2 DEF Steps
  <2>b. PICK w : Runs(w, n, A, NoHit, f)
    BY <1>1, <1>3, <2>a, LoopRuns
  <2>1. w \in [0 .. n -> A] /\ w[0] = NoHit /\ \A t \in 1 .. n : w[t] = f[t][w[t - 1]]
    BY <2>b DEF Runs
  <2>2. ASSUME NEW t \in 0 .. n PROVE w[t] = IF t = 0 THEN NoHit ELSE Keep(w[t - 1], H(t))
    <3>1. CASE t = 0
      BY <2>1, <3>1
    <3>2. CASE t # 0
      <4>1. t \in 1 .. n /\ t - 1 \in 0 .. n
        BY <1>1, <3>2
      <4>2. w[t - 1] \in A /\ w[t] = f[t][w[t - 1]]
        BY <2>1, <4>1
      <4>3. QED
        BY <1>2, <3>2, <4>1, <4>2
    <3>3. QED
      BY <3>1, <3>2
  <2>3. w = [t \in 0 .. n |-> IF t = 0 THEN NoHit ELSE Keep(w[t - 1], H(t))]
    BY <2>1, <2>2
  <2>4. QED
    BY <2>1, <2>3
<1> DEFINE w == Window(q, r)
<1>5. Course(w)
  <2>1. w = CHOOSE u : Course(u)
    BY DEF Window
  <2> HIDE DEF w, Course
  <2>2. QED
    BY <1>4, <2>1
<1>6. /\ w[0] = NoHit
      /\ \A t \in 1 .. n : w[t] = Keep(w[t - 1], H(t))
  <2> HIDE DEF w, n
  <2>1. QED
    BY <1>1, <1>5
<1>7. \A t \in 1 .. n : IsHit(q, H(t))
  BY HitIs
<1>8. IsHit(q, NoHit)
  BY DEF IsHit, NoHit
<1> DEFINE Good(t) == IsHit(q, w[t]) /\ \A u \in 1 .. t : Closer(w[t], H(u))
           Bad == {t \in Nat : t <= n /\ ~Good(t)}
<1> HIDE DEF w, n, H
<1>9. Bad = {}
  <2> SUFFICES ASSUME Bad # {} PROVE FALSE
    OBVIOUS
  <2>1. PICK m \in Bad : \A l \in Bad : m <= l
    BY LeastNat
  <2>2. m \in Nat /\ m <= n /\ ~Good(m)
    OBVIOUS
  <2>3. m # 0
    BY <1>6, <1>8, <2>2
  <2>4. m - 1 \in Nat /\ m - 1 <= n /\ Good(m - 1) /\ m \in 1 .. n
    BY <1>1, <2>1, <2>2, <2>3
  <2>5. w[m] = Keep(w[m - 1], H(m)) /\ IsHit(q, H(m)) /\ IsHit(q, w[m - 1])
    BY <1>6, <1>7, <2>4
  <2>6. IsHit(q, w[m]) /\ Closer(w[m], w[m - 1]) /\ Closer(w[m], H(m))
    BY <2>5, KeepIs
  <2>7. ASSUME NEW u \in 1 .. m PROVE Closer(w[m], H(u))
    <3>1. CASE u = m
      BY <2>6, <3>1
    <3>2. CASE u # m
      <4>1. u \in 1 .. m - 1 /\ u \in 1 .. n
        BY <1>1, <2>2, <3>2
      <4>2. Closer(w[m - 1], H(u)) /\ IsHit(q, H(u))
        BY <1>7, <2>4, <4>1
      <4>3. QED
        BY <2>5, <2>6, <4>2, CloserAll
    <3>3. QED
      BY <3>1, <3>2
  <2>8. QED
    BY <2>2, <2>6, <2>7
<1>10. Good(n)
  BY <1>1, <1>9
<1>11. ASSUME NEW o \in Cube(r) PROVE Closer(w[n], HitAt(q, o))
  <2>1. PICK t \in 1 .. n : NthOffset(t, r) = o
    BY CubeCovered DEF n
  <2>2. QED
    BY <1>10, <2>1 DEF H
<1>12. w[n] = Inside(q, r)
  BY DEF Inside, w, n
<1>13. QED
  BY <1>10, <1>11, <1>12

\* What is skipped in the wider cube is searched already or no closer.
HitOf(q, j) == [d2 |-> Dist(q, j), j |-> j]
LEMMA VisitIs ==
    ASSUME IsTarget(target), NEW q \in Int \X Int, voxel_key(q) # INVALID_KEY, NEW r \in Nat,
           NEW best, IsHit(q, best), NEW o
    PROVE  LET v == Visit(q, r, best, o) IN
           /\ IsHit(q, v) /\ Closer(v, best) /\ v \in {best, HitAt(q, o)}
           /\ \A j \in DOMAIN target :
                 Offset(q, target[j]) = o /\ ~(ShellOf(o) <= r) => Closer(v, HitOf(q, j))
<1> DEFINE v == Visit(q, r, best, o)
           kept == Keep(best, HitAt(q, o))
<1>1. IsHit(q, HitAt(q, o))
  BY HitIs
<1>2. /\ IsHit(q, kept) /\ kept \in {best, HitAt(q, o)}
      /\ Closer(kept, best) /\ Closer(kept, HitAt(q, o))
  BY <1>1, KeepIs
<1>3. best.j # None => best.d2 \in Nat
  BY TargetType DEF IsHit
<1>4. Closer(best, best)
  BY <1>3 DEF Closer
<1>5. v = IF ShellOf(o) > r /\ HitAt(q, o).j # None
          THEN IF Pruned(q, best, o) THEN best ELSE kept
          ELSE best
  BY DEF Visit
<1>6. ASSUME NEW j \in DOMAIN target, Offset(q, target[j]) = o, ~(ShellOf(o) <= r)
      PROVE  Closer(v, HitOf(q, j))
  <2>a. HitAt(q, o) = HitOf(q, j)
    BY <1>6, HitIs DEF HitOf
  <2>b. HitAt(q, o).j # None
    BY <2>a, TargetType DEF HitOf, None
  <2>c. ShellOf(o) > r
    <3>1. target[j] \in Int \X Int
      BY TargetType
    <3>2. o \in Int \X Int
      BY <1>6, <3>1, OffsetType
    <3>3. ShellOf(o) \in Int
      BY <3>2 DEF ShellOf, Abs
    <3>4. QED
      BY <1>6, <3>3
  <2>1. CASE Pruned(q, best, o)
    <3>1. best.j # None /\ GapSq(q, o) >= best.d2
      BY <2>1 DEF Pruned
    <3>2. target[j] \in Int \X Int
      BY TargetType
    <3>3. GapSq(q, o) \in Nat /\ GapSq(q, o) <= Dist(q, j) /\ Dist(q, j) \in Nat
      BY <1>6, <3>2, GapSqBelow, DistType DEF Dist
    <3>4. best.d2 <= Dist(q, j)
      BY <1>3, <3>1, <3>3
    <3>5. v = best
      BY <1>5, <2>1
    <3>6. QED
      BY <3>1, <3>4, <3>5 DEF Closer, HitOf
  <2>2. CASE ~Pruned(q, best, o)
    <3>1. v = kept
      BY <1>5, <2>b, <2>c, <2>2
    <3>2. QED
      BY <1>2, <2>a, <3>1
  <2>3. QED
    BY <2>1, <2>2
<1> HIDE DEF kept, v
<1>7. IsHit(q, v) /\ Closer(v, best) /\ v \in {best, HitAt(q, o)}
  BY <1>2, <1>4, <1>5
<1>8. QED
  BY <1>6, <1>7 DEF v

LEMMA ExpansionFinds ==
    ASSUME IsTarget(target), NEW q \in Int \X Int, voxel_key(q) # INVALID_KEY, NEW r \in Nat
    PROVE  LET e == Expansion(q, r)[CubeSize(4)] IN
           /\ IsHit(q, e) /\ Closer(e, Inside(q, r))
           /\ \A j \in DOMAIN target :
                 LET o == Offset(q, target[j]) IN
                 o \in Cube(4) /\ ~(ShellOf(o) <= r) => Closer(e, HitOf(q, j))
<1> DEFINE n == CubeSize(4)
           base == Inside(q, r)
           O(t) == NthOffset(t, 4)
           A == {base} \cup {HitAt(q, O(t)) : t \in 1 .. n}
           f == [t \in 1 .. n |-> [x \in A |-> Visit(q, r, x, O(t))]]
           Course(w) == w = [t \in 0 .. n |-> IF t = 0 THEN base ELSE Visit(q, r, w[t - 1], O(t))]
<1>1. n \in Nat
  BY CubeCovered
<1>2. \A t \in 1 .. n : \A x \in A : f[t][x] \in A /\ f[t][x] = Visit(q, r, x, O(t))
  <2>1. ASSUME NEW t \in 1 .. n, NEW x \in A PROVE Visit(q, r, x, O(t)) \in A
    <3>1. Visit(q, r, x, O(t)) \in {x, HitAt(q, O(t))}
      BY DEF Visit, Keep
    <3>2. QED
      BY <3>1
  <2>2. QED
    BY <2>1
<1>3. base \in A
  OBVIOUS
<1>4. \E w : Course(w)
  <2> HIDE DEF f, A, n, O, base
  <2>1. Steps(n, A, f)
    BY <1>2 DEF Steps
  <2>2. PICK w : Runs(w, n, A, base, f)
    BY <1>1, <1>3, <2>1, LoopRuns
  <2>3. w \in [0 .. n -> A] /\ w[0] = base /\ \A t \in 1 .. n : w[t] = f[t][w[t - 1]]
    BY <2>2 DEF Runs
  <2>4. ASSUME NEW t \in 0 .. n PROVE w[t] = IF t = 0 THEN base ELSE Visit(q, r, w[t - 1], O(t))
    <3>1. CASE t = 0
      BY <2>3, <3>1
    <3>2. CASE t # 0
      <4>1. t \in 1 .. n /\ t - 1 \in 0 .. n
        BY <1>1, <3>2
      <4>2. w[t - 1] \in A /\ w[t] = f[t][w[t - 1]]
        BY <2>3, <4>1
      <4>3. QED
        BY <1>2, <3>2, <4>1, <4>2
    <3>3. QED
      BY <3>1, <3>2
  <2>5. w = [t \in 0 .. n |-> IF t = 0 THEN base ELSE Visit(q, r, w[t - 1], O(t))]
    BY <2>3, <2>4
  <2>6. QED
    BY <2>5
<1> DEFINE w == Expansion(q, r)
<1>5. Course(w)
  <2>1. w = CHOOSE u : Course(u)
    BY DEF Expansion
  <2> HIDE DEF w, Course
  <2>2. QED
    BY <1>4, <2>1
<1>6. w[0] = base /\ \A t \in 1 .. n : w[t] = Visit(q, r, w[t - 1], O(t))
  <2> HIDE DEF w, n, base
  <2>1. QED
    BY <1>1, <1>5
<1>7. IsHit(q, base)
  BY WindowFinds
<1> DEFINE Good(t) ==
               /\ IsHit(q, w[t]) /\ Closer(w[t], base)
               /\ \A u \in 1 .. t, j \in DOMAIN target :
                     Offset(q, target[j]) = O(u) /\ ~(ShellOf(O(u)) <= r) => Closer(w[t], HitOf(q, j))
           Bad == {t \in Nat : t <= n /\ ~Good(t)}
<1>8. Closer(base, base)
  <2> HIDE DEF base
  <2>1. base.j # None => base.d2 \in Nat
    BY <1>7, TargetType DEF IsHit
  <2>2. QED
    BY <2>1 DEF Closer
<1>9. \A j \in DOMAIN target : IsHit(q, HitOf(q, j))
  BY DEF IsHit, HitOf
<1> HIDE DEF w, n, O, base
<1>10. Bad = {}
  <2> SUFFICES ASSUME Bad # {} PROVE FALSE
    OBVIOUS
  <2>1. PICK m \in Bad : \A l \in Bad : m <= l
    BY LeastNat
  <2>2. m \in Nat /\ m <= n /\ ~Good(m)
    OBVIOUS
  <2>3. m # 0
    BY <1>6, <1>7, <1>8, <2>2
  <2>4. m - 1 \in Nat /\ m - 1 <= n /\ Good(m - 1) /\ m \in 1 .. n
    BY <1>1, <2>1, <2>2, <2>3
  <2>5. w[m] = Visit(q, r, w[m - 1], O(m)) /\ IsHit(q, w[m - 1]) /\ Closer(w[m - 1], base)
    BY <1>6, <2>4
  <2>6. /\ IsHit(q, w[m]) /\ Closer(w[m], w[m - 1])
        /\ \A j \in DOMAIN target :
              Offset(q, target[j]) = O(m) /\ ~(ShellOf(O(m)) <= r) => Closer(w[m], HitOf(q, j))
    BY <2>5, VisitIs
  <2>7. Closer(w[m], base)
    BY <1>7, <2>5, <2>6, CloserAll
  <2>8. ASSUME NEW u \in 1 .. m, NEW j \in DOMAIN target,
               Offset(q, target[j]) = O(u), ~(ShellOf(O(u)) <= r)
        PROVE  Closer(w[m], HitOf(q, j))
    <3>1. CASE u = m
      BY <2>6, <2>8, <3>1
    <3>2. CASE u # m
      <4>1. u \in 1 .. m - 1
        BY <2>2, <3>2
      <4>2. Closer(w[m - 1], HitOf(q, j))
        BY <2>4, <2>8, <4>1
      <4>3. QED
        BY <1>9, <2>5, <2>6, <4>2, CloserAll
    <3>3. QED
      BY <3>1, <3>2
  <2>9. QED
    BY <2>2, <2>6, <2>7, <2>8
<1>11. Good(n)
  BY <1>1, <1>10
<1>12. ASSUME NEW j \in DOMAIN target, Offset(q, target[j]) \in Cube(4),
              ~(ShellOf(Offset(q, target[j])) <= r)
       PROVE  Closer(w[n], HitOf(q, j))
  <2>1. PICK t \in 1 .. n : NthOffset(t, 4) = Offset(q, target[j])
    BY <1>12, CubeCovered DEF n
  <2>2. QED
    BY <1>11, <1>12, <2>1 DEF O
<1>13. w[n] = Expansion(q, r)[CubeSize(4)] /\ base = Inside(q, r)
  BY DEF w, n, base
<1>14. QED
  BY <1>11, <1>12, <1>13

\* An exact search has it.
LEMMA ExactIsNearest ==
    ASSUME IsTarget(target), target # <<>>, NEW q \in Int \X Int
    PROVE  ExactSearch(q).d2 = Nearest(q)
<1> DEFINE hits == {[d2 |-> SqDist(q, target[j]), j |-> j] : j \in DOMAIN target}
           h == Nearer(hits, NoHit)
<1>1. \A g \in hits : IsHit(q, g)
  BY DEF IsHit, Dist
<1>2. IsHit(q, NoHit)
  BY DEF IsHit, NoHit
<1>3. PICK k \in DOMAIN target : Nearest(q) = Dist(q, k)
  BY NearestIs
<1>4. [d2 |-> SqDist(q, target[k]), j |-> k] \in hits /\ k # None
  BY TargetType
<1> HIDE DEF hits
<1>5. IsHit(q, h) /\ h.j # None /\ h.d2 <= SqDist(q, target[k])
  BY <1>1, <1>2, <1>4, NearerIs
<1>6. h.d2 \in Nat /\ Nearest(q) <= h.d2 /\ h.d2 <= Nearest(q) /\ Nearest(q) \in Nat
  BY <1>3, <1>5, NearestIs, TargetType DEF IsHit, Dist
<1>7. h = ExactSearch(q)
  BY DEF ExactSearch, hits
<1>8. QED
  BY <1>6, <1>7

\* What a search has to give at q.
NearEnough(q, s, h) ==
    \/ h.d2 = Nearest(q)
    \/ s = "Voxel3" /\ Nearest(q) > Sq(Res) /\ h.j # None /\ h.d2 <= expand_d2

LEMMA QueryFinds ==
    ASSUME IsTarget(target), target # <<>>, NEW q \in Int \X Int, voxel_key(q) # INVALID_KEY,
           NEW s \in {"Voxel3", "Voxel5", "ExactBF"}, Nearest(q) <= FourLeaves
    PROVE  NearEnough(q, s, nn_query(q, s, -1))
<1> DEFINE r == Range3(s)
           w == Inside(q, r)
           e == Expansion(q, r)[CubeSize(4)]
<1>1. CASE s = "ExactBF"
  BY <1>1, QueryIs, ExactIsNearest DEF NearEnough
<1>2. CASE s # "ExactBF"
  <2>1. r \in Nat /\ ((s = "Voxel3" /\ r = 1) \/ (s = "Voxel5" /\ r = 2))
    BY <1>2 DEF Range3
  <2>2. nn_query(q, s, -1) = IF w.j = None \/ w.d2 > expand_d2 THEN e ELSE w
    BY <1>2, QueryIs
  <2>3. PICK k \in DOMAIN target : Nearest(q) = Dist(q, k)
    BY NearestIs
  <2> DEFINE p == target[k]
             o == Offset(q, p)
  <2>4. p \in Int \X Int /\ k # None /\ Dist(q, k) = SqDist(q, p) /\ Dist(q, k) \in Nat
    BY TargetType DEF Dist
  <2>5. HitAt(q, o) = HitOf(q, k)
    BY HitIs DEF HitOf
  <2>6. /\ IsHit(q, w) /\ (o \in Cube(r) => Closer(w, HitOf(q, k)))
    BY <2>1, <2>5, WindowFinds
  <2>7. /\ IsHit(q, e) /\ Closer(e, w)
        /\ (o \in Cube(4) /\ ~(ShellOf(o) <= r) => Closer(e, HitOf(q, k)))
    BY <2>1, ExpansionFinds
  <2>8. o \in Cube(4)
    <3>1. SqDist(q, p) <= Sq(4 * Res) /\ Sq(4 * Res) \in Nat /\ SqDist(q, p) \in Nat
      <4>1. 4 * Res \in Int
        BY ResAssumption
      <4>2. QED
        BY <2>3, <2>4, <4>1, SqType DEF FourLeaves
    <3>2. QED
      BY <2>4, <3>1, OutsideFar
  <2>9. ShellOf(o) <= r => o \in Cube(r)
    <3>1. o \in Int \X Int
      BY <2>4, OffsetType
    <3>2. o[1] \in Int /\ o[2] \in Int /\ o = <<o[1], o[2]>>
      BY <3>1
    <3> HIDE DEF o
    <3>3. ShellOf(o) <= r => o[1] \in -r .. r /\ o[2] \in -r .. r
      <4> HIDE DEF r
      <4>1. r \in Nat
        BY <2>1
      <4>2. Abs(o[1]) <= ShellOf(o) /\ Abs(o[2]) <= ShellOf(o)
        BY <3>2 DEF ShellOf, Abs
      <4>3. ShellOf(o) \in Int
        BY <3>2 DEF ShellOf, Abs
      <4>4. ASSUME ShellOf(o) <= r PROVE Abs(o[1]) <= r /\ Abs(o[2]) <= r
        <5>1. Abs(o[1]) \in Int /\ Abs(o[2]) \in Int
          BY <3>2 DEF Abs
        <5>2. QED
          BY <4>1, <4>2, <4>3, <4>4, <5>1
      <4>5. QED
        BY <3>2, <4>1, <4>4 DEF Abs
    <3>4. QED
      BY <3>2, <3>3 DEF Cube
  <2>10. ASSUME NEW h, IsHit(q, h), Closer(h, HitOf(q, k)) PROVE h.d2 = Nearest(q)
    <3>1. h.j # None /\ h.d2 <= Dist(q, k)
      BY <2>4, <2>10 DEF Closer, HitOf
    <3>2. h.d2 \in Nat /\ Nearest(q) <= h.d2
      BY <2>10, <3>1, NearestIs, TargetType DEF IsHit
    <3>3. QED
      BY <2>3, <2>4, <3>1, <3>2
  <2>11. CASE o \in Cube(r)
    <3>1. w.d2 = Nearest(q) /\ w.j # None
      <4>1. Closer(w, HitOf(q, k))
        BY <2>6, <2>11
      <4>2. QED
        BY <2>4, <2>6, <2>10, <4>1 DEF Closer, HitOf
    <3>2. Closer(e, HitOf(q, k))
      <4>1. IsHit(q, HitOf(q, k))
        BY DEF IsHit, HitOf
      <4>2. QED
        BY <2>6, <2>7, <2>11, <4>1, CloserAll
    <3>3. e.d2 = Nearest(q)
      BY <2>7, <2>10, <3>2
    <3>4. QED
      BY <2>2, <3>1, <3>3 DEF NearEnough
  <2>12. CASE o \notin Cube(r)
    <3>1. e.d2 = Nearest(q)
      BY <2>7, <2>8, <2>9, <2>10, <2>12
    <3>2. Sq(r * Res) < Nearest(q)
      BY <2>1, <2>3, <2>4, <2>12, OutsideFar
    <3>3. CASE w.j = None \/ w.d2 > expand_d2
      BY <2>2, <3>1, <3>3 DEF NearEnough
    <3>4. CASE w.j # None /\ ~(w.d2 > expand_d2)
      <4>1. w.d2 \in Nat /\ Nearest(q) <= w.d2 /\ Nearest(q) \in Nat
        BY <2>6, <3>4, NearestIs, TargetType DEF IsHit
      <4>2. expand_d2 = Sq(2 * Res) /\ Sq(2 * Res) \in Nat
        <5>1. 2 * Res \in Int
          BY ResAssumption
        <5>2. QED
          BY <5>1, SqType DEF expand_d2
      <4>3. w.d2 <= expand_d2
        BY <3>4, <4>1, <4>2
      <4>4. r # 2
        BY <3>2, <4>1, <4>2, <4>3
      <4>5. s = "Voxel3" /\ Sq(Res) < Nearest(q)
        <5>1. s = "Voxel3" /\ r = 1
          BY <2>1, <4>4
        <5>2. 1 * Res = Res
          BY ResAssumption
        <5>3. QED
          BY <3>2, <5>1, <5>2
      <4>6. nn_query(q, s, -1) = w
        BY <2>2, <3>4
      <4>7. Nearest(q) > Sq(Res)
        <5>0. Res \in Int
          BY ResAssumption
        <5>1. Sq(Res) \in Nat
          BY <5>0, SqType
        <5>2. QED
          BY <4>1, <4>5, <5>1
      <4>8. QED
        BY <3>4, <4>3, <4>5, <4>6, <4>7 DEF NearEnough
    <3>5. QED
      BY <3>3, <3>4
  <2>13. QED
    BY <2>11, <2>12
<1>3. QED
  BY <1>1, <1>2

\* Between the search and the next call the result is that of these clouds.
LEMMA SearchNext == CloudsOK /\ NearInv /\ SearchNearest /\ [Next]_vars => SearchNearest'
<1> SUFFICES ASSUME CloudsOK, NearInv, SearchNearest, [Next]_vars, phase' = "searched",
                    NEW i \in DOMAIN source',
                    voxel_key(source[i])' # INVALID_KEY, Nearest(source[i])' <= FourLeaves
             PROVE  NearEnough(source[i], nn, out_hits[i])'
  BY DEF SearchNearest, NearEnough, FourLeaves
<1>1. CASE NnSearch
  <2>1. source' = source /\ target' = target /\ nn' = nn /\ target # <<>> /\ i \in DOMAIN source
    BY <1>1 DEF NnSearch
  <2>2. out_hits'[i] = nn_query(source[i], nn, -1)
    BY <1>1, <2>1 DEF NnSearch
  <2>3. source[i] \in Int \X Int /\ IsTarget(target)
    BY <2>1, SourceLen DEF CloudsOK
  <2>4. nn \in {"Voxel3", "Voxel5", "ExactBF"}
    BY MenuAssumption DEF NearInv
  <2>5. /\ voxel_key(source[i]) # INVALID_KEY /\ Nearest(source[i]) <= FourLeaves
        /\ Nearest(source[i])' = Nearest(source[i])
    BY <2>1 DEF Nearest
  <2>6. NearEnough(source[i], nn, nn_query(source[i], nn, -1))
    BY <2>1, <2>3, <2>4, <2>5, QueryFinds
  <2>7. QED
    BY <2>1, <2>2, <2>5, <2>6 DEF NearEnough
<1>2. CASE UNCHANGED vars
  <2>1. /\ source' = source /\ target' = target /\ nn' = nn /\ out_hits' = out_hits /\ phase = "searched"
        /\ i \in DOMAIN source
    BY <1>2 DEF vars
  <2>2. /\ voxel_key(source[i]) # INVALID_KEY /\ Nearest(source[i]) <= FourLeaves
        /\ Nearest(source[i])' = Nearest(source[i])
    BY <2>1 DEF Nearest
  <2>3. QED
    BY <2>1, <2>2 DEF SearchNearest, NearEnough
<1>3. ~NewClouds /\ ~StartAlign /\ ~LinearizeNothing /\ ~Linearize
  BY DEF NewClouds, StartAlign, LinearizeNothing, Linearize
<1>4. ~SumLinearized /\ ~TryPose /\ ~SumErrors /\ ~AcceptPose /\ ~Return
  BY DEF SumLinearized, TryPose, SumErrors, AcceptPose, Return
<1>5. ~ \E w \in running : LinearizeWarp(w) \/ ErrorWarp(w) \/ ErrorFails(w)
  BY DEF LinearizeWarp, ErrorWarp, ErrorFails
<1>6. QED
  BY <1>1, <1>2, <1>3, <1>4, <1>5 DEF Next

\* nn_search finds the nearest point within four leaves, with whatever strategy,
\* except that Voxel3 may settle for one within two leaves when the nearest is
\* more than a leaf away.
THEOREM SearchNearestHolds == Spec => []SearchNearest
<1>1. Init => SearchNearest
  BY DEF Init, SearchNearest
<1>2. QED
  BY <1>1, SearchNext, LinearizerInvariant, PTL DEF Spec
-----------------------------------------------------------------------------
(* Order.                                                                  *)
-----------------------------------------------------------------------------
\* A strict order of all elements of a set: what is below each of them.
IsOrder(R, S) ==
    /\ \A x \in S : R[x] \subseteq S
    /\ \A x \in S : x \notin R[x]
    /\ \A x, y \in S : x # y => x \in R[y] \/ y \in R[x]
    /\ \A x, y, z \in S : x \in R[y] /\ y \in R[z] => x \in R[z]

Rank(R, x) == Cardinality(R[x])

\* The elements of an ordered finite set are those of rank 0, 1, ...
LEMMA Ranks ==
    ASSUME NEW S, IsFiniteSet(S), NEW R, IsOrder(R, S)
    PROVE  /\ Cardinality(S) \in Nat
           /\ \A x \in S : Rank(R, x) \in 0 .. Cardinality(S) - 1
           /\ \A x, y \in S : x \in R[y] => Rank(R, x) < Rank(R, y)
           /\ \A x, y \in S : Rank(R, x) = Rank(R, y) => x = y
           /\ \A r \in 0 .. Cardinality(S) - 1 : \E x \in S : Rank(R, x) = r
<1> DEFINE n == Cardinality(S)
           f == [x \in S |-> Rank(R, x)]
<1>1. n \in Nat
  BY FS_CardinalityType
<1>2. ASSUME NEW x \in S PROVE IsFiniteSet(R[x]) /\ Rank(R, x) \in 0 .. n - 1
  <2>1. R[x] \subseteq S \ {x}
    BY DEF IsOrder
  <2>2. IsFiniteSet(S \ {x}) /\ Cardinality(S \ {x}) = n - 1
    BY FS_RemoveElement
  <2>3. IsFiniteSet(R[x]) /\ Rank(R, x) <= n - 1
    BY <2>1, <2>2, FS_Subset DEF Rank
  <2>4. Rank(R, x) \in Nat
    BY <2>3, FS_CardinalityType DEF Rank
  <2>5. QED
    BY <1>1, <2>3, <2>4
<1>3. ASSUME NEW x \in S, NEW y \in S, x \in R[y] PROVE Rank(R, x) < Rank(R, y)
  <2>1. R[x] \subseteq R[y]
    BY <1>3 DEF IsOrder
  <2>2. x \in R[y] /\ x \notin R[x]
    BY <1>3 DEF IsOrder
  <2>3. Rank(R, x) <= Rank(R, y) /\ Rank(R, x) # Rank(R, y)
    BY <1>2, <2>1, <2>2, FS_Subset DEF Rank
  <2>4. Rank(R, x) \in Int /\ Rank(R, y) \in Int
    BY <1>2
  <2>5. QED
    BY <2>3, <2>4
<1>4. ASSUME NEW x \in S, NEW y \in S, Rank(R, x) = Rank(R, y) PROVE x = y
  <2>1. Rank(R, x) \in Int
    BY <1>2
  <2>2. ~(x \in R[y]) /\ ~(y \in R[x])
    BY <1>3, <1>4, <2>1
  <2>3. QED
    BY <2>2 DEF IsOrder
<1>5. f \in Injection(S, 0 .. n - 1)
  <2>1. f \in [S -> 0 .. n - 1]
    BY <1>2
  <2>2. \A x, y \in S : f[x] = f[y] => x = y
    BY <1>4
  <2>3. QED
    BY <2>1, <2>2 DEF Injection, IsInjective
<1>6. IsFiniteSet(0 .. n - 1) /\ Cardinality(0 .. n - 1) = n
  BY <1>1, FS_Interval
<1>7. f \in Surjection(S, 0 .. n - 1)
  BY <1>5, <1>6, FS_Injection
<1>8. ASSUME NEW r \in 0 .. n - 1 PROVE \E x \in S : Rank(R, x) = r
  BY <1>7 DEF Surjection
<1>9. QED
  BY <1>1, <1>2, <1>3, <1>4, <1>8

\* Naturals are ordered.
Less(S) == [x \in S |-> {y \in S : y < x}]

LEMMA LessOrders ==
    ASSUME NEW S, S \subseteq Int
    PROVE  IsOrder(Less(S), S) /\ \A x \in S : Less(S)[x] = {y \in S : y < x}
<1>1. \A x \in S : Less(S)[x] = {y \in S : y < x}
  BY DEF Less
<1>2. \A x \in S : x \in Int
  OBVIOUS
<1>3. IsOrder(Less(S), S)
  BY <1>1, <1>2 DEF IsOrder
<1>4. QED
  BY <1>1, <1>3

-----------------------------------------------------------------------------
(* Sorting by key.                                                         *)
-----------------------------------------------------------------------------
\* A packed key is a valid one.
LEMMA KeyRange ==
    ASSUME NEW p \in Int \X Int
    PROVE  voxel_key(p) \in Int /\ (voxel_key(p) = INVALID_KEY \/ voxel_key(p) \in ValidKeys)
<1>1. Side \in Nat \ {0}
  BY SideType
<1>2. INVALID_KEY \in Int
  BY <1>1 DEF INVALID_KEY
<1>3. CASE voxel_key(p) = INVALID_KEY
  BY <1>2, <1>3
<1>4. CASE voxel_key(p) # INVALID_KEY
  <2> DEFINE u == Voxel(p)[1] + COORD_OFFSET
             v == Voxel(p)[2] + COORD_OFFSET
             x == u % Side
             y == v % Side
  <2>1. voxel_key(p) = x + Side * y
    BY <1>4, KeyParts DEF coord_key
  <2>2. u \in Int /\ v \in Int
    BY VoxelParts, SideType DEF Axes
  <2>3. x \in 0 .. Side - 1 /\ y \in 0 .. Side - 1
    <3> HIDE DEF u, v
    <3>1. QED
      BY <1>1, <2>2, DivMod
  <2> HIDE DEF x, y
  <2>4. Side * y >= 0 /\ Side * y \in Int
    BY <1>1, <2>3
  <2>5. Side * Side >= Side * y + Side
    <3>1. y \in Int /\ Side \in Int /\ y < Side
      BY <1>1, <2>3
    <3>2. QED
      BY <1>1, <3>1, Apart
  <2>6. Side * Side \in Int
    BY <1>1
  <2>7. QED
    BY <1>1, <2>1, <2>3, <2>4, <2>5, <2>6 DEF ValidKeys
<1>5. QED
  BY <1>3, <1>4

SortOrder == [i \in DOMAIN points |-> {j \in DOMAIN points : SortedBefore(j, i)}]

LEMMA SortingOrders ==
    ASSUME IsCloud(points)
    PROVE  /\ DOMAIN points = 1 .. Len(points) /\ Len(points) \in Nat
           /\ IsFiniteSet(DOMAIN points) /\ Cardinality(DOMAIN points) = Len(points)
           /\ \A i \in DOMAIN points : voxel_key(points[i]) \in Int
           /\ IsOrder(SortOrder, DOMAIN points)
           /\ \A i \in DOMAIN points :
                 SortOrder[i] = {j \in DOMAIN points : SortedBefore(j, i)}
<1>1. DOMAIN points = 1 .. Len(points) /\ Len(points) \in Nat
      /\ \A i \in DOMAIN points : points[i] \in Int \X Int
  BY DEF IsCloud
<1>2. IsFiniteSet(DOMAIN points) /\ Cardinality(DOMAIN points) = Len(points)
  <2> DEFINE m == Len(points)
  <2>1. m \in Nat /\ DOMAIN points = 1 .. m
    BY <1>1
  <2> HIDE DEF m
  <2>2. IsFiniteSet(1 .. m) /\ Cardinality(1 .. m) = m
    BY <2>1, FS_Interval
  <2>3. QED
    BY <2>1, <2>2 DEF m
<1>3. \A i \in DOMAIN points : voxel_key(points[i]) \in Int /\ i \in Int
  BY <1>1, KeyRange
<1>4. \A i \in DOMAIN points : SortOrder[i] = {j \in DOMAIN points : SortedBefore(j, i)}
  BY DEF SortOrder
<1>5. \A i, j, k \in DOMAIN points :
         /\ ~SortedBefore(i, i)
         /\ i # j => SortedBefore(i, j) \/ SortedBefore(j, i)
         /\ SortedBefore(i, j) /\ SortedBefore(j, k) => SortedBefore(i, k)
  BY <1>3 DEF SortedBefore
<1>6. IsOrder(SortOrder, DOMAIN points)
  BY <1>4, <1>5 DEF IsOrder
<1>7. QED
  BY <1>1, <1>2, <1>3, <1>4, <1>6

\* The sort returns every point once, in the order of the keys.
LEMMA SortedOnce ==
    ASSUME IsCloud(points)
    PROVE  /\ SortedValues \in [DOMAIN points -> DOMAIN points]
           /\ \A i \in DOMAIN points : \E r \in DOMAIN points : SortedValues[r] = i
           /\ \A r, s \in DOMAIN points : SortedValues[r] = SortedValues[s] => r = s
           /\ \A r, s \in DOMAIN points : r < s => SortedBefore(SortedValues[r], SortedValues[s])
<1> DEFINE D == DOMAIN points
           R == SortOrder
           n == Cardinality(D)
<1>1. /\ D = 1 .. n /\ n \in Nat /\ IsFiniteSet(D) /\ IsOrder(R, D)
      /\ \A i \in D : Rank(R, i) = Cardinality({j \in D : SortedBefore(j, i)})
  BY SortingOrders DEF Rank
<1>2. \A i, j \in D : i \in R[j] => SortedBefore(i, j)
  BY DEF SortOrder
<1>3. SortedValues = [r \in D |-> CHOOSE i \in D : Cardinality({j \in D : SortedBefore(j, i)}) + 1 = r]
  BY DEF SortedValues
<1> HIDE DEF D, R, n
<1>4. /\ \A i \in D : Rank(R, i) \in 0 .. n - 1
      /\ \A i, j \in D : i \in R[j] => Rank(R, i) < Rank(R, j)
      /\ \A i, j \in D : Rank(R, i) = Rank(R, j) => i = j
      /\ \A r \in 0 .. n - 1 : \E i \in D : Rank(R, i) = r
  BY <1>1, Ranks DEF n
<1>5. ASSUME NEW r \in D PROVE SortedValues[r] \in D /\ Rank(R, SortedValues[r]) + 1 = r
  <2>1. r - 1 \in 0 .. n - 1
    BY <1>1
  <2>2. PICK i \in D : Rank(R, i) = r - 1
    BY <1>4, <2>1
  <2>3. Cardinality({j \in D : SortedBefore(j, i)}) + 1 = r
    BY <1>1, <2>1, <2>2
  <2>4. SortedValues[r] = CHOOSE k \in D : Cardinality({j \in D : SortedBefore(j, k)}) + 1 = r
    BY <1>3
  <2>5. SortedValues[r] \in D /\ Cardinality({j \in D : SortedBefore(j, SortedValues[r])}) + 1 = r
    BY <2>3, <2>4
  <2>6. QED
    BY <1>1, <2>5
<1>6. SortedValues \in [D -> D]
  BY <1>3, <1>5
<1>7. ASSUME NEW i \in D PROVE \E r \in D : SortedValues[r] = i
  <2> DEFINE r == Rank(R, i) + 1
  <2>1. r \in D
    BY <1>1, <1>4
  <2>2. Rank(R, SortedValues[r]) + 1 = Rank(R, i) + 1 /\ SortedValues[r] \in D
    BY <1>5, <2>1
  <2>3. Rank(R, SortedValues[r]) \in Int /\ Rank(R, i) \in Int
    BY <1>4, <2>2
  <2>4. SortedValues[r] = i
    BY <1>4, <2>2, <2>3
  <2>5. QED
    BY <2>1, <2>4
<1>8. ASSUME NEW r \in D, NEW s \in D, SortedValues[r] = SortedValues[s] PROVE r = s
  BY <1>5, <1>8
<1>9. ASSUME NEW r \in D, NEW s \in D, r < s PROVE SortedBefore(SortedValues[r], SortedValues[s])
  <2> DEFINE i == SortedValues[r]
             j == SortedValues[s]
  <2>1. i \in D /\ j \in D /\ Rank(R, i) + 1 = r /\ Rank(R, j) + 1 = s
    BY <1>5
  <2>2. Rank(R, i) \in Int /\ Rank(R, j) \in Int
    BY <1>4, <2>1
  <2> HIDE DEF i, j
  <2>3. i # j /\ ~(j \in R[i])
    BY <1>4, <1>9, <2>1, <2>2
  <2>4. i \in R[j]
    BY <1>1, <2>1, <2>3 DEF IsOrder
  <2>5. QED
    BY <1>2, <2>1, <2>4 DEF i, j
<1>10. QED
  BY <1>6, <1>7, <1>8, <1>9 DEF D

-----------------------------------------------------------------------------
(* Runs of equal keys.                                                     *)
-----------------------------------------------------------------------------
Ascending(sorted, n) ==
    /\ n \in Nat /\ sorted \in [1 .. n -> Int]
    /\ \A r, s \in 1 .. n : r < s => sorted[r] <= sorted[s]

FlaggedOf(sorted) == {i \in DOMAIN sorted : NewRun(sorted, i)}

\* The first positions of the runs, numbered by the prefix sums.
LEMMA StartsOf ==
    ASSUME NEW n, NEW sorted, Ascending(sorted, n)
    PROVE  LET m == Cardinality(FlaggedOf(sorted)) IN
           /\ m \in Nat
           /\ Starts(sorted) \in [1 .. m -> FlaggedOf(sorted)]
           /\ \A i \in FlaggedOf(sorted) : \E b \in 1 .. m : Starts(sorted)[b] = i
           /\ \A b, c \in 1 .. m : b < c => Starts(sorted)[b] < Starts(sorted)[c]
<1> DEFINE F == FlaggedOf(sorted)
           m == Cardinality(F)
           R == Less(F)
           st == Starts(sorted)
<1>1. F \subseteq 1 .. n /\ n \in Nat
  BY DEF FlaggedOf, Ascending
<1>2. IsFiniteSet(F)
  BY <1>1, FS_Interval, FS_Subset
<1>3. F \subseteq Int /\ \A i \in F : i \in Int
  BY <1>1
<1>4. st = [b \in 1 .. m |-> CHOOSE i \in F : Cardinality({j \in F : j < i}) + 1 = b]
  BY DEF Starts, FlaggedOf
<1> HIDE DEF F, st
<1>5. /\ IsOrder(R, F)
      /\ \A i \in F : Rank(R, i) = Cardinality({j \in F : j < i})
  BY <1>3, LessOrders DEF Rank
<1>6. \A i, j \in F : i < j => i \in R[j]
  BY DEF Less
<1> HIDE DEF R
<1>7. /\ m \in Nat
      /\ \A i \in F : Rank(R, i) \in 0 .. m - 1
      /\ \A i, j \in F : i \in R[j] => Rank(R, i) < Rank(R, j)
      /\ \A i, j \in F : Rank(R, i) = Rank(R, j) => i = j
      /\ \A r \in 0 .. m - 1 : \E i \in F : Rank(R, i) = r
  BY <1>2, <1>5, Ranks
<1> HIDE DEF m
<1>8. ASSUME NEW b \in 1 .. m PROVE st[b] \in F /\ Rank(R, st[b]) + 1 = b
  <2>1. b - 1 \in 0 .. m - 1
    BY <1>7
  <2>2. PICK i \in F : Rank(R, i) = b - 1
    BY <1>7, <2>1
  <2>3. Cardinality({j \in F : j < i}) + 1 = b
    BY <1>5, <1>7, <2>1, <2>2
  <2>4. st[b] = CHOOSE k \in F : Cardinality({j \in F : j < k}) + 1 = b
    BY <1>4
  <2>5. st[b] \in F /\ Cardinality({j \in F : j < st[b]}) + 1 = b
    BY <2>3, <2>4
  <2>6. QED
    BY <1>5, <2>5
<1>9. st \in [1 .. m -> F]
  BY <1>4, <1>8
<1>10. ASSUME NEW i \in F PROVE \E b \in 1 .. m : st[b] = i
  <2> DEFINE b == Rank(R, i) + 1
  <2>1. b \in 1 .. m
    BY <1>7
  <2>2. Rank(R, st[b]) + 1 = Rank(R, i) + 1 /\ st[b] \in F
    BY <1>8, <2>1
  <2>3. Rank(R, st[b]) \in Int /\ Rank(R, i) \in Int
    BY <1>7, <2>2
  <2>4. QED
    BY <1>7, <2>1, <2>2, <2>3
<1>11. ASSUME NEW b \in 1 .. m, NEW c \in 1 .. m, b < c PROVE st[b] < st[c]
  <2> DEFINE i == st[b]
             j == st[c]
  <2>1. i \in F /\ j \in F /\ Rank(R, i) + 1 = b /\ Rank(R, j) + 1 = c
    BY <1>8
  <2> HIDE DEF i, j
  <2>2. Rank(R, i) \in Int /\ Rank(R, j) \in Int
    BY <1>7, <2>1
  <2>3. i \in Int /\ j \in Int
    BY <1>3, <2>1
  <2>4. Rank(R, i) < Rank(R, j)
    BY <1>11, <2>1, <2>2
  <2>5. i # j
    BY <2>2, <2>4
  <2>6. ~(j < i)
    <3>1. j < i => Rank(R, j) < Rank(R, i)
      BY <1>6, <1>7, <2>1
    <3>2. QED
      BY <2>2, <2>4, <3>1
  <2>7. i < j
    BY <2>3, <2>5, <2>6
  <2>8. QED
    BY <2>7 DEF i, j
<1>12. QED
  BY <1>7, <1>9, <1>10, <1>11 DEF F, m, st

\* One key per run, in order: every key but the invalid one once.
RunsListed(sorted, n) ==
    LET m == Cardinality(FlaggedOf(sorted)) IN
    /\ BucketKeys(sorted) \in [1 .. m -> Int] /\ m \in Nat
    /\ \A b \in 1 .. m : BucketKeys(sorted)[b] = sorted[Starts(sorted)[b]]
    /\ \A b, c \in 1 .. m : b < c => BucketKeys(sorted)[b] < BucketKeys(sorted)[c]
    /\ {BucketKeys(sorted)[b] : b \in 1 .. m} = {sorted[i] : i \in 1 .. n} \ {INVALID_KEY}

LEMMA KeysOfRuns ==
    ASSUME NEW n, NEW sorted, Ascending(sorted, n)
    PROVE  RunsListed(sorted, n)
<1> DEFINE F == FlaggedOf(sorted)
           m == Cardinality(F)
           st == Starts(sorted)
           ks == BucketKeys(sorted)
<1>1. /\ m \in Nat /\ st \in [1 .. m -> F]
      /\ \A i \in F : \E b \in 1 .. m : st[b] = i
      /\ \A b, c \in 1 .. m : b < c => st[b] < st[c]
  BY StartsOf
<1>2. n \in Nat /\ sorted \in [1 .. n -> Int] /\ \A r, s \in 1 .. n : r < s => sorted[r] <= sorted[s]
  BY DEF Ascending
<1>3. \A i : i \in F <=> i \in 1 .. n /\ sorted[i] # INVALID_KEY /\ (i = 1 \/ sorted[i - 1] # sorted[i])
  BY <1>2 DEF FlaggedOf, NewRun
<1>4. ks = [b \in 1 .. m |-> sorted[st[b]]]
  BY <1>1 DEF BucketKeys
<1> HIDE DEF F, m, st, ks
<1>5. ks \in [1 .. m -> Int]
  <2>1. \A b \in 1 .. m : st[b] \in 1 .. n
    BY <1>1, <1>3
  <2>2. \A b \in 1 .. m : sorted[st[b]] \in Int
    BY <1>2, <2>1
  <2>3. QED
    BY <1>4, <2>2
<1>6. ASSUME NEW b \in 1 .. m, NEW c \in 1 .. m, b < c PROVE ks[b] < ks[c]
  <2> DEFINE i == st[b]
             j == st[c]
  <2>1. i \in F /\ j \in F /\ i < j
    BY <1>1, <1>6
  <2>2. ks[b] = sorted[i] /\ ks[c] = sorted[j]
    BY <1>4
  <2> HIDE DEF i, j
  <2>3. i \in 1 .. n /\ j \in 1 .. n /\ j # 1
    BY <1>2, <1>3, <2>1
  <2>4. j - 1 \in 1 .. n /\ (i = j - 1 \/ i < j - 1)
    BY <1>2, <2>1, <2>3
  <2>5. sorted[i] \in Int /\ sorted[j - 1] \in Int /\ sorted[j] \in Int
    BY <1>2, <2>3, <2>4
  <2>6. sorted[i] <= sorted[j - 1]
    BY <1>2, <2>3, <2>4, <2>5
  <2>7. sorted[j - 1] <= sorted[j]
    <3>1. j - 1 < j
      BY <2>3
    <3>2. QED
      BY <1>2, <2>3, <2>4, <3>1
  <2>8. sorted[j - 1] # sorted[j]
    BY <1>3, <2>1, <2>3
  <2>9. QED
    BY <2>2, <2>5, <2>6, <2>7, <2>8
<1>7. ASSUME NEW b \in 1 .. m PROVE ks[b] \in {sorted[i] : i \in 1 .. n} \ {INVALID_KEY}
  BY <1>1, <1>3, <1>4
<1>8. ASSUME NEW i \in 1 .. n, sorted[i] # INVALID_KEY PROVE \E b \in 1 .. m : ks[b] = sorted[i]
  <2> DEFINE same == {r \in 1 .. n : sorted[r] = sorted[i]}
  <2>1. same \subseteq Nat /\ same # {}
    OBVIOUS
  <2>2. PICK r \in same : \A s \in same : r <= s
    BY <2>1, LeastNat
  <2>3. r \in 1 .. n /\ sorted[r] = sorted[i] /\ r - 1 \notin same
    BY <1>2, <2>2
  <2>4. r # 1 => sorted[r - 1] # sorted[r]
    BY <1>2, <2>3
  <2>5. r \in F
    BY <1>3, <1>8, <2>3, <2>4
  <2>6. QED
    BY <1>1, <1>4, <2>3, <2>5
<1>9. QED
  BY <1>1, <1>4, <1>5, <1>6, <1>7, <1>8 DEF m, F, st, ks, RunsListed

\* What a run of the Downsampler makes of the points there are.
LEMMA SortedKeysOf ==
    ASSUME IsCloud(points)
    PROVE  /\ Ascending(SortedKeys(SortedValues), Len(points))
           /\ \A r \in DOMAIN points : SortedKeys(SortedValues)[r] = voxel_key(points[SortedValues[r]])
           /\ {SortedKeys(SortedValues)[r] : r \in 1 .. Len(points)} = {voxel_key(points[i]) : i \in DOMAIN points}
<1> DEFINE vs == SortedValues
           n == Len(points)
           so == SortedKeys(vs)
<1>1. /\ DOMAIN points = 1 .. n /\ n \in Nat
      /\ \A i \in DOMAIN points : voxel_key(points[i]) \in Int
  BY SortingOrders
<1>2. /\ vs \in [1 .. n -> 1 .. n]
      /\ \A i \in 1 .. n : \E r \in 1 .. n : vs[r] = i
      /\ \A r, s \in 1 .. n : r < s => SortedBefore(vs[r], vs[s])
  BY <1>1, SortedOnce
<1> HIDE DEF vs, n
<1>3. so = [r \in 1 .. n |-> voxel_key(points[vs[r]])]
  BY <1>2 DEF SortedKeys
<1> HIDE DEF so
<1>4. so \in [1 .. n -> Int]
  BY <1>1, <1>2, <1>3
<1>5. ASSUME NEW r \in 1 .. n, NEW s \in 1 .. n, r < s PROVE so[r] <= so[s]
  <2>1. SortedBefore(vs[r], vs[s])
    BY <1>2, <1>5
  <2>2. so[r] = voxel_key(points[vs[r]]) /\ so[s] = voxel_key(points[vs[s]]) /\ so[r] \in Int /\ so[s] \in Int
    BY <1>3, <1>4
  <2>3. QED
    BY <2>1, <2>2 DEF SortedBefore
<1>6. Ascending(so, n)
  BY <1>1, <1>4, <1>5 DEF Ascending
<1>7. {so[r] : r \in 1 .. n} = {voxel_key(points[i]) : i \in 1 .. n}
  BY <1>2, <1>3
<1>8. QED
  BY <1>1, <1>3, <1>6, <1>7 DEF so, vs, n

LEMMA KeysOfRun ==
    ASSUME IsCloud(points)
    PROVE  LET ks == BucketKeys(SortedKeys(SortedValues)) IN
           /\ ks \in Seq(ValidKeys)
           /\ \A b, c \in DOMAIN ks : b < c => ks[b] < ks[c]
           /\ {ks[b] : b \in DOMAIN ks} = {voxel_key(points[i]) : i \in DOMAIN points} \ {INVALID_KEY}
<1> DEFINE so == SortedKeys(SortedValues)
           m == Cardinality(FlaggedOf(so))
           ks == BucketKeys(so)
           n == Len(points)
<1>1. Ascending(so, n) /\ {so[r] : r \in 1 .. n} = {voxel_key(points[i]) : i \in DOMAIN points}
  BY SortedKeysOf
<1> HIDE DEF so, n
<1>2. /\ ks \in [1 .. m -> Int] /\ m \in Nat
      /\ \A b, c \in 1 .. m : b < c => ks[b] < ks[c]
      /\ {ks[b] : b \in 1 .. m} = {so[i] : i \in 1 .. n} \ {INVALID_KEY}
  <2>1. RunsListed(so, n)
    BY <1>1, KeysOfRuns
  <2>2. QED
    BY <2>1 DEF RunsListed
<1>3. \A i \in DOMAIN points : voxel_key(points[i]) = INVALID_KEY \/ voxel_key(points[i]) \in ValidKeys
  <2>1. \A i \in DOMAIN points : points[i] \in Int \X Int
    BY DEF IsCloud
  <2>2. QED
    BY <2>1, KeyRange
<1> HIDE DEF ks, m
<1>4. \A b \in 1 .. m : ks[b] \in ValidKeys
  BY <1>1, <1>2, <1>3
<1>5. ks \in [1 .. m -> ValidKeys] /\ DOMAIN ks = 1 .. m
  BY <1>2, <1>4
<1>6. ks \in Seq(ValidKeys)
  BY <1>2, <1>5
<1>7. QED
  BY <1>1, <1>2, <1>5, <1>6 DEF ks, so

-----------------------------------------------------------------------------
(* Probe chains of the hash index.                                         *)
-----------------------------------------------------------------------------
Slots == [key : ValidKeys \cup {EMPTY}, value : Nat]
IsTable(t) == \E cap \in Nat \ {0} : t \in [0 .. cap - 1 -> Slots]
Cap(t) == Cardinality(DOMAIN t)
Occupied(t) == {pos \in DOMAIN t : t[pos].key # EMPTY}

\* A probe for a key arrives at pos without having met the key or a free slot.
Reaches(t, k, pos) ==
    \E d \in 0 .. Cap(t) - 1 :
        /\ pos = Probe(t, k, d)
        /\ \A e \in 0 .. d - 1 : t[Probe(t, k, e)].key \notin {k, EMPTY}

Chained(t) == \A pos \in Occupied(t) : Reaches(t, t[pos].key, pos)

LEMMA TableSize ==
    ASSUME NEW t, IsTable(t)
    PROVE  /\ Cap(t) \in Nat \ {0} /\ DOMAIN t = 0 .. Cap(t) - 1
           /\ \A pos \in DOMAIN t : t[pos].key \in ValidKeys \cup {EMPTY} /\ t[pos].value \in Nat
           /\ t \in [DOMAIN t -> Slots]
<1>1. PICK cap \in Nat \ {0} : t \in [0 .. cap - 1 -> Slots]
  BY DEF IsTable
<1>2. Cardinality(0 .. cap - 1) = cap
  BY <1>1, FS_Interval
<1>3. DOMAIN t = 0 .. cap - 1
  BY <1>1
<1>4. \A pos \in DOMAIN t : t[pos] \in Slots
  BY <1>1
<1>5. QED
  BY <1>1, <1>2, <1>3, <1>4 DEF Cap, Slots

\* The position after the one a probe has reached.
Follows(p, cap) == (p + 1) % cap

LEMMA Wraps ==
    ASSUME NEW cap \in Nat \ {0}, NEW p \in 0 .. cap - 1
    PROVE  Follows(p, cap) = IF p + 1 < cap THEN p + 1 ELSE 0
<1>1. CASE p + 1 < cap
  <2>1. p + 1 \in 0 .. cap - 1 /\ 0 \in Int /\ p + 1 = (p + 1) + cap * 0 /\ p + 1 \in Int
    BY <1>1
  <2> DEFINE x == p + 1
  <2>2. x \in Int /\ x \in 0 .. cap - 1 /\ x = x + cap * 0
    BY <2>1
  <2> HIDE DEF x
  <2>3. x % cap = x
    BY <2>2, Digits
  <2>4. QED
    BY <1>1, <2>3 DEF Follows, x
<1>2. CASE ~(p + 1 < cap)
  <2> DEFINE x == p + 1
  <2>1. x \in Int /\ 0 \in 0 .. cap - 1 /\ 1 \in Int /\ x = 0 + cap * 1
    BY <1>2
  <2> HIDE DEF x
  <2>2. x % cap = 0
    BY <2>1, Digits
  <2>3. QED
    BY <1>2, <2>2 DEF Follows, x
<1>3. QED
  BY <1>1, <1>2

\* The positions a probe visits: all of the table, from its home on and around
\* the end.
LEMMA Visits ==
    ASSUME NEW t, IsTable(t), NEW k \in ValidKeys
    PROVE  /\ \A d \in 0 .. Cap(t) - 1 : Probe(t, k, d) \in DOMAIN t
           /\ Probe(t, k, 0) = Hash[k] % Cap(t)
           /\ \A d \in 0 .. Cap(t) - 2 : Follows(Probe(t, k, d), Cap(t)) = Probe(t, k, d + 1)
           /\ Follows(Probe(t, k, Cap(t) - 1), Cap(t)) = Probe(t, k, 0)
           /\ \A pos \in DOMAIN t : \E d \in 0 .. Cap(t) - 1 : Probe(t, k, d) = pos
<1> DEFINE cap == Cap(t)
           h == Hash[k]
           r == h % cap
           y == h \div cap
           at(d) == Probe(t, k, d)
<1>1. cap \in Nat \ {0} /\ DOMAIN t = 0 .. cap - 1 /\ h \in Nat
  BY TableSize, HashAssumption
<1>2. \A d : at(d) = (h + d) % cap
  BY DEF Probe, Cap
<1> HIDE DEF cap, h, at
<1>3. r \in 0 .. cap - 1 /\ y \in Int /\ h = cap * y + r
  BY <1>1, DivMod
<1> HIDE DEF r, y
<1>4. ASSUME NEW d \in 0 .. cap - 1 PROVE at(d) = IF r + d < cap THEN r + d ELSE r + d - cap
  <2> DEFINE x == h + d
  <2>1. x \in Int /\ x = (r + d) + cap * y /\ at(d) = x % cap
    BY <1>1, <1>2, <1>3
  <2>2. CASE r + d < cap
    <3> DEFINE a == r + d
    <3>1. a \in 0 .. cap - 1 /\ x = a + cap * y
      BY <1>1, <1>3, <2>1, <2>2
    <3> HIDE DEF x, a
    <3>2. x % cap = a
      BY <1>1, <1>3, <2>1, <3>1, Digits
    <3>3. QED
      BY <2>1, <2>2, <3>2 DEF a
  <2>3. CASE ~(r + d < cap)
    <3> DEFINE a == r + d - cap
               z == y + 1
    <3>1. cap * (y + 1) = cap * y + cap /\ cap * y \in Int
      BY <1>1, <1>3
    <3>2. a \in 0 .. cap - 1 /\ z \in Int /\ x = a + cap * z
      BY <1>1, <1>3, <2>1, <2>3, <3>1
    <3> HIDE DEF x, a, z
    <3>3. x % cap = a
      BY <1>1, <2>1, <3>2, Digits
    <3>4. QED
      BY <2>1, <2>3, <3>3 DEF a
  <2>4. QED
    BY <2>2, <2>3
<1>5. \A d \in 0 .. cap - 1 : at(d) \in 0 .. cap - 1
  BY <1>1, <1>3, <1>4
<1>6. at(0) = r
  BY <1>1, <1>3, <1>4
<1>7. ASSUME NEW d \in 0 .. cap - 2 PROVE Follows(at(d), cap) = at(d + 1)
  <2> DEFINE u == at(d)
             v == at(d + 1)
  <2>1. d \in 0 .. cap - 1 /\ d + 1 \in 0 .. cap - 1
    BY <1>1
  <2>2. u \in 0 .. cap - 1 /\ u = IF r + d < cap THEN r + d ELSE r + d - cap
    BY <1>4, <1>5, <2>1
  <2>3. v = IF r + (d + 1) < cap THEN r + (d + 1) ELSE r + (d + 1) - cap
    BY <1>4, <2>1
  <2> HIDE DEF u, v
  <2>4. Follows(u, cap) = IF u + 1 < cap THEN u + 1 ELSE 0
    BY <1>1, <2>2, Wraps
  <2>5. Follows(u, cap) = v
    BY <1>1, <1>3, <2>1, <2>2, <2>3, <2>4
  <2>6. QED
    BY <2>5 DEF u, v
<1>8. Follows(at(cap - 1), cap) = at(0)
  <2> DEFINE u == at(cap - 1)
  <2>1. cap - 1 \in 0 .. cap - 1
    BY <1>1
  <2>2. u \in 0 .. cap - 1 /\ u = IF r + (cap - 1) < cap THEN r + (cap - 1) ELSE r + (cap - 1) - cap
    BY <1>4, <1>5, <2>1
  <2> HIDE DEF u
  <2>3. Follows(u, cap) = IF u + 1 < cap THEN u + 1 ELSE 0
    BY <1>1, <2>2, Wraps
  <2>4. Follows(u, cap) = r
    BY <1>1, <1>3, <2>2, <2>3
  <2>5. QED
    BY <1>6, <2>4 DEF u
<1>9. ASSUME NEW pos \in 0 .. cap - 1 PROVE \E d \in 0 .. cap - 1 : at(d) = pos
  <2>1. CASE pos >= r
    <3> DEFINE d == pos - r
    <3>1. d \in 0 .. cap - 1 /\ r + d = pos /\ pos < cap
      BY <1>1, <1>3, <2>1
    <3> HIDE DEF d
    <3>2. QED
      BY <1>4, <3>1
  <2>2. CASE pos < r
    <3> DEFINE d == pos - r + cap
    <3>1. d \in 0 .. cap - 1 /\ r + d - cap = pos /\ ~(r + d < cap)
      BY <1>1, <1>3, <2>2
    <3> HIDE DEF d
    <3>2. QED
      BY <1>4, <3>1
  <2>3. QED
    BY <1>1, <1>3, <2>1, <2>2
<1>10. QED
  BY <1>1, <1>5, <1>6, <1>7, <1>8, <1>9 DEF cap, h, at, r

LEMMA HomeReached ==
    ASSUME NEW t, IsTable(t), NEW k \in ValidKeys
    PROVE  Reaches(t, k, Hash[k] % Cap(t))
<1>1. 0 \in 0 .. Cap(t) - 1
  BY TableSize
<1>2. QED
  BY <1>1, Visits DEF Reaches

\* A probe that goes on has met neither its key nor a free slot; one that has
\* been all the way round starts afresh.
LEMMA NextReached ==
    ASSUME NEW t, IsTable(t), NEW k \in ValidKeys, NEW pos, Reaches(t, k, pos),
           t[pos].key \notin {k, EMPTY}
    PROVE  Reaches(t, k, Follows(pos, Cap(t)))
<1> DEFINE cap == Cap(t)
<1>1. PICK d \in 0 .. cap - 1 :
          /\ pos = Probe(t, k, d)
          /\ \A e \in 0 .. d - 1 : t[Probe(t, k, e)].key \notin {k, EMPTY}
  BY DEF Reaches
<1>2. cap \in Nat \ {0}
  BY TableSize
<1>3. CASE d = cap - 1
  BY <1>1, <1>3, Visits, HomeReached
<1>4. CASE d # cap - 1
  <2>1. d \in 0 .. cap - 2 /\ d + 1 \in 0 .. cap - 1
    BY <1>1, <1>2, <1>4
  <2>2. Follows(pos, cap) = Probe(t, k, d + 1)
    BY <1>1, <2>1, Visits
  <2>3. \A e \in 0 .. (d + 1) - 1 : e \in 0 .. d - 1 \/ e = d
    BY <2>1
  <2>4. \A e \in 0 .. (d + 1) - 1 : t[Probe(t, k, e)].key \notin {k, EMPTY}
    BY <1>1, <2>3
  <2>5. QED
    BY <2>1, <2>2, <2>4 DEF Reaches
<1>5. QED
  BY <1>3, <1>4

\* A table whose chains are whole has one slot per key.
LEMMA OneSlot ==
    ASSUME NEW t, IsTable(t), Chained(t), NEW p \in Occupied(t), NEW q \in Occupied(t), t[p].key = t[q].key
    PROVE  p = q
<1> DEFINE cap == Cap(t)
           k == t[p].key
<1>1. PICK d \in 0 .. cap - 1 :
          /\ p = Probe(t, k, d)
          /\ \A e \in 0 .. d - 1 : t[Probe(t, k, e)].key \notin {k, EMPTY}
  BY DEF Chained, Reaches
<1>2. PICK c \in 0 .. cap - 1 :
          /\ q = Probe(t, k, c)
          /\ \A e \in 0 .. c - 1 : t[Probe(t, k, e)].key \notin {k, EMPTY}
  BY DEF Chained, Reaches
<1>3. d \in Nat /\ c \in Nat
  <2>1. cap \in Nat
    BY TableSize
  <2>2. QED
    BY ONLY <2>1, d \in 0 .. cap - 1, c \in 0 .. cap - 1
<1>4. ~(d \in 0 .. c - 1) /\ ~(c \in 0 .. d - 1)
  BY <1>1, <1>2
<1>5. d = c
  BY ONLY <1>3, <1>4
<1>6. QED
  BY <1>1, <1>2, <1>5

WithKey(t, pos, k) == [t EXCEPT ![pos].key = k]

\* A key written where the probe for it met a free slot breaks no chain and
\* hides nothing from the threads that probe.
Written(t, pos, k) ==
    LET u == WithKey(t, pos, k) IN
    /\ IsTable(u) /\ DOMAIN u = DOMAIN t
    /\ \A c \in ValidKeys \ {k} : \A p : Reaches(t, c, p) => Reaches(u, c, p)
    /\ Chained(t) => Chained(u)
    /\ Occupied(u) = Occupied(t) \cup {pos}
    /\ u[pos].key = k
    /\ \A p \in Occupied(t) : p # pos /\ u[p] = t[p]
    /\ \A p \in DOMAIN t : p # pos => u[p] = t[p]

LEMMA ChainedWritten ==
    ASSUME NEW t, IsTable(t), NEW pos \in DOMAIN t, NEW k \in ValidKeys,
           t[pos].key = EMPTY, Reaches(t, k, pos)
    PROVE  Written(t, pos, k)
<1> DEFINE u == WithKey(t, pos, k)
           cap == Cap(t)
<1>1. /\ DOMAIN u = DOMAIN t
      /\ u[pos].key = k /\ u[pos].value = t[pos].value
      /\ \A p \in DOMAIN t : p # pos => u[p] = t[p]
  <2>1. t \in [DOMAIN t -> Slots]
    BY TableSize
  <2>2. QED
    BY <2>1 DEF Slots, WithKey
<1>2. IsTable(u)
  <2>1. PICK n \in Nat \ {0} : t \in [0 .. n - 1 -> Slots]
    BY DEF IsTable
  <2>2. u \in [0 .. n - 1 -> Slots]
    BY <2>1 DEF Slots, WithKey
  <2>3. QED
    BY <2>2 DEF IsTable
<1> HIDE DEF u
<1>3. \A c, d : Probe(u, c, d) = Probe(t, c, d) /\ Cap(u) = cap
  BY <1>1 DEF Probe, Cap
<1>4. EMPTY \notin ValidKeys
  BY HashAssumption
<1>5. ASSUME NEW c \in ValidKeys, NEW p, NEW d \in 0 .. cap - 1, p = Probe(t, c, d),
             \A e \in 0 .. d - 1 : t[Probe(t, c, e)].key \notin {c, EMPTY}
      PROVE  Reaches(u, c, p)
  <2>1. ASSUME NEW e \in 0 .. d - 1 PROVE u[Probe(t, c, e)].key \notin {c, EMPTY}
    <3> DEFINE x == Probe(t, c, e)
    <3>1. e \in 0 .. cap - 1
      BY <1>5, TableSize
    <3>2. x \in DOMAIN t
      BY <3>1, Visits
    <3>3. t[x].key \notin {c, EMPTY}
      BY <1>5
    <3> HIDE DEF x
    <3>4. x # pos
      BY <3>3
    <3>5. QED
      BY <1>1, <3>2, <3>3, <3>4 DEF x
  <2>2. QED
    BY <1>3, <1>5, <2>1 DEF Reaches
<1>6. ASSUME NEW c \in ValidKeys, NEW p, Reaches(t, c, p) PROVE Reaches(u, c, p)
  BY <1>5, <1>6 DEF Reaches
<1>7. Occupied(u) = Occupied(t) \cup {pos}
  BY <1>1, <1>4 DEF Occupied
<1>8. \A p \in Occupied(t) : p # pos /\ u[p] = t[p]
  BY <1>1 DEF Occupied
<1>9. ASSUME Chained(t) PROVE Chained(u)
  <2>1. ASSUME NEW p \in Occupied(u) PROVE Reaches(u, u[p].key, p)
    <3>1. CASE p = pos
      BY <1>1, <1>6, <3>1
    <3>2. CASE p # pos
      <4>1. p \in Occupied(t) /\ u[p] = t[p]
        BY <1>7, <1>8, <3>2
      <4>2. t[p].key \in ValidKeys /\ Reaches(t, t[p].key, p)
        BY <1>9, <4>1, TableSize DEF Occupied, Chained
      <4>3. QED
        BY <1>6, <4>1, <4>2
    <3>3. QED
      BY <3>1, <3>2
  <2>2. QED
    BY <2>1 DEF Chained
<1>10. QED
  BY <1>1, <1>2, <1>6, <1>7, <1>8, <1>9 DEF u, Written

-----------------------------------------------------------------------------
(* The size of the table.                                                  *)
-----------------------------------------------------------------------------
LEMMA PowerNext ==
    ASSUME NEW e \in Nat
    PROVE  2^e \in Nat \ {0} /\ 2^0 = 1 /\ 2^(e + 1) = 2 * 2^e
<1> DEFINE S == 1 .. e
           Up == 1 .. (e + 1)
           with == {A \cup {e + 1} : A \in SUBSET S}
           f == [A \in SUBSET S |-> A \cup {e + 1}]
<1>1. IsFiniteSet(S) /\ Cardinality(S) = e /\ IsFiniteSet(Up) /\ Cardinality(Up) = e + 1
  BY FS_Interval
<1>2. IsFiniteSet(SUBSET S) /\ Cardinality(SUBSET S) = 2^e /\ Cardinality(SUBSET Up) = 2^(e + 1)
  BY <1>1, FS_SUBSET
<1>3. f \in Bijection(SUBSET S, with)
  <2>1. ASSUME NEW A \in SUBSET S, NEW B \in SUBSET S, f[A] = f[B] PROVE A = B
    <3>1. e + 1 \notin A /\ e + 1 \notin B /\ A \cup {e + 1} = B \cup {e + 1}
      BY <2>1
    <3>2. QED
      BY <3>1
  <2>2. f \in [SUBSET S -> with] /\ \A w \in with : \E A \in SUBSET S : f[A] = w
    OBVIOUS
  <2>3. QED
    BY <2>1, <2>2 DEF Bijection, Injection, IsInjective, Surjection
<1>4. IsFiniteSet(with) /\ Cardinality(with) = Cardinality(SUBSET S)
  BY <1>2, <1>3, FS_Bijection DEF ExistsBijection
<1>5. (SUBSET S) \cap with = {}
  <2>1. e + 1 \notin S
    OBVIOUS
  <2>2. QED
    BY <2>1
<1>6. (SUBSET S) \cup with = SUBSET Up
  <2>1. Up = S \cup {e + 1} /\ e + 1 \notin S
    OBVIOUS
  <2>2. ASSUME NEW B \in SUBSET Up, B \notin SUBSET S PROVE B \in with
    <3>1. B \ {e + 1} \in SUBSET S /\ B = (B \ {e + 1}) \cup {e + 1}
      BY <2>1, <2>2
    <3>2. QED
      BY <3>1
  <2>3. QED
    BY <2>1, <2>2
<1>7. Cardinality(SUBSET Up) = 2^e + 2^e
  <2> DEFINE H == SUBSET S
             c == Cardinality(H)
  <2>1. IsFiniteSet(H) /\ H \cap with = {} /\ H \cup with = SUBSET Up /\ Cardinality(with) = c /\ c = 2^e
    BY <1>2, <1>4, <1>5, <1>6
  <2> HIDE DEF H, Up, with
  <2>2. Cardinality(H \cup with) = c + Cardinality(with) - Cardinality(H \cap with)
    BY <1>4, <2>1, FS_Union
  <2>3. Cardinality({}) = 0 /\ c \in Nat
    BY <2>1, FS_EmptySet, FS_CardinalityType
  <2> HIDE DEF c
  <2>a. Cardinality(SUBSET Up) = c + c - 0
    BY <2>1, <2>2, <2>3, Zenon
  <2>4. Cardinality(SUBSET Up) = c + c
    BY <2>3, <2>a
  <2>5. QED
    BY <2>1, <2>4
<1>8. 2^e \in Nat /\ 2^e # 0
  <2>1. Cardinality(SUBSET S) \in Nat
    BY <1>2, FS_CardinalityType
  <2>2. Cardinality(SUBSET S) # 0
    <3>1. {} \in SUBSET S
      OBVIOUS
    <3>2. SUBSET S # {}
      BY <3>1
    <3>3. QED
      BY <1>2, <3>2, FS_EmptySet
  <2>3. QED
    BY <1>2, <2>1, <2>2
<1>9. 2^0 = 1
  <2>1. IsFiniteSet({}) /\ Cardinality({}) = 0
    BY FS_EmptySet
  <2>2. SUBSET {} = {{}} /\ Cardinality({{}}) = 1
    BY FS_Singleton
  <2>3. QED
    BY <2>1, <2>2, FS_SUBSET
<1>10. QED
  BY <1>2, <1>7, <1>8, <1>9

Power(e) == 2^e

LEMMA Powers ==
    /\ \A e \in Nat : Power(e) \in Nat \ {0} /\ Power(e + 1) = 2 * Power(e)
    /\ Power(0) = 1
    /\ \A n \in Nat \ {0} : Power(n) >= 2 * n
<1>1. \A e \in Nat : Power(e) \in Nat \ {0} /\ Power(e + 1) = 2 * Power(e)
  BY PowerNext DEF Power
<1>2. Power(0) = 1
  <2>1. 0 \in Nat
    OBVIOUS
  <2>2. QED
    BY <2>1, PowerNext DEF Power
<1>3. ASSUME NEW n \in Nat \ {0}, ~(Power(n) >= 2 * n) PROVE FALSE
  <2> DEFINE C == {c \in Nat \ {0} : ~(Power(c) >= 2 * c)}
  <2>1. C \subseteq Nat /\ C # {}
    BY <1>3
  <2>2. PICK c \in C : \A x \in C : c <= x
    BY <2>1, LeastNat
  <2>3. c \in Nat \ {0} /\ ~(Power(c) >= 2 * c)
    OBVIOUS
  <2>4. CASE c = 1
    <3>1. 0 \in Nat /\ 0 + 1 = 1
      OBVIOUS
    <3>2. Power(1) = 2 * Power(0)
      BY <1>1, <3>1
    <3>3. QED
      BY <1>2, <2>3, <2>4, <3>2
  <2>5. CASE c # 1
    <3> DEFINE d == c - 1
    <3>1. d \in Nat \ {0} /\ d + 1 = c /\ ~(c <= d)
      BY <2>3, <2>5
    <3>2. Power(d) >= 2 * d
      <4>1. d \notin C
        BY <2>2, <3>1
      <4>2. QED
        BY <3>1, <4>1
    <3>3. Power(c) = 2 * Power(d) /\ Power(d) \in Nat
      BY <1>1, <3>1
    <3> HIDE DEF d
    <3>4. QED
      BY <2>3, <3>1, <3>2, <3>3
  <2>6. QED
    BY <2>4, <2>5
<1>4. QED
  BY <1>1, <1>2, <1>3

\* The table has at least two slots per key.
LEMMA CapacityType ==
    ASSUME NEW n \in Nat \ {0}
    PROVE  Capacity(n) \in Nat \ {0} /\ Capacity(n) >= 2 * n
<1> DEFINE M == MinCapacity
           large == {e \in Nat : M * Power(e) >= 2 * n}
           caps == {M * Power(e) : e \in 0 .. n}
<1>1. M \in Nat \ {0}
  BY CapacityAssumption
<1>2. \A e \in Nat : M * Power(e) \in Nat \ {0} /\ M * Power(e) >= Power(e)
  <2>1. ASSUME NEW e \in Nat PROVE M * Power(e) \in Nat \ {0} /\ M * Power(e) >= Power(e)
    <3> DEFINE p == Power(e)
    <3>1. p \in Nat \ {0}
      BY Powers
    <3> HIDE DEF p, M
    <3>2. M * p \in Nat \ {0} /\ M * p >= p
      BY <1>1, <3>1
    <3>3. QED
      BY <3>2 DEF p
  <2>2. QED
    BY <2>1
<1>3. n \in large
  <2>1. Power(n) >= 2 * n /\ M * Power(n) >= Power(n) /\ M * Power(n) \in Nat /\ Power(n) \in Nat
    BY <1>2, Powers
  <2>2. M * Power(n) >= 2 * n
    BY <2>1
  <2>3. QED
    BY <2>2
<1>4. PICK e \in large : \A x \in large : e <= x
  <2>1. large \subseteq Nat /\ large # {}
    BY <1>3
  <2>2. QED
    BY <2>1, LeastNat
<1>5. e \in 0 .. n /\ e \in Nat /\ M * Power(e) >= 2 * n
  <2>1. e <= n /\ e \in Nat
    BY <1>3, <1>4
  <2>2. QED
    BY <1>4, <2>1
<1>6. M * Power(e) = M \/ (M * Power(e)) \div 2 < 2 * n
  <2>1. CASE e = 0
    BY <1>1, <2>1, Powers
  <2>2. CASE e # 0
    <3> DEFINE d == e - 1
               y == M * Power(d)
    <3>1. d \in Nat /\ d + 1 = e /\ ~(e <= d)
      BY <1>5, <2>2
    <3>2. Power(e) = 2 * Power(d) /\ Power(d) \in Nat
      BY <3>1, Powers
    <3>3. d \notin large
      BY <1>4, <3>1
    <3>4. y < 2 * n /\ y \in Nat
      BY <1>2, <3>1, <3>3
    <3>5. M * Power(e) = 2 * y
      BY <1>1, <3>2
    <3> HIDE DEF y
    <3>6. (2 * y) \div 2 = y
      BY <3>4
    <3>7. QED
      BY <3>4, <3>5, <3>6
  <2>3. QED
    BY <2>1, <2>2
<1>7. Capacity(n) = CHOOSE cap \in caps : cap >= 2 * n /\ (cap = M \/ cap \div 2 < 2 * n)
  BY DEF Capacity, Power
<1>8. \E cap \in caps : cap >= 2 * n /\ (cap = M \/ cap \div 2 < 2 * n)
  BY <1>5, <1>6
<1>9. Capacity(n) \in caps /\ Capacity(n) >= 2 * n
  BY <1>7, <1>8
<1>10. QED
  BY <1>2, <1>9

-----------------------------------------------------------------------------
(* Looking a key up.                                                       *)
-----------------------------------------------------------------------------
LEMMA LeastOf ==
    ASSUME NEW S, S \subseteq Nat, S # {}
    PROVE  Min(S) \in S /\ \A x \in S : Min(S) <= x
<1>1. \E m \in S : \A x \in S : m <= x
  BY LeastNat
<1>2. QED
  BY <1>1 DEF Min

Stops(t, k) == {d \in 0 .. Cap(t) - 1 : t[Probe(t, k, d)].key \in {k, EMPTY}}

LEMMA LookupStops ==
    ASSUME NEW t, NEW k, IsTable(t), Stops(t, k) # {}
    PROVE  /\ Min(Stops(t, k)) \in Stops(t, k)
           /\ \A d \in Stops(t, k) : Min(Stops(t, k)) <= d
           /\ hash_lookup(t, k) = LET slot == t[Probe(t, k, Min(Stops(t, k)))]
                                  IN  IF slot.key = k THEN slot.value ELSE -1
<1>1. Stops(t, k) \subseteq Nat
  <2> DEFINE cap == Cap(t)
  <2>1. cap \in Nat
    BY TableSize
  <2>2. Stops(t, k) \subseteq 0 .. cap - 1
    BY DEF Stops
  <2> HIDE DEF cap
  <2>3. QED
    BY <2>1, <2>2
<1>2. hash_lookup(t, k) = IF Stops(t, k) = {} THEN NeverEnds
                          ELSE LET slot == t[Probe(t, k, Min(Stops(t, k)))]
                               IN  IF slot.key = k THEN slot.value ELSE -1
  BY DEF hash_lookup, Stops, Cap
<1>3. QED
  BY <1>1, <1>2, LeastOf

\* A key whose chain is whole is found where it is.
LEMMA LookupPresent ==
    ASSUME NEW t, IsTable(t), NEW p, NEW k \in ValidKeys, Reaches(t, k, p), t[p].key = k
    PROVE  hash_lookup(t, k) = t[p].value
<1> DEFINE cap == Cap(t)
           m == Min(Stops(t, k))
<1>1. PICK d \in 0 .. cap - 1 :
          /\ p = Probe(t, k, d)
          /\ \A e \in 0 .. d - 1 : t[Probe(t, k, e)].key \notin {k, EMPTY}
  BY DEF Reaches
<1>2. d \in Stops(t, k)
  BY <1>1 DEF Stops
<1>3. /\ m \in Stops(t, k) /\ m <= d
      /\ hash_lookup(t, k) = IF t[Probe(t, k, m)].key = k THEN t[Probe(t, k, m)].value ELSE -1
  BY <1>2, LookupStops
<1>4. m \notin 0 .. d - 1 /\ m \in 0 .. cap - 1
  BY <1>1, <1>3 DEF Stops
<1>5. m = d
  <2>1. cap \in Nat
    BY TableSize
  <2> HIDE DEF m, cap
  <2>2. QED
    BY <1>3, <1>4, <2>1
<1>6. QED
  BY <1>1, <1>3, <1>5

\* The search for a key that is not there ends at a free slot, if there is one.
LEMMA LookupAbsent ==
    ASSUME NEW t, IsTable(t), NEW k \in ValidKeys, Occupied(t) # DOMAIN t,
           \A p \in Occupied(t) : t[p].key # k
    PROVE  hash_lookup(t, k) = -1
<1> DEFINE cap == Cap(t)
           m == Min(Stops(t, k))
<1>1. PICK f \in DOMAIN t : t[f].key = EMPTY
  BY DEF Occupied
<1>2. PICK d \in 0 .. cap - 1 : Probe(t, k, d) = f
  BY Visits
<1>3. d \in Stops(t, k)
  BY <1>1, <1>2 DEF Stops
<1>4. /\ m \in Stops(t, k)
      /\ hash_lookup(t, k) = IF t[Probe(t, k, m)].key = k THEN t[Probe(t, k, m)].value ELSE -1
  BY <1>3, LookupStops
<1>5. m \in 0 .. cap - 1
  BY <1>4 DEF Stops
<1>6. Probe(t, k, m) \in DOMAIN t
  BY <1>5, Visits
<1>7. t[Probe(t, k, m)].key # k
  BY <1>6, HashAssumption DEF Occupied
<1>8. QED
  BY <1>4, <1>7

\* A table with fewer keys than slots has a free slot.
LEMMA FreeSlot ==
    ASSUME NEW t, IsTable(t), Chained(t), NEW n \in Nat, NEW ks \in [1 .. n -> ValidKeys], n < Cap(t),
           \A p \in Occupied(t) : \E b \in 1 .. n : t[p].key = ks[b]
    PROVE  Occupied(t) # DOMAIN t
<1> DEFINE f == [p \in Occupied(t) |-> CHOOSE b \in 1 .. n : t[p].key = ks[b]]
<1>1. \A p \in Occupied(t) : f[p] \in 1 .. n /\ t[p].key = ks[f[p]]
  OBVIOUS
<1>2. \A p, q \in Occupied(t) : f[p] = f[q] => p = q
  BY <1>1, OneSlot
<1>3. f \in Injection(Occupied(t), 1 .. n)
  BY <1>1, <1>2 DEF Injection, IsInjective
<1>4. IsFiniteSet(1 .. n) /\ Cardinality(1 .. n) = n
  BY FS_Interval
<1> HIDE DEF f
<1>5. Cardinality(Occupied(t)) <= n
  BY <1>3, <1>4, FS_Injection
<1>6. Cardinality(DOMAIN t) = Cap(t) /\ Cap(t) \in Nat
  BY TableSize DEF Cap
<1>7. QED
  BY <1>5, <1>6

WithValue(t, pos, i) == [t EXCEPT ![pos].value = i]

\* Storing a value leaves the keys and what probes reach as they are.
Stored(t, pos, i) ==
    LET u == WithValue(t, pos, i) IN
    /\ IsTable(u) /\ DOMAIN u = DOMAIN t
    /\ \A c \in ValidKeys : \A p : Reaches(t, c, p) => Reaches(u, c, p)
    /\ Chained(t) => Chained(u)
    /\ Occupied(u) = Occupied(t)
    /\ \A p \in DOMAIN t : u[p].key = t[p].key
    /\ u[pos].value = i
    /\ \A p \in DOMAIN t : p # pos => u[p] = t[p]

LEMMA ValueStored ==
    ASSUME NEW t, IsTable(t), NEW pos \in DOMAIN t, NEW i \in Nat
    PROVE  Stored(t, pos, i)
<1> DEFINE u == WithValue(t, pos, i)
<1>1. /\ DOMAIN u = DOMAIN t
      /\ \A p \in DOMAIN t : u[p].key = t[p].key
      /\ u[pos].value = i
      /\ \A p \in DOMAIN t : p # pos => u[p] = t[p]
  <2>1. t \in [DOMAIN t -> Slots]
    BY TableSize
  <2>2. QED
    BY <2>1 DEF Slots, WithValue
<1>2. IsTable(u)
  <2>1. PICK n \in Nat \ {0} : t \in [0 .. n - 1 -> Slots]
    BY DEF IsTable
  <2>2. u \in [0 .. n - 1 -> Slots]
    BY <2>1 DEF Slots, WithValue
  <2>3. QED
    BY <2>2 DEF IsTable
<1> HIDE DEF u
<1>3. \A c, d : Probe(u, c, d) = Probe(t, c, d) /\ Cap(u) = Cap(t)
  BY <1>1 DEF Probe, Cap
<1>4. Occupied(u) = Occupied(t)
  BY <1>1 DEF Occupied
<1>5. ASSUME NEW c \in ValidKeys, NEW p, Reaches(t, c, p) PROVE Reaches(u, c, p)
  <2>1. PICK d \in 0 .. Cap(t) - 1 :
          /\ p = Probe(t, c, d)
          /\ \A e \in 0 .. d - 1 : t[Probe(t, c, e)].key \notin {c, EMPTY}
    BY <1>5 DEF Reaches
  <2>2. ASSUME NEW e \in 0 .. d - 1 PROVE u[Probe(u, c, e)].key \notin {c, EMPTY}
    <3>1. e \in 0 .. Cap(t) - 1
      BY TableSize
    <3>2. Probe(t, c, e) \in DOMAIN t
      BY <3>1, Visits
    <3>3. QED
      BY <1>1, <1>3, <2>1, <3>2
  <2>3. QED
    BY <1>3, <2>1, <2>2 DEF Reaches
<1>6. Chained(t) => Chained(u)
  <2>1. ASSUME Chained(t), NEW p \in Occupied(u) PROVE Reaches(u, u[p].key, p)
    <3>1. p \in Occupied(t) /\ u[p].key = t[p].key
      BY <1>1, <1>4 DEF Occupied
    <3>2. t[p].key \in ValidKeys
      BY <3>1, TableSize DEF Occupied
    <3>3. QED
      BY <1>5, <2>1, <3>1, <3>2 DEF Chained
  <2>2. QED
    BY <2>1 DEF Chained
<1>7. QED
  BY <1>1, <1>2, <1>4, <1>5, <1>6 DEF u, Stored

-----------------------------------------------------------------------------
(* The index of a cloud.                                                   *)
-----------------------------------------------------------------------------
\* What a cloud is preprocessed from, and which threads there are.
Staged ==
    /\ stage \in {"raw", "insert", "ready"}
    /\ stage = "raw" => IsCloud(points)
    /\ stage # "insert" => DOMAIN thread = {}

IsKeyList(ks) == ks \in Seq(ValidKeys) /\ \A b, c \in DOMAIN ks : b < c => ks[b] < ks[c]

\* Every chain of the table is whole and of keys of the cloud, and the table is
\* larger than they are many.
Tabled ==
    /\ IsKeyList(keys)
    /\ IsTable(table) /\ Len(keys) < Cap(table)
    /\ Chained(table)
    /\ \A p \in Occupied(table) : \E b \in DOMAIN keys : table[p].key = keys[b]

\* A thread has its key in its slot, or has it nowhere yet and a probe for it
\* gets to where the thread is; a thread that is through has left both its key
\* and its index.
Threaded ==
    /\ DOMAIN thread \subseteq DOMAIN keys
    /\ thread \in [DOMAIN thread -> [pos : DOMAIN table, claimed : BOOLEAN]]
    /\ \A i \in DOMAIN thread :
          IF thread[i].claimed THEN table[thread[i].pos].key = keys[i]
          ELSE /\ Reaches(table, keys[i], thread[i].pos)
               /\ \A p \in DOMAIN table : table[p].key # keys[i]
    /\ \A i \in DOMAIN keys \ DOMAIN thread :
          \E p \in DOMAIN table : table[p].key = keys[i] /\ table[p].value = i

Indexing == stage = "insert" \/ (stage = "ready" /\ keys # <<>>) => Tabled /\ Threaded
IndexInv == Staged /\ Indexing

LEMMA KeyList ==
    ASSUME NEW ks, IsKeyList(ks)
    PROVE  /\ Len(ks) \in Nat /\ DOMAIN ks = 1 .. Len(ks) /\ ks \in [1 .. Len(ks) -> ValidKeys]
           /\ \A b, c \in DOMAIN ks : ks[b] = ks[c] => b = c
<1>1. Len(ks) \in Nat /\ DOMAIN ks = 1 .. Len(ks) /\ ks \in [1 .. Len(ks) -> ValidKeys]
  BY DEF IsKeyList
<1>2. \A b, c \in DOMAIN ks : b < c => ks[b] < ks[c]
  BY DEF IsKeyList
<1>3. ASSUME NEW b \in DOMAIN ks, NEW c \in DOMAIN ks, ks[b] = ks[c] PROVE b = c
  <2>1. b \in Int /\ c \in Int
    BY <1>1
  <2>2. ks[b] \in Int
    <3>1. ks[b] \in ValidKeys
      BY <1>1
    <3>2. ValidKeys \subseteq Int
      BY SideType DEF ValidKeys
    <3>3. QED
      BY <3>1, <3>2
  <2>3. ~(ks[b] < ks[c]) /\ ~(ks[c] < ks[b])
    BY <1>3, <2>2
  <2>4. QED
    BY <1>2, <2>1, <2>3
<1>4. QED
  BY <1>1, <1>3

\* The build clears the table and starts every thread at its home.
LEMMA RunIndexes ==
    ASSUME IndexInv, Run
    PROVE  IndexInv'
<1> DEFINE ks == BucketKeys(SortedKeys(SortedValues))
           n == Len(ks)
           cap == Capacity(n)
<1>1. /\ stage = "raw" /\ stage' = "insert"
      /\ ks # <<>> /\ keys' = ks
      /\ table' = FreeTable(cap)
      /\ thread' = [i \in 1 .. n |-> [pos |-> Hash[ks[i]] % cap, claimed |-> FALSE]]
  BY DEF Run, Build
<1>2. IsCloud(points)
  BY <1>1 DEF IndexInv, Staged
<1>3. IsKeyList(ks)
  BY <1>2, KeysOfRun DEF IsKeyList
<1> HIDE DEF ks
<1>4. n \in Nat \ {0} /\ DOMAIN ks = 1 .. n /\ ks \in [1 .. n -> ValidKeys]
  <2>1. n \in Nat /\ DOMAIN ks = 1 .. n /\ ks \in [1 .. n -> ValidKeys]
    BY <1>3, KeyList
  <2>2. ks \in Seq(ValidKeys)
    BY <1>3 DEF IsKeyList
  <2>3. n # 0
    BY <1>1, <2>2, EmptySeq
  <2>4. QED
    BY <2>1, <2>3
<1>5. cap \in Nat \ {0} /\ cap >= 2 * n
  BY <1>4, CapacityType
<1> HIDE DEF n, cap
<1>6. /\ IsTable(table') /\ DOMAIN table' = 0 .. cap - 1
      /\ \A p \in DOMAIN table' : table'[p].key = EMPTY
  <2>1. FreeTable(cap) \in [0 .. cap - 1 -> Slots]
    BY DEF FreeTable, Slots
  <2>2. QED
    BY <1>1, <1>5, <2>1 DEF FreeTable, IsTable
<1>7. Occupied(table') = {}
  BY <1>6 DEF Occupied
<1>8. Cap(table') = cap
  <2>1. Cardinality(0 .. cap - 1) = cap
    BY <1>5, FS_Interval
  <2>2. QED
    BY <1>6, <2>1 DEF Cap
<1>9. Tabled'
  <2>1. n < cap
    BY <1>4, <1>5
  <2>2. Chained(table')
    BY <1>7 DEF Chained
  <2>3. Len(keys') = n
    BY <1>1 DEF n
  <2>4. QED
    BY <1>1, <1>3, <1>6, <1>7, <1>8, <2>1, <2>2, <2>3 DEF Tabled
<1>10. Threaded'
  <2>1. DOMAIN thread' = 1 .. n /\ DOMAIN keys' = 1 .. n
    BY <1>1, <1>4
  <2>2. ASSUME NEW i \in 1 .. n
        PROVE  /\ thread'[i] \in [pos : DOMAIN table', claimed : BOOLEAN]
               /\ ~thread'[i].claimed
               /\ Reaches(table', ks[i], thread'[i].pos)
               /\ table'[thread'[i].pos].key = EMPTY
    <3>1. ks[i] \in ValidKeys
      BY <1>4
    <3>2. thread'[i] = [pos |-> Hash[ks[i]] % cap, claimed |-> FALSE]
      BY <1>1
    <3>3. Reaches(table', ks[i], Hash[ks[i]] % cap)
      BY <1>6, <1>8, <3>1, HomeReached
    <3>4. Hash[ks[i]] % cap \in DOMAIN table'
      <4> DEFINE h == Hash[ks[i]]
      <4>1. h \in Int
        BY <3>1, HashAssumption
      <4> HIDE DEF h
      <4>2. h % cap \in 0 .. cap - 1
        BY <1>5, <4>1, DivMod
      <4>3. QED
        BY <1>6, <4>2 DEF h
    <3>5. QED
      BY <1>6, <3>2, <3>3, <3>4
  <2>3. \A p \in DOMAIN table' : \A i \in 1 .. n : table'[p].key # ks[i]
    BY <1>4, <1>6, HashAssumption
  <2>4. thread' \in [DOMAIN thread' -> [pos : DOMAIN table', claimed : BOOLEAN]]
    BY <1>1, <2>1, <2>2
  <2>5. QED
    BY <1>1, <2>1, <2>2, <2>3, <2>4 DEF Threaded
<1>11. QED
  BY <1>1, <1>9, <1>10 DEF IndexInv, Staged, Indexing

IsThreads(th, D) == th \in [DOMAIN th -> [pos : D, claimed : BOOLEAN]]

Claiming(th, i) == [th EXCEPT ![i].claimed = TRUE]
Moving(th, i, next) == [th EXCEPT ![i].pos = next]

\* Thread i changes to e, the others stay.
Turned(th, u, D, i, e) ==
    /\ DOMAIN u = DOMAIN th /\ IsThreads(u, D)
    /\ u[i] = e
    /\ \A t \in DOMAIN th : t # i => u[t] = th[t]

LEMMA ThreadTurns ==
    ASSUME NEW th, NEW D, IsThreads(th, D), NEW i \in DOMAIN th, NEW next \in D
    PROVE  /\ Turned(th, Claiming(th, i), D, i, [pos |-> th[i].pos, claimed |-> TRUE])
           /\ Turned(th, Moving(th, i, next), D, i, [pos |-> next, claimed |-> th[i].claimed])
<1>1. Turned(th, Claiming(th, i), D, i, [pos |-> th[i].pos, claimed |-> TRUE])
  BY DEF IsThreads, Turned, Claiming
<1>2. Turned(th, Moving(th, i, next), D, i, [pos |-> next, claimed |-> th[i].claimed])
  BY DEF IsThreads, Turned, Moving
<1>3. QED
  BY <1>1, <1>2

\* A thread that finds its slot taken goes on; one that finds it free takes it.
LEMMA ClaimIndexes ==
    ASSUME IndexInv, NEW i \in DOMAIN thread, ClaimSlot(i)
    PROVE  IndexInv'
<1> DEFINE pos == thread[i].pos
           k == keys[i]
<1>1. ~thread[i].claimed /\ keys' = keys /\ stage' = stage /\ points' = points
  BY DEF ClaimSlot
<1>2. stage = "insert" /\ Tabled /\ Threaded
  BY DEF IndexInv, Staged, Indexing
<1>3. /\ IsKeyList(keys) /\ IsTable(table) /\ Len(keys) < Cap(table) /\ Chained(table)
      /\ \A p \in Occupied(table) : \E b \in DOMAIN keys : table[p].key = keys[b]
  BY <1>2 DEF Tabled
<1>4. /\ DOMAIN thread \subseteq DOMAIN keys
      /\ thread \in [DOMAIN thread -> [pos : DOMAIN table, claimed : BOOLEAN]]
      /\ \A t \in DOMAIN thread :
            IF thread[t].claimed THEN table[thread[t].pos].key = keys[t]
            ELSE /\ Reaches(table, keys[t], thread[t].pos)
                 /\ \A p \in DOMAIN table : table[p].key # keys[t]
      /\ \A t \in DOMAIN keys \ DOMAIN thread :
            \E p \in DOMAIN table : table[p].key = keys[t] /\ table[p].value = t
  BY <1>2 DEF Threaded
<1>5. /\ \A b \in DOMAIN keys : keys[b] \in ValidKeys
      /\ \A b, c \in DOMAIN keys : keys[b] = keys[c] => b = c
  BY <1>3, KeyList
<1>6. pos \in DOMAIN table /\ k \in ValidKeys /\ Reaches(table, k, pos)
      /\ \A p \in DOMAIN table : table[p].key # k
  BY <1>1, <1>4, <1>5
<1>7. ASSUME table[pos].key = EMPTY,
             table' = [table EXCEPT ![pos].key = k],
             thread' = [thread EXCEPT ![i].claimed = TRUE]
      PROVE  IndexInv'
  <2> DEFINE u == table'
  <2>0. Written(table, pos, k) /\ u = WithKey(table, pos, k)
    <3> HIDE DEF pos, k
    <3>1. Written(table, pos, k)
      BY <1>3, <1>6, <1>7, ChainedWritten
    <3>2. QED
      BY <1>7, <3>1 DEF WithKey, k
  <2>1. /\ IsTable(u) /\ DOMAIN u = DOMAIN table
        /\ \A c \in ValidKeys \ {k} : \A p : Reaches(table, c, p) => Reaches(u, c, p)
        /\ Chained(u)
        /\ Occupied(u) = Occupied(table) \cup {pos}
        /\ u[pos].key = k
        /\ \A p \in Occupied(table) : p # pos /\ u[p] = table[p]
        /\ \A p \in DOMAIN table : p # pos => u[p] = table[p]
    <3> HIDE DEF pos, k, u
    <3>1. QED
      BY <1>3, <2>0 DEF Written
  <2>2. /\ DOMAIN thread' = DOMAIN thread
        /\ thread'[i] = [pos |-> pos, claimed |-> TRUE]
        /\ \A t \in DOMAIN thread : t # i => thread'[t] = thread[t]
        /\ thread' \in [DOMAIN thread -> [pos : DOMAIN table, claimed : BOOLEAN]]
    <3>1. IsThreads(thread, DOMAIN table)
      BY <1>4 DEF IsThreads
    <3>2. Turned(thread, Claiming(thread, i), DOMAIN table, i, [pos |-> pos, claimed |-> TRUE])
      BY <1>6, <3>1, ThreadTurns
    <3>3. thread' = Claiming(thread, i)
      BY <1>7 DEF Claiming
    <3>4. QED
      BY <3>2, <3>3 DEF Turned, IsThreads
  <2>3. \A p \in DOMAIN table : p # pos => u[p] = table[p]
    BY <2>1
  <2> HIDE DEF u
  <2>4. Tabled'
    <3>1. Cap(u) = Cap(table)
      BY <2>1 DEF Cap
    <3>2. ASSUME NEW p \in Occupied(u) PROVE \E b \in DOMAIN keys : u[p].key = keys[b]
      BY <1>3, <1>4, <2>1
    <3>3. QED
      BY <1>1, <1>3, <2>1, <3>1, <3>2 DEF Tabled, u
  <2>5. thread' \in [DOMAIN thread' -> [pos : DOMAIN u, claimed : BOOLEAN]]
    BY <2>1, <2>2
  <2>6. ASSUME NEW t \in DOMAIN thread
        PROVE  IF thread'[t].claimed THEN u[thread'[t].pos].key = keys[t]
               ELSE /\ Reaches(u, keys[t], thread'[t].pos)
                    /\ \A p \in DOMAIN u : u[p].key # keys[t]
    <3>1. CASE t = i
      BY <2>1, <2>2, <3>1
    <3>2. CASE t # i
      <4>1. keys[t] # k /\ keys[t] \in ValidKeys
        BY <1>4, <1>5, <3>2
      <4>2. thread'[t] = thread[t]
        BY <2>2, <3>2
      <4>3. CASE thread[t].claimed
        <5>1. table[thread[t].pos].key = keys[t] /\ thread[t].pos \in DOMAIN table
          BY <1>4, <4>3
        <5>2. keys[t] # EMPTY
          BY <4>1, HashAssumption
        <5>3. thread[t].pos # pos
          BY <1>7, <5>1, <5>2
        <5>4. QED
          BY <2>3, <4>2, <4>3, <5>1, <5>3
      <4>4. CASE ~thread[t].claimed
        <5>1. Reaches(table, keys[t], thread[t].pos) /\ \A p \in DOMAIN table : table[p].key # keys[t]
          BY <1>4, <4>4
        <5>2. Reaches(u, keys[t], thread[t].pos)
          BY <2>1, <4>1, <5>1
        <5>3. \A p \in DOMAIN u : u[p].key # keys[t]
          BY <2>1, <2>3, <4>1, <5>1
        <5>4. QED
          BY <4>2, <4>4, <5>2, <5>3
      <4>5. QED
        BY <4>3, <4>4
    <3>3. QED
      BY <3>1, <3>2
  <2>7. ASSUME NEW t \in DOMAIN keys \ DOMAIN thread
        PROVE  \E p \in DOMAIN u : u[p].key = keys[t] /\ u[p].value = t
    <3>1. PICK p \in DOMAIN table : table[p].key = keys[t] /\ table[p].value = t
      BY <1>4
    <3>2. keys[t] # EMPTY
      BY <1>5, HashAssumption
    <3>3. p # pos
      BY <1>7, <3>1, <3>2
    <3>4. QED
      BY <2>1, <2>3, <3>1, <3>3
  <2>8. Threaded'
    BY <1>1, <1>4, <2>2, <2>5, <2>6, <2>7 DEF Threaded, u
  <2>9. QED
    BY <1>1, <1>2, <2>4, <2>8 DEF IndexInv, Staged, Indexing
<1>8. ASSUME table[pos].key # EMPTY,
             thread' = [thread EXCEPT ![i].pos = (pos + 1) % Cardinality(DOMAIN table)],
             table' = table
      PROVE  IndexInv'
  <2> DEFINE next == Follows(pos, Cap(table))
  <2>1. Reaches(table, k, next)
    <3>1. table[pos].key \notin {k, EMPTY}
      BY <1>6, <1>8
    <3>2. QED
      BY <1>3, <1>6, <3>1, NextReached
  <2>2. next \in DOMAIN table
    <3>1. PICK d \in 0 .. Cap(table) - 1 : next = Probe(table, k, d)
      BY <2>1 DEF Reaches
    <3>2. QED
      BY <1>3, <1>6, <3>1, Visits
  <2>3. (pos + 1) % Cardinality(DOMAIN table) = next
    BY DEF Follows, Cap
  <2> HIDE DEF next
  <2>4. /\ DOMAIN thread' = DOMAIN thread
        /\ thread'[i] = [pos |-> next, claimed |-> FALSE]
        /\ \A t \in DOMAIN thread : t # i => thread'[t] = thread[t]
        /\ thread' \in [DOMAIN thread -> [pos : DOMAIN table, claimed : BOOLEAN]]
    <3>1. IsThreads(thread, DOMAIN table)
      BY <1>4 DEF IsThreads
    <3>2. Turned(thread, Moving(thread, i, next), DOMAIN table, i, [pos |-> next, claimed |-> FALSE])
      <4>1. thread[i].claimed = FALSE
        BY <1>1, <1>4
      <4>2. Turned(thread, Moving(thread, i, next), DOMAIN table, i, [pos |-> next, claimed |-> thread[i].claimed])
        BY <2>2, <3>1, ThreadTurns
      <4>3. QED
        BY <4>1, <4>2
    <3>3. thread' = Moving(thread, i, next)
      BY <1>8, <2>3 DEF Moving
    <3>4. QED
      BY <3>2, <3>3 DEF Turned, IsThreads
  <2>5. ASSUME NEW t \in DOMAIN thread
        PROVE  IF thread'[t].claimed THEN table[thread'[t].pos].key = keys[t]
               ELSE /\ Reaches(table, keys[t], thread'[t].pos)
                    /\ \A p \in DOMAIN table : table[p].key # keys[t]
    <3>1. CASE t = i
      BY <1>6, <2>1, <2>4, <3>1
    <3>2. CASE t # i
      BY <1>4, <2>4, <3>2
    <3>3. QED
      BY <3>1, <3>2
  <2>6. Threaded'
    BY <1>1, <1>4, <1>8, <2>4, <2>5 DEF Threaded
  <2>7. Tabled'
    BY <1>1, <1>3, <1>8 DEF Tabled
  <2>8. QED
    BY <1>1, <1>2, <2>6, <2>7 DEF IndexInv, Staged, Indexing
<1>9. QED
  BY <1>7, <1>8 DEF ClaimSlot

\* A thread is through when its index is stored.
LEMMA StoreIndexes ==
    ASSUME IndexInv, NEW i \in DOMAIN thread, StoreIndex(i)
    PROVE  IndexInv'
<1> DEFINE pos == thread[i].pos
           u == table'
<1>1. /\ thread[i].claimed /\ keys' = keys /\ stage' = stage /\ points' = points
      /\ table' = [table EXCEPT ![pos].value = i]
      /\ thread' = [t \in DOMAIN thread \ {i} |-> thread[t]]
  BY DEF StoreIndex
<1>0. keys' = keys /\ stage' = stage
  BY <1>1
<1>2. stage = "insert" /\ Tabled /\ Threaded
  BY DEF IndexInv, Staged, Indexing
<1>3. /\ IsKeyList(keys) /\ IsTable(table) /\ Len(keys) < Cap(table) /\ Chained(table)
      /\ \A p \in Occupied(table) : \E b \in DOMAIN keys : table[p].key = keys[b]
  BY <1>2 DEF Tabled
<1>4. /\ DOMAIN thread \subseteq DOMAIN keys
      /\ thread \in [DOMAIN thread -> [pos : DOMAIN table, claimed : BOOLEAN]]
      /\ \A t \in DOMAIN thread :
            IF thread[t].claimed THEN table[thread[t].pos].key = keys[t]
            ELSE /\ Reaches(table, keys[t], thread[t].pos)
                 /\ \A p \in DOMAIN table : table[p].key # keys[t]
      /\ \A t \in DOMAIN keys \ DOMAIN thread :
            \E p \in DOMAIN table : table[p].key = keys[t] /\ table[p].value = t
  BY <1>2 DEF Threaded
<1>5. /\ \A b \in DOMAIN keys : keys[b] \in ValidKeys /\ b \in Nat
      /\ \A b, c \in DOMAIN keys : keys[b] = keys[c] => b = c
  BY <1>3, KeyList
<1>6. pos \in DOMAIN table /\ table[pos].key = keys[i] /\ i \in Nat
  BY <1>1, <1>4, <1>5
<1>7. /\ IsTable(u) /\ DOMAIN u = DOMAIN table
      /\ \A c \in ValidKeys : \A p : Reaches(table, c, p) => Reaches(u, c, p)
      /\ Chained(u)
      /\ Occupied(u) = Occupied(table)
      /\ \A p \in DOMAIN table : u[p].key = table[p].key
      /\ u[pos].value = i
      /\ \A p \in DOMAIN table : p # pos => u[p] = table[p]
  <2> HIDE DEF pos, u
  <2>1. Stored(table, pos, i)
    BY <1>3, <1>6, ValueStored
  <2>2. u = WithValue(table, pos, i)
    BY <1>1 DEF u, WithValue
  <2>3. QED
    BY <1>3, <2>1, <2>2 DEF Stored
<1>8. DOMAIN thread' = DOMAIN thread \ {i} /\ \A t \in DOMAIN thread' : thread'[t] = thread[t]
  BY <1>1
<1> HIDE DEF u
<1>9. Tabled'
  <2>1. Cap(u) = Cap(table)
    BY <1>7 DEF Cap
  <2>2. ASSUME NEW p \in Occupied(u) PROVE \E b \in DOMAIN keys : u[p].key = keys[b]
    BY <1>3, <1>7 DEF Occupied
  <2>3. QED
    BY <1>0, <1>3, <1>7, <2>1, <2>2 DEF Tabled, u
<1>10. ASSUME NEW t \in DOMAIN thread'
       PROVE  IF thread'[t].claimed THEN u[thread'[t].pos].key = keys[t]
              ELSE /\ Reaches(u, keys[t], thread'[t].pos)
                   /\ \A p \in DOMAIN u : u[p].key # keys[t]
  <2>1. t \in DOMAIN thread /\ thread'[t] = thread[t] /\ keys[t] \in ValidKeys /\ thread[t].pos \in DOMAIN table
    BY <1>4, <1>5, <1>8
  <2>2. QED
    BY <1>4, <1>7, <2>1
<1>11. ASSUME NEW t \in DOMAIN keys \ DOMAIN thread'
       PROVE  \E p \in DOMAIN u : u[p].key = keys[t] /\ u[p].value = t
  <2>1. CASE t = i
    BY <1>6, <1>7, <2>1
  <2>2. CASE t # i
    <3>1. t \in DOMAIN keys \ DOMAIN thread
      BY <1>8, <2>2
    <3>2. PICK p \in DOMAIN table : table[p].key = keys[t] /\ table[p].value = t
      BY <1>4, <3>1
    <3>3. p # pos
      BY <1>4, <1>5, <1>6, <2>2, <3>1, <3>2
    <3>4. QED
      BY <1>7, <3>2, <3>3
  <2>3. QED
    BY <2>1, <2>2
<1>12. thread' \in [DOMAIN thread' -> [pos : DOMAIN u, claimed : BOOLEAN]]
  BY <1>1, <1>4, <1>7, <1>8
<1>13. Threaded'
  BY <1>0, <1>4, <1>8, <1>10, <1>11, <1>12 DEF Threaded, u
<1>14. QED
  BY <1>1, <1>2, <1>9, <1>13 DEF IndexInv, Staged, Indexing

\* Whatever the order of its threads, the build keeps the index invariant.
LEMMA IndexKept ==
    ASSUME IndexInv, NextCloud
    PROVE  IndexInv'
<1>1. CASE Load
  <2>1. raw' \in Seq(Int \X Int)
    BY <1>1, RawAssumption DEF Load
  <2>2. IsCloud(points')
    BY <1>1, <2>1 DEF Load, IsCloud
  <2>3. QED
    BY <1>1, <2>2 DEF Load, IndexInv, Staged, Indexing
<1>2. CASE RunNothing
  BY <1>2 DEF RunNothing, IndexInv, Staged, Indexing
<1>3. CASE Run
  BY <1>3, RunIndexes
<1>4. CASE \E i \in DOMAIN thread : ClaimSlot(i)
  BY <1>4, ClaimIndexes
<1>5. CASE \E i \in DOMAIN thread : StoreIndex(i)
  BY <1>5, StoreIndexes
<1>6. CASE IndexBuilt
  <2>1. /\ stage = "insert" /\ DOMAIN thread = {} /\ stage' = "ready"
        /\ UNCHANGED <<points, keys, table, thread>>
    BY <1>6 DEF IndexBuilt
  <2>2. Tabled' /\ Threaded'
    BY <2>1 DEF IndexInv, Indexing, Tabled, Threaded
  <2>3. QED
    BY <2>1, <2>2 DEF IndexInv, Staged, Indexing
<1>7. CASE \E k \in Neighbors : EstimateCovariances(k)
  <2>1. stage = "ready" /\ keys # <<>> /\ UNCHANGED <<points, keys, table, thread, stage>>
    BY <1>7 DEF EstimateCovariances
  <2>2. Tabled' /\ Threaded'
    BY <2>1 DEF IndexInv, Indexing, Tabled, Threaded
  <2>3. QED
    BY <2>1, <2>2 DEF IndexInv, Staged, Indexing
<1>8. QED
  BY <1>1, <1>2, <1>3, <1>4, <1>5, <1>6, <1>7 DEF NextCloud

\* The stages of a cloud, its table and the threads that fill it stay as the
\* index invariant says, from cloud to cloud.
THEOREM IndexInvariance == CloudSpec => []IndexInv
<1>1. InitCloud => IndexInv
  BY DEF InitCloud, IndexInv, Staged, Indexing
<1>2. IndexInv /\ [NextCloud]_cloudVars => IndexInv'
  <2>1. IndexInv /\ UNCHANGED cloudVars => IndexInv'
    BY DEF cloudVars, IndexInv, Staged, Indexing, Tabled, Threaded
  <2>2. QED
    BY <2>1, IndexKept
<1>3. QED
  BY <1>1, <1>2, PTL DEF CloudSpec

\* IndexExact: however its threads raced, the index gives every voxel of the
\* cloud the position of its point and ends at a free slot for every other
\* voxel, also when the table held another cloud before.
THEOREM IndexExactHolds == CloudSpec => []IndexExact
<1>1. ASSUME IndexInv PROVE IndexExact
  <2> SUFFICES ASSUME stage = "ready", keys # <<>>, NEW key \in ValidKeys
               PROVE  hash_lookup(table, key) = IF \E b \in DOMAIN keys : keys[b] = key
                                                THEN CHOOSE b \in DOMAIN keys : keys[b] = key
                                                ELSE -1
    BY DEF IndexExact
  <2>1. DOMAIN thread = {} /\ Tabled /\ Threaded
    BY <1>1 DEF IndexInv, Staged, Indexing
  <2>2. /\ IsKeyList(keys) /\ IsTable(table) /\ Len(keys) < Cap(table) /\ Chained(table)
        /\ \A p \in Occupied(table) : \E b \in DOMAIN keys : table[p].key = keys[b]
        /\ \A t \in DOMAIN keys : \E p \in DOMAIN table : table[p].key = keys[t] /\ table[p].value = t
    BY <2>1 DEF Tabled, Threaded
  <2>3. /\ Len(keys) \in Nat /\ DOMAIN keys = 1 .. Len(keys) /\ keys \in [1 .. Len(keys) -> ValidKeys]
        /\ \A b, c \in DOMAIN keys : keys[b] = keys[c] => b = c
    BY <2>2, KeyList
  <2>4. ASSUME NEW b \in DOMAIN keys, keys[b] = key
        PROVE  hash_lookup(table, key) = CHOOSE c \in DOMAIN keys : keys[c] = key
    <3>1. PICK p \in DOMAIN table : table[p].key = keys[b] /\ table[p].value = b
      BY <2>2
    <3>2. p \in Occupied(table)
      BY <2>4, <3>1, HashAssumption DEF Occupied
    <3>3. Reaches(table, key, p)
      BY <2>2, <2>4, <3>1, <3>2 DEF Chained
    <3>4. hash_lookup(table, key) = b
      BY <2>2, <2>4, <3>1, <3>3, LookupPresent
    <3>5. (CHOOSE c \in DOMAIN keys : keys[c] = key) = b
      BY <2>3, <2>4
    <3>6. QED
      BY <3>4, <3>5
  <2>5. ASSUME ~ \E b \in DOMAIN keys : keys[b] = key PROVE hash_lookup(table, key) = -1
    <3>1. Occupied(table) # DOMAIN table
      BY <2>2, <2>3, FreeSlot
    <3>2. \A p \in Occupied(table) : table[p].key # key
      BY <2>2, <2>5
    <3>3. QED
      BY <2>2, <3>1, <3>2, LookupAbsent
  <2>6. QED
    BY <2>4, <2>5
<1>2. QED
  BY <1>1, IndexInvariance, PTL

-----------------------------------------------------------------------------
(* Sums.                                                                   *)
-----------------------------------------------------------------------------
\* A family of subsets of a finite set has a smallest member.
LEMMA SmallestSet ==
    ASSUME NEW S, IsFiniteSet(S), NEW W, W \subseteq SUBSET S, W # {}
    PROVE  \E R \in W : \A x \in R : R \ {x} \notin W
<1> DEFINE sizes == {Cardinality(R) : R \in W}
<1>1. \A R \in W : IsFiniteSet(R) /\ Cardinality(R) \in Nat
  BY FS_Subset, FS_CardinalityType
<1>2. sizes \subseteq Nat /\ sizes # {}
  BY <1>1
<1>3. PICK m \in sizes : \A n \in sizes : m <= n
  BY <1>2, LeastNat
<1>4. PICK R \in W : Cardinality(R) = m
  BY <1>3
<1>5. ASSUME NEW x \in R, R \ {x} \in W PROVE FALSE
  <2>1. Cardinality(R \ {x}) = m - 1
    BY <1>1, <1>4, FS_RemoveElement
  <2>2. m <= m - 1 /\ m \in Nat
    BY <1>1, <1>3, <1>4, <1>5, <2>1
  <2>3. QED
    BY <2>2
<1>6. QED
  BY <1>5

\* What defines the sums over the subsets of a set.
Chosen(R) == CHOOSE x \in R : TRUE
SumStep(f, s, R) == IF R = {} THEN 0 ELSE f[Chosen(R)] + s[R \ {Chosen(R)}]
Sums(f, S) == CHOOSE s : s = [R \in SUBSET S |-> SumStep(f, s, R)]

LEMMA SumsDef ==
    ASSUME NEW f, NEW S
    PROVE  SumFunctionOnSet(f, S) = Sums(f, S)[S]
BY DEF SumFunctionOnSet, FoldFunctionOnSet, MapThenFoldSet, Sums, SumStep, Chosen

\* There are such sums ...
LEMMA SumsExist ==
    ASSUME NEW f, NEW S, IsFiniteSet(S)
    PROVE  \A R \in SUBSET S : Sums(f, S)[R] = SumStep(f, Sums(f, S), R)
<1> DEFINE Solves(s, m) == \A R \in SUBSET S : Cardinality(R) <= m => s[R] = SumStep(f, s, R)
           Bad == {m \in Nat : ~\E s : Solves(s, m)}
<1>1. \A R \in SUBSET S : IsFiniteSet(R) /\ Cardinality(R) \in Nat
  BY FS_Subset, FS_CardinalityType
<1>2. ASSUME NEW R \in SUBSET S, R # {}
      PROVE  /\ Chosen(R) \in R /\ R \ {Chosen(R)} \in SUBSET S
             /\ Cardinality(R \ {Chosen(R)}) = Cardinality(R) - 1
  <2>1. Chosen(R) \in R
    BY <1>2 DEF Chosen
  <2>2. Cardinality(R \ {Chosen(R)}) = Cardinality(R) - 1
    BY <1>1, <2>1, FS_RemoveElement
  <2>3. QED
    BY <2>1, <2>2
<1>3. Bad = {}
  <2> SUFFICES ASSUME Bad # {} PROVE FALSE
    OBVIOUS
  <2>1. PICK m \in Bad : \A n \in Bad : m <= n
    BY LeastNat
  <2>2. m \in Nat /\ ~\E s : Solves(s, m)
    OBVIOUS
  <2>3. CASE m = 0
    <3> DEFINE s == [R \in SUBSET S |-> 0]
    <3>1. ASSUME NEW R \in SUBSET S, Cardinality(R) <= m PROVE s[R] = SumStep(f, s, R)
      <4>1. R = {}
        BY <1>1, <2>3, <3>1, FS_EmptySet
      <4>2. QED
        BY <4>1 DEF SumStep
    <3> HIDE DEF s
    <3>2. QED
      BY <2>2, <3>1
  <2>4. CASE m # 0
    <3>1. m - 1 \in Nat /\ m - 1 \notin Bad
      BY <2>1, <2>2, <2>4
    <3>2. PICK s : Solves(s, m - 1)
      BY <3>1
    <3> DEFINE u == [R \in SUBSET S |-> IF Cardinality(R) <= m - 1 THEN s[R] ELSE SumStep(f, s, R)]
    <3>3. ASSUME NEW R \in SUBSET S, Cardinality(R) <= m PROVE u[R] = SumStep(f, u, R)
      <4>1. u[R] = SumStep(f, s, R)
        BY <3>2
      <4>2. R # {} => u[R \ {Chosen(R)}] = s[R \ {Chosen(R)}]
        BY <1>1, <1>2, <2>2, <3>3
      <4>3. QED
        BY <4>1, <4>2 DEF SumStep
    <3> HIDE DEF u
    <3>4. QED
      BY <2>2, <3>3
  <2>5. QED
    BY <2>3, <2>4
<1>4. Cardinality(S) \in Nat /\ \A R \in SUBSET S : Cardinality(R) <= Cardinality(S)
  BY FS_Subset, FS_CardinalityType
<1>5. PICK s : Solves(s, Cardinality(S))
  BY <1>3, <1>4
<1> DEFINE u == [R \in SUBSET S |-> s[R]]
<1>6. u = [R \in SUBSET S |-> SumStep(f, u, R)]
  <2>1. ASSUME NEW R \in SUBSET S PROVE u[R] = SumStep(f, u, R)
    <3>1. u[R] = SumStep(f, s, R)
      BY <1>4, <1>5
    <3>2. R # {} => u[R \ {Chosen(R)}] = s[R \ {Chosen(R)}]
      BY <1>2
    <3>3. QED
      BY <3>1, <3>2 DEF SumStep
  <2>2. QED
    BY <2>1
<1> HIDE DEF u
<1>7. \E v : v = [R \in SUBSET S |-> SumStep(f, v, R)]
  BY <1>6
<1>8. Sums(f, S) = [R \in SUBSET S |-> SumStep(f, Sums(f, S), R)]
  BY <1>7 DEF Sums
<1> DEFINE w == Sums(f, S)
<1>9. w = [R \in SUBSET S |-> SumStep(f, w, R)]
  BY <1>8
<1> HIDE DEF w
<1>10. \A R \in SUBSET S : w[R] = SumStep(f, w, R)
  BY <1>9
<1>11. QED
  BY <1>10 DEF w

\* ... of integers, ...
LEMMA SumsType ==
    ASSUME NEW f, NEW S, IsFiniteSet(S), \A x \in S : f[x] \in Int
    PROVE  \A R \in SUBSET S : Sums(f, S)[R] \in Int
<1> DEFINE s == Sums(f, S)
           W == {R \in SUBSET S : s[R] \notin Int}
<1>1. \A R \in SUBSET S : s[R] = SumStep(f, s, R)
  BY SumsExist
<1> HIDE DEF s
<1>2. W = {}
  <2> SUFFICES ASSUME W # {} PROVE FALSE
    OBVIOUS
  <2>1. W \subseteq SUBSET S
    OBVIOUS
  <2> HIDE DEF W
  <2>2. PICK R \in W : \A x \in R : R \ {x} \notin W
    BY <2>1, SmallestSet
  <2>3. R \in SUBSET S /\ s[R] \notin Int
    BY DEF W
  <2>4. s[R] = SumStep(f, s, R)
    BY <1>1, <2>3
  <2>5. CASE R = {}
    <3>1. s[R] = 0
      BY <2>4, <2>5 DEF SumStep
    <3>2. QED
      BY <2>3, <3>1
  <2>6. CASE R # {}
    <3> DEFINE c == Chosen(R)
    <3>1. c \in R
      BY <2>6 DEF Chosen
    <3>2. s[R] = f[c] + s[R \ {c}]
      BY <2>4, <2>6 DEF SumStep
    <3> HIDE DEF c
    <3>3. s[R \ {c}] \in Int
      BY <2>2, <2>3, <3>1 DEF W
    <3>4. f[c] \in Int
      BY <2>3, <3>1
    <3>5. QED
      BY <2>3, <3>2, <3>3, <3>4
  <2>7. QED
    BY <2>5, <2>6
<1>3. QED
  BY <1>2 DEF s

\* ... and any element may be the first.
LEMMA SumsAny ==
    ASSUME NEW f, NEW S, IsFiniteSet(S), \A x \in S : f[x] \in Int
    PROVE  \A R \in SUBSET S : \A x \in R : Sums(f, S)[R] = f[x] + Sums(f, S)[R \ {x}]
<1> DEFINE s == Sums(f, S)
           W == {R \in SUBSET S : \E x \in R : s[R] # f[x] + s[R \ {x}]}
<1>1. \A R \in SUBSET S : s[R] = SumStep(f, s, R) /\ s[R] \in Int
  BY SumsExist, SumsType
<1> HIDE DEF s
<1>2. W = {}
  <2> SUFFICES ASSUME W # {} PROVE FALSE
    OBVIOUS
  <2>1. W \subseteq SUBSET S
    OBVIOUS
  <2>2. PICK R \in W : \A x \in R : R \ {x} \notin W
    BY <2>1, SmallestSet
  <2>3. R \in SUBSET S
    OBVIOUS
  <2>4. PICK x \in R : s[R] # f[x] + s[R \ {x}]
    OBVIOUS
  <2> DEFINE c == Chosen(R)
  <2>5. c \in R
    BY <2>4 DEF Chosen
  <2> HIDE DEF c
  <2>6. s[R] = f[c] + s[R \ {c}]
    BY <1>1, <2>3, <2>4 DEF SumStep, c
  <2>7. x # c
    BY <2>4, <2>6
  <2>8. s[R \ {c}] = f[x] + s[(R \ {c}) \ {x}]
    <3>1. R \ {c} \notin W /\ R \ {c} \in SUBSET S /\ x \in R \ {c}
      BY <2>2, <2>3, <2>4, <2>5, <2>7
    <3>2. QED
      BY <3>1
  <2>9. s[R \ {x}] = f[c] + s[(R \ {x}) \ {c}]
    <3>1. R \ {x} \notin W /\ R \ {x} \in SUBSET S /\ c \in R \ {x}
      BY <2>2, <2>3, <2>4, <2>5, <2>7
    <3>2. QED
      BY <3>1
  <2>10. (R \ {c}) \ {x} = (R \ {x}) \ {c}
    OBVIOUS
  <2>11. s[(R \ {x}) \ {c}] \in Int /\ f[x] \in Int /\ f[c] \in Int
    BY <1>1, <2>3, <2>4, <2>5
  <2>12. \A a, b, t \in Int : a + (b + t) = b + (a + t)
    OBVIOUS
  <2>13. s[R] = f[c] + (f[x] + s[(R \ {x}) \ {c}])
    BY <2>6, <2>8, <2>10
  <2>14. f[x] + s[R \ {x}] = f[x] + (f[c] + s[(R \ {x}) \ {c}])
    BY <2>9
  <2>15. QED
    BY <2>4, <2>11, <2>12, <2>13, <2>14
<1>3. QED
  BY <1>2 DEF s

\* A sum depends on nothing but the values that it sums.
LEMMA SumsAgree ==
    ASSUME NEW f, NEW S, IsFiniteSet(S), NEW g, NEW U, IsFiniteSet(U)
    PROVE  \A R \in SUBSET S : R \subseteq U /\ (\A x \in R : f[x] = g[x]) => Sums(f, S)[R] = Sums(g, U)[R]
<1> DEFINE s == Sums(f, S)
           u == Sums(g, U)
           W == {R \in SUBSET S : R \subseteq U /\ (\A x \in R : f[x] = g[x]) /\ s[R] # u[R]}
<1>1. \A R \in SUBSET S : s[R] = SumStep(f, s, R)
  BY SumsExist
<1>2. \A R \in SUBSET U : u[R] = SumStep(g, u, R)
  BY SumsExist
<1> HIDE DEF s, u
<1>3. W = {}
  <2> SUFFICES ASSUME W # {} PROVE FALSE
    OBVIOUS
  <2>1. W \subseteq SUBSET S
    OBVIOUS
  <2>2. PICK R \in W : \A x \in R : R \ {x} \notin W
    BY <2>1, SmallestSet
  <2>3. /\ R \in SUBSET S /\ R \in SUBSET U
        /\ \A x \in R : f[x] = g[x]
        /\ s[R] # u[R]
    OBVIOUS
  <2>4. CASE R = {}
    BY <1>1, <1>2, <2>3, <2>4 DEF SumStep
  <2>5. CASE R # {}
    <3> DEFINE c == Chosen(R)
    <3>1. c \in R
      BY <2>5 DEF Chosen
    <3> HIDE DEF c
    <3>2. R \ {c} \notin W
      BY <2>2, <3>1
    <3>3. s[R \ {c}] = u[R \ {c}]
      BY <2>3, <3>2
    <3>4. s[R] = f[c] + s[R \ {c}] /\ u[R] = g[c] + u[R \ {c}]
      BY <1>1, <1>2, <2>3, <2>5 DEF SumStep, c
    <3>5. QED
      BY <2>3, <3>1, <3>3, <3>4
  <2>6. QED
    BY <2>4, <2>5
<1>4. QED
  BY <1>3 DEF s, u

\* The same of the sums themselves.
LEMMA SumEmpty ==
    ASSUME NEW f
    PROVE  SumFunctionOnSet(f, {}) = 0
<1>1. IsFiniteSet({}) /\ {} \in SUBSET {}
  BY FS_EmptySet
<1>2. Sums(f, {})[{}] = SumStep(f, Sums(f, {}), {})
  BY <1>1, SumsExist
<1>3. QED
  BY <1>2, SumsDef DEF SumStep

LEMMA SumType ==
    ASSUME NEW f, NEW S, IsFiniteSet(S), \A x \in S : f[x] \in Int
    PROVE  SumFunctionOnSet(f, S) \in Int
BY SumsType, SumsDef

LEMMA SumSame ==
    ASSUME NEW f, NEW g, NEW S, IsFiniteSet(S), \A x \in S : f[x] = g[x]
    PROVE  SumFunctionOnSet(f, S) = SumFunctionOnSet(g, S)
<1>1. S \in SUBSET S /\ S \subseteq S
  OBVIOUS
<1>2. Sums(f, S)[S] = Sums(g, S)[S]
  BY <1>1, SumsAgree
<1>3. QED
  BY <1>2, SumsDef

LEMMA SumWithout ==
    ASSUME NEW f, NEW S, IsFiniteSet(S), \A x \in S : f[x] \in Int, NEW x \in S
    PROVE  SumFunctionOnSet(f, S) = f[x] + SumFunctionOnSet(f, S \ {x})
<1>1. Sums(f, S)[S] = f[x] + Sums(f, S)[S \ {x}]
  BY SumsAny
<1>2. IsFiniteSet(S \ {x}) /\ S \ {x} \in SUBSET S
  BY FS_Subset
<1>3. Sums(f, S)[S \ {x}] = Sums(f, S \ {x})[S \ {x}]
  BY <1>2, SumsAgree
<1>4. QED
  BY <1>1, <1>3, SumsDef

SameSum(h, S, f, R) == SumFunctionOnSet(h, S) = SumFunctionOnSet(f, R)

\* A sum is the same over the values of a bijection.
LEMMA SumMapped ==
    ASSUME NEW S, IsFiniteSet(S), NEW Image, NEW g \in Bijection(S, Image), NEW f, NEW h,
           \A x \in Image : f[x] \in Int,
           \A x \in S : h[x] = f[g[x]]
    PROVE  SameSum(h, S, f, Image)
<1> DEFINE im(R) == {g[x] : x \in R}
           W == {R \in SUBSET S : SumFunctionOnSet(h, R) # SumFunctionOnSet(f, im(R))}
<1>1. /\ g \in [S -> Image]
      /\ \A x, y \in S : g[x] = g[y] => x = y
      /\ \A z \in Image : \E x \in S : g[x] = z
  BY DEF Bijection, Injection, IsInjective, Surjection
<1>2. IsFiniteSet(Image)
  BY FS_Bijection DEF ExistsBijection
<1>3. W = {}
  <2> SUFFICES ASSUME W # {} PROVE FALSE
    OBVIOUS
  <2>1. W \subseteq SUBSET S
    OBVIOUS
  <2>2. PICK R \in W : \A x \in R : R \ {x} \notin W
    BY <2>1, SmallestSet
  <2>3. R \in SUBSET S /\ IsFiniteSet(R) /\ SumFunctionOnSet(h, R) # SumFunctionOnSet(f, im(R))
    BY FS_Subset
  <2>4. CASE R = {}
    <3>1. im(R) = {}
      BY <2>4
    <3>2. SumFunctionOnSet(h, {}) = 0 /\ SumFunctionOnSet(f, {}) = 0
      BY SumEmpty
    <3>3. QED
      BY <2>3, <2>4, <3>1, <3>2
  <2>5. CASE R # {}
    <3>1. PICK x \in R : TRUE
      BY <2>5
    <3>2. R \ {x} \notin W /\ R \ {x} \in SUBSET S
      BY <2>2, <2>3
    <3>3. SumFunctionOnSet(h, R \ {x}) = SumFunctionOnSet(f, im(R \ {x}))
      BY <3>2
    <3>4. im(R \ {x}) = im(R) \ {g[x]} /\ g[x] \in im(R) /\ im(R) \in SUBSET Image /\ x \in S
      BY <1>1, <2>3
    <3>5. \A z \in im(R) : f[z] \in Int
      BY <3>4
    <3>6. \A y \in R : h[y] \in Int
      BY <1>1, <2>3
    <3>7. IsFiniteSet(im(R))
      BY <1>2, <3>4, FS_Subset
    <3> DEFINE I == im(R)
    <3>8. I = im(R)
      OBVIOUS
    <3> HIDE DEF im, I
    <3>9. SumFunctionOnSet(h, R) = h[x] + SumFunctionOnSet(h, R \ {x})
      BY <2>3, <3>6, SumWithout
    <3>10. SumFunctionOnSet(f, I) = f[g[x]] + SumFunctionOnSet(f, I \ {g[x]})
      BY <3>4, <3>5, <3>7, <3>8, SumWithout
    <3>11. h[x] = f[g[x]]
      BY <3>4
    <3>12. QED
      BY <2>3, <3>3, <3>4, <3>8, <3>9, <3>10, <3>11
  <2>6. QED
    BY <2>4, <2>5
<1>4. im(S) = Image
  BY <1>1
<1>5. SumFunctionOnSet(h, S) = SumFunctionOnSet(f, im(S))
  BY <1>3
<1>6. QED
  BY <1>4, <1>5 DEF SameSum

-----------------------------------------------------------------------------
(* What each bucket holds.                                                 *)
-----------------------------------------------------------------------------
\* A bucket's positions are those that hold its key.
Extends(sorted, n, b) ==
    LET first == Starts(sorted)[b]
        past == PastBucket(sorted, b)
    IN  /\ first \in 1 .. n /\ past \in Int /\ first < past /\ past <= n + 1
        /\ \A r \in 1 .. n : r \in first .. past - 1 <=> sorted[r] = BucketKeys(sorted)[b]

LEMMA BucketExtent ==
    ASSUME NEW n, NEW sorted, Ascending(sorted, n), \A r \in 1 .. n : sorted[r] <= INVALID_KEY,
           INVALID_KEY \in Int, NEW b \in DOMAIN BucketKeys(sorted)
    PROVE  Extends(sorted, n, b)
<1> DEFINE F == FlaggedOf(sorted)
           m == Cardinality(F)
           st == Starts(sorted)
           first == st[b]
           past == PastBucket(sorted, b)
           k == BucketKeys(sorted)[b]
           I == INVALID_KEY
           inv == InvalidStart(sorted)
<1>1. /\ m \in Nat /\ st \in [1 .. m -> F]
      /\ \A i \in F : \E c \in 1 .. m : st[c] = i
      /\ \A c, d \in 1 .. m : c < d => st[c] < st[d]
  BY StartsOf
<1>2. n \in Nat /\ sorted \in [1 .. n -> Int] /\ \A r, s \in 1 .. n : r < s => sorted[r] <= sorted[s]
  BY DEF Ascending
<1>3. /\ DOMAIN BucketKeys(sorted) = 1 .. m /\ b \in 1 .. m
      /\ k = sorted[first] /\ first = st[b]
  BY <1>1, KeysOfRuns DEF RunsListed
<1>4. \A i : i \in F <=> i \in 1 .. n /\ sorted[i] # I /\ (i = 1 \/ sorted[i - 1] # sorted[i])
  BY <1>2 DEF FlaggedOf, NewRun
<1>5. Len(st) = m
  BY <1>1
<1>6. past = IF b < m THEN st[b + 1] ELSE inv
  BY <1>5 DEF PastBucket
<1>7. /\ inv \in 1 .. n + 1
      /\ \A r \in 1 .. n : sorted[r] = I => inv <= r
      /\ inv \in 1 .. n => sorted[inv] = I
  <2> DEFINE bad == {i \in DOMAIN sorted : sorted[i] = I}
             S == bad \cup {n + 1}
  <2>1. Len(sorted) = n /\ DOMAIN sorted = 1 .. n
    BY <1>2
  <2>2. inv = Min(S)
    BY <2>1 DEF InvalidStart
  <2>3. S \subseteq Nat /\ S # {} /\ bad \subseteq 1 .. n
    BY <1>2, <2>1
  <2>4. \A i : i \in bad <=> i \in 1 .. n /\ sorted[i] = I
    BY <2>1
  <2> DEFINE x == Min(S)
  <2>5. x \in S /\ \A y \in S : x <= y
    BY <2>3, LeastOf
  <2> HIDE DEF bad, x
  <2>6. (x \in bad \/ x = n + 1) /\ (\A y \in bad : x <= y)
    BY <2>5
  <2>7. x \in 1 .. n + 1
    <3>1. x \in 1 .. n \/ x = n + 1
      BY <2>3, <2>6
    <3>2. n \in Nat
      BY <1>2
    <3>3. QED
      BY ONLY <3>1, <3>2
  <2>8. \A r \in 1 .. n : sorted[r] = I => x <= r
    BY <2>4, <2>6
  <2>9. x \in 1 .. n => sorted[x] = I
    <3>1. ~(n + 1 \in 1 .. n)
      BY <1>2
    <3>2. QED
      BY <2>4, <2>6, <3>1
  <2>10. QED
    BY <2>2, <2>7, <2>8, <2>9 DEF x
<1> HIDE DEF inv, st, m, F
<1>8. /\ first \in 1 .. n /\ k = sorted[first] /\ k # I /\ k \in Int
      /\ first = 1 \/ sorted[first - 1] # k
  BY <1>1, <1>2, <1>3, <1>4
<1>9. past \in Int /\ past <= n + 1 /\ past >= 1
  <2>1. CASE b < m
    <3>1. b + 1 \in 1 .. m
      BY <1>1, <1>3, <2>1
    <3>2. st[b + 1] \in 1 .. n
      BY <1>1, <1>4, <3>1
    <3>3. QED
      BY <1>2, <1>6, <2>1, <3>2
  <2>2. CASE ~(b < m)
    BY <1>2, <1>6, <1>7, <2>2
  <2>3. QED
    BY <2>1, <2>2
<1> HIDE DEF past, k, first
<1>10. \A r, s \in 1 .. n : r <= s => sorted[r] <= sorted[s]
  BY <1>2
<1>11. ASSUME NEW r \in 1 .. n, sorted[r] = k PROVE first <= r /\ r < past
  <2>1. first <= r
    <3> SUFFICES ASSUME r < first PROVE FALSE
      BY <1>8
    <3>1. first - 1 \in 1 .. n /\ r <= first - 1 /\ first # 1 /\ first - 1 <= first
      <4>1. first \in Int /\ 1 <= first /\ first <= n /\ r \in Int /\ 1 <= r /\ r < first /\ n \in Int
        BY <1>2, <1>8
      <4>2. QED
        BY ONLY <4>1
    <3>2. sorted[r] <= sorted[first - 1] /\ sorted[first - 1] <= sorted[first] /\ sorted[first - 1] \in Int
      BY <1>2, <1>8, <1>10, <3>1
    <3>3. QED
      BY <1>8, <1>11, <3>1, <3>2
  <2>2. r < past
    <3> SUFFICES ASSUME past <= r PROVE FALSE
      BY <1>9
    <3>1. past \in 1 .. n
      BY <1>2, <1>9
    <3>2. CASE b < m
      <4>1. b + 1 \in 1 .. m /\ b < b + 1
        BY <1>1, <1>3, <3>2
      <4>2. past \in F /\ first < past
        BY <1>1, <1>3, <1>6, <3>2, <4>1
      <4>3. past # 1 /\ past - 1 \in 1 .. n /\ first <= past - 1 /\ past - 1 <= past
        <5>1. first \in Int /\ 1 <= first /\ past \in Int /\ past <= n /\ first < past /\ n \in Int
          BY <1>2, <1>8, <3>1, <4>2
        <5>2. QED
          BY ONLY <5>1
      <4>4. sorted[past - 1] # sorted[past]
        BY <1>4, <4>2, <4>3
      <4>5. /\ k <= sorted[past - 1] /\ sorted[past - 1] <= sorted[past] /\ sorted[past] <= k
            /\ sorted[past - 1] \in Int /\ sorted[past] \in Int
        BY <1>2, <1>8, <1>10, <1>11, <3>1, <4>3
      <4>6. QED
        BY <1>8, <4>4, <4>5
    <3>3. CASE ~(b < m)
      <4>1. past = inv
        BY <1>6, <3>3
      <4>2. sorted[past] = I
        BY <1>7, <3>1, <4>1
      <4>3. I <= k
        BY <1>10, <1>11, <3>1, <4>2
      <4>4. k <= I /\ I \in Int
        BY <1>11
      <4>5. QED
        BY <1>8, <4>3, <4>4
    <3>4. QED
      BY <3>2, <3>3
  <2>3. QED
    BY <2>1, <2>2
<1>12. first < past
  BY <1>8, <1>11
<1>13. ASSUME NEW r \in 1 .. n, first <= r, r < past PROVE sorted[r] = k
  <2> DEFINE B == {s \in 1 .. n : first <= s /\ s <= r /\ sorted[s] # k}
  <2> SUFFICES ASSUME sorted[r] # k PROVE FALSE
    OBVIOUS
  <2>1. B \subseteq Nat /\ B # {}
    BY <1>13
  <2>2. PICK s \in B : \A y \in B : s <= y
    BY <2>1, LeastNat
  <2>3. s \in 1 .. n /\ first <= s /\ s <= r /\ sorted[s] # k
    OBVIOUS
  <2>4. s # first
    BY <1>8, <2>3
  <2>5. s - 1 \in 1 .. n /\ first <= s - 1 /\ s - 1 <= r /\ ~(s <= s - 1) /\ s # 1 /\ s < past
    BY <1>2, <1>8, <1>9, <1>13, <2>3, <2>4
  <2>6. sorted[s - 1] = k
    <3>1. s - 1 \notin B
      BY <2>2, <2>5
    <3>2. QED
      BY <2>5, <3>1
  <2> HIDE DEF B
  <2>7. CASE sorted[s] = I
    <3>1. inv <= s
      BY <1>7, <2>3, <2>7
    <3>2. CASE b < m
      <4>1. b + 1 \in 1 .. m
        BY <1>1, <1>3, <3>2
      <4>2. past \in 1 .. n /\ sorted[past] # I
        BY <1>1, <1>4, <1>6, <3>2, <4>1
      <4>3. I <= sorted[past] /\ sorted[past] <= I /\ sorted[past] \in Int
        BY <1>2, <1>9, <1>10, <2>3, <2>5, <2>7, <4>2
      <4>4. QED
        BY <4>2, <4>3
    <3>3. CASE ~(b < m)
      BY <1>6, <1>7, <1>9, <2>3, <2>5, <3>1, <3>3
    <3>4. QED
      BY <3>2, <3>3
  <2>8. CASE sorted[s] # I
    <3>1. s \in F
      BY <1>4, <2>3, <2>5, <2>6, <2>8
    <3>2. PICK c \in 1 .. m : st[c] = s
      BY <1>1, <3>1
    <3>3. ~(c < b) /\ c # b
      <4>1. ~(s < first) /\ s # first
        BY <1>8, <2>3, <2>4
      <4>2. QED
        BY <1>1, <1>3, <3>2, <4>1
    <3>4. b < m /\ b + 1 \in 1 .. m /\ (c = b + 1 \/ b + 1 < c)
      BY <1>1, <1>3, <3>2, <3>3
    <3>5. st[b + 1] = s \/ st[b + 1] < s
      BY <1>1, <3>2, <3>4
    <3>6. past = st[b + 1]
      BY <1>6, <3>4
    <3>7. QED
      BY <1>9, <2>3, <2>5, <3>5, <3>6
  <2>9. QED
    BY <2>7, <2>8
<1>14. \A r \in 1 .. n : r \in first .. past - 1 <=> sorted[r] = k
  <2>1. ASSUME NEW r \in 1 .. n PROVE r \in first .. past - 1 <=> sorted[r] = k
    <3>1. r \in first .. past - 1 <=> first <= r /\ r < past
      BY <1>8, <1>9
    <3>2. QED
      BY <1>11, <1>13, <3>1
  <2>2. QED
    BY <2>1
<1>15. QED
  BY <1>8, <1>9, <1>12, <1>14 DEF Extends, past, k, first, st

Members(b) == {i \in DOMAIN points : voxel_key(points[i]) = BucketKeys(SortedKeys(SortedValues))[b]}
MeanOf(cloud, members) ==
    [a \in Axes |-> SumFunction([i \in members |-> cloud[i][a]]) \div Cardinality(members)]

\* The sums of a bucket are those of the points of its voxel.
LEMMA CentroidOfMembers ==
    ASSUME IsCloud(points), NEW b \in DOMAIN BucketKeys(SortedKeys(SortedValues))
    PROVE  Centroids(SortedValues, SortedKeys(SortedValues))[b] = MeanOf(points, Members(b))
<1> DEFINE vs == SortedValues
           so == SortedKeys(vs)
           n == Len(points)
           first == Starts(so)[b]
           past == PastBucket(so, b)
           k == BucketKeys(so)[b]
           R == first .. past - 1
           M == Members(b)
           g == [r \in R |-> vs[r]]
<1>1. /\ DOMAIN points = 1 .. n /\ n \in Nat /\ IsFiniteSet(DOMAIN points)
      /\ \A i \in DOMAIN points : voxel_key(points[i]) \in Int
  BY SortingOrders
<1>2. /\ vs \in [1 .. n -> 1 .. n]
      /\ \A i \in 1 .. n : \E r \in 1 .. n : vs[r] = i
      /\ \A r, s \in 1 .. n : vs[r] = vs[s] => r = s
  BY <1>1, SortedOnce
<1>3. /\ Ascending(so, n)
      /\ \A r \in 1 .. n : so[r] = voxel_key(points[vs[r]])
  BY <1>1, SortedKeysOf
<1>4. INVALID_KEY \in Int /\ \A r \in 1 .. n : so[r] <= INVALID_KEY
  <2>1. Side \in Int /\ Side * Side \in Int
    BY SideType
  <2>2. INVALID_KEY \in Int
    BY <2>1 DEF INVALID_KEY
  <2>3. ASSUME NEW r \in 1 .. n PROVE so[r] <= INVALID_KEY
    <3>1. points[vs[r]] \in Int \X Int
      <4>1. vs[r] \in DOMAIN points
        BY <1>1, <1>2
      <4> HIDE DEF vs
      <4>2. QED
        BY <4>1 DEF IsCloud
    <3> DEFINE x == so[r]
    <3>2. x \in Int /\ (x = INVALID_KEY \/ x \in ValidKeys)
      BY <1>3, <3>1, KeyRange
    <3> HIDE DEF x
    <3>3. x \in ValidKeys => x <= INVALID_KEY
      BY <2>1 DEF ValidKeys, INVALID_KEY
    <3>4. QED
      BY <2>2, <3>2, <3>3 DEF x
  <2>4. QED
    BY <2>2, <2>3
<1> HIDE DEF so, n
<1>5. Extends(so, n, b)
  BY <1>3, <1>4, BucketExtent DEF so
<1>6. /\ first \in 1 .. n /\ past \in Int /\ first < past /\ past <= n + 1
      /\ \A r \in 1 .. n : r \in R <=> so[r] = k
  BY <1>5 DEF Extends
<1>7. Centroids(vs, so)[b] = Centroid(vs, first, past)
  <2>1. b \in DOMAIN Starts(so)
    BY DEF BucketKeys, so
  <2>2. QED
    BY <2>1 DEF Centroids
<1> HIDE DEF first, past, k
<1>8. R \subseteq 1 .. n /\ IsFiniteSet(R) /\ Cardinality(R) = past - first
  <2>1. first \in Int /\ past \in Int /\ 1 <= first /\ first < past /\ past <= n + 1 /\ n \in Nat
    BY <1>1, <1>6
  <2>2. past - 1 \in Int /\ ~(first > past - 1) /\ (past - 1) - first + 1 = past - first
    BY <2>1
  <2>3. IsFiniteSet(R) /\ Cardinality(R) = past - first
    BY <2>1, <2>2, FS_Interval
  <2>4. R \subseteq 1 .. n
    BY ONLY <2>1
  <2>5. QED
    BY <2>3, <2>4
<1> HIDE DEF R
<1>9. M = {i \in 1 .. n : voxel_key(points[i]) = k}
  BY <1>1 DEF Members, k, so
<1> HIDE DEF M
<1>10. g \in Bijection(R, M)
  <2>1. ASSUME NEW r \in R PROVE g[r] = vs[r] /\ vs[r] \in M
    BY <1>2, <1>3, <1>6, <1>8, <1>9
  <2>2. g \in [R -> M]
    BY <2>1
  <2>3. \A r, s \in R : g[r] = g[s] => r = s
    BY <1>2, <1>8, <2>1
  <2>4. ASSUME NEW i \in M PROVE \E r \in R : g[r] = i
    <3>1. PICK r \in 1 .. n : vs[r] = i
      BY <1>2, <1>9
    <3>2. r \in R
      BY <1>3, <1>6, <1>9, <3>1
    <3>3. QED
      BY <2>1, <3>1, <3>2
  <2> HIDE DEF g
  <2>5. QED
    BY <2>2, <2>3, <2>4 DEF Bijection, Injection, IsInjective, Surjection
<1>11. Cardinality(M) = past - first
  BY <1>8, <1>10, FS_Bijection DEF ExistsBijection
<1>12. ASSUME NEW a \in Axes
       PROVE  SumFunction([r \in R |-> points[vs[r]][a]]) = SumFunction([i \in M |-> points[i][a]])
  <2> DEFINE h == [r \in R |-> points[vs[r]][a]]
             f == [i \in M |-> points[i][a]]
  <2>1. \A i \in M : f[i] \in Int
    <3>1. \A i \in M : points[i] \in Int \X Int
      BY <1>1, <1>9 DEF IsCloud
    <3>2. QED
      BY <3>1 DEF Axes
  <2>2. \A r \in R : g[r] \in M /\ g[r] = vs[r] /\ h[r] = f[g[r]]
    <3>1. \A r \in R : g[r] \in M
      BY <1>10 DEF Bijection, Injection, Surjection
    <3>2. QED
      BY <3>1
  <2>3. DOMAIN h = R /\ DOMAIN f = M
    OBVIOUS
  <2> HIDE DEF h, f, g
  <2>4. SumFunctionOnSet(h, R) = SumFunctionOnSet(f, M)
    <3>1. \A r \in R : h[r] = f[g[r]]
      BY <2>2
    <3>2. SameSum(h, R, f, M)
      BY <1>8, <1>10, <2>1, <3>1, SumMapped
    <3>3. QED
      BY <3>2 DEF SameSum
  <2>5. SumFunction(h) = SumFunction(f)
    BY <2>3, <2>4 DEF SumFunction
  <2>6. QED
    BY <2>5 DEF h, f
<1>13. QED
  <2> DEFINE s(a) == SumFunction([i \in M |-> points[i][a]])
             c == Cardinality(M)
  <2>1. Centroid(vs, first, past) = <<s(1) \div c, s(2) \div c>>
    BY <1>11, <1>12 DEF Centroid, R, Axes
  <2>2. MeanOf(points, M) = [a \in Axes |-> s(a) \div c]
    BY DEF MeanOf
  <2> HIDE DEF s, c
  <2>3. <<s(1) \div c, s(2) \div c>> = [a \in Axes |-> s(a) \div c]
    BY DEF Axes
  <2>4. QED
    BY <1>7, <2>1, <2>2, <2>3 DEF M, so

\* What BucketsExact says of a cloud that stands for raw points.
Downsampled(ks, pts, cloud) ==
    /\ {ks[b] : b \in DOMAIN ks} = {voxel_key(cloud[i]) : i \in DOMAIN cloud} \ {INVALID_KEY}
    /\ \A b \in 2 .. Len(ks) : ks[b - 1] < ks[b]
    /\ \A b \in DOMAIN ks :
          LET members == {i \in DOMAIN cloud : voxel_key(cloud[i]) = ks[b]} IN
          pts[b] = MeanOf(cloud, members)

LEMMA BucketsDef ==
    /\ BucketsExact <=> (stage # "raw" => Downsampled(keys, points, raw))
    /\ BucketsExact' <=> (stage' # "raw" => Downsampled(keys', points', raw'))
<1>1. BucketsExact <=> (stage # "raw" => Downsampled(keys, points, raw))
  BY DEF BucketsExact, Downsampled, SumOf, MeanOf
<1>2. BucketsExact' <=> (stage' # "raw" => Downsampled(keys', points', raw'))
  BY DEF BucketsExact, Downsampled, SumOf, MeanOf
<1>3. QED
  BY <1>1, <1>2

\* Before the run the points are the raw ones; after it they are their means.
BucketInv == (stage = "raw" => points = raw) /\ BucketsExact

LEMMA BucketsOfRun ==
    ASSUME IndexInv, BucketInv, Run
    PROVE  BucketInv'
<1> DEFINE vs == SortedValues
           so == SortedKeys(vs)
           ks == BucketKeys(so)
<1>1. /\ stage = "raw" /\ stage' = "insert"
      /\ points' = Centroids(vs, so) /\ keys' = ks /\ raw' = raw
  BY DEF Run
<1>2. IsCloud(points) /\ points = raw
  BY <1>1 DEF IndexInv, Staged, BucketInv
<1>3. /\ ks \in Seq(ValidKeys)
      /\ \A b, c \in DOMAIN ks : b < c => ks[b] < ks[c]
      /\ {ks[b] : b \in DOMAIN ks} = {voxel_key(points[i]) : i \in DOMAIN points} \ {INVALID_KEY}
  BY <1>2, KeysOfRun
<1>4. \A b \in DOMAIN ks : Centroids(vs, so)[b] = MeanOf(points, Members(b))
  BY <1>2, CentroidOfMembers
<1>5. \A b \in DOMAIN ks : Members(b) = {i \in DOMAIN points : voxel_key(points[i]) = ks[b]}
  BY DEF Members
<1> HIDE DEF vs, so, ks
<1>6. \A b \in 2 .. Len(ks) : ks[b - 1] < ks[b]
  <2>1. Len(ks) \in Nat /\ DOMAIN ks = 1 .. Len(ks)
    BY <1>3
  <2>2. \A b \in 2 .. Len(ks) : b - 1 \in DOMAIN ks /\ b \in DOMAIN ks /\ b - 1 < b
    BY <2>1
  <2>3. QED
    BY <1>3, <2>2
<1>7. \A b \in DOMAIN ks : {i \in DOMAIN raw : voxel_key(raw[i]) = ks[b]} = Members(b)
  BY <1>2, <1>5
<1>8. Downsampled(ks, points', raw)
  BY <1>1, <1>2, <1>3, <1>4, <1>6, <1>7 DEF Downsampled
<1>9. QED
  BY <1>1, <1>8, BucketsDef DEF BucketInv

\* BucketsExact: once a cloud is downsampled it has one point per occupied voxel,
\* in the order of the keys: the mean of exactly the raw points of that voxel.
THEOREM BucketsExactHolds == CloudSpec => []BucketsExact
<1>1. InitCloud => BucketInv
  BY DEF InitCloud, BucketInv, BucketsExact
<1>2. IndexInv /\ BucketInv /\ [NextCloud]_cloudVars => BucketInv'
  <2> SUFFICES ASSUME IndexInv, BucketInv, [NextCloud]_cloudVars PROVE BucketInv'
    OBVIOUS
  <2>1. ASSUME UNCHANGED <<points, keys, raw>>, stage = "raw" <=> stage' = "raw" PROVE BucketInv'
    BY <2>1, BucketsDef DEF BucketInv
  <2>2. CASE Load
    BY <2>2 DEF Load, BucketInv, BucketsExact
  <2>3. CASE RunNothing
    <3>1. /\ stage = "raw" /\ stage' = "ready" /\ keys' = <<>> /\ raw' = raw
          /\ BucketKeys(SortedKeys(SortedValues)) = <<>>
      BY <2>3 DEF RunNothing
    <3>2. IsCloud(points) /\ points = raw
      BY <3>1 DEF IndexInv, Staged, BucketInv
    <3>3. {voxel_key(points[i]) : i \in DOMAIN points} \ {INVALID_KEY} = {}
      BY <3>1, <3>2, KeysOfRun
    <3>4. QED
      BY <3>1, <3>2, <3>3 DEF BucketInv, BucketsExact
  <2>4. CASE Run
    BY <2>4, BucketsOfRun
  <2>5. CASE \E i \in DOMAIN thread : ClaimSlot(i)
    BY <2>1, <2>5 DEF ClaimSlot
  <2>6. CASE \E i \in DOMAIN thread : StoreIndex(i)
    BY <2>1, <2>6 DEF StoreIndex
  <2>7. CASE IndexBuilt
    BY <2>1, <2>7 DEF IndexBuilt
  <2>8. CASE \E k \in Neighbors : EstimateCovariances(k)
    BY <2>1, <2>8 DEF EstimateCovariances
  <2>9. CASE UNCHANGED cloudVars
    BY <2>1, <2>9 DEF cloudVars
  <2>10. QED
    BY <2>2, <2>3, <2>4, <2>5, <2>6, <2>7, <2>8, <2>9 DEF NextCloud
<1>3. BucketInv => BucketsExact
  BY DEF BucketInv
<1>4. QED
  BY <1>1, <1>2, <1>3, IndexInvariance, PTL DEF CloudSpec

-----------------------------------------------------------------------------
(* Nearest neighbours.                                                     *)
-----------------------------------------------------------------------------
\* What is merged: candidates with their distances, in a total order.
Scored == [d2 : Nat, j : Nat]

LEMMA LexOrder ==
    /\ \A a \in Scored : ~lex_less(a, a) /\ a.d2 \in Nat /\ a.j \in Nat
    /\ \A a, b \in Scored : a # b => lex_less(a, b) \/ lex_less(b, a)
    /\ \A a, b \in Scored : lex_less(a, b) => ~lex_less(b, a) /\ a.d2 <= b.d2
    /\ \A a, b, c \in Scored : lex_less(a, b) /\ lex_less(b, c) => lex_less(a, c)
<1>1. \A a \in Scored : a.d2 \in Nat /\ a.j \in Nat
  BY DEF Scored
<1>2. ASSUME NEW a \in Scored, NEW b \in Scored, a # b PROVE lex_less(a, b) \/ lex_less(b, a)
  <2>1. a = [d2 |-> a.d2, j |-> a.j] /\ b = [d2 |-> b.d2, j |-> b.j]
    BY DEF Scored
  <2>2. a.d2 # b.d2 \/ a.j # b.j
    BY <1>2, <2>1
  <2>3. QED
    BY <1>1, <2>2 DEF lex_less
<1>3. QED
  BY <1>1, <1>2 DEF lex_less

\* The k best of a set, in order: of the others, each comes after all of them.
Best(top, S, k) ==
    /\ top \in Seq(S) /\ Len(top) <= k
    /\ \A i, j \in DOMAIN top : i < j => lex_less(top[i], top[j])
    /\ \A c \in S : \/ \E i \in DOMAIN top : top[i] = c
                    \/ Len(top) = k /\ \A i \in DOMAIN top : lex_less(top[i], c)

\* Merging a new candidate into the k best.
LEMMA MergeBest ==
    ASSUME NEW S, S \subseteq Scored, NEW c \in Scored, c \notin S, NEW k \in Nat \ {0},
           NEW top, Best(top, S, k)
    PROVE  Best(Merge(top, c, k), S \cup {c}, k)
<1> DEFINE n == Len(top)
           P == {r \in DOMAIN top : lex_less(c, top[r])} \cup {n + 1}
           p == Min(P)
           m == Min({n + 1, k})
           new == [r \in 1 .. m |-> IF r < p THEN top[r] ELSE IF r = p THEN c ELSE top[r - 1]]
           U == S \cup {c}
<1>1. /\ n = Len(top) /\ n \in Nat /\ DOMAIN top = 1 .. n /\ n <= k
      /\ \A r \in 1 .. n : top[r] \in S /\ top[r] \in Scored /\ top[r] # c
      /\ \A i, j \in 1 .. n : i < j => lex_less(top[i], top[j])
      /\ \A x \in S : (\E i \in 1 .. n : top[i] = x) \/ (n = k /\ \A i \in 1 .. n : lex_less(top[i], x))
  <2>1. top \in Seq(S) /\ n <= k
    BY DEF Best
  <2>2. n \in Nat /\ DOMAIN top = 1 .. n /\ \A r \in 1 .. n : top[r] \in S
    BY <2>1
  <2>3. QED
    BY <2>1, <2>2 DEF Best
<1>2. Merge(top, c, k) = IF n < k \/ lex_less(c, top[n]) THEN new ELSE top
  BY DEF Merge
<1> HIDE DEF n, P, m, p, new
<1>3. CASE ~(n < k \/ lex_less(c, top[n]))
  <2>1. n = k /\ n \in 1 .. n
    BY <1>1, <1>3
  <2>2. lex_less(top[n], c)
    BY <1>1, <1>3, <2>1, LexOrder
  <2>3. \A i \in 1 .. n : lex_less(top[i], c)
    BY <1>1, <2>1, <2>2, LexOrder
  <2>4. top \in Seq(U)
    BY DEF Best
  <2>5. QED
    BY <1>1, <1>2, <1>3, <2>1, <2>3, <2>4 DEF Best
<1>4. CASE n < k \/ lex_less(c, top[n])
  <2>1. p \in P /\ \A x \in P : p <= x
    <3>1. P \subseteq Nat /\ P # {}
      BY <1>1 DEF P

    <3>2. QED
      BY <3>1, LeastOf DEF p
  <2>2. m = IF n < k THEN n + 1 ELSE k
    <3>1. {n + 1, k} \subseteq Nat /\ {n + 1, k} # {}
      BY <1>1
    <3>2. m \in {n + 1, k} /\ \A x \in {n + 1, k} : m <= x
      BY <3>1, LeastOf DEF m

    <3>3. QED
      BY <1>1, <3>2
  <2>3. p \in 1 .. n + 1 /\ p \in Nat /\ p <= n + 1
    BY <1>1, <2>1 DEF P
  <2>4. \A r \in 1 .. n : r < p => lex_less(top[r], c)
    <3>1. ASSUME NEW r \in 1 .. n, r < p PROVE lex_less(top[r], c)
      <4>1. r \notin P
        BY <1>1, <2>1, <2>3, <3>1
      <4>2. ~lex_less(c, top[r])
        BY <1>1, <4>1 DEF P
      <4>3. QED
        BY <1>1, <4>2, LexOrder
    <3>2. QED
      BY <3>1
  <2>5. \A r \in 1 .. n : p <= r => lex_less(c, top[r])
    <3>1. ASSUME NEW r \in 1 .. n, p <= r PROVE lex_less(c, top[r])
      <4>1. p # n + 1 /\ p \in 1 .. n
        BY <1>1, <2>3, <3>1
      <4>2. lex_less(c, top[p])
        BY <1>1, <2>1, <4>1 DEF P
      <4>3. p = r \/ lex_less(top[p], top[r])
        BY <1>1, <3>1, <4>1
      <4>4. QED
        BY <1>1, <4>1, <4>2, <4>3, LexOrder
    <3>2. QED
      BY <3>1
  <2>6. p <= m /\ m \in Nat /\ (m = n + 1 \/ (m = n /\ n = k)) /\ m <= k
    <3>1. CASE n < k
      <4>1. m = n + 1
        BY <2>2, <3>1
      <4>2. n \in Nat /\ k \in Nat
        BY <1>1
      <4>3. QED
        BY <2>3, <3>1, <4>1, <4>2
    <3>2. CASE ~(n < k)
      <4>1. n = k /\ n \in 1 .. n /\ m = n
        BY <1>1, <2>2, <3>2
      <4>2. n \in P
        BY <1>1, <1>4, <3>2, <4>1 DEF P
      <4>3. QED
        BY <1>1, <2>1, <4>1, <4>2
    <3>3. QED
      BY <3>1, <3>2

  <2>7. \A r \in 1 .. m : /\ new[r] = IF r < p THEN top[r] ELSE IF r = p THEN c ELSE top[r - 1]
                          /\ r < p => r \in 1 .. n
                          /\ p < r => r - 1 \in 1 .. n /\ p <= r - 1
    BY <1>1, <2>3, <2>6 DEF new
  <2>8. \A r \in 1 .. m : new[r] \in U
    BY <1>1, <2>3, <2>7
  <2>9. new \in Seq(U) /\ Len(new) = m /\ DOMAIN new = 1 .. m
    BY <2>6, <2>8 DEF new
  <2>10. ASSUME NEW i \in 1 .. m, NEW j \in 1 .. m, i < j PROVE lex_less(new[i], new[j])
    <3>1. CASE j < p
      BY <1>1, <2>3, <2>7, <2>10, <3>1
    <3>2. CASE j = p
      BY <2>3, <2>4, <2>7, <2>10, <3>2
    <3>3. CASE p < j /\ i < p
      BY <1>1, <2>3, <2>7, <2>10, <3>3
    <3>4. CASE p < j /\ i = p
      BY <2>3, <2>5, <2>7, <2>10, <3>4
    <3>5. CASE p < j /\ p < i
      BY <1>1, <2>3, <2>7, <2>10, <3>5
    <3>6. QED
      BY <2>3, <3>1, <3>2, <3>3, <3>4, <3>5
  <2>11. ASSUME NEW x \in U
         PROVE  (\E i \in 1 .. m : new[i] = x) \/ (m = k /\ \A i \in 1 .. m : lex_less(new[i], x))
    <3>1. CASE x = c
      <4>1. p \in 1 .. m /\ new[p] = c
        BY <2>3, <2>6, <2>7
      <4>2. QED
        BY <3>1, <4>1
    <3>2. ASSUME NEW i \in 1 .. n, top[i] = x, i < p PROVE \E r \in 1 .. m : new[r] = x
      <4>1. i \in 1 .. m
        BY <1>1, <2>3, <2>6, <3>2
      <4>2. QED
        BY <2>7, <3>2, <4>1
    <3>3. ASSUME NEW i \in 1 .. n, top[i] = x, p <= i, i + 1 <= m PROVE \E r \in 1 .. m : new[r] = x
      <4>1. i + 1 \in 1 .. m /\ ~(i + 1 < p) /\ i + 1 # p /\ (i + 1) - 1 = i
        BY <1>1, <2>3, <2>6, <3>3
      <4>2. new[i + 1] = top[i]
        BY <2>7, <4>1
      <4>3. QED
        BY <3>3, <4>1, <4>2
    <3>4. ASSUME x \in Scored, m = n, n = k, lex_less(c, x), \A r \in 1 .. n : r = n \/ lex_less(top[r], x)
          PROVE  \A r \in 1 .. m : lex_less(new[r], x)
      <4>1. ASSUME NEW r \in 1 .. m PROVE lex_less(new[r], x)
        <5>1. CASE r < p
          BY <1>1, <2>3, <2>4, <2>6, <2>7, <3>4, <5>1, LexOrder
        <5>2. CASE r = p
          BY <2>7, <3>4, <5>2, <2>3
        <5>3. CASE p < r
          BY <1>1, <2>3, <2>6, <2>7, <3>4, <5>3
        <5>4. QED
          BY <2>3, <5>1, <5>2, <5>3
      <4>2. QED
        BY <4>1
    <3>5. ASSUME NEW i \in 1 .. n, top[i] = x, p <= i, ~(i + 1 <= m)
          PROVE  m = k /\ \A r \in 1 .. m : lex_less(new[r], x)
      <4>1. m = n /\ n = k /\ i = n
        BY <1>1, <2>6, <3>5
      <4>2. lex_less(c, x)
        BY <2>5, <3>5
      <4>3. \A r \in 1 .. n : r = n \/ lex_less(top[r], x)
        BY <1>1, <3>5, <4>1
      <4>4. QED
        BY <1>1, <3>4, <3>5, <4>1, <4>2, <4>3
    <3>6. ASSUME x \in S, n = k, \A i \in 1 .. n : lex_less(top[i], x)
          PROVE  m = k /\ \A r \in 1 .. m : lex_less(new[r], x)
      <4>1. m = n /\ n \in 1 .. n
        BY <1>1, <2>2, <2>6, <3>6
      <4>2. lex_less(c, top[n])
        BY <1>1, <1>4, <3>6
      <4>3. x \in Scored /\ lex_less(c, x)
        BY <1>1, <3>6, <4>1, <4>2, LexOrder
      <4>4. QED
        BY <3>4, <3>6, <4>1, <4>3
    <3>7. QED
      <4>1. CASE x \in S
        <5>1. CASE \E i \in 1 .. n : top[i] = x
          <6>1. PICK i \in 1 .. n : top[i] = x
            BY <5>1
          <6>2. i < p \/ p <= i
            BY <2>3
          <6>3. QED
            BY <3>2, <3>3, <3>5, <6>1, <6>2
        <5>2. QED
          BY <1>1, <3>6, <4>1, <5>1
      <4>2. QED
        BY <3>1, <4>1
  <2>12. Best(new, U, k)
    BY <2>6, <2>9, <2>10, <2>11 DEF Best
  <2>13. QED
    BY <1>2, <1>4, <2>12
<1>5. QED
  BY <1>3, <1>4

\* The values s[0], s[1], ... of the state of a loop whose step t is f[t], and
\* steps that lead from one of the sets G[0], G[1], ... to the next.
IsCourse(s, n, base, f) == s = [t \in 0 .. n |-> IF t = 0 THEN base ELSE f[t][s[t - 1]]]
Leads(n, G, f) == \A t \in 1 .. n : \A x \in G[t - 1] : f[t][x] \in G[t]

LEMMA LoopLeads ==
    ASSUME NEW n \in Nat, NEW G, NEW base \in G[0], NEW f, Leads(n, G, f)
    PROVE  \E s : IsCourse(s, n, base, f) /\ \A t \in 0 .. n : s[t] \in G[t]
<1> DEFINE Upto(s, m) == IsCourse(s, m, base, f) /\ \A t \in 0 .. m : s[t] \in G[t]
           Bad == {m \in Nat : m <= n /\ ~ \E s : Upto(s, m)}
<1>1. Bad = {}
  <2> SUFFICES ASSUME Bad # {} PROVE FALSE
    OBVIOUS
  <2>1. PICK m \in Bad : \A l \in Bad : m <= l
    BY LeastNat
  <2>2. m \in Nat /\ m <= n /\ ~ \E s : Upto(s, m)
    OBVIOUS
  <2>3. CASE m = 0
    <3> DEFINE s == [t \in 0 .. 0 |-> base]
    <3>1. s = [t \in 0 .. 0 |-> IF t = 0 THEN base ELSE f[t][s[t - 1]]] /\ s[0] \in G[0]
      OBVIOUS
    <3>2. Upto(s, 0)
      BY <3>1 DEF IsCourse
    <3>3. QED
      BY <2>2, <2>3, <3>2
  <2>4. CASE m # 0
    <3>1. m - 1 \in Nat /\ m - 1 <= n /\ m - 1 \notin Bad
      BY <2>1, <2>2, <2>4
    <3>2. PICK s : Upto(s, m - 1)
      BY <3>1
    <3>3. /\ s = [t \in 0 .. m - 1 |-> IF t = 0 THEN base ELSE f[t][s[t - 1]]]
          /\ \A t \in 0 .. m - 1 : s[t] \in G[t]
      BY <3>2 DEF IsCourse
    <3> DEFINE u == [t \in 0 .. m |-> IF t = m THEN f[m][s[m - 1]] ELSE s[t]]
    <3>4. m \in 1 .. n /\ m - 1 \in 0 .. m - 1
      BY <2>2, <2>4
    <3>5. u[m] = f[m][s[m - 1]] /\ u[m] \in G[m]
      BY <3>3, <3>4 DEF Leads
    <3>6. \A t \in 0 .. m - 1 : u[t] = s[t]
      BY <3>4
    <3>7. DOMAIN u = 0 .. m /\ u = [t \in 0 .. m |-> u[t]]
      OBVIOUS
    <3> HIDE DEF u, Bad
    <3>8. ASSUME NEW t \in 0 .. m
          PROVE  u[t] = (IF t = 0 THEN base ELSE f[t][u[t - 1]]) /\ u[t] \in G[t]
      <4>1. CASE t = m
        <5>1. u[t - 1] = s[m - 1] /\ t # 0
          BY <2>4, <3>4, <3>6, <4>1
        <5>2. QED
          BY <3>5, <4>1, <5>1
      <4>2. CASE t # m
        <5>1. t \in 0 .. m - 1 /\ (t # 0 => t - 1 \in 0 .. m - 1)
          BY <2>2, <4>2
        <5>2. u[t] = s[t] /\ (t # 0 => u[t - 1] = s[t - 1])
          BY <3>6, <5>1
        <5>3. s[t] = (IF t = 0 THEN base ELSE f[t][s[t - 1]]) /\ s[t] \in G[t]
          BY <3>3, <5>1
        <5>4. QED
          BY <5>2, <5>3
      <4>3. QED
        BY <4>1, <4>2
    <3>9. u = [t \in 0 .. m |-> IF t = 0 THEN base ELSE f[t][u[t - 1]]]
      BY <3>7, <3>8
    <3>10. Upto(u, m)
      BY <3>8, <3>9 DEF IsCourse
    <3>11. QED
      BY <2>2, <3>10
  <2>5. QED
    BY <2>3, <2>4
<1>2. QED
  BY <1>1

LEMMA LoopEnds ==
    ASSUME NEW n \in Nat, NEW G, NEW s, s[0] \in G[0],
           \A t \in 1 .. n : s[t - 1] \in G[t - 1] => s[t] \in G[t]
    PROVE  s[n] \in G[n]
<1> DEFINE Bad == {m \in Nat : m <= n /\ s[m] \notin G[m]}
<1> SUFFICES ASSUME Bad # {} PROVE FALSE
  OBVIOUS
<1>1. PICK m \in Bad : \A l \in Bad : m <= l
  BY LeastNat
<1>2. m \in Nat /\ m <= n /\ s[m] \notin G[m]
  OBVIOUS
<1>3. m \in 1 .. n /\ m - 1 \in Nat
  BY <1>2
<1>4. m - 1 \notin Bad
  BY <1>1, <1>3
<1>5. s[m - 1] \in G[m - 1]
  BY <1>3, <1>4
<1>6. QED
  BY <1>2, <1>3, <1>5

-----------------------------------------------------------------------------
LEMMA LexLeast ==
    ASSUME NEW R, R \subseteq Scored, R # {}
    PROVE  \E c \in R : \A x \in R \ {c} : lex_less(c, x)
<1> DEFINE ds == {x.d2 : x \in R}
<1>1. \A x \in R : x \in Scored /\ x.d2 \in Nat /\ x.j \in Nat
  BY LexOrder
<1>2. ds \subseteq Nat /\ ds # {}
  BY <1>1
<1>3. PICK d \in ds : \A e \in ds : d <= e
  BY <1>2, LeastNat
<1> DEFINE js == {x.j : x \in {y \in R : y.d2 = d}}
<1>4. js \subseteq Nat /\ js # {}
  BY <1>1
<1>5. PICK j \in js : \A i \in js : j <= i
  BY <1>4, LeastNat
<1>6. PICK c \in R : c.d2 = d /\ c.j = j
  OBVIOUS
<1>7. ASSUME NEW x \in R \ {c} PROVE lex_less(c, x)
  <2>1. d <= x.d2 /\ x.d2 \in Nat /\ d \in Nat
    BY <1>1, <1>2, <1>3
  <2>2. x.d2 = d => j <= x.j
    BY <1>5
  <2>3. ~lex_less(x, c)
    BY <1>1, <1>6, <2>1, <2>2 DEF lex_less
  <2>4. QED
    BY <1>1, <2>3, LexOrder
<1>8. QED
  BY <1>7

\* The rounds of selection by force.
After(all, top) == {c \in all : top = <<>> \/ lex_less(Last(top), c)}
Least(R) == CHOOSE c \in R : \A x \in R \ {c} : lex_less(c, x)
Round(all, top) == IF After(all, top) = {} THEN top ELSE Append(top, Least(After(all, top)))
Select(all, k) ==
    CHOOSE s : s = [r \in 0 .. k |-> IF r = 0 THEN <<>> ELSE Round(all, s[r - 1])]
AllOf(q) == {Candidate(q, j) : j \in DOMAIN points}

LEMMA ForceIs ==
    ASSUME NEW q, NEW k
    PROVE  LET top == Select(AllOf(q), k)[k] IN SelectByForce(q, k) = [r \in DOMAIN top |-> top[r].j]
BY DEF SelectByForce, Select, Round, Least, After, AllOf

\* A round appends the next best.
LEMMA RoundBest ==
    ASSUME NEW all, all \subseteq Scored, NEW r \in Nat, NEW top, Best(top, all, r)
    PROVE  Best(Round(all, top), all, r + 1)
<1> DEFINE n == Len(top)
           rest == After(all, top)
           c == Least(rest)
<1>1. /\ n = Len(top) /\ n \in Nat /\ DOMAIN top = 1 .. n /\ n <= r /\ top \in Seq(all)
      /\ \A i \in 1 .. n : top[i] \in all /\ top[i] \in Scored
      /\ \A i, j \in 1 .. n : i < j => lex_less(top[i], top[j])
      /\ \A x \in all : (\E i \in 1 .. n : top[i] = x) \/ (n = r /\ \A i \in 1 .. n : lex_less(top[i], x))
  <2>1. top \in Seq(all) /\ n <= r
    BY DEF Best
  <2>2. n \in Nat /\ DOMAIN top = 1 .. n /\ \A i \in 1 .. n : top[i] \in all
    BY <2>1
  <2>3. QED
    BY <2>1, <2>2 DEF Best
<1>a. n = 0 <=> top = <<>>
  <2>1. top \in Seq(all)
    BY DEF Best
  <2>2. QED
    BY <2>1, EmptySeq
<1>b. rest = {x \in all : n = 0 \/ lex_less(top[n], x)}
  BY <1>1, <1>a DEF After, Last
<1>2. \A x \in rest : x \in all /\ x \in Scored /\ (n # 0 => lex_less(top[n], x))
  BY <1>b
<1>3. \A x \in all : x \notin rest => n # 0 /\ ~lex_less(top[n], x)
  BY <1>b
<1> HIDE DEF n, rest, c
\* An element that comes after the last is none of them.
<1>4. ASSUME NEW x \in rest PROVE n = r /\ \A i \in 1 .. n : lex_less(top[i], x)
  <2>1. ASSUME NEW i \in 1 .. n PROVE lex_less(top[i], x)
    <3>1. n # 0 /\ n \in 1 .. n /\ (i = n \/ i < n)
      BY <1>1, <2>1
    <3>2. lex_less(top[n], x) /\ (i = n \/ lex_less(top[i], top[n]))
      BY <1>1, <1>2, <3>1
    <3>3. QED
      BY <1>1, <1>2, <3>1, <3>2, LexOrder
  <2>2. \A i \in 1 .. n : top[i] # x
    BY <1>2, <2>1, LexOrder
  <2>3. QED
    BY <1>1, <1>2, <2>1, <2>2
<1>5. ASSUME NEW x \in all, x \notin rest PROVE \E i \in 1 .. n : top[i] = x
  <2>1. n # 0 /\ n \in 1 .. n /\ ~lex_less(top[n], x)
    BY <1>1, <1>3, <1>5
  <2>2. QED
    BY <1>1, <2>1
<1>6. CASE rest = {}
  <2>1. Round(all, top) = top
    BY <1>6 DEF Round, rest
  <2>2. \A x \in all : \E i \in 1 .. n : top[i] = x
    BY <1>5, <1>6
  <2>3. n <= r + 1
    BY <1>1
  <2>4. QED
    BY <1>1, <2>1, <2>2, <2>3 DEF Best
<1>7. CASE rest # {}
  <2> DEFINE new == Append(top, c)
  <2>1. Round(all, top) = new
    BY <1>7 DEF Round, rest, c
  <2>2. c \in rest /\ \A x \in rest \ {c} : lex_less(c, x)
    <3>1. rest \subseteq Scored
      BY <1>2
    <3>2. \E b \in rest : \A x \in rest \ {b} : lex_less(b, x)
      BY <1>7, <3>1, LexLeast
    <3>3. QED
      BY <3>2 DEF c, Least
  <2>3. c \in all /\ n = r /\ \A i \in 1 .. n : lex_less(top[i], c)
    BY <1>2, <1>4, <2>2
  <2>4. /\ new \in Seq(all) /\ Len(new) = n + 1 /\ DOMAIN new = 1 .. n + 1
        /\ new[n + 1] = c /\ \A i \in 1 .. n : new[i] = top[i]
    BY <1>1, <2>3
  <2> HIDE DEF new
  <2>5. ASSUME NEW i \in 1 .. n + 1, NEW j \in 1 .. n + 1, i < j PROVE lex_less(new[i], new[j])
    <3>1. i \in 1 .. n /\ (j = n + 1 \/ j \in 1 .. n)
      BY <1>1, <2>5
    <3>2. QED
      BY <1>1, <2>3, <2>4, <2>5, <3>1
  <2>6. ASSUME NEW x \in all
        PROVE  (\E i \in 1 .. n + 1 : new[i] = x) \/ (n + 1 = r + 1 /\ \A i \in 1 .. n + 1 : lex_less(new[i], x))
    <3>1. n + 1 \in 1 .. n + 1 /\ \A i \in 1 .. n : i \in 1 .. n + 1
      BY <1>1
    <3>2. CASE x \notin rest
      <4>1. PICK i \in 1 .. n : top[i] = x
        BY <1>5, <3>2
      <4>2. QED
        BY <2>4, <3>1, <4>1
    <3>3. CASE x = c
      BY <2>4, <3>1, <3>3
    <3>4. CASE x \in rest \ {c}
      <4>1. \A i \in 1 .. n : lex_less(top[i], x)
        BY <1>4, <3>4
      <4>2. lex_less(c, x)
        BY <2>2, <3>4
      <4>3. \A i \in 1 .. n + 1 : i \in 1 .. n \/ i = n + 1
        BY <1>1
      <4>4. QED
        BY <2>3, <2>4, <4>1, <4>2, <4>3
    <3>5. QED
      BY <3>2, <3>3, <3>4
  <2>7. n + 1 <= r + 1
    BY <1>1
  <2>8. QED
    BY <2>1, <2>4, <2>5, <2>6, <2>7 DEF Best
<1>8. QED
  BY <1>6, <1>7

LEMMA SelectBest ==
    ASSUME NEW all, all \subseteq Scored, NEW k \in Nat
    PROVE  Best(Select(all, k)[k], all, k)
<1> DEFINE G == [r \in 0 .. k |-> {top \in Seq(all) : Best(top, all, r)}]
           f == [r \in 1 .. k |-> [top \in G[r - 1] |-> Round(all, top)]]
           s == Select(all, k)
<1>1. <<>> \in G[0]
  BY DEF Best
<1>2. ASSUME NEW r \in 1 .. k, NEW top \in G[r - 1]
      PROVE  f[r][top] = Round(all, top) /\ Round(all, top) \in G[r]
  <2>1. r - 1 \in 0 .. k /\ r - 1 \in Nat /\ (r - 1) + 1 = r /\ r \in 0 .. k
    OBVIOUS
  <2>2. Best(top, all, r - 1)
    BY <2>1
  <2>3. Best(Round(all, top), all, r)
    BY <2>1, <2>2, RoundBest
  <2>4. Round(all, top) \in Seq(all)
    BY <2>3 DEF Best
  <2>5. QED
    BY <2>1, <2>3, <2>4
<1> HIDE DEF G, f
<1>3. PICK u : IsCourse(u, k, <<>>, f) /\ \A t \in 0 .. k : u[t] \in G[t]
  <2>1. Leads(k, G, f)
    BY <1>2 DEF Leads
  <2>2. QED
    BY <1>1, <2>1, LoopLeads
<1>4. u = [r \in 0 .. k |-> IF r = 0 THEN <<>> ELSE Round(all, u[r - 1])]
  <2>1. u = [r \in 0 .. k |-> IF r = 0 THEN <<>> ELSE f[r][u[r - 1]]]
    BY <1>3 DEF IsCourse
  <2>2. ASSUME NEW r \in 0 .. k, r # 0 PROVE f[r][u[r - 1]] = Round(all, u[r - 1])
    <3>1. r \in 1 .. k /\ r - 1 \in 0 .. k
      BY <2>2
    <3>2. QED
      BY <1>2, <1>3, <3>1
  <2>3. QED
    BY <2>1, <2>2
<1>5. s = [r \in 0 .. k |-> IF r = 0 THEN <<>> ELSE Round(all, s[r - 1])]
  BY <1>4 DEF Select
<1> HIDE DEF s
<1>6. s[0] \in G[0]
  BY <1>1, <1>5
<1>7. ASSUME NEW r \in 1 .. k, s[r - 1] \in G[r - 1] PROVE s[r] \in G[r]
  <2>1. r \in 0 .. k /\ r # 0
    OBVIOUS
  <2>2. s[r] = Round(all, s[r - 1])
    BY <1>5, <2>1
  <2>3. QED
    BY <1>2, <1>7, <2>2
<1>8. s[k] \in G[k]
  BY <1>6, <1>7, LoopEnds
<1>9. QED
  BY <1>8 DEF G, s

\* The coordinates of a key, up to the range of coordinates.
LEMMA CoordKey ==
    ASSUME NEW c \in Int \X Int
    PROVE  /\ coord_key(c) \in ValidKeys
           /\ coord_key(c) % Side = (c[1] + COORD_OFFSET) % Side
           /\ coord_key(c) \div Side = (c[2] + COORD_OFFSET) % Side
<1> DEFINE u == c[1] + COORD_OFFSET
           v == c[2] + COORD_OFFSET
           x == u % Side
           y == v % Side
           key == coord_key(c)
<1>1. Side \in Nat \ {0} /\ u \in Int /\ v \in Int
  BY SideType
<1>2. key = x + Side * y
  BY DEF coord_key
<1>3. x \in 0 .. Side - 1 /\ y \in 0 .. Side - 1
  <2> HIDE DEF u, v
  <2>1. QED
    BY <1>1, DivMod
<1> HIDE DEF x, y, key
<1>4. Side * y >= 0 /\ Side * y \in Int /\ Side * Side \in Int
  BY <1>1, <1>3
<1>5. Side * Side >= Side * y + Side
  <2>1. y \in Int /\ Side \in Int /\ y < Side
    BY <1>1, <1>3
  <2>2. QED
    BY <1>1, <2>1, Apart
<1>6. key \in ValidKeys
  BY <1>1, <1>2, <1>3, <1>4, <1>5 DEF ValidKeys
<1>7. key % Side = x /\ key \div Side = y
  <2>1. key \in Int /\ y \in Int
    BY <1>1, <1>2, <1>3, <1>4
  <2>2. QED
    BY <1>1, <1>2, <1>3, <2>1, Digits
<1>8. QED
  BY <1>6, <1>7 DEF x, y, key

\* Coordinates that differ by less than the range have different remainders.
LEMMA RemaindersApart ==
    ASSUME NEW s \in Nat \ {0}, NEW x \in Int, NEW y \in Int, x - y < s, y - x < s, x % s = y % s
    PROVE  x = y
<1> DEFINE d == x \div s
           e == y \div s
           m == x % s
<1>1. d \in Int /\ e \in Int /\ m \in 0 .. s - 1 /\ x = s * d + m /\ y = s * e + m
  BY DivMod
<1> HIDE DEF d, e, m
<1>2. s * d \in Int /\ s * e \in Int
  BY <1>1
<1>3. d < e => s * e >= s * d + s
  BY <1>1, Apart
<1>4. e < d => s * d >= s * e + s
  BY <1>1, Apart
<1>5. ~(d < e) /\ ~(e < d)
  BY <1>1, <1>2, <1>3, <1>4
<1>6. d = e
  BY <1>1, <1>5
<1>7. QED
  BY <1>1, <1>6

-----------------------------------------------------------------------------
\* The points are in the voxels of their keys, and a lookup finds them.
Preprocessed ==
    /\ IsKeyList(keys)
    /\ DOMAIN points = DOMAIN keys
    /\ \A b \in DOMAIN keys : points[b] \in Int \X Int /\ voxel_key(points[b]) = keys[b]
    /\ \A key \in ValidKeys :
          hash_lookup(table, key) = IF \E b \in DOMAIN keys : keys[b] = key
                                    THEN CHOOSE b \in DOMAIN keys : keys[b] = key
                                    ELSE -1

Home(q) == key_coord(keys[q])
KeyAt(q, o) == coord_key(Moved(Home(q), o))

LEMMA PreprocessedType ==
    ASSUME Preprocessed
    PROVE  /\ Len(keys) \in Nat /\ DOMAIN keys = 1 .. Len(keys) /\ DOMAIN points = 1 .. Len(keys)
           /\ \A b, c \in DOMAIN keys : keys[b] = keys[c] => b = c
           /\ \A b \in DOMAIN keys :
                 /\ b \in Nat /\ points[b] \in Int \X Int
                 /\ voxel_key(points[b]) = keys[b] /\ keys[b] \in ValidKeys
                 /\ keys[b] # INVALID_KEY
           /\ \A b, c \in DOMAIN keys : points[b] = points[c] => b = c
<1>1. /\ Len(keys) \in Nat /\ DOMAIN keys = 1 .. Len(keys) /\ keys \in [1 .. Len(keys) -> ValidKeys]
      /\ \A b, c \in DOMAIN keys : keys[b] = keys[c] => b = c
  BY KeyList DEF Preprocessed
<1>2. \A x \in ValidKeys : x # INVALID_KEY
  <2>1. Side * Side \in Nat
    BY SideType
  <2>2. QED
    BY <2>1 DEF ValidKeys, INVALID_KEY
<1>3. QED
  BY <1>1, <1>2 DEF Preprocessed

LEMMA HomeIs ==
    ASSUME Preprocessed, NEW q \in DOMAIN keys
    PROVE  /\ Home(q) = <<Voxel(points[q])[1], Voxel(points[q])[2]>>
           /\ Home(q) \in Int \X Int
           /\ \A o \in Int \X Int : Moved(Home(q), o) \in Int \X Int /\ KeyAt(q, o) \in ValidKeys
<1>1. points[q] \in Int \X Int /\ voxel_key(points[q]) = keys[q] /\ voxel_key(points[q]) # INVALID_KEY
  BY PreprocessedType
<1>2. Home(q) = <<Voxel(points[q])[1], Voxel(points[q])[2]>>
  BY <1>1, KeyParts DEF Home
<1>3. Voxel(points[q])[1] \in Int /\ Voxel(points[q])[2] \in Int
  BY <1>1, VoxelParts DEF Axes
<1>4. \A o \in Int \X Int : Moved(Home(q), o) \in Int \X Int
  BY <1>2, <1>3 DEF Moved
<1>5. QED
  BY <1>2, <1>3, <1>4, CoordKey DEF KeyAt

\* No voxel is met twice in a cube that is not larger than the range.
LEMMA KeysApart ==
    ASSUME Preprocessed, NEW q \in DOMAIN keys, NEW s \in 0 .. MaxShell,
           NEW o \in Cube(s), NEW p \in Cube(s), KeyAt(q, o) = KeyAt(q, p)
    PROVE  o = p
<1> DEFINE h == Home(q)
<1>1. h \in Int \X Int /\ Moved(h, o) \in Int \X Int /\ Moved(h, p) \in Int \X Int
  <2>1. o \in Int \X Int /\ p \in Int \X Int
    BY ShellAssumption DEF Cube
  <2>2. QED
    BY <2>1, HomeIs
<1>2. /\ h[1] \in Int /\ h[2] \in Int /\ COORD_OFFSET \in Int /\ Side \in Nat \ {0}
      /\ 2 * s + 1 <= Side /\ s \in Nat
  BY <1>1, SideType, ShellAssumption
<1>3. /\ o[1] \in -s .. s /\ o[2] \in -s .. s /\ o = <<o[1], o[2]>>
      /\ p[1] \in -s .. s /\ p[2] \in -s .. s /\ p = <<p[1], p[2]>>
  BY DEF Cube
<1>4. /\ Moved(h, o)[1] = h[1] + o[1] /\ Moved(h, o)[2] = h[2] + o[2]
      /\ Moved(h, p)[1] = h[1] + p[1] /\ Moved(h, p)[2] = h[2] + p[2]
  BY DEF Moved
<1>5. /\ (h[1] + o[1] + COORD_OFFSET) % Side = (h[1] + p[1] + COORD_OFFSET) % Side
      /\ (h[2] + o[2] + COORD_OFFSET) % Side = (h[2] + p[2] + COORD_OFFSET) % Side
  <2>1. coord_key(Moved(h, o)) = coord_key(Moved(h, p))
    BY DEF KeyAt
  <2> HIDE DEF h
  <2>2. /\ (Moved(h, o)[1] + COORD_OFFSET) % Side = (Moved(h, p)[1] + COORD_OFFSET) % Side
        /\ (Moved(h, o)[2] + COORD_OFFSET) % Side = (Moved(h, p)[2] + COORD_OFFSET) % Side
    BY <1>1, <2>1, CoordKey
  <2>3. QED
    BY <1>4, <2>2
<1> HIDE DEF h
<1>6. ASSUME NEW c \in Int, NEW a \in -s .. s, NEW b \in -s .. s,
             (c + a + COORD_OFFSET) % Side = (c + b + COORD_OFFSET) % Side
      PROVE  a = b
  <2> DEFINE x == c + a + COORD_OFFSET
             y == c + b + COORD_OFFSET
  <2>1. x \in Int /\ y \in Int /\ x - y < Side /\ y - x < Side
    BY <1>2
  <2>2. x = y => a = b
    BY <1>2
  <2>3. x % Side = y % Side
    BY <1>6
  <2> HIDE DEF x, y
  <2>4. x = y
    BY <1>2, <2>1, <2>3, RemaindersApart
  <2>5. QED
    BY <2>2, <2>4
<1>7. o[1] = p[1] /\ o[2] = p[2]
  BY <1>2, <1>3, <1>5, <1>6
<1>8. QED
  BY <1>3, <1>7

\* What is in the voxel at an offset.
LEMMA PointAtIs ==
    ASSUME Preprocessed, NEW q \in DOMAIN keys, NEW o \in Int \X Int
    PROVE  /\ \A b \in DOMAIN keys : keys[b] = KeyAt(q, o) => PointAt(q, o) = b
           /\ PointAt(q, o) >= 0 => PointAt(q, o) \in DOMAIN keys /\ keys[PointAt(q, o)] = KeyAt(q, o)
<1> DEFINE key == KeyAt(q, o)
           found_at == PointAt(q, o)
<1>1. key \in ValidKeys
  BY HomeIs
<1>2. found_at = hash_lookup(table, key)
  BY DEF PointAt, KeyAt, Home
<1> HIDE DEF key, found_at
<1>3. found_at = IF \E b \in DOMAIN keys : keys[b] = key
                 THEN CHOOSE b \in DOMAIN keys : keys[b] = key ELSE -1
  BY <1>1, <1>2 DEF Preprocessed
<1>4. \A b, c \in DOMAIN keys : keys[b] = keys[c] => b = c
  BY PreprocessedType
<1>5. \A b \in DOMAIN keys : keys[b] = key => found_at = b
  BY <1>3, <1>4
<1>6. ~(-1 >= 0)
  OBVIOUS
<1>7. found_at >= 0 => found_at \in DOMAIN keys /\ keys[found_at] = key
  BY <1>3, <1>6
<1>8. QED
  BY <1>5, <1>7 DEF key, found_at

-----------------------------------------------------------------------------
\* The cube's voxels are visited once each.
LEMMA OffsetOnce ==
    ASSUME NEW s \in Nat, NEW t \in 1 .. CubeSize(s)
    PROVE  /\ NthOffset(t, s) \in Int \X Int
           /\ \A u \in 1 .. CubeSize(s) : NthOffset(t, s) = NthOffset(u, s) => t = u
<1> DEFINE k == 2 * s + 1
           n == CubeSize(s)
<1>1. k \in Nat \ {0} /\ n \in Nat
  BY CubeCovered
<1>2. \A u \in 1 .. n : NthOffset(u, s) = <<((u - 1) \div k) - s, ((u - 1) % k) - s>>
  BY DEF NthOffset
<1> HIDE DEF k, n
<1>3. ASSUME NEW u \in 1 .. n
      PROVE  /\ u - 1 \in Int /\ (u - 1) \div k \in Int /\ (u - 1) % k \in Int
             /\ u - 1 = k * ((u - 1) \div k) + ((u - 1) % k)
  <2> DEFINE x == u - 1
  <2>1. x \in Int
    BY <1>1
  <2> HIDE DEF x
  <2>2. x \div k \in Int /\ x % k \in 0 .. k - 1 /\ x = k * (x \div k) + (x % k)
    BY <1>1, <2>1, DivMod
  <2>3. x % k \in Int
    BY <1>1, <2>2
  <2>4. QED
    BY <2>1, <2>2, <2>3 DEF x
<1>4. t \in 1 .. n
  BY DEF n
<1>5. NthOffset(t, s) \in Int \X Int
  BY <1>2, <1>3, <1>4
<1>6. ASSUME NEW u \in 1 .. n, NthOffset(t, s) = NthOffset(u, s) PROVE t = u
  <2> DEFINE d == (t - 1) \div k
             m == (t - 1) % k
             e == (u - 1) \div k
             l == (u - 1) % k
  <2>1. d - s = e - s /\ m - s = l - s
    BY <1>2, <1>4, <1>6
  <2>2. d \in Int /\ m \in Int /\ e \in Int /\ l \in Int /\ t - 1 = k * d + m /\ u - 1 = k * e + l
    BY <1>3, <1>4
  <2> HIDE DEF d, m, e, l
  <2>3. d = e /\ m = l
    BY <2>1, <2>2
  <2>4. t - 1 = u - 1
    BY <2>2, <2>3
  <2>5. QED
    BY <1>1, <1>4, <2>4
<1>7. QED
  BY <1>5, <1>6 DEF n

LEMMA Shells ==
    ASSUME NEW s \in Nat, NEW o \in Int \X Int
    PROVE  /\ o \in Cube(s) <=> ShellOf(o) = s \/ o \in Cube(s - 1)
           /\ o \in Cube(s - 1) => ShellOf(o) # s
           /\ Cube(-1) = {}
<1>1. o[1] \in Int /\ o[2] \in Int /\ o = <<o[1], o[2]>>
  OBVIOUS
<1>2. \A r \in Int : o \in Cube(r) <=> o[1] \in -r .. r /\ o[2] \in -r .. r
  BY <1>1 DEF Cube
<1>3. o \in Cube(s) <=> ShellOf(o) = s \/ o \in Cube(s - 1)
  BY <1>1, <1>2 DEF ShellOf, Abs
<1>4. o \in Cube(s - 1) => ShellOf(o) # s
  BY <1>1, <1>2 DEF ShellOf, Abs
<1>5. \A r \in Int : r < 0 => Cube(r) = {}
  <2>1. \A r \in Int : r < 0 => (-r .. r) = {}
    OBVIOUS
  <2>2. QED
    BY <2>1 DEF Cube
<1>6. Cube(-1) = {}
  BY <1>5
<1>7. QED
  BY <1>3, <1>4, <1>6

\* The points in a cube of voxels, and those met after t of the voxels of shell s.
Reached(q, s) == {j \in DOMAIN keys : \E o \in Cube(s) : keys[j] = KeyAt(q, o)}
Met(q, s, t) ==
    Reached(q, s - 1) \cup
    {j \in DOMAIN keys :
        \E u \in 1 .. t : ShellOf(NthOffset(u, s)) = s /\ keys[j] = KeyAt(q, NthOffset(u, s))}
Scores(q, J) == {Candidate(q, j) : j \in J}

ScanStep(q, s, k, t, top) ==
    IF ShellOf(NthOffset(t, s)) = s /\ PointAt(q, NthOffset(t, s)) >= 0
    THEN Merge(top, Candidate(q, PointAt(q, NthOffset(t, s))), k)
    ELSE top
Scan(q, top, s, k) ==
    CHOOSE w : w = [t \in 0 .. CubeSize(s) |->
        IF t = 0 THEN top ELSE ScanStep(q, s, k, t, w[t - 1])]

LEMMA ScanIs ==
    ASSUME NEW q, NEW top, NEW s, NEW k
    PROVE  ScanShell(q, top, s, k) = Scan(q, top, s, k)[CubeSize(s)]
BY DEF ScanShell, Scan, ScanStep

LEMMA CandidateType ==
    ASSUME Preprocessed, NEW q \in DOMAIN keys
    PROVE  /\ \A j \in DOMAIN keys :
                 /\ Candidate(q, j) \in Scored
                 /\ Candidate(q, j).j = j /\ Candidate(q, j).d2 = SqDist(points[q], points[j])
           /\ \A J \in SUBSET (DOMAIN keys) : Scores(q, J) \subseteq Scored
           /\ \A J \in SUBSET (DOMAIN keys) : \A j \in DOMAIN keys : Candidate(q, j) \in Scores(q, J) <=> j \in J
<1>1. ASSUME NEW j \in DOMAIN keys
      PROVE  /\ Candidate(q, j) \in Scored
             /\ Candidate(q, j).j = j /\ Candidate(q, j).d2 = SqDist(points[q], points[j])
  <2>1. SqDist(points[q], points[j]) \in Nat /\ j \in Nat
    BY PreprocessedType, DistType
  <2>2. QED
    BY <2>1 DEF Candidate, Scored
<1>2. \A J \in SUBSET (DOMAIN keys) : Scores(q, J) \subseteq Scored
  BY <1>1 DEF Scores
<1>3. ASSUME NEW J \in SUBSET (DOMAIN keys), NEW j \in DOMAIN keys
      PROVE  Candidate(q, j) \in Scores(q, J) <=> j \in J
  <2>1. \A i \in J : Candidate(q, j) = Candidate(q, i) => i = j
    BY <1>1
  <2>2. QED
    BY <2>1 DEF Scores
<1>4. QED
  BY <1>1, <1>2, <1>3

\* A voxel of the shell has at most one point, which has not been met before.
LEMMA MetNext ==
    ASSUME Preprocessed, NEW q \in DOMAIN keys, NEW s \in 0 .. MaxShell, NEW t \in 1 .. CubeSize(s)
    PROVE  LET o == NthOffset(t, s)
               j == PointAt(q, o)
           IN  IF ShellOf(o) = s /\ j >= 0
               THEN j \in DOMAIN keys /\ j \notin Met(q, s, t - 1) /\ Met(q, s, t) = Met(q, s, t - 1) \cup {j}
               ELSE Met(q, s, t) = Met(q, s, t - 1)
<1> DEFINE o == NthOffset(t, s)
           j == PointAt(q, o)
           Hit(i, u) == ShellOf(NthOffset(u, s)) = s /\ keys[i] = KeyAt(q, NthOffset(u, s))
<1>1. s \in Nat /\ CubeSize(s) \in Nat
  BY ShellAssumption, CubeCovered
<1>2. o \in Int \X Int /\ \A u \in 1 .. CubeSize(s) : NthOffset(u, s) \in Int \X Int /\ (o = NthOffset(u, s) => t = u)
  BY <1>1, OffsetOnce
<1>3. /\ \A b \in DOMAIN keys : keys[b] = KeyAt(q, o) => j = b
      /\ j >= 0 => j \in DOMAIN keys /\ keys[j] = KeyAt(q, o)
  BY <1>2, PointAtIs
<1>4. \A u : u \in 1 .. t <=> u \in 1 .. t - 1 \/ u = t
  BY <1>1
<1>5. Met(q, s, t) = Met(q, s, t - 1) \cup {i \in DOMAIN keys : Hit(i, t)}
  <2> HIDE DEF Hit
  <2>1. \A v : Met(q, s, v) = Reached(q, s - 1) \cup {i \in DOMAIN keys : \E u \in 1 .. v : Hit(i, u)}
    BY DEF Met, Hit
  <2>2. \A i : (\E u \in 1 .. t : Hit(i, u)) <=> (\E u \in 1 .. t - 1 : Hit(i, u)) \/ Hit(i, t)
    BY <1>4
  <2>3. QED
    BY <2>1, <2>2
<1>6. CASE ShellOf(o) = s /\ j >= 0
  <2>1. j \in DOMAIN keys /\ {i \in DOMAIN keys : Hit(i, t)} = {j}
    BY <1>3, <1>6
  <2>2. o \in Cube(s)
    BY <1>1, <1>2, <1>6, Shells
  <2>3. ASSUME j \in Reached(q, s - 1) PROVE FALSE
    <3>1. PICK p \in Cube(s - 1) : keys[j] = KeyAt(q, p)
      BY <2>3 DEF Reached
    <3>2. p \in Int \X Int
      BY <1>1 DEF Cube
    <3>3. p \in Cube(s) /\ ShellOf(p) # s
      BY <1>1, <3>1, <3>2, Shells
    <3>4. o = p
      BY <1>3, <1>6, <2>2, <3>1, <3>3, KeysApart
    <3>5. QED
      BY <1>6, <3>3, <3>4
  <2>4. ASSUME NEW u \in 1 .. t - 1, Hit(j, u) PROVE FALSE
    <3>1. u \in 1 .. CubeSize(s) /\ u # t
      BY <1>1
    <3>2. NthOffset(u, s) \in Cube(s)
      BY <1>1, <1>2, <2>4, <3>1, Shells
    <3>3. o = NthOffset(u, s)
      BY <1>3, <1>6, <2>2, <2>4, <3>2, KeysApart
    <3>4. QED
      BY <1>2, <3>1, <3>3
  <2>5. j \notin Met(q, s, t - 1)
    BY <2>3, <2>4 DEF Met
  <2>6. QED
    BY <1>5, <1>6, <2>1, <2>5
<1>7. CASE ~(ShellOf(o) = s /\ j >= 0)
  <2>1. ASSUME NEW i \in DOMAIN keys, Hit(i, t) PROVE FALSE
    <3>1. j = i /\ ShellOf(o) = s
      BY <1>3, <2>1
    <3>2. i \in Nat
      BY PreprocessedType
    <3>3. j >= 0
      <4> HIDE DEF j
      <4>1. QED
        BY <3>1, <3>2
    <3>4. QED
      BY <1>7, <3>1, <3>3
  <2>2. QED
    BY <1>5, <1>7, <2>1
<1>8. QED
  BY <1>6, <1>7

LEMMA MetAll ==
    ASSUME Preprocessed, NEW q \in DOMAIN keys, NEW s \in 0 .. MaxShell
    PROVE  /\ Met(q, s, 0) = Reached(q, s - 1)
           /\ Met(q, s, CubeSize(s)) = Reached(q, s)
           /\ \A t : Met(q, s, t) \in SUBSET (DOMAIN keys)
<1> DEFINE n == CubeSize(s)
<1>1. s \in Nat /\ n \in Nat /\ \A o \in Cube(s) : \E t \in 1 .. n : NthOffset(t, s) = o
  BY ShellAssumption, CubeCovered
<1>2. Met(q, s, 0) = Reached(q, s - 1)
  <2>1. 1 .. 0 = {}
    OBVIOUS
  <2>2. QED
    BY <2>1 DEF Met
<1>3. \A t \in 1 .. n : NthOffset(t, s) \in Int \X Int
  BY <1>1, OffsetOnce
<1>4. \A o \in Cube(s) \cup Cube(s - 1) : o \in Int \X Int
  BY <1>1 DEF Cube
<1>5. ASSUME NEW j \in DOMAIN keys PROVE j \in Met(q, s, n) <=> j \in Reached(q, s)
  <2>1. ASSUME j \in Reached(q, s - 1) PROVE j \in Reached(q, s)
    <3>1. PICK o \in Cube(s - 1) : keys[j] = KeyAt(q, o)
      BY <2>1 DEF Reached
    <3>2. o \in Cube(s)
      BY <1>1, <1>4, Shells
    <3>3. QED
      BY <3>1, <3>2 DEF Reached
  <2>2. ASSUME NEW u \in 1 .. n, ShellOf(NthOffset(u, s)) = s, keys[j] = KeyAt(q, NthOffset(u, s))
        PROVE  j \in Reached(q, s)
    <3>1. NthOffset(u, s) \in Cube(s)
      BY <1>1, <1>3, <2>2, Shells
    <3>2. QED
      BY <2>2, <3>1 DEF Reached
  <2>3. ASSUME j \in Reached(q, s) PROVE j \in Met(q, s, n)
    <3>1. PICK o \in Cube(s) : keys[j] = KeyAt(q, o)
      BY <2>3 DEF Reached
    <3>2. CASE o \in Cube(s - 1)
      BY <3>1, <3>2 DEF Met, Reached
    <3>3. CASE ShellOf(o) = s
      <4>1. PICK t \in 1 .. n : NthOffset(t, s) = o
        BY <1>1
      <4>2. QED
        BY <3>1, <3>3, <4>1 DEF Met
    <3>4. QED
      BY <1>1, <1>4, <3>2, <3>3, Shells
  <2>4. QED
    BY <2>1, <2>2, <2>3 DEF Met
<1>6. \A t : Met(q, s, t) \in SUBSET (DOMAIN keys)
  BY DEF Met, Reached
<1>7. Reached(q, s) \in SUBSET (DOMAIN keys)
  BY DEF Reached
<1>8. QED
  BY <1>2, <1>5, <1>6, <1>7

LEMMA StepBest ==
    ASSUME Preprocessed, NEW q \in DOMAIN keys, NEW s \in 0 .. MaxShell, NEW k \in Nat \ {0},
           NEW t \in 1 .. CubeSize(s), NEW top, Best(top, Scores(q, Met(q, s, t - 1)), k)
    PROVE  Best(ScanStep(q, s, k, t, top), Scores(q, Met(q, s, t)), k)
<1> DEFINE o == NthOffset(t, s)
           j == PointAt(q, o)
           J == Met(q, s, t - 1)
<1>1. J \in SUBSET (DOMAIN keys)
  BY MetAll
<1>2. CASE ShellOf(o) = s /\ j >= 0
  <2>1. j \in DOMAIN keys /\ j \notin J /\ Met(q, s, t) = J \cup {j}
    BY <1>2, MetNext
  <2>2. ScanStep(q, s, k, t, top) = Merge(top, Candidate(q, j), k)
    BY <1>2 DEF ScanStep
  <2> HIDE DEF j, J, o
  <2>3. Candidate(q, j) \in Scored /\ Candidate(q, j) \notin Scores(q, J) /\ Scores(q, J) \subseteq Scored
    BY <1>1, <2>1, CandidateType
  <2>4. Scores(q, J \cup {j}) = Scores(q, J) \cup {Candidate(q, j)}
    BY DEF Scores
  <2>5. Best(top, Scores(q, J), k)
    BY DEF J
  <2>6. QED
    BY <2>1, <2>2, <2>3, <2>4, <2>5, MergeBest
<1>3. CASE ~(ShellOf(o) = s /\ j >= 0)
  <2>1. Met(q, s, t) = J
    BY <1>3, MetNext
  <2>2. ScanStep(q, s, k, t, top) = top
    BY <1>3 DEF ScanStep
  <2>3. QED
    BY <2>1, <2>2
<1>4. QED
  BY <1>2, <1>3

\* Scanning a shell turns the best of the smaller cube into those of the larger.
LEMMA ScanBest ==
    ASSUME Preprocessed, NEW q \in DOMAIN keys, NEW s \in 0 .. MaxShell, NEW k \in Nat \ {0},
           NEW top, Best(top, Scores(q, Reached(q, s - 1)), k)
    PROVE  Best(ScanShell(q, top, s, k), Scores(q, Reached(q, s)), k)
<1> DEFINE n == CubeSize(s)
           G == [t \in 0 .. n |-> {x \in Seq(Scored) : Best(x, Scores(q, Met(q, s, t)), k)}]
           f == [t \in 1 .. n |-> [x \in G[t - 1] |-> ScanStep(q, s, k, t, x)]]
           w == Scan(q, top, s, k)
<1>1. n \in Nat
  BY CubeCovered, ShellAssumption
<1>2. ASSUME NEW J \in SUBSET (DOMAIN keys), NEW x, Best(x, Scores(q, J), k) PROVE x \in Seq(Scored)
  <2>1. Scores(q, J) \subseteq Scored /\ x \in Seq(Scores(q, J))
    BY <1>2, CandidateType DEF Best
  <2>2. QED
    BY <2>1
<1>3. top \in G[0]
  <2>1. Met(q, s, 0) = Reached(q, s - 1) /\ Met(q, s, 0) \in SUBSET (DOMAIN keys)
    BY MetAll
  <2>2. top \in Seq(Scored) /\ Best(top, Scores(q, Met(q, s, 0)), k)
    BY <1>2, <2>1
  <2>3. QED
    BY <1>1, <2>2
<1>4. ASSUME NEW t \in 1 .. n, NEW x \in G[t - 1]
      PROVE  f[t][x] = ScanStep(q, s, k, t, x) /\ ScanStep(q, s, k, t, x) \in G[t]
  <2> HIDE DEF n
  <2>1. t - 1 \in 0 .. n /\ t \in 0 .. n
    BY <1>1
  <2>2. Best(x, Scores(q, Met(q, s, t - 1)), k)
    BY <2>1
  <2>3. Best(ScanStep(q, s, k, t, x), Scores(q, Met(q, s, t)), k)
    BY <2>2, StepBest DEF n
  <2>4. ScanStep(q, s, k, t, x) \in Seq(Scored)
    BY <1>2, <2>3, MetAll
  <2>5. QED
    BY <2>1, <2>3, <2>4
<1> HIDE DEF G, f
<1>5. PICK u : IsCourse(u, n, top, f) /\ \A t \in 0 .. n : u[t] \in G[t]
  <2>1. Leads(n, G, f)
    BY <1>4 DEF Leads
  <2>2. QED
    BY <1>1, <1>3, <2>1, LoopLeads
<1>6. u = [t \in 0 .. n |-> IF t = 0 THEN top ELSE ScanStep(q, s, k, t, u[t - 1])]
  <2> HIDE DEF n
  <2>1. u = [t \in 0 .. n |-> IF t = 0 THEN top ELSE f[t][u[t - 1]]]
    BY <1>5 DEF IsCourse
  <2>2. ASSUME NEW t \in 0 .. n, t # 0 PROVE f[t][u[t - 1]] = ScanStep(q, s, k, t, u[t - 1])
    <3>1. t \in 1 .. n /\ t - 1 \in 0 .. n
      BY <1>1, <2>2
    <3>2. QED
      BY <1>4, <1>5, <3>1
  <2>3. QED
    BY <2>1, <2>2
<1>7. w = [t \in 0 .. n |-> IF t = 0 THEN top ELSE ScanStep(q, s, k, t, w[t - 1])]
  BY <1>6 DEF Scan
<1> HIDE DEF w
<1>8. w[0] \in G[0]
  BY <1>1, <1>3, <1>7
<1>9. ASSUME NEW t \in 1 .. n, w[t - 1] \in G[t - 1] PROVE w[t] \in G[t]
  <2> HIDE DEF n
  <2>1. t \in 0 .. n /\ t # 0
    BY <1>1
  <2>2. w[t] = ScanStep(q, s, k, t, w[t - 1])
    BY <1>7, <2>1
  <2>3. QED
    BY <1>4, <1>9, <2>2
<1>10. w[n] \in G[n]
  <2> HIDE DEF n
  <2>1. QED
    BY <1>1, <1>8, <1>9, LoopEnds
<1>11. Best(w[n], Scores(q, Met(q, s, n)), k)
  <2> HIDE DEF n
  <2>1. n \in 0 .. n
    BY <1>1
  <2>2. QED
    BY <1>10, <2>1 DEF G
<1>12. Met(q, s, n) = Reached(q, s)
  BY MetAll
<1>13. QED
  BY <1>11, <1>12, ScanIs DEF w

\* On one axis: what is beyond k voxels is further than k leaves and the way to
\* the nearest border of one's own voxel.
LEMMA AxisBorder ==
    ASSUME NEW r \in Nat \ {0}, NEW u \in Int, NEW v \in Int,
           NEW g \in 0 .. r - 1, NEW f \in 0 .. r - 1, NEW x \in Int, NEW y \in Int,
           x = r * u + g, y = r * v + f,
           NEW m \in Int, m <= g, m <= r - g, NEW k \in Nat, Abs(v - u) > k
    PROVE  m + k * r <= x - y \/ m + k * r <= -(x - y)
<1> DEFINE o == v - u
<1>1. o \in Int /\ v = u + o
  OBVIOUS
<1>2. r * (u + o) = r * u + r * o /\ r * o \in Int /\ r * u \in Int
  BY <1>1
<1>3. y - x = r * o + f - g
  BY <1>1, <1>2
<1>4. k * r = r * k /\ r * k \in Int
  OBVIOUS
<1> HIDE DEF o
<1>5. CASE o > k
  <2>1. r * o >= r * k + r
    BY <1>1, <1>5, Apart
  <2>2. QED
    BY <1>2, <1>3, <1>4, <2>1
<1>6. CASE -o > k
  <2>1. r * (-o) >= r * k + r
    <3>1. -o \in Int
      BY <1>1
    <3>2. QED
      BY <1>6, <3>1, Apart
  <2>2. r * (-o) = -(r * o)
    BY <1>1
  <2>3. QED
    BY <1>2, <1>3, <1>4, <2>1, <2>2
<1>7. o > k \/ -o > k
  <2>1. Abs(o) > k
    BY DEF o
  <2>2. QED
    BY <1>1, <2>1 DEF Abs
<1>8. QED
  BY <1>5, <1>6, <1>7

LEMMA FracMinIs ==
    ASSUME NEW p \in Int \X Int
    PROVE  FracMin(p) \in Nat /\ \A a \in Axes : FracMin(p) <= Frac(p)[a] /\ FracMin(p) <= Res - Frac(p)[a]
<1> DEFINE gaps == UNION {{Frac(p)[a], Res - Frac(p)[a]} : a \in Axes}
<1>1. \A a \in Axes : Frac(p)[a] \in Nat /\ Res - Frac(p)[a] \in Nat
  <2>1. ASSUME NEW a \in Axes PROVE Frac(p)[a] \in Nat /\ Res - Frac(p)[a] \in Nat
    <3> DEFINE g == Frac(p)[a]
    <3>1. g \in 0 .. Res - 1 /\ Res \in Nat
      BY VoxelParts, ResAssumption
    <3> HIDE DEF g
    <3>2. g \in Nat /\ Res - g \in Nat
      BY <3>1
    <3>3. QED
      BY <3>2 DEF g
  <2>2. QED
    BY <2>1
<1>2. gaps \subseteq Nat /\ \A a \in Axes : Frac(p)[a] \in gaps /\ Res - Frac(p)[a] \in gaps
  BY <1>1
<1>3. 1 \in Axes
  BY DEF Axes
<1>4. gaps # {}
  BY <1>2, <1>3
<1>5. FracMin(p) = Min(gaps)
  BY DEF FracMin
<1> HIDE DEF gaps
<1>6. FracMin(p) \in gaps /\ \A x \in gaps : FracMin(p) <= x
  BY <1>2, <1>4, <1>5, LeastOf
<1>7. QED
  BY <1>2, <1>6

\* What is outside a cube is not closer than the bound that stops a search.
LEMMA StopBelow ==
    ASSUME Preprocessed, NEW q \in DOMAIN keys, NEW j \in DOMAIN keys, NEW s \in Nat,
           Offset(points[q], points[j]) \notin Cube(s)
    PROVE  Sq(StopBound(q, s)) \in Nat /\ Sq(StopBound(q, s)) <= SqDist(points[q], points[j])
<1> DEFINE p == points[q]
           t == points[j]
           o == Offset(p, t)
           d(a) == p[a] - t[a]
           b == StopBound(q, s)
           m == FracMin(p)
<1>1. p \in Int \X Int /\ t \in Int \X Int
  BY PreprocessedType
<1>2. b = m + s * Res
  BY DEF StopBound
<1> HIDE DEF p, t, b, m
<1>3. m \in Nat /\ \A a \in Axes : m <= Frac(p)[a] /\ m <= Res - Frac(p)[a]
  BY <1>1, FracMinIs DEF m
<1>4. b \in Nat
  BY <1>2, <1>3, ResAssumption
<1>5. PICK a \in Axes : Abs(o[a]) > s
  <2>1. o \in Int \X Int
    BY <1>1, OffsetType
  <2>2. o[1] \in Int /\ o[2] \in Int /\ o = <<o[1], o[2]>>
    BY <2>1
  <2>3. o[1] \in -s .. s /\ o[2] \in -s .. s => o \in Cube(s)
    BY <2>2 DEF Cube
  <2>4. o \notin Cube(s)
    BY DEF p, t
  <2>5. ~(o[1] \in -s .. s) \/ ~(o[2] \in -s .. s)
    BY <2>3, <2>4
  <2>6. Abs(o[1]) > s \/ Abs(o[2]) > s
    <3> HIDE DEF o
    <3>1. QED
      BY <2>2, <2>5 DEF Abs
  <2>7. QED
    BY <2>6 DEF Axes
<1>6. d(a) \in Int /\ (b <= d(a) \/ b <= -d(a))
  <2> DEFINE u == Voxel(p)[a]
             v == Voxel(t)[a]
             g == Frac(p)[a]
             f == Frac(t)[a]
             x == p[a]
             y == t[a]
  <2>1. /\ u \in Int /\ v \in Int /\ g \in 0 .. Res - 1 /\ f \in 0 .. Res - 1 /\ x \in Int /\ y \in Int
        /\ x = Res * u + g /\ y = Res * v + f
    BY <1>1, VoxelParts
  <2>2. o[a] = v - u
    BY <1>1, OffsetType
  <2>3. m <= g /\ m <= Res - g /\ m \in Int
    BY <1>3
  <2>4. d(a) = x - y
    OBVIOUS
  <2> HIDE DEF u, v, g, f, x, y, o, d
  <2>5. Abs(v - u) > s
    BY <1>5, <2>2
  <2>6. m + s * Res <= x - y \/ m + s * Res <= -(x - y)
    BY <2>1, <2>3, <2>5, ResAssumption, AxisBorder
  <2>7. QED
    BY <1>2, <2>1, <2>4, <2>6
<1>7. Sq(b) \in Nat /\ Sq(d(a)) \in Nat /\ Sq(b) <= Sq(d(a))
  <2> HIDE DEF d
  <2>1. QED
    BY <1>4, <1>6, SqGrows
<1>8. Sq(d(1)) \in Nat /\ Sq(d(2)) \in Nat /\ SqDist(p, t) = Sq(d(1)) + Sq(d(2))
  <2>1. d(1) \in Int /\ d(2) \in Int
    BY <1>1
  <2>2. QED
    BY <2>1, SqType DEF SqDist
<1>9. a = 1 \/ a = 2
  BY DEF Axes
<1> HIDE DEF d
<1>10. Sq(b) \in Nat /\ Sq(b) <= SqDist(p, t)
  BY <1>7, <1>8, <1>9
<1>11. QED
  BY <1>10 DEF b, p, t

\* A point that a cube of lookups does not reach is outside the cube.
LEMMA NotReached ==
    ASSUME Preprocessed, NEW q \in DOMAIN keys, NEW j \in DOMAIN keys, NEW s \in Nat, j \notin Reached(q, s)
    PROVE  Offset(points[q], points[j]) \notin Cube(s)
<1> DEFINE p == points[q]
           t == points[j]
           o == Offset(p, t)
<1>1. p \in Int \X Int /\ t \in Int \X Int /\ voxel_key(t) = keys[j] /\ voxel_key(t) # INVALID_KEY
  BY PreprocessedType
<1>2. Home(q) = <<Voxel(p)[1], Voxel(p)[2]>>
  BY HomeIs
<1> HIDE DEF p, t
<1>3. /\ Voxel(p)[1] \in Int /\ Voxel(p)[2] \in Int /\ Voxel(t)[1] \in Int /\ Voxel(t)[2] \in Int
  BY <1>1, VoxelParts DEF Axes
<1>4. o = <<Voxel(t)[1] - Voxel(p)[1], Voxel(t)[2] - Voxel(p)[2]>>
  BY DEF Offset
<1>5. Moved(Home(q), o) = <<Voxel(t)[1], Voxel(t)[2]>>
  BY <1>2, <1>3, <1>4 DEF Moved
<1>6. KeyAt(q, o) = coord_key(Voxel(t))
  BY <1>5 DEF KeyAt, coord_key
<1>7. coord_key(Voxel(t)) = keys[j]
  BY <1>1, KeyParts
<1>8. o \notin Cube(s)
  BY <1>6, <1>7 DEF Reached
<1>9. QED
  BY <1>8 DEF p, t

-----------------------------------------------------------------------------
(* The search over shells.                                                 *)
-----------------------------------------------------------------------------
Stop(q, k, s, top) == Len(top) >= k /\ top[k].d2 <= Sq(StopBound(q, s))
SearchStep(q, k, n, r) ==
    IF r.stop THEN r
    ELSE [top |-> ScanShell(q, r.top, n - 1, k),
          stop |-> Stop(q, k, n - 1, ScanShell(q, r.top, n - 1, k))]
NoneYet == [top |-> <<>>, stop |-> FALSE]
Search(q, k) ==
    CHOOSE w : w = [n \in 0 .. MaxShell + 1 |-> IF n = 0 THEN NoneYet ELSE SearchStep(q, k, n, w[n - 1])]

LEMMA SearchIs ==
    ASSUME NEW q, NEW k
    PROVE  ShellSearch(q, k) = Search(q, k)[MaxShell + 1]
BY DEF ShellSearch, Search, SearchStep, Stop, NoneYet

\* After n shells: stopped with the k best of some cube that holds everything
\* closer than them, or the k best of the n-th cube.
Stopped(q, k, r) ==
    \E s \in 0 .. MaxShell :
        Best(r.top, Scores(q, Reached(q, s)), k) /\ Len(r.top) = k /\ r.top[k].d2 <= Sq(StopBound(q, s))
AfterShells(q, k, n, r) ==
    /\ r \in [top : Seq(Scored), stop : BOOLEAN]
    /\ IF r.stop THEN Stopped(q, k, r) ELSE Best(r.top, Scores(q, Reached(q, n - 1)), k)

LEMMA SearchStepIs ==
    ASSUME Preprocessed, NEW q \in DOMAIN keys, NEW k \in Nat \ {0}, NEW n \in 1 .. MaxShell + 1,
           NEW r, AfterShells(q, k, n - 1, r)
    PROVE  AfterShells(q, k, n, SearchStep(q, k, n, r))
<1> DEFINE s == n - 1
           top == ScanShell(q, r.top, s, k)
<1>1. s \in 0 .. MaxShell /\ (n - 1) - 1 = s - 1
  BY ShellAssumption
<1>2. CASE r.stop
  BY <1>2 DEF SearchStep, AfterShells
<1>3. CASE ~r.stop
  <2>1. Best(r.top, Scores(q, Reached(q, s - 1)), k)
    BY <1>1, <1>3 DEF AfterShells
  <2> DEFINE C == Scores(q, Reached(q, s))
  <2>2. Best(top, C, k)
    <3> HIDE DEF s
    <3>1. QED
      BY <1>1, <2>1, ScanBest
  <2>3. C \subseteq Scored
    <3>1. Reached(q, s) \in SUBSET (DOMAIN keys)
      BY DEF Reached
    <3>2. QED
      BY <3>1, CandidateType
  <2>4. SearchStep(q, k, n, r) = [top |-> top, stop |-> Stop(q, k, s, top)]
    BY <1>3 DEF SearchStep
  <2> HIDE DEF top, s, C
  <2>5. top \in Seq(Scored) /\ Len(top) <= k /\ Len(top) \in Nat
    <3>1. top \in Seq(C) /\ Len(top) <= k
      BY <2>2 DEF Best
    <3>2. QED
      BY <2>3, <3>1
  <2>6. Stop(q, k, s, top) \in BOOLEAN
    BY DEF Stop
  <2>7. Stop(q, k, s, top) => Len(top) = k /\ top[k].d2 <= Sq(StopBound(q, s))
    BY <2>5 DEF Stop
  <2>8. QED
    BY <1>1, <2>2, <2>4, <2>5, <2>6, <2>7 DEF AfterShells, Stopped, s, C
<1>4. QED
  BY <1>2, <1>3 DEF AfterShells

LEMMA SearchBest ==
    ASSUME Preprocessed, NEW q \in DOMAIN keys, NEW k \in Nat \ {0}
    PROVE  AfterShells(q, k, MaxShell + 1, ShellSearch(q, k))
<1> DEFINE n == MaxShell + 1
           G == [m \in 0 .. n |-> {r \in [top : Seq(Scored), stop : BOOLEAN] : AfterShells(q, k, m, r)}]
           f == [m \in 1 .. n |-> [r \in G[m - 1] |-> SearchStep(q, k, m, r)]]
           w == Search(q, k)
<1>1. n \in Nat
  BY ShellAssumption
<1>2. NoneYet \in G[0]
  <2>1. NoneYet \in [top : Seq(Scored), stop : BOOLEAN] /\ NoneYet.top = <<>> /\ NoneYet.stop = FALSE
    BY DEF NoneYet
  <2>2. Reached(q, 0 - 1) = {}
    <3>1. Cube(0 - 1) = {}
      <4>1. <<0, 0>> \in Int \X Int /\ 0 - 1 = -1 /\ 0 \in Nat
        OBVIOUS
      <4>2. QED
        BY <4>1, Shells
    <3>2. QED
      BY <3>1 DEF Reached
  <2>3. Best(<<>>, Scores(q, {}), k)
    BY DEF Best, Scores
  <2>4. AfterShells(q, k, 0, NoneYet)
    BY <2>1, <2>2, <2>3 DEF AfterShells
  <2>5. QED
    BY <1>1, <2>1, <2>4
<1>3. ASSUME NEW m \in 1 .. n, NEW r \in G[m - 1]
      PROVE  f[m][r] = SearchStep(q, k, m, r) /\ SearchStep(q, k, m, r) \in G[m]
  <2> HIDE DEF n
  <2>1. m - 1 \in 0 .. n /\ m \in 0 .. n
    BY <1>1
  <2>2. AfterShells(q, k, m - 1, r)
    BY <2>1
  <2>3. AfterShells(q, k, m, SearchStep(q, k, m, r))
    BY <2>2, SearchStepIs DEF n
  <2>4. QED
    BY <2>1, <2>3 DEF AfterShells
<1> HIDE DEF G, f
<1>4. PICK u : IsCourse(u, n, NoneYet, f) /\ \A m \in 0 .. n : u[m] \in G[m]
  <2>1. Leads(n, G, f)
    BY <1>3 DEF Leads
  <2>2. QED
    BY <1>1, <1>2, <2>1, LoopLeads
<1>5. u = [m \in 0 .. n |-> IF m = 0 THEN NoneYet ELSE SearchStep(q, k, m, u[m - 1])]
  <2> HIDE DEF n
  <2>1. u = [m \in 0 .. n |-> IF m = 0 THEN NoneYet ELSE f[m][u[m - 1]]]
    BY <1>4 DEF IsCourse
  <2>2. ASSUME NEW m \in 0 .. n, m # 0 PROVE f[m][u[m - 1]] = SearchStep(q, k, m, u[m - 1])
    <3>1. m \in 1 .. n /\ m - 1 \in 0 .. n
      BY <1>1, <2>2
    <3>2. QED
      BY <1>3, <1>4, <3>1
  <2>3. QED
    BY <2>1, <2>2
<1>6. w = [m \in 0 .. n |-> IF m = 0 THEN NoneYet ELSE SearchStep(q, k, m, w[m - 1])]
  BY <1>5 DEF Search
<1> HIDE DEF w
<1>7. w[0] \in G[0]
  BY <1>1, <1>2, <1>6
<1>8. ASSUME NEW m \in 1 .. n, w[m - 1] \in G[m - 1] PROVE w[m] \in G[m]
  <2> HIDE DEF n
  <2>1. m \in 0 .. n /\ m # 0
    BY <1>1
  <2>2. w[m] = SearchStep(q, k, m, w[m - 1])
    BY <1>6, <2>1
  <2>3. QED
    BY <1>3, <1>8, <2>2
<1>9. AfterShells(q, k, n, w[n])
  <2> HIDE DEF n
  <2>1. w[n] \in G[n]
    BY <1>1, <1>7, <1>8, LoopEnds
  <2>2. n \in 0 .. n
    BY <1>1
  <2>3. QED
    BY <2>1, <2>2 DEF G
<1>10. QED
  BY <1>9, SearchIs DEF w

-----------------------------------------------------------------------------
\* Different elements do not all fit into fewer places.
Different(list, n) == \A i, j \in 1 .. n : i # j => list[i] # list[j]
Among(list, n, U, m) == \A i \in 1 .. n : \E j \in 1 .. m : U[j] = list[i]
LEMMA AllHeld ==
    ASSUME NEW n \in Nat, NEW m \in Nat, NEW list, NEW U, Different(list, n), Among(list, n, U, m)
    PROVE  n <= m
<1> DEFINE f == [i \in 1 .. n |-> CHOOSE j \in 1 .. m : U[j] = list[i]]
<1>1. \A i \in 1 .. n : f[i] \in 1 .. m /\ U[f[i]] = list[i]
  BY DEF Among
<1>2. \A i, j \in 1 .. n : f[i] = f[j] => i = j
  BY <1>1 DEF Different
<1>3. f \in Injection(1 .. n, 1 .. m)
  BY <1>1, <1>2 DEF Injection, IsInjective
<1>4. /\ IsFiniteSet(1 .. n) /\ Cardinality(1 .. n) = n
      /\ IsFiniteSet(1 .. m) /\ Cardinality(1 .. m) = m
  BY FS_Interval
<1> HIDE DEF f
<1>5. QED
  BY <1>3, <1>4, FS_Injection

\* What n elements are that are the k best, by their distances.
Closest(list, n, A, k) ==
    /\ \A i \in 1 .. n : list[i] \in A /\ list[i].d2 \in Nat
    /\ \A i, j \in 1 .. n : i <= j => list[i].d2 <= list[j].d2
    /\ Different(list, n)
    /\ \A c \in A : \/ \E i \in 1 .. n : list[i] = c
                    \/ n = k /\ \A i \in 1 .. n : list[i].d2 <= c.d2
LEMMA BestOrder ==
    ASSUME NEW A, A \subseteq Scored, NEW k \in Nat, NEW list, Best(list, A, k)
    PROVE  /\ Len(list) \in Nat /\ DOMAIN list = 1 .. Len(list) /\ Len(list) <= k /\ list \in Seq(A)
           /\ Closest(list, Len(list), A, k)
<1> DEFINE n == Len(list)
<1>1. list \in Seq(A) /\ n <= k
  BY DEF Best
<1>2. n \in Nat /\ DOMAIN list = 1 .. n /\ \A i \in 1 .. n : list[i] \in A
  BY <1>1
<1>3. \A i \in 1 .. n : list[i] \in Scored /\ list[i].d2 \in Nat
  BY <1>2, LexOrder
<1>4. \A i, j \in 1 .. n : i < j => lex_less(list[i], list[j])
  BY <1>2 DEF Best
<1>5. \A c \in A : (\E i \in 1 .. n : list[i] = c) \/ (n = k /\ \A i \in 1 .. n : lex_less(list[i], c))
  BY <1>2 DEF Best
<1> HIDE DEF n
<1>6. ASSUME NEW i \in 1 .. n, NEW j \in 1 .. n, i <= j PROVE list[i].d2 <= list[j].d2
  <2>1. CASE i = j
    BY <1>3, <2>1
  <2>2. CASE i < j
    BY <1>3, <1>4, <2>2, LexOrder
  <2>3. QED
    BY <1>2, <1>6, <2>1, <2>2
<1>7. ASSUME NEW i \in 1 .. n, NEW j \in 1 .. n, i # j PROVE list[i] # list[j]
  <2>1. i < j \/ j < i
    BY <1>2, <1>7
  <2>2. lex_less(list[i], list[j]) \/ lex_less(list[j], list[i])
    BY <1>4, <2>1
  <2>3. QED
    BY <1>3, <2>2, LexOrder
<1>8. ASSUME NEW c \in A PROVE (\E i \in 1 .. n : list[i] = c) \/ (n = k /\ \A i \in 1 .. n : list[i].d2 <= c.d2)
  BY <1>3, <1>5, LexOrder
<1>9. QED
  BY <1>1, <1>2, <1>3, <1>6, <1>7, <1>8 DEF n, Closest, Different

\* The k best of a part, nothing outside of which is closer, are as close as
\* the k best of all.
LEMMA PartAgrees ==
    ASSUME NEW A, A \subseteq Scored, NEW V, V \subseteq A, NEW k \in Nat \ {0},
           NEW near, Best(near, A, k), NEW list, Best(list, V, k), Len(list) = k,
           \A c \in A \ V : list[k].d2 <= c.d2
    PROVE  Len(near) = k /\ list[k].d2 = near[k].d2
<1>1. k \in 1 .. k /\ k \in Nat
  OBVIOUS
<1>2. /\ \A i \in 1 .. k : list[i] \in A /\ list[i].d2 \in Nat /\ list[i].d2 <= list[k].d2
      /\ Different(list, k)
      /\ \A c \in V : (\E i \in 1 .. k : list[i] = c) \/ list[k].d2 <= c.d2
  <2>1. V \subseteq Scored
    OBVIOUS
  <2>2. Closest(list, k, V, k)
    BY <1>1, <2>1, BestOrder
  <2>3. QED
    BY <1>1, <2>2 DEF Closest
<1>3. \A c \in A : c.d2 \in Nat
  BY LexOrder
<1>4. \A c \in A : c.d2 < list[k].d2 => \E i \in 1 .. k : list[i] = c
  BY <1>1, <1>2, <1>3
<1>5. Len(near) = k
  <2> SUFFICES ASSUME Len(near) # k PROVE FALSE
    OBVIOUS
  <2> DEFINE n == Len(near)
  <2>a. n \in Nat /\ n <= k /\ n # k /\ Closest(near, n, A, k)
    BY <1>1, BestOrder
  <2> HIDE DEF n
  <2>1. n \in Nat /\ n < k /\ \A c \in A : \E i \in 1 .. n : near[i] = c
    <3>1. n < k
      BY <2>a
    <3>2. \A c \in A : \E i \in 1 .. n : near[i] = c
      BY <2>a DEF Closest
    <3>3. QED
      BY <2>a, <3>1, <3>2
  <2>2. Among(list, k, near, n)
    BY <1>2, <2>1 DEF Among
  <2>3. k <= n
    BY <1>1, <1>2, <2>1, <2>2, AllHeld
  <2>4. QED
    BY <2>1, <2>3
<1>6. /\ \A i \in 1 .. k : near[i] \in A /\ near[i].d2 \in Nat /\ near[i].d2 <= near[k].d2
      /\ Different(near, k)
      /\ \A c \in A : (\E i \in 1 .. k : near[i] = c) \/ near[k].d2 <= c.d2
  <2>1. Closest(near, Len(near), A, k)
    BY <1>1, BestOrder
  <2>2. Closest(near, k, A, k)
    BY <1>5, <2>1
  <2>3. QED
    BY <1>1, <2>2 DEF Closest
<1>7. ~(list[k].d2 < near[k].d2)
  <2> SUFFICES ASSUME list[k].d2 < near[k].d2 PROVE FALSE
    OBVIOUS
  <2>1. ASSUME NEW i \in 1 .. k PROVE \E j \in 1 .. k - 1 : near[j] = list[i]
    <3>1. list[i] \in A /\ list[i].d2 < near[k].d2
      BY <1>1, <1>2, <1>6
    <3>2. PICK j \in 1 .. k : near[j] = list[i]
      BY <1>1, <1>2, <1>6, <3>1
    <3>3. j # k
      BY <1>6, <3>1, <3>2
    <3>4. QED
      BY <3>2, <3>3
  <2>2. Among(list, k, near, k - 1)
    BY <2>1 DEF Among
  <2>3. k - 1 \in Nat
    BY <1>1
  <2>4. k <= k - 1
    BY <1>1, <1>2, <2>2, <2>3, AllHeld
  <2>5. QED
    BY <1>1, <2>4
<1>8. ~(near[k].d2 < list[k].d2)
  <2> SUFFICES ASSUME near[k].d2 < list[k].d2 PROVE FALSE
    OBVIOUS
  <2>1. ASSUME NEW i \in 1 .. k PROVE \E j \in 1 .. k - 1 : list[j] = near[i]
    <3>1. near[i] \in A /\ near[i].d2 < list[k].d2
      BY <1>1, <1>2, <1>6
    <3>2. PICK j \in 1 .. k : list[j] = near[i]
      BY <1>4, <3>1
    <3>3. j # k
      BY <1>2, <3>1, <3>2
    <3>4. QED
      BY <3>2, <3>3
  <2>2. Among(near, k, list, k - 1)
    BY <2>1 DEF Among
  <2>3. k - 1 \in Nat
    BY <1>1
  <2>4. k <= k - 1
    BY <1>1, <1>6, <2>2, <2>3, AllHeld
  <2>5. QED
    BY <1>1, <2>4
<1>9. QED
  BY <1>1, <1>2, <1>5, <1>6, <1>7, <1>8

\* If everything as close as the k-th of all is in a part, the part has k best,
\* and nothing outside of it is closer.
LEMMA PartHolds ==
    ASSUME NEW A, A \subseteq Scored, NEW V, V \subseteq A, NEW k \in Nat \ {0},
           NEW near, Best(near, A, k), Len(near) = k, NEW list, Best(list, V, k),
           \A c \in A \ V : near[k].d2 < c.d2
    PROVE  Len(list) = k /\ \A c \in A \ V : list[k].d2 <= c.d2
<1>1. k \in 1 .. k /\ k \in Nat /\ V \subseteq Scored
  OBVIOUS
<1>2. /\ \A i \in 1 .. k : near[i] \in A /\ near[i].d2 \in Nat /\ near[i].d2 <= near[k].d2
      /\ Different(near, k)
  <2>1. Closest(near, k, A, k)
    BY <1>1, BestOrder
  <2>2. QED
    BY <1>1, <2>1 DEF Closest
<1>3. ASSUME NEW i \in 1 .. k PROVE near[i] \in V
  <2>1. near[i] \in A /\ ~(near[k].d2 < near[i].d2)
    BY <1>1, <1>2
  <2>2. QED
    BY <2>1
<1>4. Len(list) = k
  <2> SUFFICES ASSUME Len(list) # k PROVE FALSE
    OBVIOUS
  <2> DEFINE n == Len(list)
  <2>a. n \in Nat /\ n <= k /\ n # k /\ Closest(list, n, V, k)
    BY <1>1, BestOrder
  <2> HIDE DEF n
  <2>1. n \in Nat /\ n < k /\ \A c \in V : \E i \in 1 .. n : list[i] = c
    <3>1. n < k
      BY <2>a
    <3>2. \A c \in V : \E i \in 1 .. n : list[i] = c
      BY <2>a DEF Closest
    <3>3. QED
      BY <2>a, <3>1, <3>2
  <2>2. Among(near, k, list, n)
    BY <1>3, <2>1 DEF Among
  <2>3. k <= n
    BY <1>1, <1>2, <2>1, <2>2, AllHeld
  <2>4. QED
    BY <2>1, <2>3
<1>5. /\ \A i \in 1 .. k : list[i].d2 \in Nat
      /\ \A c \in V : (\E i \in 1 .. k : list[i] = c) \/ list[k].d2 <= c.d2
  <2>1. Closest(list, Len(list), V, k)
    BY <1>1, BestOrder
  <2>2. Closest(list, k, V, k)
    BY <1>4, <2>1
  <2>3. QED
    BY <1>1, <2>2 DEF Closest
<1>6. ~(near[k].d2 < list[k].d2)
  <2> SUFFICES ASSUME near[k].d2 < list[k].d2 PROVE FALSE
    OBVIOUS
  <2>1. ASSUME NEW i \in 1 .. k PROVE \E j \in 1 .. k - 1 : list[j] = near[i]
    <3>1. near[i] \in V /\ near[i].d2 < list[k].d2
      BY <1>1, <1>2, <1>3, <1>5
    <3>2. PICK j \in 1 .. k : list[j] = near[i]
      BY <1>1, <1>2, <1>5, <3>1
    <3>3. j # k
      BY <1>5, <3>1, <3>2
    <3>4. QED
      BY <3>2, <3>3
  <2>2. Among(near, k, list, k - 1)
    BY <2>1 DEF Among
  <2>3. k - 1 \in Nat
    BY <1>1
  <2>4. k <= k - 1
    BY <1>1, <1>2, <2>2, <2>3, AllHeld
  <2>5. QED
    BY <1>1, <2>4
<1>7. ASSUME NEW c \in A \ V PROVE list[k].d2 <= c.d2
  <2>1. c.d2 \in Nat
    BY LexOrder
  <2>2. near[k].d2 < c.d2 /\ near[k].d2 \in Nat /\ list[k].d2 \in Nat
    BY <1>1, <1>2, <1>5
  <2>3. QED
    BY <1>6, <2>1, <2>2
<1>8. QED
  BY <1>4, <1>7

-----------------------------------------------------------------------------
(* Covariances.                                                            *)
-----------------------------------------------------------------------------
\* NeighborsExact of one query and its nearest candidates.
Covers(q, near, cov) ==
    IF Len(near) < MinNeighbors THEN cov = Identity
    ELSE /\ Cardinality(cov) = Len(near)
         /\ \A p \in cov :
               /\ \E j \in DOMAIN points : points[j] = p
               /\ SqDist(points[q], p) <= near[Len(near)].d2
         /\ \A j \in DOMAIN points :
               SqDist(points[q], points[j]) < near[Len(near)].d2 => points[j] \in cov
CovFrom(list) == CovOf([r \in DOMAIN list |-> list[r].j])

LEMMA AllType ==
    ASSUME Preprocessed, NEW q \in DOMAIN keys
    PROVE  /\ AllOf(q) = Scores(q, DOMAIN keys) /\ AllOf(q) \subseteq Scored
           /\ \A c \in AllOf(q) :
                 c.j \in DOMAIN keys /\ c.j \in DOMAIN points
                 /\ c = Candidate(q, c.j) /\ c.d2 = SqDist(points[q], points[c.j])
           /\ \A j \in DOMAIN points : Candidate(q, j) \in AllOf(q)
           /\ \A j \in DOMAIN points :
                 Candidate(q, j).j = j /\ Candidate(q, j).d2 = SqDist(points[q], points[j])
<1>1. DOMAIN points = DOMAIN keys
  BY DEF Preprocessed
<1>2. AllOf(q) = Scores(q, DOMAIN keys)
  BY <1>1 DEF AllOf, Scores
<1>3. AllOf(q) \subseteq Scored
  BY <1>2, CandidateType
<1>4. ASSUME NEW c \in AllOf(q)
      PROVE  /\ c.j \in DOMAIN keys /\ c.j \in DOMAIN points
             /\ c = Candidate(q, c.j) /\ c.d2 = SqDist(points[q], points[c.j])
  <2>1. PICK j \in DOMAIN keys : c = Candidate(q, j)
    BY <1>2 DEF Scores
  <2>2. c.j = j /\ c.d2 = SqDist(points[q], points[j])
    BY <2>1, CandidateType
  <2>3. QED
    BY <1>1, <2>1, <2>2
<1>5. \A j \in DOMAIN points :
          /\ Candidate(q, j) \in AllOf(q)
          /\ Candidate(q, j).j = j /\ Candidate(q, j).d2 = SqDist(points[q], points[j])
  BY <1>1, CandidateType DEF AllOf
<1>6. QED
  BY <1>2, <1>3, <1>4, <1>5

\* A covariance from as many points, as close, covers the nearest points.
LEMMA CovCovers ==
    ASSUME Preprocessed, NEW q \in DOMAIN keys, NEW n \in Nat, NEW near, Len(near) = n,
           NEW list, DOMAIN list = 1 .. n, Different(list, n),
           \A i \in 1 .. n : list[i] \in AllOf(q) /\ list[i].d2 <= near[n].d2,
           \A c \in AllOf(q) : c.d2 < near[n].d2 => \E i \in 1 .. n : list[i] = c
    PROVE  Covers(q, near, CovFrom(list))
<1> DEFINE js == [r \in 1 .. n |-> list[r].j]
           cov == {points[js[r]] : r \in 1 .. n}
<1>1. CovFrom(list) = IF n < MinNeighbors THEN Identity ELSE cov
  <2>1. js \in Seq({list[r].j : r \in 1 .. n}) /\ Len(js) = n /\ DOMAIN js = 1 .. n
    OBVIOUS
  <2>2. CovFrom(list) = CovOf(js)
    BY DEF CovFrom
  <2> HIDE DEF js
  <2>3. CovOf(js) = IF Len(js) < MinNeighbors THEN Identity ELSE {points[js[r]] : r \in DOMAIN js}
    BY DEF CovOf
  <2>4. QED
    BY <2>1, <2>2, <2>3
<1>2. \A i \in 1 .. n : /\ js[i] = list[i].j /\ js[i] \in DOMAIN keys /\ js[i] \in DOMAIN points
                        /\ list[i] = Candidate(q, js[i]) /\ list[i].d2 = SqDist(points[q], points[js[i]])
  BY AllType
<1> HIDE DEF js
<1>3. Cardinality(cov) = n
  <2> DEFINE f == [i \in 1 .. n |-> points[js[i]]]
  <2>1. \A i \in 1 .. n : f[i] \in cov
    OBVIOUS
  <2>2. \A i, j \in 1 .. n : f[i] = f[j] => i = j
    <3>1. ASSUME NEW i \in 1 .. n, NEW j \in 1 .. n, f[i] = f[j] PROVE i = j
      <4>1. js[i] = js[j]
        BY <1>2, <3>1, PreprocessedType
      <4>2. list[i] = list[j]
        BY <1>2, <4>1
      <4>3. QED
        BY <4>2 DEF Different
    <3>2. QED
      BY <3>1
  <2>3. \A p \in cov : \E i \in 1 .. n : f[i] = p
    OBVIOUS
  <2>4. f \in [1 .. n -> cov]
    OBVIOUS
  <2> HIDE DEF f, cov
  <2>5. f \in Bijection(1 .. n, cov)
    BY <2>1, <2>2, <2>3, <2>4 DEF Bijection, Injection, Surjection, IsInjective
  <2>6. IsFiniteSet(1 .. n) /\ Cardinality(1 .. n) = n
    BY FS_Interval
  <2>7. QED
    BY <2>5, <2>6, FS_Bijection DEF ExistsBijection
<1>4. ASSUME NEW p \in cov
      PROVE  (\E j \in DOMAIN points : points[j] = p) /\ SqDist(points[q], p) <= near[n].d2
  <2>1. PICK i \in 1 .. n : p = points[js[i]]
    OBVIOUS
  <2>2. js[i] \in DOMAIN points /\ SqDist(points[q], p) = list[i].d2
    BY <1>2, <2>1
  <2>3. QED
    BY <2>1, <2>2
<1>5. ASSUME NEW j \in DOMAIN points, SqDist(points[q], points[j]) < near[n].d2 PROVE points[j] \in cov
  <2>1. Candidate(q, j) \in AllOf(q) /\ Candidate(q, j).d2 < near[n].d2 /\ Candidate(q, j).j = j
    BY <1>5, AllType
  <2>2. PICK i \in 1 .. n : list[i] = Candidate(q, j)
    BY <2>1
  <2>3. js[i] = j
    BY <1>2, <2>1, <2>2
  <2>4. QED
    BY <2>3
<1> HIDE DEF cov
<1>6. QED
  BY <1>1, <1>3, <1>4, <1>5 DEF Covers

\* The nearest points of a query.
NearestOf(q, k) == Select(AllOf(q), k)[k]

LEMMA NearestIsBest ==
    ASSUME Preprocessed, NEW q \in DOMAIN keys, NEW k \in Nat \ {0}
    PROVE  /\ Best(NearestOf(q, k), AllOf(q), k)
           /\ Len(NearestOf(q, k)) \in Nat \ {0}
<1> DEFINE near == NearestOf(q, k)
           A == AllOf(q)
<1>1. Best(near, A, k) /\ A \subseteq Scored
  BY AllType, SelectBest DEF NearestOf
<1>2. Candidate(q, q) \in A
  BY AllType DEF Preprocessed
<1> HIDE DEF near, A
<1>3. Len(near) \in Nat /\ Closest(near, Len(near), A, k)
  BY <1>1, BestOrder
<1>4. (\E i \in 1 .. Len(near) : near[i] = Candidate(q, q)) \/ Len(near) = k
  BY <1>2, <1>3 DEF Closest
<1>5. Len(near) # 0
  BY <1>3, <1>4
<1>6. QED
  BY <1>1, <1>3, <1>5 DEF near, A

\* Selection by force covers them.
LEMMA ForceCovers ==
    ASSUME Preprocessed, NEW q \in DOMAIN keys, NEW k \in Nat \ {0}
    PROVE  Covers(q, NearestOf(q, k), CovFrom(NearestOf(q, k)))
<1> DEFINE near == NearestOf(q, k)
           A == AllOf(q)
           n == Len(near)
<1>1. Best(near, A, k) /\ A \subseteq Scored /\ n # 0
  BY AllType, NearestIsBest
<1> HIDE DEF near, A
<1>2. n \in Nat /\ DOMAIN near = 1 .. n /\ Closest(near, n, A, k)
  BY <1>1, BestOrder
<1> HIDE DEF n
<1>3. n \in 1 .. n
  BY <1>1, <1>2
<1>4. \A c \in A : c.d2 \in Nat
  BY <1>1, LexOrder
<1>5. \A i \in 1 .. n : near[i] \in A /\ near[i].d2 \in Nat /\ near[i].d2 <= near[n].d2
  BY <1>2, <1>3 DEF Closest
<1>6. \A c \in A : c.d2 < near[n].d2 => \E i \in 1 .. n : near[i] = c
  <2>1. \A c \in A : (\E i \in 1 .. n : near[i] = c) \/ near[n].d2 <= c.d2
    BY <1>2, <1>3 DEF Closest
  <2>2. QED
    BY <1>3, <1>4, <1>5, <2>1
<1>7. Different(near, n)
  BY <1>2 DEF Closest
<1>8. Len(near) = n
  BY DEF n
<1>9. Covers(q, near, CovFrom(near))
  BY <1>2, <1>5, <1>6, <1>7, <1>8, CovCovers DEF A
<1>10. QED
  BY <1>9 DEF near

\* The best of a cube cover them if nothing outside of it is closer.
LEMMA CubeCovers ==
    ASSUME Preprocessed, NEW q \in DOMAIN keys, NEW k \in Nat \ {0}, NEW J \in SUBSET (DOMAIN keys),
           NEW list, Best(list, Scores(q, J), k), Len(list) = k,
           \A j \in DOMAIN keys \ J : list[k].d2 <= SqDist(points[q], points[j])
    PROVE  Len(NearestOf(q, k)) = k /\ Covers(q, NearestOf(q, k), CovFrom(list))
<1> DEFINE near == NearestOf(q, k)
           A == AllOf(q)
           V == Scores(q, J)
<1>1. Best(near, A, k) /\ A \subseteq Scored
  BY AllType, NearestIsBest
<1>2. V \subseteq A
  BY AllType DEF Scores
<1>3. \A c \in A \ V : list[k].d2 <= c.d2
  <2>1. ASSUME NEW c \in A \ V PROVE list[k].d2 <= c.d2
    <3>1. c.j \in DOMAIN keys /\ c = Candidate(q, c.j) /\ c.d2 = SqDist(points[q], points[c.j])
      BY AllType
    <3>2. c.j \notin J
      BY <2>1, <3>1 DEF Scores
    <3>3. QED
      BY <3>1, <3>2
  <2>2. QED
    BY <2>1
<1>4. Best(list, V, k)
  OBVIOUS
<1> HIDE DEF near, A, V
<1>5. Len(near) = k /\ list[k].d2 = near[k].d2
  BY <1>1, <1>2, <1>3, <1>4, PartAgrees
<1>6. DOMAIN list = 1 .. k /\ Closest(list, k, V, k)
  <2>1. V \subseteq Scored
    BY <1>1, <1>2
  <2>2. DOMAIN list = 1 .. Len(list) /\ Closest(list, Len(list), V, k)
    BY <1>4, <2>1, BestOrder
  <2>3. QED
    BY <2>2
<1>7. k \in 1 .. k /\ k \in Nat
  OBVIOUS
<1>8. \A i \in 1 .. k : list[i] \in A /\ list[i].d2 <= near[k].d2 /\ list[i].d2 \in Nat
  BY <1>2, <1>5, <1>6, <1>7 DEF Closest
<1>9. ASSUME NEW c \in A, c.d2 < near[k].d2 PROVE \E i \in 1 .. k : list[i] = c
  <2>1. c.d2 \in Nat /\ list[k].d2 \in Nat
    BY <1>1, <1>7, <1>8, LexOrder
  <2>2. ~(list[k].d2 <= c.d2)
    BY <1>5, <1>9, <2>1
  <2>3. c \in V
    BY <1>3, <2>2
  <2>4. QED
    BY <1>6, <1>7, <2>2, <2>3 DEF Closest
<1>10. Different(list, k)
  BY <1>6 DEF Closest
<1>11. Covers(q, near, CovFrom(list))
  BY <1>5, <1>6, <1>7, <1>8, <1>9, <1>10, CovCovers DEF A
<1>12. QED
  BY <1>5, <1>11 DEF near

\* What the search over shells leaves covers them if it stopped ...
LEMMA StoppedCovers ==
    ASSUME Preprocessed, NEW q \in DOMAIN keys, NEW k \in Nat \ {0}, NEW r, Stopped(q, k, r)
    PROVE  Covers(q, NearestOf(q, k), CovFrom(r.top))
<1>1. PICK s \in 0 .. MaxShell :
          /\ Best(r.top, Scores(q, Reached(q, s)), k) /\ Len(r.top) = k
          /\ r.top[k].d2 <= Sq(StopBound(q, s))
  BY DEF Stopped
<1>2. s \in Nat
  BY ShellAssumption
<1>3. Reached(q, s) \in SUBSET (DOMAIN keys)
  BY DEF Reached
<1> DEFINE list == r.top
<1>4. list[k].d2 \in Nat
  <2>1. Scores(q, Reached(q, s)) \subseteq Scored
    BY <1>3, CandidateType
  <2>2. Closest(list, Len(list), Scores(q, Reached(q, s)), k)
    BY <1>1, <2>1, BestOrder
  <2>3. k \in 1 .. k /\ Len(list) = k
    BY <1>1
  <2>4. QED
    BY <2>2, <2>3 DEF Closest
<1>5. ASSUME NEW j \in DOMAIN keys \ Reached(q, s) PROVE list[k].d2 <= SqDist(points[q], points[j])
  <2>1. Sq(StopBound(q, s)) \in Nat /\ Sq(StopBound(q, s)) <= SqDist(points[q], points[j])
    BY <1>2, NotReached, StopBelow
  <2>2. SqDist(points[q], points[j]) \in Nat
    BY PreprocessedType, DistType
  <2>3. QED
    BY <1>1, <1>4, <2>1, <2>2
<1> HIDE DEF list
<1>6. Covers(q, NearestOf(q, k), CovFrom(list))
  BY <1>1, <1>3, <1>5, CubeCovers DEF list
<1>7. QED
  BY <1>6 DEF list

\* ... and also if it did not, when they are within reach of all shells.
LEMMA ReachCovers ==
    ASSUME Preprocessed, NEW q \in DOMAIN keys, NEW k \in Nat \ {0},
           NEW list, Best(list, Scores(q, Reached(q, MaxShell)), k),
           Len(NearestOf(q, k)) = k, NearestOf(q, k)[k].d2 <= Sq(MaxShell * Res)
    PROVE  Covers(q, NearestOf(q, k), CovFrom(list))
<1> DEFINE near == NearestOf(q, k)
           A == AllOf(q)
           J == Reached(q, MaxShell)
           V == Scores(q, J)
<1>1. Best(near, A, k) /\ A \subseteq Scored
  BY AllType, NearestIsBest
<1>2. J \in SUBSET (DOMAIN keys) /\ MaxShell \in Nat
  BY ShellAssumption DEF Reached
<1>3. V \subseteq A
  BY <1>2, AllType DEF Scores
<1>4. near[k].d2 \in Nat
  <2>1. Closest(near, Len(near), A, k)
    BY <1>1, BestOrder
  <2>2. k \in 1 .. k
    OBVIOUS
  <2>3. QED
    BY <2>1, <2>2 DEF Closest
<1>5. ASSUME NEW j \in DOMAIN keys \ J PROVE near[k].d2 < SqDist(points[q], points[j])
  <2>1. Sq(MaxShell * Res) < SqDist(points[q], points[j])
    BY <1>2, NotReached, PreprocessedType, OutsideFar
  <2>2. SqDist(points[q], points[j]) \in Nat /\ Sq(MaxShell * Res) \in Nat
    <3>1. MaxShell * Res \in Int
      BY <1>2, ResAssumption
    <3>2. QED
      BY <3>1, PreprocessedType, DistType, SqType
  <2> DEFINE x == near[k].d2
             y == Sq(MaxShell * Res)
             z == SqDist(points[q], points[j])
  <2>3. x \in Nat /\ y \in Nat /\ z \in Nat /\ x <= y /\ y < z
    BY <1>4, <2>1, <2>2
  <2> HIDE DEF x, y, z
  <2>4. x < z
    BY <2>3
  <2>5. QED
    BY <2>4 DEF x, z
<1>6. \A c \in A \ V : near[k].d2 < c.d2
  <2>1. ASSUME NEW c \in A \ V PROVE near[k].d2 < c.d2
    <3>1. c.j \in DOMAIN keys /\ c = Candidate(q, c.j) /\ c.d2 = SqDist(points[q], points[c.j])
      BY AllType
    <3>2. c.j \notin J
      BY <2>1, <3>1 DEF Scores
    <3>3. QED
      BY <1>5, <3>1, <3>2
  <2>2. QED
    BY <2>1
<1>7. Best(list, V, k) /\ Len(near) = k
  OBVIOUS
<1>8. \A j \in DOMAIN keys : Candidate(q, j) \in A /\ (j \notin J => Candidate(q, j) \notin V)
      /\ Candidate(q, j).d2 = SqDist(points[q], points[j])
  BY <1>2, CandidateType, AllType DEF Preprocessed
<1> HIDE DEF near, A, V, J
<1>9. Len(list) = k /\ \A c \in A \ V : list[k].d2 <= c.d2
  BY <1>1, <1>3, <1>6, <1>7, PartHolds
<1>10. \A j \in DOMAIN keys \ J : list[k].d2 <= SqDist(points[q], points[j])
  <2>1. ASSUME NEW j \in DOMAIN keys \ J PROVE list[k].d2 <= SqDist(points[q], points[j])
    <3>1. Candidate(q, j) \in A \ V
      BY <1>8
    <3>2. list[k].d2 <= Candidate(q, j).d2
      BY <1>9, <3>1
    <3>3. QED
      BY <1>8, <3>2
  <2>2. QED
    BY <2>1
<1>11. QED
  BY <1>2, <1>7, <1>9, <1>10, CubeCovers DEF V

-----------------------------------------------------------------------------
(* The points of a downsampled cloud are in their voxels.                  *)
-----------------------------------------------------------------------------
LEMMA SumBetween ==
    ASSUME NEW S, IsFiniteSet(S), NEW f, NEW lo \in Int, NEW hi \in Int,
           \A x \in S : f[x] \in Int /\ lo <= f[x] /\ f[x] <= hi
    PROVE  LET s == SumFunctionOnSet(f, S) IN
           s \in Int /\ lo * Cardinality(S) <= s /\ s <= hi * Cardinality(S)
<1> DEFINE sum(R) == SumFunctionOnSet(f, R)
           Within(R) == lo * Cardinality(R) <= sum(R) /\ sum(R) <= hi * Cardinality(R)
           Bad == {R \in SUBSET S : ~Within(R)}
<1>1. ASSUME Bad # {} PROVE FALSE
  <2>1. PICK R \in Bad : \A x \in R : R \ {x} \notin Bad
    BY <1>1, SmallestSet
  <2>2. R \in SUBSET S /\ ~Within(R)
    OBVIOUS
  <2>3. IsFiniteSet(R) /\ Cardinality(R) \in Nat
    BY <2>2, FS_Subset, FS_CardinalityType
  <2>4. R # {}
    <3>1. ASSUME R = {} PROVE Within(R)
      <4>1. sum(R) = 0 /\ Cardinality(R) = 0
        BY <3>1, SumEmpty, FS_EmptySet
      <4> HIDE DEF sum
      <4>2. QED
        BY <4>1
    <3>2. QED
      BY <2>2, <3>1
  <2>5. PICK x \in R : TRUE
    BY <2>4
  <2>6. sum(R) = f[x] + sum(R \ {x})
    BY <2>2, <2>3, SumWithout
  <2>7. Within(R \ {x})
    BY <2>1, <2>2, <2>5
  <2>8. IsFiniteSet(R \ {x}) /\ sum(R \ {x}) \in Int
    BY <2>2, <2>3, FS_Subset, SumType
  <2>9. Cardinality(R \ {x}) = Cardinality(R) - 1 /\ f[x] \in Int /\ lo <= f[x] /\ f[x] <= hi
    BY <2>2, <2>3, FS_RemoveElement
  <2> DEFINE c == Cardinality(R)
             y == f[x]
             t == sum(R \ {x})
  <2>10. c \in Nat /\ y \in Int /\ t \in Int /\ lo <= y /\ y <= hi /\ lo * (c - 1) <= t /\ t <= hi * (c - 1)
    BY <2>3, <2>7, <2>8, <2>9
  <2> HIDE DEF c, y, t
  <2>11. lo * c <= y + t /\ y + t <= hi * c
    <3>1. lo * (c - 1) = lo * c - lo /\ hi * (c - 1) = hi * c - hi /\ lo * c \in Int /\ hi * c \in Int
      BY <2>10
    <3>2. QED
      BY <2>10, <3>1
  <2>12. QED
    BY <2>2, <2>6, <2>11 DEF c, y, t
<1>2. Within(S)
  BY <1>1
<1>3. sum(S) \in Int
  BY SumType
<1>4. QED
  BY <1>2, <1>3

\* The mean of what is in a voxel is in it.
LEMMA MeanBetween ==
    ASSUME NEW r \in Nat \ {0}, NEW v \in Int, NEW c \in Nat \ {0}, NEW s \in Int,
           (r * v) * c <= s, s <= (r * v + r - 1) * c
    PROVE  s \div c \in Int /\ (s \div c) \div r = v
<1> DEFINE m == s \div c
           rest == s % c
           lo == r * v
           hi == r * v + r - 1
<1>1. m \in Int /\ rest \in 0 .. c - 1 /\ s = c * m + rest
  BY DivMod
<1> HIDE DEF m, rest
<1>2. lo \in Int /\ hi \in Int /\ lo * c <= s /\ s <= hi * c /\ hi = lo + r - 1
  OBVIOUS
<1> HIDE DEF lo, hi
<1>3. c * m \in Int /\ c * lo = lo * c /\ c * hi = hi * c /\ c * lo \in Int /\ c * hi \in Int
  BY <1>1, <1>2
<1>4. ~(m < lo)
  <2>1. m < lo => c * lo >= c * m + c
    BY <1>1, <1>2, Apart
  <2>2. QED
    BY <1>1, <1>2, <1>3, <2>1
<1>5. ~(hi < m)
  <2>1. hi < m => c * m >= c * hi + c
    BY <1>1, <1>2, Apart
  <2>2. QED
    BY <1>1, <1>2, <1>3, <2>1
<1>6. m - lo \in 0 .. r - 1
  BY <1>1, <1>2, <1>4, <1>5
<1>7. m = (m - lo) + r * v
  BY <1>1, <1>2 DEF lo
<1>8. m \div r = v
  <2> DEFINE a == m - lo
  <2>1. a \in 0 .. r - 1 /\ m = a + r * v
    BY <1>6, <1>7
  <2> HIDE DEF a
  <2>2. QED
    BY <1>1, <2>1, Digits
<1>9. QED
  BY <1>1, <1>8 DEF m

LEMMA MeanInVoxel ==
    ASSUME NEW cloud, IsCloud(cloud), NEW key, key # INVALID_KEY,
           NEW b \in DOMAIN cloud, voxel_key(cloud[b]) = key
    PROVE  LET p == MeanOf(cloud, {i \in DOMAIN cloud : voxel_key(cloud[i]) = key}) IN
           p = <<p[1], p[2]>> /\ p \in Int \X Int /\ voxel_key(p) = key
<1> DEFINE M == {i \in DOMAIN cloud : voxel_key(cloud[i]) = key}
           p == MeanOf(cloud, M)
           c == Cardinality(M)
           f(a) == [i \in M |-> cloud[i][a]]
<1>1. /\ Len(cloud) \in Nat /\ DOMAIN cloud = 1 .. Len(cloud)
      /\ \A i \in DOMAIN cloud : cloud[i] \in Int \X Int
  BY DEF IsCloud
<1>2. IsFiniteSet(M) /\ c \in Nat \ {0}
  <2> DEFINE n == Len(cloud)
  <2>1. IsFiniteSet(DOMAIN cloud)
    <3>1. n \in Int /\ DOMAIN cloud = 1 .. n
      BY <1>1
    <3> HIDE DEF n, M
    <3>2. QED
      BY <3>1, FS_Interval
  <2>2. M \subseteq DOMAIN cloud /\ b \in M
    OBVIOUS
  <2> HIDE DEF M
  <2>3. QED
    BY <2>1, <2>2, FS_Subset, FS_CardinalityType, FS_EmptySet
<1>3. \A i \in M : \A a \in Axes : Voxel(cloud[i])[a] = Voxel(cloud[b])[a]
  <2>1. ASSUME NEW i \in M PROVE Voxel(cloud[i])[1] = Voxel(cloud[b])[1] /\ Voxel(cloud[i])[2] = Voxel(cloud[b])[2]
    <3>1. /\ key_coord(voxel_key(cloud[i])) = <<Voxel(cloud[i])[1], Voxel(cloud[i])[2]>>
          /\ key_coord(voxel_key(cloud[b])) = <<Voxel(cloud[b])[1], Voxel(cloud[b])[2]>>
      BY <1>1, KeyParts
    <3>2. QED
      BY <3>1
  <2>2. QED
    BY <2>1 DEF Axes
<1>4. p = [a \in Axes |-> SumFunctionOnSet(f(a), M) \div c]
  <2>1. \A a : DOMAIN f(a) = M
    OBVIOUS
  <2>2. \A a : SumFunction(f(a)) = SumFunctionOnSet(f(a), M)
    BY <2>1 DEF SumFunction
  <2>3. p = [a \in Axes |-> SumFunction(f(a)) \div c]
    BY DEF MeanOf
  <2> HIDE DEF f, p, c
  <2>4. QED
    BY <2>2, <2>3
<1>5. ASSUME NEW a \in Axes
      PROVE  p[a] \in Int /\ p[a] \div Res = Voxel(cloud[b])[a]
  <2> DEFINE v == Voxel(cloud[b])[a]
             lo == Res * v
             hi == Res * v + Res - 1
             s == SumFunctionOnSet(f(a), M)
  <2>1. v \in Int /\ lo \in Int /\ hi \in Int /\ Res \in Nat \ {0}
    <3>1. v \in Int
      BY <1>1, VoxelParts
    <3> HIDE DEF v
    <3>2. QED
      BY <3>1, ResAssumption
  <2>2. ASSUME NEW i \in M PROVE f(a)[i] \in Int /\ lo <= f(a)[i] /\ f(a)[i] <= hi
    <3> DEFINE g == Frac(cloud[i])[a]
               x == cloud[i][a]
    <3>1. x \in Int /\ g \in 0 .. Res - 1 /\ x = Res * v + g
      BY <1>1, <1>3, VoxelParts
    <3>2. f(a)[i] = x
      OBVIOUS
    <3> HIDE DEF x, g, v, f
    <3>3. QED
      BY <2>1, <3>1, <3>2
  <2>3. s \in Int /\ lo * c <= s /\ s <= hi * c
    <3> HIDE DEF lo, hi, f, M
    <3>1. QED
      BY <1>2, <2>1, <2>2, SumBetween
  <2>4. p[a] = s \div c
    BY <1>4
  <2> HIDE DEF s, c, v, p
  <2>5. s \div c \in Int /\ (s \div c) \div Res = v
    BY <1>2, <2>1, <2>3, MeanBetween
  <2>6. QED
    BY <2>4, <2>5 DEF v
<1>6. p = <<p[1], p[2]>> /\ p \in Int \X Int
  <2>1. p[1] \in Int /\ p[2] \in Int
    BY <1>5 DEF Axes
  <2>2. p = [a \in Axes |-> p[a]]
    BY <1>4
  <2> HIDE DEF p
  <2>3. QED
    BY <2>1, <2>2 DEF Axes
<1>7. Voxel(p) = Voxel(cloud[b])
  <2> HIDE DEF p
  <2>1. Voxel(p) = [a \in Axes |-> p[a] \div Res] /\ Voxel(cloud[b]) = [a \in Axes |-> Voxel(cloud[b])[a]]
    BY DEF Voxel
  <2>2. QED
    BY <1>5, <2>1
<1>8. voxel_key(p) = key
  BY <1>7 DEF voxel_key
<1>9. QED
  BY <1>6, <1>8

\* What NeighborsExact says of points, their keys and their covariances.
ForceOf(pts, q, k) ==
    LET all == {[d2 |-> SqDist(pts[q], pts[j]), j |-> j] : j \in DOMAIN pts}
        select[r \in 0 .. k] ==
            IF r = 0 THEN <<>>
            ELSE LET prev == select[r - 1]
                     rest == {c \in all : prev = <<>> \/ lex_less(Last(prev), c)}
                 IN  IF rest = {} THEN prev
                     ELSE Append(prev, CHOOSE c \in rest : \A x \in rest \ {c} : lex_less(c, x))
    IN  [r \in DOMAIN select[k] |-> select[k][r].j]

Furthest(pts, q, k) == SqDist(pts[q], pts[Last(ForceOf(pts, q, k))])
InScope(ks, pts, q, k) ==
    \/ Len(ks) <= BfMaxPoints
    \/ Len(ForceOf(pts, q, k)) = k /\ Furthest(pts, q, k) <= Sq(MaxShell * Res)
Exact(pts, q, k, cov) ==
    IF Len(ForceOf(pts, q, k)) < MinNeighbors THEN cov = Identity
    ELSE /\ Cardinality(cov) = Len(ForceOf(pts, q, k))
         /\ \A p \in cov :
               /\ \E j \in DOMAIN pts : pts[j] = p
               /\ SqDist(pts[q], p) <= Furthest(pts, q, k)
         /\ \A j \in DOMAIN pts :
               SqDist(pts[q], pts[j]) < Furthest(pts, q, k) => pts[j] \in cov
Exactly(ks, pts, k, cv) == \A q \in DOMAIN ks : InScope(ks, pts, q, k) => Exact(pts, q, k, cv[q])

LEMMA NeighborsDef ==
    /\ NeighborsExact <=> (asked # 0 => Exactly(keys, points, asked, covs))
    /\ NeighborsExact' <=> (asked' # 0 => Exactly(keys', points', asked', covs'))
<1>1. NeighborsExact <=> (asked # 0 => Exactly(keys, points, asked, covs))
  BY DEF NeighborsExact, SelectByForce, Candidate, Exactly, InScope, Exact, Furthest, ForceOf
<1>2. NeighborsExact' <=> (asked' # 0 => Exactly(keys', points', asked', covs'))
  BY DEF NeighborsExact, SelectByForce, Candidate, Exactly, InScope, Exact, Furthest, ForceOf
<1>3. QED
  BY <1>1, <1>2

LEMMA ForceNearest ==
    ASSUME Preprocessed, NEW q \in DOMAIN keys, NEW k \in Nat \ {0}
    PROVE  LET near == NearestOf(q, k)
               s == SelectByForce(q, k) IN
           /\ s = [r \in DOMAIN near |-> near[r].j] /\ s \in Seq(DOMAIN keys)
           /\ Len(s) = Len(near) /\ Len(near) \in Nat \ {0}
           /\ CovOf(s) = CovFrom(near)
           /\ SqDist(points[q], points[Last(s)]) = near[Len(near)].d2
           /\ ForceOf(points, q, k) = s
<1> DEFINE near == NearestOf(q, k)
           s == SelectByForce(q, k)
           n == Len(near)
<1>1. s = [r \in DOMAIN near |-> near[r].j]
  BY ForceIs DEF NearestOf
<1>2. n \in Nat \ {0} /\ DOMAIN near = 1 .. n /\ \A i \in 1 .. n : near[i] \in AllOf(q)
  <2>1. AllOf(q) \subseteq Scored /\ Best(near, AllOf(q), k) /\ n \in Nat \ {0}
    BY AllType, NearestIsBest
  <2> HIDE DEF near
  <2>2. DOMAIN near = 1 .. Len(near) /\ near \in Seq(AllOf(q))
    BY <2>1, BestOrder
  <2>3. \A i \in DOMAIN near : near[i] \in AllOf(q)
    BY <2>2
  <2>4. QED
    BY <2>1, <2>2, <2>3
<1>3. ForceOf(points, q, k) = s
  BY DEF ForceOf, SelectByForce, Candidate
<1>4. \A i \in 1 .. n : near[i].j \in DOMAIN keys /\ near[i].d2 = SqDist(points[q], points[near[i].j])
  BY <1>2, AllType
<1> HIDE DEF near, s, n
<1>5. s \in Seq(DOMAIN keys) /\ Len(s) = n
  BY <1>1, <1>2, <1>4
<1>6. Last(s) = near[n].j
  BY <1>1, <1>2, <1>5 DEF Last
<1>7. CovOf(s) = CovFrom(near)
  BY <1>1 DEF CovFrom
<1>8. n \in 1 .. n
  BY <1>2
<1>9. QED
  BY <1>1, <1>2, <1>3, <1>4, <1>5, <1>6, <1>7, <1>8 DEF near, s, n

LEMMA ExactlyIs ==
    ASSUME Preprocessed, NEW k \in Nat \ {0}, NEW cv,
           \A q \in DOMAIN keys :
              \/ Len(keys) <= BfMaxPoints
              \/ Len(NearestOf(q, k)) = k /\ NearestOf(q, k)[k].d2 <= Sq(MaxShell * Res)
              => Covers(q, NearestOf(q, k), cv[q])
    PROVE  Exactly(keys, points, k, cv)
<1> SUFFICES ASSUME NEW q \in DOMAIN keys, InScope(keys, points, q, k)
             PROVE  Exact(points, q, k, cv[q])
  BY DEF Exactly
<1> DEFINE near == NearestOf(q, k)
<1>1. Len(ForceOf(points, q, k)) = Len(near) /\ Furthest(points, q, k) = near[Len(near)].d2
  BY ForceNearest DEF Furthest
<1>2. Covers(q, near, cv[q])
  BY <1>1 DEF InScope
<1> HIDE DEF near
<1>3. QED
  BY <1>1, <1>2 DEF Covers, Exact

\* What the kernels leave is computed from the nearest points.
LEMMA EstimateExact ==
    ASSUME Preprocessed, NEW k \in Neighbors, EstimateCovariances(k)
    PROVE  Exactly(keys, points, k, covs')
<1> DEFINE n == Len(keys)
           shell == [q \in DOMAIN keys |-> ShellSearch(q, k)]
           by_shells == [q \in DOMAIN keys |-> CovOf([r \in DOMAIN shell[q].top |-> shell[q].top[r].j])]
<1>1. k \in Nat \ {0}
  BY NeighborsAssumption
<1>2. ASSUME NEW q \in DOMAIN keys
      PROVE  by_shells[q] = CovFrom(ShellSearch(q, k).top) /\ shell[q] = ShellSearch(q, k)
  BY DEF CovFrom
<1>3. ASSUME NEW q \in DOMAIN keys, ShellSearch(q, k).stop
      PROVE  Covers(q, NearestOf(q, k), by_shells[q])
  <2>1. Stopped(q, k, ShellSearch(q, k))
    BY <1>1, <1>3, SearchBest DEF AfterShells
  <2>2. Covers(q, NearestOf(q, k), CovFrom(ShellSearch(q, k).top))
    BY <1>1, <2>1, StoppedCovers
  <2>3. QED
    BY <1>2, <2>2
<1>4. ASSUME NEW q \in DOMAIN keys,
             Len(NearestOf(q, k)) = k, NearestOf(q, k)[k].d2 <= Sq(MaxShell * Res)
      PROVE  Covers(q, NearestOf(q, k), by_shells[q])
  <2>1. CASE ShellSearch(q, k).stop
    BY <1>3, <2>1
  <2>2. CASE ~ShellSearch(q, k).stop
    <3>1. Best(ShellSearch(q, k).top, Scores(q, Reached(q, (MaxShell + 1) - 1)), k)
      BY <1>1, <2>2, SearchBest DEF AfterShells
    <3>2. (MaxShell + 1) - 1 = MaxShell
      BY ShellAssumption
    <3>3. Covers(q, NearestOf(q, k), CovFrom(ShellSearch(q, k).top))
      BY <1>1, <1>4, <3>1, <3>2, ReachCovers
    <3>4. QED
      BY <1>2, <3>3
  <2>3. QED
    BY <2>1, <2>2
<1>5. ASSUME NEW q \in DOMAIN keys
      PROVE  LET s == SelectByForce(q, k) IN
             /\ Len(s) # 0
             /\ Covers(q, NearestOf(q, k), CovOf(SubSeq(s, 1, Len(s))))
  <2> DEFINE s == SelectByForce(q, k)
             near == NearestOf(q, k)
  <2>1. s \in Seq(DOMAIN keys) /\ Len(s) = Len(near) /\ Len(near) \in Nat \ {0} /\ CovOf(s) = CovFrom(near)
    BY <1>1, ForceNearest
  <2>2. Covers(q, near, CovFrom(near))
    BY <1>1, ForceCovers
  <2> HIDE DEF s, near
  <2>3. SubSeq(s, 1, Len(s)) = s
    BY <2>1
  <2>4. QED
    BY <2>1, <2>2, <2>3 DEF s, near
<1>6. \/ /\ n <= BfMaxPoints
         /\ \A q \in DOMAIN keys :
               /\ sel_j'[q] = IF Answered(shell[q], k) THEN Keeps(n, <<>>, sel_j)[q] ELSE SelectByForce(q, k)
               /\ found'[q] = IF Answered(shell[q], k) THEN 0 ELSE Len(sel_j'[q])
               /\ covs'[q] = IF found'[q] = 0 THEN by_shells[q] ELSE CovOf(SubSeq(sel_j'[q], 1, found'[q]))
      \/ n > BfMaxPoints /\ covs' = by_shells
  BY DEF EstimateCovariances
<1> HIDE DEF n, by_shells, shell
<1>7. CASE n > BfMaxPoints /\ covs' = by_shells
  <2>1. ~(Len(keys) <= BfMaxPoints)
    <3>1. Len(keys) \in Nat /\ BfMaxPoints \in Nat
      BY PreprocessedType, LimitAssumption
    <3>2. QED
      BY <1>7, <3>1 DEF n
  <2>2. QED
    BY <1>1, <1>4, <1>7, <2>1, ExactlyIs
<1>8. CASE ~(n > BfMaxPoints /\ covs' = by_shells)
  <2>1. ASSUME NEW q \in DOMAIN keys PROVE Covers(q, NearestOf(q, k), covs'[q])
    <3> DEFINE s == SelectByForce(q, k)
    <3>1. CASE Answered(shell[q], k)
      <4>1. ShellSearch(q, k).stop
        BY <1>2, <3>1 DEF Answered
      <4>2. covs'[q] = by_shells[q]
        BY <1>6, <1>8, <3>1
      <4>3. QED
        BY <1>3, <4>1, <4>2
    <3>2. CASE ~Answered(shell[q], k)
      <4>1. sel_j'[q] = s /\ found'[q] = Len(s) /\ Len(s) # 0
        BY <1>5, <1>6, <1>8, <3>2
      <4>2. covs'[q] = CovOf(SubSeq(s, 1, Len(s)))
        BY <1>6, <1>8, <4>1
      <4>3. QED
        BY <1>5, <4>2
    <3>3. QED
      BY <3>1, <3>2
  <2>2. QED
    BY <1>1, <2>1, ExactlyIs
<1>9. QED
  BY <1>7, <1>8

\* A raw cloud has no covariances to speak of; a downsampled one has its keys.
CovInv ==
    /\ IsCloud(raw)
    /\ stage = "raw" => asked = 0
    /\ stage # "raw" => DOMAIN points = DOMAIN keys

LEMMA ReadyPreprocessed ==
    ASSUME IndexInv, IndexExact, BucketsExact, CovInv, stage = "ready", keys # <<>>
    PROVE  Preprocessed
<1>1. IsKeyList(keys)
  BY DEF IndexInv, Indexing, Tabled
<1>2. DOMAIN points = DOMAIN keys /\ IsCloud(raw)
  BY DEF CovInv
<1>3. Downsampled(keys, points, raw)
  BY BucketsDef
<1>4. ASSUME NEW b \in DOMAIN keys
      PROVE  points[b] \in Int \X Int /\ voxel_key(points[b]) = keys[b]
  <2>1. PICK i \in DOMAIN raw : voxel_key(raw[i]) = keys[b] /\ keys[b] # INVALID_KEY
    <3>1. keys[b] \in {keys[c] : c \in DOMAIN keys}
      OBVIOUS
    <3>2. keys[b] \in {voxel_key(raw[i]) : i \in DOMAIN raw} \ {INVALID_KEY}
      BY <1>3, <3>1 DEF Downsampled
    <3>3. QED
      BY <3>2
  <2>2. points[b] = MeanOf(raw, {m \in DOMAIN raw : voxel_key(raw[m]) = keys[b]})
    BY <1>3 DEF Downsampled
  <2>3. QED
    BY <1>2, <2>1, <2>2, MeanInVoxel
<1>5. QED
  BY <1>1, <1>2, <1>4 DEF Preprocessed, IndexExact

LEMMA CovKept ==
    ASSUME CovInv, NextCloud
    PROVE  CovInv'
<1>1. CASE Load
  BY <1>1, RawAssumption DEF Load, CovInv, IsCloud
<1>2. CASE RunNothing
  BY <1>2 DEF RunNothing, CovInv, IsCloud
<1>3. CASE Run
  BY <1>3 DEF Run, CovInv, IsCloud, Centroids, BucketKeys
<1>4. CASE \E i \in DOMAIN thread : ClaimSlot(i)
  BY <1>4 DEF ClaimSlot, CovInv, IsCloud
<1>5. CASE \E i \in DOMAIN thread : StoreIndex(i)
  BY <1>5 DEF StoreIndex, CovInv, IsCloud
<1>6. CASE IndexBuilt
  BY <1>6 DEF IndexBuilt, CovInv, IsCloud
<1>7. CASE \E k \in Neighbors : EstimateCovariances(k)
  BY <1>7 DEF EstimateCovariances, CovInv, IsCloud
<1>8. QED
  BY <1>1, <1>2, <1>3, <1>4, <1>5, <1>6, <1>7 DEF NextCloud

\* NeighborsExact: every covariance of a cloud small enough for the brute-force
\* kernels, and of a larger one every covariance whose k-th neighbour is within
\* MAX_SHELL voxels, is computed from k nearest points, or from all if they are
\* fewer, or is the identity if these are too few.
THEOREM NeighborsExactHolds == CloudSpec => []NeighborsExact
<1>1. InitCloud => CovInv /\ NeighborsExact
  <2>1. <<>> \in Seq(Int \X Int)
    OBVIOUS
  <2>2. QED
    BY <2>1 DEF InitCloud, CovInv, IsCloud, NeighborsExact
<1>2. ASSUME IndexInv, IndexExact, BucketsExact, CovInv, NeighborsExact, [NextCloud]_cloudVars
      PROVE  CovInv' /\ NeighborsExact'
  <2>1. ASSUME UNCHANGED <<points, keys, covs, asked>> PROVE NeighborsExact'
    BY <1>2, <2>1, NeighborsDef
  <2>2. CASE Load
    <3>1. asked' = 0
      BY <2>2 DEF Load
    <3>2. QED
      BY <1>2, <2>2, <3>1, NeighborsDef, CovKept DEF NextCloud
  <2>3. CASE RunNothing \/ Run
    <3>1. stage = "raw" /\ asked' = asked
      BY <2>3 DEF RunNothing, Run
    <3>2. asked' = 0
      BY <1>2, <3>1 DEF CovInv
    <3>3. QED
      BY <1>2, <2>3, <3>2, NeighborsDef, CovKept DEF NextCloud
  <2>4. CASE \E i \in DOMAIN thread : ClaimSlot(i)
    <3>1. UNCHANGED <<points, keys, covs, asked>>
      BY <2>4 DEF ClaimSlot
    <3>2. QED
      BY <1>2, <2>1, <2>4, <3>1, CovKept DEF NextCloud
  <2>5. CASE \E i \in DOMAIN thread : StoreIndex(i)
    <3>1. UNCHANGED <<points, keys, covs, asked>>
      BY <2>5 DEF StoreIndex
    <3>2. QED
      BY <1>2, <2>1, <2>5, <3>1, CovKept DEF NextCloud
  <2>6. CASE IndexBuilt
    <3>1. UNCHANGED <<points, keys, covs, asked>>
      BY <2>6 DEF IndexBuilt
    <3>2. QED
      BY <1>2, <2>1, <2>6, <3>1, CovKept DEF NextCloud
  <2>7. CASE \E k \in Neighbors : EstimateCovariances(k)
    <3>1. PICK k \in Neighbors : EstimateCovariances(k)
      BY <2>7
    <3>2. stage = "ready" /\ keys # <<>> /\ keys' = keys /\ points' = points /\ asked' = k
      BY <3>1 DEF EstimateCovariances
    <3>3. Preprocessed
      BY <1>2, <3>2, ReadyPreprocessed
    <3>4. Exactly(keys, points, k, covs')
      BY <3>1, <3>3, EstimateExact
    <3>5. NeighborsExact'
      BY <3>2, <3>4, NeighborsDef
    <3>6. QED
      BY <1>2, <2>7, <3>5, CovKept DEF NextCloud
  <2>8. CASE UNCHANGED cloudVars
    <3>1. CovInv'
      BY <1>2, <2>8 DEF cloudVars, CovInv, IsCloud
    <3>2. QED
      BY <2>1, <2>8, <3>1 DEF cloudVars
  <2>9. QED
    BY <1>2, <2>2, <2>3, <2>4, <2>5, <2>6, <2>7, <2>8 DEF NextCloud
<1>3. QED
  BY <1>1, <1>2, IndexInvariance, IndexExactHolds, BucketsExactHolds, PTL DEF CloudSpec

=============================================================================
