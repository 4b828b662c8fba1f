----------------------- MODULE OnlineOdometry_proofs ------------------------
(***************************************************************************)
(* What holds for any clouds, settings and number of frames: what the      *)
(* front ends keep and hand over belongs together, and the frame by frame  *)
(* engines implement sequential odometry.                                  *)
(***************************************************************************)
EXTENDS OnlineOdometry, SequenceTheorems, TLAPS

Objects == [points : Clouds, normals : Features \cup {None}, covs : Features \cup {None}]

\* Between calls a caller's clouds carry features of their own points only, and
\* a RegistrationPCL holds no empty cloud, so that a cloud's number of points
\* tells covariances that are there from covariances that are not.
IInv ==
    /\ TypePcl
    /\ objects \in [Handles -> Objects \cup {None}]
    /\ \A h \in Handles : objects[h] # None => Own(objects[h])
    /\ \A s \in Sides : cloud[s] # None => Size[cloud[s]] > 0
    /\ k_correspondences >= 5
    /\ CachesBelong
    /\ kept.target \in Clouds \cup {None} /\ kept.tree = kept.target
    /\ InputsBelong

-----------------------------------------------------------------------------
(* Features, clouds and requests.                                          *)
-----------------------------------------------------------------------------
\* Features belong to the cloud and the tree they were computed from, and are
\* valid if there are five points and as many neighbours are asked for.
LEMMA FeatureProperties ==
    ASSUME NEW c \in Clouds, NEW k \in Int
    PROVE  LET f == estimate_local_features(c, c, k) IN
           /\ f \in Features /\ f # None
           /\ f.of = c /\ f.among = c
           /\ k >= 5 => Usable(c, f)
<1>1. Size[c] \in Nat
  BY CloudsAssumption
<1>2. estimate_local_features(c, c, k) \in Features
  BY DEF estimate_local_features, Features
<1>3. k >= 5 /\ Size[c] >= 5 => Found(c, k) >= 5
  BY <1>1 DEF Found
<1>4. QED
  BY <1>2, <1>3, NoneAssumption DEF estimate_local_features, Usable

\* A cloud whose features are its own.
LEMMA ObjectProperties ==
    ASSUME NEW c \in Clouds, NEW n \in Features \cup {None}, NEW f \in Features \cup {None},
           n # None => n.of = c /\ n.among = c,
           f # None => f.of = c /\ f.among = c
    PROVE  LET object == [points |-> c, normals |-> n, covs |-> f] IN
           object \in Objects /\ Own(object)
  BY DEF Objects, Own

\* What is handed over belongs together.
Belongs(r) ==
    /\ r.tree = r.target.points
    /\ Own(r.target)
    /\ Own(r.source)
    /\ Reads(r.factor, r.target, r.source)

\* A request made of clouds with features of their own, and the target's tree.
LEMMA RequestProperties ==
    ASSUME NEW factor, NEW target, NEW source, NEW d,
           Own(target), Own(source), Reads(factor, target, source)
    PROVE  Belongs(Request(factor, target, source, target.points, d))
  BY DEF Belongs, Request

\* preprocess_points returns a cloud with its own features, and a voxel map
\* made of a cloud carries the cloud's covariances.
LEMMA PreprocessProperties ==
    ASSUME NEW r \in DOMAIN Sampled, NEW c \in Clouds, NEW k \in Int
    PROVE  LET p == preprocess_points(c, r, k) IN
           /\ p.cloud \in Objects /\ Own(p.cloud) /\ p.tree = p.cloud.points
           /\ p.cloud.points = Sampled[r][c]
           /\ p.cloud.normals # None /\ p.cloud.covs # None
<1> DEFINE d == Sampled[r][c]
           f == estimate_local_features(d, d, k)
<1>1. d \in Clouds
  BY SampledAssumption
<1>2. f \in Features /\ f # None /\ f.of = d /\ f.among = d
  BY <1>1, FeatureProperties
<1>3. preprocess_points(c, r, k) = [cloud |-> [points |-> d, normals |-> f, covs |-> f], tree |-> d]
  BY DEF preprocess_points, estimate_normals_covariances
<1> HIDE DEF d, f
<1>4. QED
  BY <1>1, <1>2, <1>3, ObjectProperties DEF d

LEMMA MapProperties ==
    ASSUME NEW object, NEW r, Own(object)
    PROVE  LET map == create_gaussian_voxelmap(object, r) IN
           Own(map) /\ map.points = object.points /\ map.covs = object.covs
  BY DEF create_gaussian_voxelmap, Own

-----------------------------------------------------------------------------
(* The helper's functions.                                                 *)
-----------------------------------------------------------------------------
\* An action that leaves a RegistrationPCL and the engines alone.
LEMMA PutObject ==
    ASSUME IInv, NEW h \in Handles, NEW object \in Objects \cup {None},
           object # None => Own(object), Put(h, object),
           UNCHANGED <<cacheVars, settingVars, kept>>
    PROVE  IInv'
<1>1. objects' \in [Handles -> Objects \cup {None}]
  BY DEF IInv, Put
<1>2. \A g \in Handles : objects'[g] # None => Own(objects'[g])
  BY DEF IInv, Put
<1>3. handed' = None
  BY DEF Put, NoAlign
<1>4. QED
  BY <1>1, <1>2, <1>3 DEF IInv, TypePcl, CachesBelong, InputsBelong, cacheVars, settingVars

LEMMA CallRequest ==
    ASSUME IInv, NEW setting, NEW request, Belongs(request), Call(setting, request),
           UNCHANGED <<cacheVars, settingVars, kept>>
    PROVE  IInv'
  BY DEF IInv, TypePcl, CachesBelong, InputsBelong, Belongs, Call, cacheVars, settingVars

LEMMA HelperStep ==
    ASSUME IInv, NextHelper, UNCHANGED <<cacheVars, settingVars, kept>>
    PROVE  IInv'
<1>1. ASSUME NEW h \in Handles, NEW c \in Clouds, NEW r \in DOMAIN Sampled
      PROVE  PointCloud(Sampled[r][c]) \in Objects /\ Own(PointCloud(Sampled[r][c]))
  BY SampledAssumption, ObjectProperties DEF PointCloud
<1>2. ASSUME NEW h \in Handles, NEW c \in Given, NEW r \in DOMAIN Sampled, Sample(h, c, r)
      PROVE  IInv'
  BY <1>1, <1>2, PutObject, CloudsAssumption DEF Sample
<1>3. ASSUME NEW h \in Handles, NEW c \in Given, NEW r \in DOMAIN Sampled, NEW k \in Neighbors,
             Preprocess(h, c, r, k)
      PROVE  IInv'
  BY <1>3, PutObject, PreprocessProperties, CloudsAssumption, SettingsAssumption DEF Preprocess
<1>4. ASSUME NEW h \in Handles, objects[h] # None
      PROVE  objects[h] \in Objects /\ Own(objects[h]) /\ objects[h].points \in Clouds
  BY <1>4 DEF IInv, Objects
<1>5. ASSUME NEW h \in Handles, NEW g \in Handles, NEW r \in DOMAIN Sampled, SampleCloud(h, g, r)
      PROVE  IInv'
  BY <1>1, <1>4, <1>5, PutObject DEF SampleCloud
<1>6. ASSUME NEW h \in Handles, NEW g \in Handles, NEW r \in DOMAIN Sampled, NEW k \in Neighbors,
             PreprocessCloud(h, g, r, k)
      PROVE  IInv'
  BY <1>4, <1>6, PutObject, PreprocessProperties, SettingsAssumption DEF PreprocessCloud
<1>7. ASSUME NEW h \in Handles, NEW k \in Neighbors,
             EstimateNormals(h, k) \/ EstimateCovariances(h, k) \/ EstimateNormalsCovariances(h, k)
      PROVE  IInv'
  <2> DEFINE p == objects[h].points
             f == estimate_local_features(p, p, k)
             n == objects[h].normals
             v == objects[h].covs
  <2>1. objects[h] # None
    BY <1>7 DEF EstimateNormals, EstimateCovariances, EstimateNormalsCovariances
  <2>2. /\ objects[h] = [points |-> p, normals |-> n, covs |-> v] /\ p \in Clouds
        /\ n \in Features \cup {None} /\ v \in Features \cup {None}
        /\ n # None => n.of = p /\ n.among = p
        /\ v # None => v.of = p /\ v.among = p
    BY <2>1, <1>4 DEF Objects, Own
  <2>3. f \in Features /\ f.of = p /\ f.among = p
    BY <2>2, FeatureProperties, SettingsAssumption
  <2>4. \/ Put(h, [objects[h] EXCEPT !.normals = f])
        \/ Put(h, [objects[h] EXCEPT !.covs = f])
        \/ Put(h, [points |-> p, normals |-> f, covs |-> f])
    BY <1>7 DEF EstimateNormals, EstimateCovariances, EstimateNormalsCovariances,
                estimate_normals_covariances
  <2> HIDE DEF p, f, n, v
  <2>5. /\ [objects[h] EXCEPT !.normals = f] = [points |-> p, normals |-> f, covs |-> v]
        /\ [objects[h] EXCEPT !.covs = f] = [points |-> p, normals |-> n, covs |-> f]
    BY <2>2
  <2>6. /\ [points |-> p, normals |-> f, covs |-> v] \in Objects
        /\ Own([points |-> p, normals |-> f, covs |-> v])
    BY <2>2, <2>3, ObjectProperties
  <2>7. /\ [points |-> p, normals |-> n, covs |-> f] \in Objects
        /\ Own([points |-> p, normals |-> n, covs |-> f])
    BY <2>2, <2>3, ObjectProperties
  <2>8. /\ [points |-> p, normals |-> f, covs |-> f] \in Objects
        /\ Own([points |-> p, normals |-> f, covs |-> f])
    BY <2>2, <2>3, ObjectProperties
  <2>9. QED
    BY <2>4, <2>5, <2>6, <2>7, <2>8, PutObject
<1>8. ASSUME NEW type \in Types, NEW t \in Given, NEW s \in Given, NEW setting \in Settings,
             CallAlignPoints(type, t, s, setting)
      PROVE  IInv'
  <2> DEFINE r == setting.downsampling
             target == preprocess_points(t, r, 10)
             source == preprocess_points(s, r, 10)
             map == create_gaussian_voxelmap(target.cloud, setting.resolution)
  <2>1. r \in DOMAIN Sampled /\ t \in Clouds /\ s \in Clouds
    BY CloudsAssumption DEF Settings
  <2>2. /\ Own(target.cloud) /\ target.tree = target.cloud.points
        /\ target.cloud.normals # None /\ target.cloud.covs # None
    BY <2>1, PreprocessProperties
  <2>3. Own(source.cloud) /\ source.cloud.covs # None
    BY <2>1, PreprocessProperties
  <2>4. AlignPoints(type, t, s, setting) =
          IF type = "VGICP"
          THEN Request("GICP", map, source.cloud, map.points, DefaultDistance)
          ELSE Request(type, target.cloud, source.cloud, target.tree, setting.max_dist)
    BY DEF AlignPoints, AlignMap, AlignTree
  <2> HIDE DEF target, source, r
  <2>5. Own(map) /\ map.covs # None
    BY <2>2, MapProperties
  <2> HIDE DEF map
  <2>6. CASE type = "VGICP"
    <3>1. Reads("GICP", map, source.cloud)
      BY <2>3, <2>5 DEF Reads
    <3>2. Belongs(Request("GICP", map, source.cloud, map.points, DefaultDistance))
      BY <2>3, <2>5, <3>1, RequestProperties
    <3>3. QED
      BY <1>8, <2>4, <2>6, <3>2, CallRequest DEF CallAlignPoints
  <2>7. CASE type # "VGICP"
    <3>1. Reads(type, target.cloud, source.cloud)
      BY <2>2, <2>3 DEF Reads
    <3>2. Belongs(Request(type, target.cloud, source.cloud, target.tree, setting.max_dist))
      BY <2>2, <2>3, <3>1, RequestProperties
    <3>3. QED
      BY <1>8, <2>4, <2>7, <3>2, CallRequest DEF CallAlignPoints
  <2>8. QED
    BY <2>6, <2>7
<1>9. ASSUME NEW type \in Types, NEW t \in Handles, NEW s \in Handles, NEW setting \in Settings,
             CallAlignClouds(type, t, s, setting)
      PROVE  IInv'
  <2>1. Own(objects[t]) /\ Own(objects[s]) /\ Reads(type, objects[t], objects[s])
    BY <1>4, <1>9 DEF CallAlignClouds
  <2>2. Belongs(Request(type, objects[t], objects[s], objects[t].points, setting.max_dist))
    BY <2>1, RequestProperties
  <2>3. QED
    BY <1>9, <2>2, CallRequest DEF CallAlignClouds, AlignTree
<1>10. ASSUME NEW t \in Handles, NEW s \in Handles, NEW setting \in Settings,
              CallAlignMap(t, s, setting)
       PROVE  IInv'
  <2> DEFINE map == create_gaussian_voxelmap(objects[t], setting.resolution)
  <2>1. Own(objects[t]) /\ Own(objects[s]) /\ Reads("GICP", objects[t], objects[s])
    BY <1>4, <1>10 DEF CallAlignMap
  <2>2. Own(map) /\ map.covs = objects[t].covs
    BY <2>1, MapProperties
  <2>3. Call(setting, Request("GICP", map, objects[s], map.points, setting.max_dist))
    BY <1>10 DEF CallAlignMap
  <2> HIDE DEF map
  <2>4. Reads("GICP", map, objects[s])
    BY <2>1, <2>2 DEF Reads
  <2>5. Belongs(Request("GICP", map, objects[s], map.points, setting.max_dist))
    BY <2>1, <2>2, <2>4, RequestProperties
  <2>6. QED
    BY <2>3, <2>5, CallRequest
<1>11. QED
  BY <1>2, <1>3, <1>5, <1>6, <1>7, <1>8, <1>9, <1>10 DEF NextHelper

-----------------------------------------------------------------------------
(* RegistrationPCL.                                                        *)
-----------------------------------------------------------------------------
LEMMA SidesOf == Sides = {"source", "target"} /\ \A s \in Sides : Other(s) \in Sides
  BY DEF Sides, Other

\* What an alignment uses of a side: the covariances are there and the cloud's
\* own, and so are those of its voxel map.
LEMMA SideProperties ==
    ASSUME IInv, NEW s \in Sides, cloud[s] # None
    PROVE  /\ cloud[s] \in Clouds /\ tree[s] = cloud[s]
           /\ Covariances(s) \in Features /\ Usable(cloud[s], Covariances(s))
           /\ Own(Proxy(s)) /\ Proxy(s).points = cloud[s] /\ Proxy(s).covs # None
           /\ VoxelMap(s) \in Maps /\ Own(VoxelMap(s)) /\ VoxelMap(s).points = cloud[s]
           /\ VoxelMap(s).covs # None
<1>1. /\ cloud[s] \in Clouds /\ tree[s] = cloud[s] /\ Size[cloud[s]] > 0
      /\ covs[s] \in Features \cup {None} /\ voxelmap[s] \in Maps \cup {None}
      /\ k_correspondences \in Int /\ k_correspondences >= 5 /\ voxel_resolution \in Int
      /\ covs[s] # None => Usable(cloud[s], covs[s])
      /\ voxelmap[s] # None => voxelmap[s].points = cloud[s] /\ Own(voxelmap[s])
  BY DEF IInv, TypePcl, CachesBelong
<1> DEFINE v == Covariances(s)
<1>2. v \in Features /\ Usable(cloud[s], v)
  <2>1. CASE covs[s] = None
    <3>1. v = estimate_local_features(cloud[s], cloud[s], k_correspondences)
      BY <1>1, <2>1 DEF Covariances, NumberOf
    <3>2. QED
      BY <1>1, <3>1, FeatureProperties
  <2>2. CASE covs[s] # None
    BY <1>1, <2>2 DEF Covariances, NumberOf, Usable
  <2>3. QED
    BY <2>1, <2>2
<1>3. Proxy(s) = [points |-> cloud[s], normals |-> None, covs |-> v]
  BY DEF Proxy
<1>4. v # None
  BY <1>2, NoneAssumption
<1>5. Own(Proxy(s)) /\ Proxy(s).points = cloud[s] /\ Proxy(s).covs = v
  BY <1>2, <1>3 DEF Own, Usable
<1> DEFINE map == create_gaussian_voxelmap(Proxy(s), voxel_resolution)
<1>6. map \in Maps /\ Own(map) /\ map.points = cloud[s]
  <2>1. map = [points |-> cloud[s], normals |-> None, covs |-> v, resolution |-> voxel_resolution]
    BY <1>5 DEF create_gaussian_voxelmap
  <2>2. map \in Maps
    BY <1>1, <1>2, <2>1 DEF Maps
  <2>3. QED
    BY <1>5, <2>2, MapProperties
<1>7. VoxelMap(s) \in Maps /\ Own(VoxelMap(s)) /\ VoxelMap(s).points = cloud[s]
  BY <1>1, <1>6 DEF VoxelMap
<1>8. VoxelMap(s).covs # None
  BY <1>7, NoneAssumption DEF Maps
<1>9. QED
  BY <1>1, <1>2, <1>4, <1>5, <1>7, <1>8

\* What computeTransformation hands over belongs together and is between the
\* two clouds that are set.
LEMMA ArgumentsProperties ==
    ASSUME IInv, cloud["source"] # None, cloud["target"] # None
    PROVE  /\ Belongs(Arguments)
           /\ Arguments.target.points = cloud["target"]
           /\ Arguments.source.points = cloud["source"]
<1> DEFINE target == Proxy("target")
           source == Proxy("source")
           map == VoxelMap("target")
<1>1. /\ Own(target) /\ target.points = cloud["target"] /\ target.covs # None
      /\ tree["target"] = cloud["target"]
      /\ Own(map) /\ map.points = cloud["target"] /\ map.covs # None
  BY SideProperties, SidesOf
<1>2. Own(source) /\ source.points = cloud["source"] /\ source.covs # None
  BY SideProperties, SidesOf
<1>3. Arguments = Request("GICP", target, source, target.points, CorrDistThreshold)
      \/ Arguments = Request("GICP", map, source, map.points, CorrDistThreshold)
  BY <1>1 DEF Arguments
<1> HIDE DEF target, source, map
<1>4. Reads("GICP", target, source) /\ Reads("GICP", map, source)
  BY <1>1, <1>2 DEF Reads
<1>5. Belongs(Arguments)
  BY <1>1, <1>2, <1>3, <1>4, RequestProperties
<1>6. QED
  BY <1>1, <1>2, <1>3, <1>5 DEF Request

LEMMA SetInput ==
    ASSUME IInv, NEW s \in Sides, NEW c \in Clouds, setInput(s, c), UNCHANGED kept
    PROVE  IInv'
<1>1. Accepted(s, c) \in Clouds /\ Size[Accepted(s, c)] > 0
  BY CloudsAssumption DEF IInv, TypePcl, setInput, Accepted
<1>2. /\ cloud' = [cloud EXCEPT ![s] = Accepted(s, c)]
      /\ tree' = [tree EXCEPT ![s] = Accepted(s, c)]
      /\ covs' = [covs EXCEPT ![s] = None]
      /\ voxelmap' = [voxelmap EXCEPT ![s] = None]
      /\ handed' = None
      /\ UNCHANGED <<settingVars, objects, kept>>
  BY DEF setInput, TreeCloud, NoAlign
<1>3. TypePcl'
  BY <1>1, <1>2 DEF IInv, TypePcl, settingVars
<1>4. CachesBelong'
  BY <1>1, <1>2 DEF IInv, TypePcl, CachesBelong
<1>5. QED
  BY <1>1, <1>2, <1>3, <1>4 DEF IInv, TypePcl, InputsBelong, settingVars

LEMMA SwapStep ==
    ASSUME IInv, swapSourceAndTarget, UNCHANGED kept
    PROVE  IInv'
<1>1. /\ cloud' = [s \in Sides |-> cloud[Other(s)]]
      /\ tree' = [s \in Sides |-> tree[Other(s)]]
      /\ covs' = [s \in Sides |-> covs[Other(s)]]
      /\ voxelmap' = [s \in Sides |-> voxelmap[Other(s)]]
      /\ handed' = None
      /\ UNCHANGED <<settingVars, objects, kept>>
  BY DEF swapSourceAndTarget, Exchanged, NoAlign
<1>2. TypePcl'
  BY <1>1, SidesOf DEF IInv, TypePcl, settingVars
<1>3. CachesBelong'
  BY <1>1, SidesOf DEF IInv, CachesBelong
<1>4. QED
  BY <1>1, <1>2, <1>3, SidesOf DEF IInv, InputsBelong, settingVars

LEMMA ComputeStep ==
    ASSUME IInv, computeTransformation, UNCHANGED kept
    PROVE  IInv'
<1>1. \A s \in Sides : cloud[s] # None
  BY SidesOf DEF computeTransformation
<1>2. /\ covs' = [s \in Sides |-> Covariances(s)]
      /\ voxelmap' = [s \in Sides |-> VoxelMap(s)] \/ voxelmap' = voxelmap
      /\ handed' = Arguments
      /\ UNCHANGED <<cloud, tree, settingVars, objects, kept>>
  BY DEF computeTransformation
<1>3. TypePcl'
  BY <1>1, <1>2, SideProperties DEF IInv, TypePcl, settingVars
<1>4. CachesBelong'
  BY <1>1, <1>2, SideProperties DEF IInv, CachesBelong
<1>5. InputsBelong'
  <2>1. Belongs(Arguments)
    BY <1>1, ArgumentsProperties, SidesOf
  <2>2. QED
    BY <1>2, <2>1 DEF InputsBelong, Belongs
<1>6. QED
  BY <1>2, <1>3, <1>4, <1>5 DEF IInv, settingVars

LEMMA PclStep ==
    ASSUME IInv, NextPcl, UNCHANGED kept
    PROVE  IInv'
<1>1. ASSUME NEW s \in Sides, NEW c \in Given, setInput(s, c) PROVE IInv'
  BY <1>1, SetInput, CloudsAssumption
<1>2. ASSUME NEW s \in Sides, setCovariances(s) PROVE IInv'
  <2>1. /\ cloud[s] \in Clouds
        /\ covs' = [covs EXCEPT ![s] = [of |-> cloud[s], among |-> cloud[s], valid |-> TRUE]]
        /\ handed' = None
        /\ UNCHANGED <<cloud, tree, voxelmap, settingVars, objects, kept>>
    BY <1>2 DEF IInv, TypePcl, setCovariances, NoAlign
  <2>2. [of |-> cloud[s], among |-> cloud[s], valid |-> TRUE] \in Features
    BY <2>1 DEF Features
  <2>3. Usable(cloud[s], [of |-> cloud[s], among |-> cloud[s], valid |-> TRUE])
    BY DEF Usable
  <2>4. TypePcl'
    BY <2>1, <2>2 DEF IInv, TypePcl, settingVars
  <2>5. CachesBelong'
    BY <2>1, <2>3 DEF IInv, TypePcl, CachesBelong
  <2>6. QED
    BY <2>1, <2>4, <2>5 DEF IInv, InputsBelong, settingVars
<1>3. ASSUME NEW s \in Sides, clear(s) PROVE IInv'
  <2>1. TypePcl' /\ CachesBelong'
    BY <1>3 DEF IInv, TypePcl, CachesBelong, clear, settingVars
  <2>2. QED
    BY <1>3, <2>1 DEF IInv, TypePcl, InputsBelong, clear, NoAlign, settingVars
<1>4. CASE swapSourceAndTarget
  BY <1>4, SwapStep
<1>5. ASSUME NEW k \in Neighbors, setNumNeighborsForCovariance(k) PROVE IInv'
  <2>1. k_correspondences' \in Int /\ k_correspondences' >= 5
    BY <1>5, SettingsAssumption DEF setNumNeighborsForCovariance, AtLeastFive
  <2>2. QED
    BY <1>5, <2>1 DEF IInv, TypePcl, CachesBelong, InputsBelong, setNumNeighborsForCovariance,
                      NoAlign, cacheVars
<1>6. ASSUME NEW r \in Resolutions, setVoxelResolution(r) PROVE IInv'
  <2>1. voxel_resolution' \in Int
    BY <1>6, SettingsAssumption DEF setVoxelResolution
  <2>2. QED
    BY <1>6, <2>1 DEF IInv, TypePcl, CachesBelong, InputsBelong, setVoxelResolution, NoAlign,
                      cacheVars
<1>7. ASSUME NEW type \in Types, setRegistrationType(type) PROVE IInv'
  <2>1. registration_type' \in {"GICP", "VGICP"}
    BY <1>7 DEF IInv, TypePcl, setRegistrationType, KnownType
  <2>2. QED
    BY <1>7, <2>1 DEF IInv, TypePcl, CachesBelong, InputsBelong, setRegistrationType, NoAlign,
                      cacheVars
<1>8. CASE computeTransformation
  BY <1>8, ComputeStep
<1>9. QED
  BY <1>1, <1>2, <1>3, <1>4, <1>5, <1>6, <1>7, <1>8 DEF NextPcl

-----------------------------------------------------------------------------
(* The engines that align frame to frame.                                  *)
-----------------------------------------------------------------------------
Poses == Seq(Clouds \X Clouds)

\* The frame before the next one.
Before == IF traj = <<>> THEN None ELSE <<1, Len(traj) - 1>>

\* Such an engine has kept the frame before, as the target of the next; a
\* RegistrationPCL between align() and the swap holds the next as its source.
Chain ==
    /\ pc \in {"estimate", "align", "swap"} /\ (pc # "estimate" => kind = "pcl")
    /\ ScanToScan =>
        /\ call \in {0, 1} /\ returned \in BOOLEAN
        /\ call = 0 => returned /\ traj = <<>>
        /\ traj \in Seq(Poses) /\ T \in Poses /\ T = Odometry!LastPose(traj)
        /\ Len(traj) <= NumFrames
        /\ kept.target = IF kind = "pcl" THEN None ELSE Before
        /\ kind = "pcl" => cloud["target"] = Before
        /\ pc # "estimate" =>
            /\ ~returned /\ traj # <<>> /\ Len(traj) < NumFrames
            /\ cloud["source"] = Frame
        /\ pc = "swap" =>
            /\ Belongs(handed)
            /\ handed.target.points = Before /\ handed.source.points = Frame

\* estimate() is called once, and the next frame is one of its frames.
LEMMA NextIsFrame ==
    ASSUME IInv, Chain, ScanToScan, ~returned, Len(traj) < NumFrames
    PROVE  /\ call = 1 /\ Len(traj) \in Nat
           /\ Frame \in Clouds /\ Size[Frame] > 0
           /\ Before \in Clouds \cup {None} /\ (Before = None <=> traj = <<>>)
           /\ Before = Odometry!Predecessor(1, Len(traj))
<1>1. call = 1 /\ traj \in Seq(Poses) /\ Len(traj) \in Nat
  BY DEF Chain
<1>2. Frame \in Clouds /\ Size[Frame] > 0
  BY <1>1, FramesAssumption DEF Frame
<1>3. traj = <<>> <=> Len(traj) = 0
  BY <1>1, EmptySeq
<1>4. traj # <<>> => <<1, Len(traj) - 1>> \in Clouds
  BY <1>1, <1>3, FramesAssumption
<1>5. Before \in Clouds \cup {None} /\ (Before = None <=> traj = <<>>)
  BY <1>4, NoneAssumption DEF Before
<1>6. Before = Odometry!Predecessor(1, Len(traj))
  <2>1. {d \in 1 .. 1 - 1 : <<NumFrames>>[d] > 0} = {}
    OBVIOUS
  <2>2. QED
    BY <1>1, <1>3, <2>1 DEF Before, Odometry!Predecessor
<1>7. QED
  BY <1>1, <1>2, <1>5, <1>6

\* The pose that an engine returns is the one of sequential odometry.
LEMMA ReturnedPose ==
    ASSUME IInv, Chain, ScanToScan, ~returned, Len(traj) < NumFrames, UNCHANGED loopVars,
           NEW pose, Returns(pose),
           pose = IF traj = <<>> THEN T ELSE Append(T, <<Before, Frame>>)
    PROVE  /\ traj' \in Seq(Poses) /\ T' \in Poses /\ T' = Odometry!LastPose(traj)'
           /\ Len(traj') = Len(traj) + 1 /\ Before' = Frame
           /\ Odometry!NextFrame
<1>1. /\ call = 1 /\ Len(traj) \in Nat
      /\ Frame \in Clouds /\ Before \in Clouds \cup {None} /\ (Before = None <=> traj = <<>>)
      /\ Before = Odometry!Predecessor(1, Len(traj))
  BY NextIsFrame
<1>2. traj \in Seq(Poses) /\ T \in Poses /\ T = Odometry!LastPose(traj)
  BY DEF Chain
<1>3. pose \in Poses /\ pose = T \o Odometry!Relative(Before, Frame)
  <2>1. CASE traj = <<>>
    <3>1. pose = T /\ Odometry!Relative(Before, Frame) = <<>>
      BY <1>1, <2>1 DEF Odometry!Relative, Odometry!Identity
    <3>2. T \o <<>> = T
      BY <1>2, ConcatEmptySeq DEF Poses
    <3>3. QED
      BY <1>2, <3>1, <3>2
  <2>2. CASE traj # <<>>
    <3>1. <<Before, Frame>> \in Clouds \X Clouds
      BY <1>1, <2>2
    <3>2. pose = Append(T, <<Before, Frame>>)
      BY <2>2
    <3>3. Odometry!Relative(Before, Frame) = << <<Before, Frame>> >>
      BY <1>1, <2>2 DEF Odometry!Relative
    <3> DEFINE step == <<Before, Frame>>
    <3>4. T \in Seq(Clouds \X Clouds) /\ step \in Clouds \X Clouds /\ pose = Append(T, step)
      BY <1>2, <3>1, <3>2 DEF Poses
    <3> HIDE DEF step
    <3>5. Append(T, step) \in Seq(Clouds \X Clouds) /\ Append(T, step) = T \o <<step>>
      BY ONLY <3>4, AppendProperties, AppendIsConcat
    <3>6. pose \in Poses /\ pose = T \o <<step>>
      BY <3>4, <3>5 DEF Poses
    <3>7. QED
      BY <3>3, <3>6 DEF step
  <2>3. QED
    BY <2>1, <2>2
<1>4. /\ traj' = Append(traj, pose) /\ T' = pose
  BY DEF Returns
<1>5. /\ traj' \in Seq(Poses) /\ Len(traj') = Len(traj) + 1 /\ traj' # <<>>
      /\ traj'[Len(traj')] = pose
  <2>1. traj \in Seq(Poses) /\ pose \in Poses
    BY <1>2, <1>3
  <2>2. /\ Append(traj, pose) \in Seq(Poses) /\ Append(traj, pose) # <<>>
        /\ Len(Append(traj, pose)) = Len(traj) + 1
        /\ Append(traj, pose)[Len(traj) + 1] = pose
    BY ONLY <2>1, AppendProperties
  <2>3. QED
    BY <1>4, <2>2
<1>6. T' = Odometry!LastPose(traj)'
  BY <1>4, <1>5 DEF Odometry!LastPose
<1>7. Before' = Frame
  BY <1>1, <1>5 DEF Before, Frame
<1>8. Odometry!NextFrame
  <2>1. <<NumFrames>>[1] = NumFrames
    OBVIOUS
  <2>2. traj' = Append(traj, Odometry!LastPose(traj) \o Odometry!Relative(Odometry!Predecessor(1, Len(traj)), <<1, Len(traj)>>))
    BY <1>1, <1>2, <1>3, <1>4 DEF Frame
  <2>3. ScanToScan' /\ UNCHANGED <<call, returned>>
    BY DEF loopVars, ScanToScan
  <2>4. QED
    BY <1>1, <2>1, <2>2, <2>3 DEF Odometry!NextFrame
<1>9. QED
  BY <1>3, <1>4, <1>5, <1>6, <1>7, <1>8

\* An engine's cloud: points with covariances of their own.
LEMMA CloudProperties ==
    ASSUME NEW c \in Clouds
    PROVE  Own(Cloud(c)) /\ Cloud(c).points = c /\ Cloud(c).covs # None
<1>1. LET f == estimate_local_features(c, c, 20) IN
      f \in Features /\ f # None /\ f.of = c /\ f.among = c
  BY FeatureProperties
<1>2. QED
  BY <1>1 DEF Cloud, Own

\* A frame aligned to the one before by an engine that keeps it.
LEMMA AlignToLastStep ==
    ASSUME IInv, Chain, kind \in {"tree", "voxelmap", "gpu"}, ~returned, Len(traj) < NumFrames,
           AlignToLast
    PROVE  IInv' /\ Chain' /\ Odometry!NextFrame
<1> DEFINE request == Request("GICP", Cloud(kept.target), Cloud(Frame), kept.tree, MaxDistance)
<1>1. ScanToScan /\ kind # "pcl"
  BY DEF ScanToScan
<1>2. /\ call = 1 /\ Len(traj) \in Nat
      /\ Frame \in Clouds /\ Before \in Clouds \cup {None} /\ (Before = None <=> traj = <<>>)
  BY <1>1, NextIsFrame
<1>3. kept.target = Before /\ kept.tree = Before
  BY <1>1 DEF Chain, IInv
<1>4. Before # None => Belongs(request) /\ Aligned(request) = <<Before, Frame>>
  <2> SUFFICES ASSUME Before # None
               PROVE  Belongs(request) /\ Aligned(request) = <<Before, Frame>>
    OBVIOUS
  <2> DEFINE target == Cloud(Before)
             source == Cloud(Frame)
  <2>1. /\ Own(target) /\ target.points = Before /\ target.covs # None
        /\ Own(source) /\ source.points = Frame /\ source.covs # None
    BY <1>2, CloudProperties
  <2>2. request = Request("GICP", target, source, target.points, MaxDistance)
    BY <1>3, <2>1
  <2> HIDE DEF target, source, request
  <2>3. Reads("GICP", target, source)
    BY <2>1 DEF Reads
  <2>4. Belongs(request)
    BY <2>1, <2>2, <2>3, RequestProperties
  <2>5. QED
    BY <2>1, <2>2, <2>4 DEF Aligned, Request
<1>5. /\ IF Before = None THEN Returns(T) /\ handed' = None
                          ELSE Returns(Append(T, Aligned(request))) /\ handed' = request
      /\ kept' = [target |-> Frame, tree |-> Frame]
      /\ UNCHANGED <<cacheVars, settingVars, objects, loopVars, model, pc>>
  BY <1>3 DEF AlignToLast, NoAlign, Call, Kept
<1> HIDE DEF request
<1>6. IInv'
  BY <1>2, <1>4, <1>5 DEF IInv, TypePcl, CachesBelong, InputsBelong, Belongs, cacheVars, settingVars
<1> DEFINE pose == IF traj = <<>> THEN T ELSE Append(T, <<Before, Frame>>)
<1>7. Returns(pose)
  BY <1>2, <1>4, <1>5
<1> HIDE DEF pose
<1>8. /\ traj' \in Seq(Poses) /\ T' \in Poses /\ T' = Odometry!LastPose(traj)'
      /\ Len(traj') = Len(traj) + 1 /\ Before' = Frame
      /\ Odometry!NextFrame
  BY <1>1, <1>5, <1>7, ReturnedPose DEF pose
<1>9. Chain'
  <2>1. ScanToScan' /\ pc = "estimate" /\ pc' = pc /\ call' = 1 /\ returned' = returned
        /\ kind' = kind /\ kept'.target = Before'
    BY <1>1, <1>2, <1>5, <1>8 DEF Chain, loopVars, ScanToScan
  <2>2. Len(traj') <= NumFrames
    BY <1>2, <1>8, FramesAssumption
  <2>3. returned' \in BOOLEAN
    BY <1>1, <2>1 DEF Chain
  <2>4. QED
    BY <1>1, <1>8, <2>1, <2>2, <2>3 DEF Chain
<1>10. QED
  BY <1>6, <1>8, <1>9

\* estimate() of the PCL engine, call by call.
LEMMA FirstTargetStep ==
    ASSUME IInv, Chain, FirstTarget
    PROVE  IInv' /\ Chain' /\ Odometry!NextFrame
<1>1. /\ ScanToScan /\ kind = "pcl" /\ ~returned /\ Len(traj) < NumFrames
      /\ pc = "estimate" /\ cloud["target"] = None /\ setInput("target", Frame) /\ Returns(T)
      /\ UNCHANGED <<loopVars, kept, model, pc>>
  BY DEF FirstTarget, More, ScanToScan
<1>2. /\ call = 1 /\ Len(traj) \in Nat /\ Frame \in Clouds /\ Size[Frame] > 0
      /\ (Before = None <=> traj = <<>>)
  BY <1>1, NextIsFrame
<1>3. IInv'
  BY <1>1, <1>2, SetInput DEF Sides
<1>4. traj = <<>>
  BY <1>1, <1>2 DEF Chain
<1>5. /\ traj' \in Seq(Poses) /\ T' \in Poses /\ T' = Odometry!LastPose(traj)'
      /\ Len(traj') = Len(traj) + 1 /\ Before' = Frame
      /\ Odometry!NextFrame
  BY <1>1, <1>4, ReturnedPose
<1>6. cloud'["target"] = Frame
  BY <1>1, <1>2, CloudsAssumption DEF setInput, Accepted, IInv, TypePcl, Sides
<1>7. Len(traj') <= NumFrames
  BY <1>1, <1>2, <1>5, FramesAssumption
<1>8. Chain'
  BY <1>1, <1>2, <1>5, <1>6, <1>7 DEF Chain, loopVars, ScanToScan
<1>9. QED
  BY <1>3, <1>5, <1>8

LEMMA SetSourceStep ==
    ASSUME IInv, Chain, SetSource
    PROVE  IInv' /\ Chain' /\ UNCHANGED <<kind, call, traj, returned>>
<1>1. /\ ScanToScan /\ kind = "pcl" /\ ~returned /\ Len(traj) < NumFrames
      /\ pc = "estimate" /\ cloud["target"] # None /\ setInput("source", Frame) /\ pc' = "align"
      /\ UNCHANGED <<loopVars, traj, T, kept, model>>
  BY DEF SetSource, More, ScanToScan
<1>2. /\ Frame \in Clouds /\ Size[Frame] > 0 /\ (Before = None <=> traj = <<>>)
  BY <1>1, NextIsFrame
<1>3. IInv'
  BY <1>1, <1>2, SetInput DEF Sides
<1>4. traj # <<>>
  BY <1>1, <1>2 DEF Chain
<1>5. cloud'["source"] = Frame /\ cloud'["target"] = cloud["target"]
  BY <1>1, <1>2, CloudsAssumption DEF setInput, Accepted, IInv, TypePcl, Sides
<1>6. Before' = Before /\ Frame' = Frame /\ Odometry!LastPose(traj)' = Odometry!LastPose(traj)
  BY <1>1 DEF Before, Frame, Odometry!LastPose
<1>7. Chain'
  BY <1>1, <1>4, <1>5, <1>6 DEF Chain, loopVars, ScanToScan
<1>8. QED
  BY <1>1, <1>3, <1>7 DEF loopVars

LEMMA AlignStep ==
    ASSUME IInv, Chain, Align
    PROVE  IInv' /\ Chain' /\ UNCHANGED <<kind, call, traj, returned>>
<1>1. /\ pc = "align" /\ computeTransformation /\ pc' = "swap"
      /\ UNCHANGED <<loopVars, traj, T, kept, model>>
  BY DEF Align
<1>2. kind = "pcl" /\ ScanToScan
  BY <1>1 DEF Chain, ScanToScan
<1>3. IInv'
  BY <1>1, ComputeStep
<1>4. /\ Belongs(Arguments)
      /\ Arguments.target.points = cloud["target"] /\ Arguments.source.points = cloud["source"]
  BY <1>1, ArgumentsProperties DEF computeTransformation
<1>5. handed' = Arguments /\ cloud' = cloud
  BY <1>1 DEF computeTransformation
<1>6. Before' = Before /\ Frame' = Frame /\ Odometry!LastPose(traj)' = Odometry!LastPose(traj)
  BY <1>1 DEF Before, Frame, Odometry!LastPose
<1>7. Belongs(handed)' /\ handed'.target.points = Before' /\ handed'.source.points = Frame'
  BY <1>1, <1>2, <1>4, <1>5, <1>6 DEF Chain, Belongs
<1>8. Chain'
  BY <1>1, <1>2, <1>5, <1>6, <1>7 DEF Chain, loopVars, ScanToScan
<1>9. QED
  BY <1>1, <1>3, <1>8 DEF loopVars

LEMMA SwapsToNext ==
    ASSUME IInv, Chain, Swap
    PROVE  IInv' /\ Chain' /\ Odometry!NextFrame
<1>1. /\ pc = "swap" /\ Returns(Append(T, Aligned(handed))) /\ swapSourceAndTarget
      /\ pc' = "estimate" /\ UNCHANGED <<loopVars, kept, model>>
  BY DEF Swap
<1>2. kind = "pcl" /\ ScanToScan
  BY <1>1 DEF Chain, ScanToScan
<1>3. IInv'
  BY <1>1, SwapStep
<1>4. /\ ~returned /\ traj # <<>> /\ Len(traj) < NumFrames /\ cloud["source"] = Frame
      /\ Belongs(handed) /\ handed.target.points = Before /\ handed.source.points = Frame
  BY <1>1, <1>2 DEF Chain
<1>5. Aligned(handed) = <<Before, Frame>>
  BY <1>4 DEF Belongs, Aligned
<1>6. Returns(IF traj = <<>> THEN T ELSE Append(T, <<Before, Frame>>))
  BY <1>1, <1>4, <1>5
<1>7. /\ traj' \in Seq(Poses) /\ T' \in Poses /\ T' = Odometry!LastPose(traj)'
      /\ Len(traj') = Len(traj) + 1 /\ Before' = Frame
      /\ Odometry!NextFrame
  BY <1>1, <1>2, <1>4, <1>6, ReturnedPose
<1>8. cloud'["target"] = Frame
  BY <1>1, <1>4 DEF swapSourceAndTarget, Exchanged, Sides, Other
<1>9. call = 1 /\ Len(traj) \in Nat
  BY <1>2, <1>4, NextIsFrame
<1>10. Len(traj') <= NumFrames
  BY <1>4, <1>7, <1>9, FramesAssumption
<1>11. Chain'
  BY <1>1, <1>2, <1>4, <1>7, <1>8, <1>9, <1>10 DEF Chain, loopVars, ScanToScan
<1>12. QED
  BY <1>3, <1>7, <1>11

-----------------------------------------------------------------------------
(* The theorems.                                                           *)
-----------------------------------------------------------------------------
\* A step of a frame by frame engine, of its caller, or of none of them.
LEMMA EngineStep ==
    ASSUME IInv, Chain, [Next]_onlineVars
    PROVE  /\ IInv' /\ Chain'
           /\ kind' = kind
           /\ ScanToScan => \/ Odometry!NextSpec
                            \/ UNCHANGED <<call, traj, returned>>
<1>1. CASE CallEstimate
  <2>1. /\ returned' = FALSE /\ call = 0 /\ call' = 1 /\ kind' = kind
        /\ UNCHANGED <<pclVars, traj, T, kept, model, pc>>
    BY <1>1 DEF CallEstimate
  <2>2. IInv'
    BY <2>1 DEF IInv, TypePcl, CachesBelong, InputsBelong, pclVars, cacheVars, settingVars,
                helperVars
  <2>3. Chain'
    <3>1. /\ ScanToScan' = ScanToScan /\ Before' = Before /\ cloud' = cloud
          /\ Odometry!LastPose(traj)' = Odometry!LastPose(traj)
      BY <2>1 DEF ScanToScan, Before, Odometry!LastPose, pclVars, cacheVars
    <3>2. ScanToScan => pc = "estimate"
      BY <2>1 DEF Chain
    <3>3. UNCHANGED <<kind, traj, T, kept, pc>> /\ call' = 1 /\ returned' \in BOOLEAN
      BY <2>1
    <3>4. CASE ScanToScan
      BY <3>1, <3>2, <3>3, <3>4 DEF Chain
    <3>5. CASE ~ScanToScan
      BY <3>1, <3>3, <3>5 DEF Chain
    <3>6. QED
      BY <3>4, <3>5
  <2>4. ScanToScan => Odometry!CallEstimate
    <3> SUFFICES ASSUME ScanToScan PROVE Odometry!CallEstimate
      OBVIOUS
    <3>1. returned /\ traj = <<>> /\ ScanToScan'
      BY <2>1 DEF Chain, ScanToScan
    <3>2. Len(<<NumFrames>>) = 1
      OBVIOUS
    <3>3. QED
      BY <2>1, <3>1, <3>2 DEF Odometry!CallEstimate
  <2>5. QED
    BY <2>1, <2>2, <2>3, <2>4 DEF Odometry!NextSpec
<1>2. CASE EstimateWithTree \/ EstimateWithVoxelMap \/ EstimateOnGpu
  <2>1. /\ kind \in {"tree", "voxelmap", "gpu"} /\ ~returned /\ Len(traj) < NumFrames
        /\ AlignToLast
    BY <1>2 DEF EstimateWithTree, EstimateWithVoxelMap, EstimateOnGpu, More
  <2>2. kind' = kind
    BY <2>1 DEF AlignToLast, loopVars
  <2>3. QED
    BY <2>1, <2>2, AlignToLastStep DEF Odometry!NextSpec
<1>3. CASE EstimateToModel \/ EstimateToModelOnGpu
  <2>1. kind \in {"model", "gpu model"} /\ AlignToModel
    BY <1>3 DEF EstimateToModel, EstimateToModelOnGpu, More
  <2>2. UNCHANGED <<pclVars, loopVars, kept, pc>>
    BY <2>1 DEF AlignToModel
  <2>3. ~ScanToScan /\ kind' = kind /\ ~ScanToScan'
    BY <2>1, <2>2 DEF ScanToScan, loopVars
  <2>4. IInv'
    BY <2>2 DEF IInv, TypePcl, CachesBelong, InputsBelong, pclVars, cacheVars, settingVars,
                helperVars
  <2>5. QED
    BY <2>2, <2>3, <2>4 DEF Chain
<1>4. CASE FirstTarget \/ SetSource \/ Align \/ Swap
  <2>1. CASE FirstTarget
    BY <2>1, FirstTargetStep DEF Odometry!NextSpec, FirstTarget, loopVars
  <2>2. CASE SetSource
    BY <2>2, SetSourceStep
  <2>3. CASE Align
    BY <2>3, AlignStep
  <2>4. CASE Swap
    BY <2>4, SwapsToNext DEF Odometry!NextSpec, Swap, loopVars
  <2>5. QED
    BY <1>4, <2>1, <2>2, <2>3, <2>4
<1>5. CASE ReturnTrajectory
  <2>1. /\ ~returned /\ Len(traj) = NumFrames /\ returned' = TRUE
        /\ UNCHANGED <<pclVars, kind, call, traj, T, kept, model, pc>>
    BY <1>5 DEF ReturnTrajectory
  <2>2. IInv'
    BY <2>1 DEF IInv, TypePcl, CachesBelong, InputsBelong, pclVars, cacheVars, settingVars,
                helperVars
  <2>3. ScanToScan => call = 1 /\ pc = "estimate"
    BY <2>1, FramesAssumption DEF Chain
  <2>4. Chain'
    BY <2>1, <2>3, FramesAssumption DEF Chain, ScanToScan, Before, Odometry!LastPose, pclVars,
                cacheVars
  <2>5. ScanToScan => Odometry!ReturnTrajectory
    <3>1. <<NumFrames>>[1] = NumFrames
      OBVIOUS
    <3>2. QED
      BY <2>1, <2>3, <3>1 DEF Odometry!ReturnTrajectory, ScanToScan
  <2>6. QED
    BY <2>1, <2>2, <2>4, <2>5 DEF Odometry!NextSpec
<1>6. CASE PythonCall
  <2>1. ~ScanToScan /\ UNCHANGED <<cacheVars, settingVars, engineVars>> /\ NextHelper
    BY <1>6 DEF PythonCall, ScanToScan
  <2>2. IInv'
    BY <2>1, HelperStep DEF engineVars
  <2>3. QED
    BY <2>1, <2>2 DEF Chain, ScanToScan, engineVars, loopVars
<1>7. CASE PclCall
  <2>1. ~ScanToScan /\ UNCHANGED engineVars /\ NextPcl
    BY <1>7 DEF PclCall, ScanToScan
  <2>2. IInv'
    BY <2>1, PclStep DEF engineVars
  <2>3. QED
    BY <2>1, <2>2 DEF Chain, ScanToScan, engineVars, loopVars
<1>8. CASE UNCHANGED onlineVars
  <2>1. IInv'
    BY <1>8 DEF IInv, TypePcl, CachesBelong, InputsBelong, onlineVars, pclVars, cacheVars,
                settingVars, helperVars, engineVars
  <2>2. Chain'
    BY <1>8 DEF Chain, ScanToScan, Before, Frame, Odometry!LastPose, onlineVars, pclVars,
                cacheVars, helperVars, engineVars, loopVars
  <2>3. QED
    BY <1>8, <2>1, <2>2 DEF onlineVars, engineVars, loopVars
<1>9. QED
  BY <1>1, <1>2, <1>3, <1>4, <1>5, <1>6, <1>7, <1>8 DEF Next

\* What the engines, the helper's callers and a RegistrationPCL keep holds in
\* every state, for any clouds, settings and number of frames.
THEOREM Invariance == Spec => [](IInv /\ Chain)
<1>1. Init => IInv /\ Chain
  <2> SUFFICES ASSUME Init PROVE IInv /\ Chain
    OBVIOUS
  <2>1. /\ objects = [h \in Handles |-> None] /\ handed = None
        /\ cloud = [s \in Sides |-> None] /\ tree = [s \in Sides |-> None]
        /\ covs = [s \in Sides |-> None] /\ voxelmap = [s \in Sides |-> None]
        /\ k_correspondences = 20 /\ voxel_resolution = 1 /\ registration_type = "GICP"
        /\ kept = [target |-> None, tree |-> None]
    BY DEF Init, InitHelper, InitPcl
  <2>2. IInv
    BY <2>1 DEF IInv, TypePcl, CachesBelong, InputsBelong
  <2>3. /\ traj = <<>> /\ T = <<>> /\ call = 0 /\ returned = TRUE /\ pc = "estimate"
    BY DEF Init, Identity
  <2>4. traj \in Seq(Poses) /\ T \in Poses /\ Len(traj) = 0
    BY <2>3, EmptySeq DEF Poses
  <2>5. T = Odometry!LastPose(traj) /\ Before = None
    BY <2>3 DEF Odometry!LastPose, Odometry!Identity, Before
  <2>6. QED
    BY <2>1, <2>2, <2>3, <2>4, <2>5, FramesAssumption DEF Chain, Sides
<1>2. IInv /\ Chain /\ [Next]_onlineVars => (IInv /\ Chain)'
  BY EngineStep
<1>3. QED
  BY <1>1, <1>2, PTL DEF Spec

\* The types of what a RegistrationPCL keeps, through any sequence of its
\* methods' calls.
THEOREM TypeCorrectness == Spec => []TypePcl
<1>1. IInv => TypePcl
  BY DEF IInv
<1>2. QED
  BY <1>1, Invariance, PTL

\* The trees, covariances and voxel maps that a RegistrationPCL reuses belong to
\* the clouds that are set: clouds are never empty there, so covariances whose
\* number fits are those of the cloud and no other cloud's.
THEOREM CachesStayWithClouds == Spec => []CachesBelong
<1>1. IInv => CachesBelong
  BY DEF IInv
<1>2. QED
  BY <1>1, Invariance, PTL

\* Every front end hands Registration::align a tree over the target and features
\* of the clouds they are handed over with.
THEOREM InputsStayTogether == Spec => []InputsBelong
<1>1. IInv => InputsBelong
  BY DEF IInv
<1>2. QED
  BY <1>1, Invariance, PTL

\* The engines that align frame to frame implement sequential odometry, for any
\* number of frames.
THEOREM Refinement == Spec => SameTrajectory
<1> DEFINE c == IF ScanToScan THEN call ELSE 0
           t == IF ScanToScan THEN traj ELSE <<>>
           r == ScanToScan => returned
<1>1. Init => Odometry!InitSpec
  BY DEF Init, Odometry!InitSpec
<1>2. IInv /\ Chain /\ [Next]_onlineVars => [Odometry!NextSpec]_<<c, t, r>>
  <2> SUFFICES ASSUME IInv, Chain, [Next]_onlineVars
               PROVE  Odometry!NextSpec \/ UNCHANGED <<c, t, r>>
    OBVIOUS
  <2>1. /\ kind' = kind
        /\ ScanToScan => \/ Odometry!NextSpec
                         \/ UNCHANGED <<call, traj, returned>>
    BY EngineStep
  <2>2. ScanToScan' = ScanToScan
    BY <2>1 DEF ScanToScan
  <2>3. QED
    BY <2>1, <2>2
<1>3. QED
  BY <1>1, <1>2, Invariance, PTL DEF Spec, SameTrajectory, Odometry!Sequential, Odometry!specVars

-----------------------------------------------------------------------------
(* The engines that align to a model.                                      *)
-----------------------------------------------------------------------------
\* The frames with their poses, as a model holds them.
Posed(t) == [i \in 1 .. Len(t) |-> <<<<1, i - 1>>, t[i]>>]

\* A frame inserted at the pose it was returned with is the model's last, and
\* what was there before is unchanged.
LEMMA ModelGrows ==
    ASSUME NEW S, NEW t \in Seq(S), NEW pose \in S, NEW m, m = Posed(t)
    PROVE  LET grown == Append(m, <<<<1, Len(t)>>, pose>>) IN
           /\ grown = Posed(Append(t, pose))
           /\ SubSeq(grown, 1, Len(t)) = m
           /\ \A i \in 1 .. Len(t) : SubSeq(grown, 1, i - 1) = SubSeq(m, 1, i - 1)
<1> DEFINE E == ({1} \X Int) \X S
           n == Len(t)
           e == <<<<1, n>>, pose>>
           grown == Append(m, e)
<1>1. n \in Nat /\ \A i \in 1 .. n : t[i] \in S
  BY LenProperties, ElementOfSeq
<1>2. m \in [1 .. n -> E] /\ e \in E
  BY <1>1 DEF Posed
<1>3. m \in Seq(E) /\ Len(m) = n
  <2>1. m \in Seq(E)
    BY <1>1, <1>2, SeqDef
  <2>2. DOMAIN m = 1 .. n /\ DOMAIN m = 1 .. Len(m) /\ Len(m) \in Nat
    BY <1>2, <2>1, LenProperties
  <2>3. QED
    BY <1>1, <2>1, <2>2
<1> HIDE DEF E, n
<1>4. /\ grown \in Seq(E) /\ Len(grown) = n + 1 /\ grown[n + 1] = e
      /\ \A i \in 1 .. n : grown[i] = m[i]
  BY <1>2, <1>3, AppendProperties
<1> DEFINE u == Append(t, pose)
<1>5. /\ u \in Seq(S) /\ Len(u) = n + 1 /\ u[n + 1] = pose
      /\ \A i \in 1 .. n : u[i] = t[i]
  BY <1>1, AppendProperties DEF n
<1> HIDE DEF grown, u
<1>6. grown = Posed(u)
  <2>1. DOMAIN grown = 1 .. n + 1 /\ grown \in [1 .. n + 1 -> E]
    BY <1>4, LenProperties
  <2>2. \A i \in 1 .. n + 1 : grown[i] = <<<<1, i - 1>>, u[i]>>
    <3> SUFFICES ASSUME NEW i \in 1 .. n + 1 PROVE grown[i] = <<<<1, i - 1>>, u[i]>>
      OBVIOUS
    <3>1. CASE i = n + 1
      BY <1>1, <1>4, <1>5, <3>1
    <3>2. CASE i # n + 1
      <4>1. i \in 1 .. n
        BY <1>1, <3>2
      <4>2. m[i] = <<<<1, i - 1>>, t[i]>>
        BY <4>1 DEF Posed, n
      <4>3. QED
        BY <1>4, <1>5, <4>1, <4>2
    <3>3. QED
      BY <3>1, <3>2
  <2>3. QED
    BY <1>5, <2>1, <2>2 DEF Posed
<1>7. ASSUME NEW k \in 0 .. n PROVE SubSeq(grown, 1, k) = SubSeq(m, 1, k)
  <2>1. /\ \A i \in 1 .. k : grown[i] \in E /\ m[i] \in E /\ grown[i] = m[i]
        /\ k \in Int
    BY <1>1, <1>2, <1>4
  <2>2. /\ SubSeq(grown, 1, k) \in Seq(E)
        /\ Len(SubSeq(grown, 1, k)) = IF 1 <= k THEN k - 1 + 1 ELSE 0
        /\ \A i \in 1 .. k - 1 + 1 : SubSeq(grown, 1, k)[i] = grown[1 + i - 1]
    BY <2>1, SubSeqProperties
  <2>3. /\ SubSeq(m, 1, k) \in Seq(E)
        /\ Len(SubSeq(m, 1, k)) = IF 1 <= k THEN k - 1 + 1 ELSE 0
        /\ \A i \in 1 .. k - 1 + 1 : SubSeq(m, 1, k)[i] = m[1 + i - 1]
    BY <2>1, SubSeqProperties
  <2> DEFINE a == SubSeq(grown, 1, k)
             b == SubSeq(m, 1, k)
  <2>4. Len(a) = k /\ Len(b) = k /\ \A i \in 1 .. k : a[i] = b[i]
    BY <1>1, <2>1, <2>2, <2>3
  <2>5. a \in Seq(E) /\ b \in Seq(E)
    BY <2>2, <2>3
  <2> HIDE DEF a, b
  <2>6. a = b
    BY ONLY <2>4, <2>5, SeqEqual
  <2>7. QED
    BY <2>6 DEF a, b
<1>8. SubSeq(m, 1, n) = m
  BY <1>3, SubSeqFull
<1>9. \A i \in 1 .. n : i - 1 \in 0 .. n
  BY <1>1
<1>10. n \in 0 .. n
  BY <1>1
<1>11. grown = Append(m, <<<<1, Len(t)>>, pose>>)
  BY DEF grown, n
<1>12. QED
  BY <1>6, <1>7, <1>8, <1>9, <1>10, <1>11 DEF n, u

\* The pose is the one returned last, and the poses are a sequence.
ModelInv ==
    ScanToModel =>
        /\ \E S : traj \in Seq(S)
        /\ T = Odometry!LastPose(traj)
        /\ ModelComplete

LEMMA ModelStep ==
    ASSUME Chain, ModelInv, [Next]_onlineVars
    PROVE  ModelInv'
<1> SUFFICES ASSUME ScanToModel' PROVE ModelInv'
  BY DEF ModelInv
<1>1. CASE AlignToModel
  <2> DEFINE n == Len(traj)
             pose == IF model = <<>> THEN T ELSE ToModel
  <2>1. /\ traj' = Append(traj, pose) /\ T' = pose /\ kind' = kind
        /\ model' = Append(model, <<<<1, n>>, pose>>)
    BY <1>1 DEF AlignToModel, Returns, Inserted, Frame, loopVars
  <2>2. ScanToModel
    BY <2>1 DEF ScanToModel
  <2>3. PICK S : traj \in Seq(S)
    BY <2>2 DEF ModelInv
  <2>4. T = Odometry!LastPose(traj) /\ model = Posed(traj) /\ n \in Nat
    BY <2>2, <2>3, LenProperties DEF ModelInv, ModelComplete, Posed
  <2>5. \A i \in 2 .. n : traj[i] = << [frame |-> <<1, i - 1>>, guess |-> traj[i - 1],
                                         map |-> SubSeq(model, 1, i - 1)] >>
    BY <2>2 DEF ModelInv, ModelComplete
  <2>6. n >= 1 => T = traj[n] /\ model # <<>>
    <3>1. n >= 1 => traj # <<>>
      BY <2>3, EmptySeq
    <3>2. n >= 1 => DOMAIN model # {}
      BY <2>4 DEF Posed
    <3>3. DOMAIN <<>> = {}
      OBVIOUS
    <3>4. QED
      BY <2>4, <3>1, <3>2, <3>3 DEF Odometry!LastPose
  <2>7. n >= 1 => pose = << [frame |-> <<1, n>>, guess |-> traj[n], map |-> model] >>
    BY <2>6 DEF ToModel, Frame
  <2> HIDE DEF pose, n
  <2>8. traj \in Seq(S \cup {pose}) /\ pose \in S \cup {pose}
    BY <2>3, SeqMonotonic
  <2> DEFINE R == S \cup {pose}
  <2> HIDE DEF R
  <2>9. traj \in Seq(R) /\ pose \in R
    BY <2>8 DEF R
  <2>10. /\ traj' \in Seq(R) /\ traj' # <<>> /\ Len(traj') = n + 1 /\ traj'[n + 1] = pose
         /\ \A i \in 1 .. n : traj'[i] = traj[i]
    BY <2>1, <2>9, AppendProperties DEF n
  <2>11. /\ model' = Posed(traj')
         /\ SubSeq(model', 1, n) = model
         /\ \A i \in 1 .. n : SubSeq(model', 1, i - 1) = SubSeq(model, 1, i - 1)
    BY <2>1, <2>4, <2>9, ModelGrows DEF n
  <2>12. ASSUME NEW i \in 2 .. n + 1
         PROVE  traj'[i] = << [frame |-> <<1, i - 1>>, guess |-> traj'[i - 1],
                               map |-> SubSeq(model', 1, i - 1)] >>
    <3>1. CASE i = n + 1
      <4>1. n >= 1 /\ n \in 1 .. n /\ i - 1 = n
        BY <2>4, <3>1
      <4>2. QED
        BY <2>7, <2>10, <2>11, <3>1, <4>1
    <3>2. CASE i # n + 1
      <4>1. i \in 2 .. n /\ i \in 1 .. n /\ i - 1 \in 1 .. n
        BY <2>4, <3>2
      <4>2. QED
        BY <2>5, <2>10, <2>11, <4>1
    <3>3. QED
      BY <3>1, <3>2
  <2>13. T' = Odometry!LastPose(traj)'
    BY <2>1, <2>4, <2>10 DEF Odometry!LastPose
  <2>14. ModelComplete'
    BY <2>10, <2>11, <2>12 DEF ModelComplete, Posed
  <2>15. QED
    BY <2>10, <2>13, <2>14 DEF ModelInv
<1>2. CASE UNCHANGED <<kind, traj, T, model>>
  <2>1. ScanToModel
    BY <1>2 DEF ScanToModel
  <2>2. QED
    BY <1>2, <2>1 DEF ModelInv, ModelComplete, Odometry!LastPose
<1>3. CASE kind' = kind /\ kind \notin {"model", "gpu model"}
  BY <1>3 DEF ScanToModel
<1>4. CASE Next
  <2>1. CASE CallEstimate \/ ReturnTrajectory \/ PythonCall \/ PclCall
    BY <2>1, <1>2 DEF CallEstimate, ReturnTrajectory, PythonCall, PclCall, engineVars, loopVars
  <2>2. CASE EstimateWithTree \/ EstimateWithVoxelMap \/ EstimateOnGpu
    BY <2>2, <1>3 DEF EstimateWithTree, EstimateWithVoxelMap, EstimateOnGpu, More, AlignToLast,
                      loopVars
  <2>3. CASE EstimateToModel \/ EstimateToModelOnGpu
    BY <2>3, <1>1 DEF EstimateToModel, EstimateToModelOnGpu
  <2>4. CASE FirstTarget
    BY <2>4, <1>3 DEF FirstTarget, More, loopVars
  <2>5. CASE SetSource \/ Align
    BY <2>5, <1>2 DEF SetSource, Align, loopVars
  <2>6. CASE Swap
    BY <2>6, <1>3 DEF Swap, Chain, loopVars
  <2>7. QED
    BY <1>4, <2>1, <2>2, <2>3, <2>4, <2>5, <2>6 DEF Next
<1>5. CASE UNCHANGED onlineVars
  BY <1>5, <1>2 DEF onlineVars, engineVars, loopVars
<1>6. QED
  BY <1>4, <1>5

\* An engine that aligns to a model has inserted every frame so far, in order and
\* at the pose it returned for it, for any number of frames.
THEOREM ModelsAreComplete == Spec => []ModelComplete
<1>1. Init => ModelInv
  <2> SUFFICES ASSUME Init PROVE ModelInv
    OBVIOUS
  <2>1. traj = <<>> /\ model = <<>> /\ T = <<>>
    BY DEF Init, Identity
  <2>2. <<>> \in Seq({}) /\ Len(<<>>) = 0
    BY EmptySeq
  <2>3. \E S : traj \in Seq(S)
    BY <2>1, <2>2
  <2>4. model = Posed(traj) /\ T = Odometry!LastPose(traj)
    BY <2>1, <2>2 DEF Posed, Odometry!LastPose, Odometry!Identity
  <2>5. QED
    BY <2>1, <2>2, <2>3, <2>4 DEF ModelInv, ModelComplete, Posed
<1>2. Chain /\ ModelInv /\ [Next]_onlineVars => ModelInv'
  BY ModelStep
<1>3. ModelInv => ModelComplete
  BY DEF ModelInv, ModelComplete
<1>4. QED
  BY <1>1, <1>2, <1>3, Invariance, PTL DEF Spec
=============================================================================
