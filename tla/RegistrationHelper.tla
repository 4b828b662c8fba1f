-------------------------- MODULE RegistrationHelper -------------------------
(***************************************************************************)
(* What the library's entry points hand to Registration::align: the        *)
(* preprocessing functions and align() of registration_helper.cpp and the  *)
(* functions of the same names that python/preprocess.cpp and              *)
(* python/align.cpp define.  A caller makes objects and aligns them.       *)
(*                                                                         *)
(* A cloud stands for its points.  What is computed from points carries    *)
(* the clouds it was computed from, so that mixing is visible; the result  *)
(* of a computation is otherwise left out.  A search structure (k-d tree)  *)
(* is named by the cloud it was built over.                                *)
(***************************************************************************)
EXTENDS Integers

CONSTANTS
    Clouds,       \* clouds, raw and downsampled
    Given,        \* those a caller of the single functions has
    Size,         \* their numbers of points
    Sampled,      \* voxelgrid_sampling: [resolution -> [cloud -> cloud]]
    Handles,      \* the caller's variables that hold clouds
    Neighbors,    \* values of num_neighbors the caller asks for
    Resolutions,  \* sizes of voxels asked for, 0 for all that are none
    Distances,    \* values of max_correspondence_distance asked for
    None          \* nullptr, or nothing there

\* What is estimated for the points of a cloud: of which cloud, from the
\* neighbours among which points, and whether there were enough of them.
Features == [of : Clouds, among : Clouds, valid : BOOLEAN]

ASSUME CloudsAssumption == Size \in [Clouds -> Nat] /\ Given \subseteq Clouds
ASSUME NoneAssumption == None \notin Clouds \cup Features
ASSUME SampledAssumption == \A r \in DOMAIN Sampled : Sampled[r] \in [Clouds -> Clouds]
ASSUME SettingsAssumption == Neighbors \subseteq Nat /\ Resolutions \subseteq Int

VARIABLES
    objects,  \* the caller's clouds: [points, normals, covs]
    asked,    \* the settings of its last call, if that was of an align function
    handed    \* what that call handed to Registration::align

helperVars == <<objects, asked, handed>>

Types == {"ICP", "PLANE_ICP", "GICP", "VGICP"}

-----------------------------------------------------------------------------
(* util/normal_estimation*.hpp.  The serial, OpenMP and TBB loops run the  *)
(* same body for every point; it writes the point's feature and reads      *)
(* points and tree, which nobody writes.                                   *)
-----------------------------------------------------------------------------
\* knn_search finds as many neighbours as there are, up to k.
Found(tree, k) == IF Size[tree] < k THEN Size[tree] ELSE k

\* Features of a cloud's points, from their neighbours among those of a
\* tree.  With fewer than five neighbours they are zero vectors and identity
\* matrices.
estimate_local_features(cloud, tree, k) ==
    [of |-> cloud, among |-> tree, valid |-> Found(tree, k) >= 5]

estimate_normals_covariances(cloud, tree, k) ==
    [points |-> cloud, normals |-> estimate_local_features(cloud, tree, k),
     covs |-> estimate_local_features(cloud, tree, k)]

\* A container resized to a cloud's points, nothing estimated yet.
PointCloud(cloud) == [points |-> cloud, normals |-> None, covs |-> None]

\* Faulty: the tree built over the input instead of over what was sampled.
TreeOverInput(c, r, k) ==
    LET downsampled == Sampled[r][c] IN
    [cloud |-> estimate_normals_covariances(downsampled, c, k), tree |-> c]

\* preprocess_points: sampling, tree and features.
preprocess_points(c, r, k) ==
    LET downsampled == Sampled[r][c] IN
    [cloud |-> estimate_normals_covariances(downsampled, downsampled, k), tree |-> downsampled]

\* A voxel map into which one cloud was inserted.
create_gaussian_voxelmap(cloud, r) ==
    [points |-> cloud.points, normals |-> None, covs |-> cloud.covs, resolution |-> r]

-----------------------------------------------------------------------------
(* Registration::align and what its factors need.                          *)
-----------------------------------------------------------------------------
Request(factor, target, source, tree, max_dist) ==
    [factor |-> factor, target |-> target, source |-> source, tree |-> tree,
     max_dist |-> max_dist]

\* DistanceRejector's own setting.
DefaultDistance == 1

\* align() for a target with its tree.  VGICP is refused, with the identity
\* as its result.
AlignTree(type, target, source, tree, max_dist) ==
    IF type = "VGICP" THEN None ELSE Request(type, target, source, tree, max_dist)

\* align() for a voxel map.  It leaves the rejector as constructed.
AlignMap(map, source, max_dist) ==
    Request("GICP", map, source, map.points, DefaultDistance)

\* align() for raw points.
AlignPoints(type, t, s, setting) ==
    LET target == preprocess_points(t, setting.downsampling, 10)
        source == preprocess_points(s, setting.downsampling, 10)
    IN  IF type = "VGICP"
        THEN AlignMap(create_gaussian_voxelmap(target.cloud, setting.resolution), source.cloud,
                      setting.max_dist)
        ELSE AlignTree(type, target.cloud, source.cloud, target.tree, setting.max_dist)

-----------------------------------------------------------------------------
InitHelper ==
    /\ objects = [h \in Handles |-> None]
    /\ asked = None
    /\ handed = None

\* A call that aligns nothing.
NoAlign == asked' = None /\ handed' = None

Put(h, object) == objects' = [objects EXCEPT ![h] = object] /\ NoAlign

\* voxelgrid_sampling, of an array or of a cloud.  What had been estimated for
\* the cloud is not carried over.
Sample(h, c, r) == Put(h, PointCloud(Sampled[r][c]))

SampleCloud(h, g, r) ==
    /\ objects[g] # None
    /\ Put(h, PointCloud(Sampled[r][objects[g].points]))

\* preprocess_points, of an array or of a cloud, where an empty one yields
\* nullptr.
Preprocess(h, c, r, k) == Put(h, preprocess_points(c, r, k).cloud)

PreprocessCloud(h, g, r, k) ==
    /\ objects[g] # None
    /\ Put(h, IF Size[objects[g].points] = 0 THEN None
              ELSE preprocess_points(objects[g].points, r, k).cloud)

\* The estimation in place, with a tree built on the spot.
EstimateNormals(h, k) ==
    LET p == objects[h].points IN
    /\ objects[h] # None
    /\ Put(h, [objects[h] EXCEPT !.normals = estimate_local_features(p, p, k)])

EstimateCovariances(h, k) ==
    LET p == objects[h].points IN
    /\ objects[h] # None
    /\ Put(h, [objects[h] EXCEPT !.covs = estimate_local_features(p, p, k)])

EstimateNormalsCovariances(h, k) ==
    LET p == objects[h].points IN
    /\ objects[h] # None
    /\ Put(h, estimate_normals_covariances(p, p, k))

\* What a factor reads must have been estimated; the caller sees to it.
Reads(factor, target, source) ==
    /\ factor = "PLANE_ICP" => target.normals # None
    /\ factor \in {"GICP", "VGICP"} => target.covs # None /\ source.covs # None

Call(setting, request) ==
    /\ asked' = setting
    /\ handed' = request
    /\ UNCHANGED objects

\* align(target_points, source_points, ...).  Searching the tree of an empty
\* cloud is undefined, here and below.
CallAlignPoints(type, t, s, setting) ==
    /\ Size[Sampled[setting.downsampling][t]] > 0
    /\ Call(setting, AlignPoints(type, t, s, setting))

\* align(target, source, target_tree = None, ...) builds the missing tree.
CallAlignClouds(type, t, s, setting) ==
    /\ objects[t] # None /\ objects[s] # None
    /\ Size[objects[t].points] > 0
    /\ type # "VGICP"
    /\ Reads(type, objects[t], objects[s])
    /\ Call(setting, AlignTree(type, objects[t], objects[s], objects[t].points, setting.max_dist))

\* align(target_voxelmap, source, ...) of the Python module sets the rejector.
CallAlignMap(t, s, setting) ==
    /\ objects[t] # None /\ objects[s] # None
    /\ Size[objects[t].points] > 0
    /\ Reads("GICP", objects[t], objects[s])
    /\ LET map == create_gaussian_voxelmap(objects[t], setting.resolution)
       IN  Call(setting, Request("GICP", map, objects[s], map.points, setting.max_dist))

Settings == [downsampling : DOMAIN Sampled, resolution : Resolutions \ {0}, max_dist : Distances]

NextHelper ==
    \/ \E h \in Handles, c \in Given, r \in DOMAIN Sampled :
          Sample(h, c, r) \/ \E k \in Neighbors : Preprocess(h, c, r, k)
    \/ \E h, g \in Handles, r \in DOMAIN Sampled :
          SampleCloud(h, g, r) \/ \E k \in Neighbors : PreprocessCloud(h, g, r, k)
    \/ \E h \in Handles, k \in Neighbors :
          \/ EstimateNormals(h, k)
          \/ EstimateCovariances(h, k)
          \/ EstimateNormalsCovariances(h, k)
    \/ \E type \in Types, t, s \in Given, setting \in Settings : CallAlignPoints(type, t, s, setting)
    \/ \E type \in Types, t, s \in Handles, setting \in Settings : CallAlignClouds(type, t, s, setting)
    \/ \E t, s \in Handles, setting \in Settings : CallAlignMap(t, s, setting)

-----------------------------------------------------------------------------
\* An object's features were computed for its own points, with a tree over them.
Own(object) ==
    \A f \in {object.normals, object.covs} \ {None} :
        f.of = object.points /\ f.among = object.points

\* Registration::align reads a target's points and features by the indices
\* that a search of the tree returns.  Whatever front end calls it, after
\* whatever calls of the caller, the tree is the target's, the features are
\* those of the clouds they are handed over with, and none that the factor
\* reads is missing.
InputsBelong ==
    handed # None =>
        /\ handed.tree = handed.target.points
        /\ Own(handed.target)
        /\ Own(handed.source)
        /\ Reads(handed.factor, handed.target, handed.source)

\* Correspondences are searched up to the distance the caller asked for
\* (registration_helper.hpp:43 "Maximum correspondence distance").
DistanceAsSet == handed # None => handed.max_dist = asked.max_dist
=============================================================================
