--------------------------- MODULE PclRegistration ---------------------------
(***************************************************************************)
(* RegistrationPCL (pcl/pcl_registration_impl.hpp): a registration object  *)
(* that keeps its two clouds and what it computed from them, the trees,    *)
(* the covariances and the voxel maps, from one align() to the next.  The  *)
(* members come in pairs (input_ and target_, source_tree_ and             *)
(* target_tree_, ...), here functions of the side.                         *)
(***************************************************************************)
EXTENDS RegistrationHelper

VARIABLES
    cloud,                \* input_ and target_
    tree,                 \* source_tree_ and target_tree_, by the cloud they are over
    covs,                 \* source_covs_ and target_covs_, None if empty
    voxelmap,             \* source_voxelmap_ and target_voxelmap_
    k_correspondences,    \* setNumNeighborsForCovariance
    voxel_resolution,     \* setVoxelResolution
    registration_type     \* setRegistrationType

cacheVars == <<cloud, tree, covs, voxelmap>>
settingVars == <<k_correspondences, voxel_resolution, registration_type>>
pclVars == <<cacheVars, settingVars, helperVars>>

Sides == {"source", "target"}
Other(s) == IF s = "source" THEN "target" ELSE "source"
Exchanged(f) == [s \in Sides |-> f[Other(s)]]

InitPcl ==
    /\ cloud = [s \in Sides |-> None]
    /\ tree = [s \in Sides |-> None]
    /\ covs = [s \in Sides |-> None]
    /\ voxelmap = [s \in Sides |-> None]
    /\ k_correspondences = 20
    /\ voxel_resolution = 1
    /\ registration_type = "GICP"

-----------------------------------------------------------------------------
\* pcl::Registration::setInputSource and setInputTarget: an empty cloud is
\* refused and the former one stays.
Accepted(s, c) == IF Size[c] = 0 THEN cloud[s] ELSE c

\* The tree is built over the member, whatever the base class made of it.
TreeCloud(s, c) == Accepted(s, c)

\* setInputSource, setInputTarget.  The same pointer changes nothing.  (An
\* empty cloud as the first would build a tree over a null pointer.)
setInput(s, c) ==
    /\ cloud[s] # c
    /\ Accepted(s, c) # None
    /\ cloud' = [cloud EXCEPT ![s] = Accepted(s, c)]
    /\ tree' = [tree EXCEPT ![s] = TreeCloud(s, c)]
    /\ covs' = [covs EXCEPT ![s] = None]
    /\ voxelmap' = [voxelmap EXCEPT ![s] = None]
    /\ NoAlign
    /\ UNCHANGED <<settingVars, objects>>

\* setSourceCovariances, setTargetCovariances, with covariances the caller
\* computed for the cloud it had set.  Others are refused by their number.
setCovariances(s) ==
    /\ cloud[s] # None
    /\ covs' = [covs EXCEPT ![s] = [of |-> cloud[s], among |-> cloud[s], valid |-> TRUE]]
    /\ NoAlign
    /\ UNCHANGED <<cloud, tree, voxelmap, settingVars, objects>>

\* Faulty: the covariances stay where they are.
KeepsCovariances ==
    /\ cloud' = Exchanged(cloud) /\ tree' = Exchanged(tree)
    /\ voxelmap' = Exchanged(voxelmap)
    /\ NoAlign
    /\ UNCHANGED <<covs, settingVars, objects>>
swapSourceAndTarget ==
    /\ cloud' = Exchanged(cloud)
    /\ tree' = Exchanged(tree)
    /\ covs' = Exchanged(covs)
    /\ voxelmap' = Exchanged(voxelmap)
    /\ NoAlign
    /\ UNCHANGED <<settingVars, objects>>

\* clearSource, clearTarget.
clear(s) ==
    /\ cloud' = [cloud EXCEPT ![s] = None]
    /\ tree' = [tree EXCEPT ![s] = None]
    /\ covs' = [covs EXCEPT ![s] = None]
    /\ voxelmap' = [voxelmap EXCEPT ![s] = None]
    /\ NoAlign
    /\ UNCHANGED <<settingVars, objects>>

AtLeastFive(k) == IF k < 5 THEN 5 ELSE k

setNumNeighborsForCovariance(k) ==
    /\ k_correspondences' = AtLeastFive(k)
    /\ NoAlign
    /\ UNCHANGED <<cacheVars, voxel_resolution, registration_type, objects>>

\* The check is of the member, not of the argument.
setVoxelResolution(r) ==
    /\ voxel_resolution' = IF voxel_resolution <= 0 THEN 1 ELSE r
    /\ NoAlign
    /\ UNCHANGED <<cacheVars, k_correspondences, registration_type, objects>>

KnownType(type) == IF type \in {"GICP", "VGICP"} THEN type ELSE registration_type

setRegistrationType(type) ==
    /\ registration_type' = KnownType(type)
    /\ NoAlign
    /\ UNCHANGED <<cacheVars, k_correspondences, voxel_resolution, objects>>

-----------------------------------------------------------------------------
\* Covariances are estimated unless there are as many as points.
NumberOf(c) == IF c = None THEN 0 ELSE Size[c.of]
Covariances(s) ==
    IF NumberOf(covs[s]) # Size[cloud[s]]
    THEN estimate_local_features(cloud[s], tree[s], k_correspondences)
    ELSE covs[s]

\* PointCloudProxy.
Proxy(s) == [points |-> cloud[s], normals |-> None, covs |-> Covariances(s)]

\* A voxel map is made when there is none.
VoxelMap(s) ==
    IF voxelmap[s] = None THEN create_gaussian_voxelmap(Proxy(s), voxel_resolution) ELSE voxelmap[s]

CorrDistThreshold == 1000

Arguments ==
    IF registration_type = "GICP"
    THEN Request("GICP", Proxy("target"), Proxy("source"), tree["target"], CorrDistThreshold)
    ELSE Request("GICP", VoxelMap("target"), Proxy("source"), VoxelMap("target").points,
                 CorrDistThreshold)

\* The transformation that results, named by the two clouds it is between if
\* target and tree belong together.
Aligned(request) ==
    IF request.tree = request.target.points
    THEN <<request.target.points, request.source.points>>
    ELSE None

\* align() of the base class, which checks that both clouds are there, and
\* computeTransformation.  A map's points are divided by its resolution.
computeTransformation ==
    /\ cloud["source"] # None /\ cloud["target"] # None
    /\ registration_type = "VGICP" => voxel_resolution > 0
    /\ covs' = [s \in Sides |-> Covariances(s)]
    /\ voxelmap' = IF registration_type = "VGICP" THEN [s \in Sides |-> VoxelMap(s)] ELSE voxelmap
    /\ handed' = Arguments
    /\ asked' = [max_dist |-> CorrDistThreshold, resolution |-> voxel_resolution]
    /\ UNCHANGED <<cloud, tree, settingVars, objects>>

NextPcl ==
    \/ \E s \in Sides, c \in Given : setInput(s, c)
    \/ \E s \in Sides : setCovariances(s) \/ clear(s)
    \/ swapSourceAndTarget
    \/ \E k \in Neighbors : setNumNeighborsForCovariance(k)
    \/ \E r \in Resolutions : setVoxelResolution(r)
    \/ \E type \in Types : setRegistrationType(type)
    \/ computeTransformation

SpecPcl == InitHelper /\ InitPcl /\ [][NextPcl]_pclVars

-----------------------------------------------------------------------------
Maps == [points : Clouds, normals : {None}, covs : Features, resolution : Int]

TypePcl ==
    /\ cloud \in [Sides -> Clouds \cup {None}]
    /\ tree \in [Sides -> Clouds \cup {None}]
    /\ covs \in [Sides -> Features \cup {None}]
    /\ voxelmap \in [Sides -> Maps \cup {None}]
    /\ k_correspondences \in Int
    /\ voxel_resolution \in Int
    /\ registration_type \in {"GICP", "VGICP"}

\* What is kept for a side belongs to the cloud of that side, through every
\* sequence of setting, swapping and clearing clouds: covariances are reused
\* when their number fits, so those of another cloud of the same size would
\* go unnoticed (computeTransformation, pcl_registration_impl.hpp:205-210).
\* Covariances are identity matrices only where the cloud has too few points:
\* the setter's lower bound is the one the estimation needs.
Usable(c, f) == f.of = c /\ f.among = c /\ (Size[c] >= 5 => f.valid)
CachesBelong ==
    \A s \in Sides :
        /\ tree[s] = cloud[s]
        /\ covs[s] # None => Usable(cloud[s], covs[s])
        /\ voxelmap[s] # None => voxelmap[s].points = cloud[s] /\ Own(voxelmap[s])

\* A VGICP registration uses voxels of the resolution that is set
\* (pcl_registration.hpp:55 "Set the voxel resolution for VGICP.").
ResolutionAsSet ==
    handed # None /\ "resolution" \in DOMAIN handed.target =>
        handed.target.resolution = asked.resolution
=============================================================================
