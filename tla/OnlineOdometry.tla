--------------------------- MODULE OnlineOdometry ---------------------------
(***************************************************************************)
(* The odometry engines that work frame by frame                           *)
(* (src/benchmark/odometry_benchmark_small_*.cpp and the engines of        *)
(* cuda/bench/odometry_gpu.cpp) under the loop that feeds them, by kind:   *)
(*   "tree"       align to the frame before, with its k-d tree             *)
(*   "voxelmap"   align to a voxel map of the frame before                 *)
(*   "gpu"        align to the frame before, with its hash index           *)
(*   "pcl"        align to the frame before through RegistrationPCL        *)
(*   "model"      align to a voxel map of all frames before                *)
(*   "gpu model"  the same with the voxel map of the GPU                   *)
(* The kinds "python" and "calls" are no engines: there the functions of   *)
(* RegistrationHelper and the methods of RegistrationPCL are called in any *)
(* order.                                                                  *)
(*                                                                         *)
(* Frame i is <<1, i>>, as in OdometrySpec.  A pose is the sequence of the *)
(* relative transformations it is a product of; the absolute pose that a   *)
(* map yields is named by the frame and by what was in the map.            *)
(***************************************************************************)
EXTENDS PclRegistration, Sequences

CONSTANTS
    NumFrames,  \* frames fed to the engine
    Kinds       \* the kinds the instance covers

\* Frames are clouds of at least a point.
ASSUME FramesAssumption ==
    /\ NumFrames \in Nat
    /\ \A i \in 0 .. NumFrames - 1 : <<1, i>> \in Clouds /\ Size[<<1, i>>] > 0

VARIABLES
    kind,      \* the engine, or another user of the interfaces
    call,      \* how often OnlineOdometryEstimation::estimate was called
    traj,      \* what the engine's estimate() has returned, frame by frame
    returned,  \* whether the loop over the frames is not running
    T,         \* the engine's pose: T, T_world or T_world_lidar
    kept,      \* target and target_tree, or target_voxelmap
    model,     \* the frames in the map and the poses they were inserted at
    pc         \* where in estimate() of the PCL engine

loopVars == <<kind, call, returned>>
engineVars == <<loopVars, traj, T, kept, model, pc>>
onlineVars == <<pclVars, engineVars>>

Frame == <<1, Len(traj)>>
Identity == <<>>

Init ==
    /\ InitHelper
    /\ InitPcl
    /\ kind \in Kinds
    /\ traj = <<>>
    /\ call = 0
    /\ returned = TRUE
    /\ T = Identity
    /\ kept = [target |-> None, tree |-> None]
    /\ model = <<>>
    /\ pc = "estimate"

\* The loop's next frame, downsampled, is passed to the engine.
More(k) == kind = k /\ ~returned /\ Len(traj) < NumFrames

\* estimate() returns the pose t.
Returns(t) == T' = t /\ traj' = Append(traj, t)

-----------------------------------------------------------------------------
\* The frame becomes the next one's target, with its tree or voxel map.
Kept == [target |-> Frame, tree |-> Frame]

\* The engines keep their covariances in the clouds; what is estimated is
\* estimated before the frame is aligned or kept.
Cloud(c) == [points |-> c, normals |-> None, covs |-> estimate_local_features(c, c, 20)]

MaxDistance == 1     \* params.max_correspondence_distance

AlignToLast ==
    LET request == Request("GICP", Cloud(kept.target), Cloud(Frame), kept.tree, MaxDistance)
    IN  /\ IF kept.target = None
           THEN Returns(T) /\ NoAlign
           ELSE Returns(Append(T, Aligned(request))) /\ Call([max_dist |-> MaxDistance], request)
        /\ kept' = Kept
        /\ UNCHANGED <<cacheVars, settingVars, objects, loopVars, model, pc>>

EstimateWithTree == More("tree") /\ AlignToLast
EstimateWithVoxelMap == More("voxelmap") /\ AlignToLast
EstimateOnGpu == More("gpu") /\ AlignToLast

\* Registration against the map, with the last pose as the initial guess.
ToModel == << [frame |-> Frame, guess |-> T, map |-> model] >>

\* Faulty: the frame is inserted at the pose it was guessed at.
InsertsAtGuess(pose) == Append(model, <<Frame, T>>)
Inserted(pose) == Append(model, <<Frame, pose>>)

AlignToModel ==
    LET pose == IF model = <<>> THEN T ELSE ToModel IN
    /\ Returns(pose)
    /\ model' = Inserted(pose)
    /\ UNCHANGED <<pclVars, loopVars, kept, pc>>

EstimateToModel == More("model") /\ AlignToModel
EstimateToModelOnGpu == More("gpu model") /\ AlignToModel

-----------------------------------------------------------------------------
\* estimate() of the PCL engine, a call after the other.
FirstTarget ==
    /\ More("pcl") /\ pc = "estimate"
    /\ cloud["target"] = None
    /\ setInput("target", Frame)
    /\ Returns(T)
    /\ UNCHANGED <<loopVars, kept, model, pc>>

SetSource ==
    /\ More("pcl") /\ pc = "estimate"
    /\ cloud["target"] # None
    /\ setInput("source", Frame)
    /\ pc' = "align"
    /\ UNCHANGED <<loopVars, traj, T, kept, model>>

Align ==
    /\ pc = "align"
    /\ computeTransformation
    /\ pc' = "swap"
    /\ UNCHANGED <<loopVars, traj, T, kept, model>>

\* Faulty: without it.
NoSwap ==
    /\ pc = "swap"
    /\ Returns(Append(T, Aligned(handed)))
    /\ pc' = "estimate"
    /\ UNCHANGED <<pclVars, loopVars, kept, model>>
Swap ==
    /\ pc = "swap"
    /\ Returns(Append(T, Aligned(handed)))
    /\ swapSourceAndTarget
    /\ pc' = "estimate"
    /\ UNCHANGED <<loopVars, kept, model>>

-----------------------------------------------------------------------------
ScanToScan == kind \in {"tree", "voxelmap", "gpu", "pcl"}
ScanToModel == kind \in {"model", "gpu model"}

CallEstimate ==
    /\ ScanToScan \/ ScanToModel
    /\ call = 0
    /\ call' = 1
    /\ returned' = FALSE
    /\ UNCHANGED <<pclVars, kind, traj, T, kept, model, pc>>

ReturnTrajectory ==
    /\ ~returned
    /\ Len(traj) = NumFrames
    /\ returned' = TRUE
    /\ UNCHANGED <<pclVars, kind, call, traj, T, kept, model, pc>>

PythonCall ==
    /\ kind = "python"
    /\ NextHelper
    /\ UNCHANGED <<cacheVars, settingVars, engineVars>>

PclCall == kind = "calls" /\ NextPcl /\ UNCHANGED engineVars

Next ==
    \/ CallEstimate
    \/ EstimateWithTree \/ EstimateWithVoxelMap \/ EstimateOnGpu
    \/ EstimateToModel \/ EstimateToModelOnGpu
    \/ FirstTarget \/ SetSource \/ Align \/ Swap
    \/ ReturnTrajectory
    \/ PythonCall
    \/ PclCall

Spec == Init /\ [][Next]_onlineVars

-----------------------------------------------------------------------------
Odometry == INSTANCE OdometrySpec WITH
    Lengths <- <<NumFrames>>,
    NoFrame <- None,
    call <- IF ScanToScan THEN call ELSE 0,
    traj <- IF ScanToScan THEN traj ELSE <<>>,
    returned <- ScanToScan => returned

\* The engines that align frame to frame are interchangeable, with each other
\* and with the flow graph: they all return the trajectory of sequential
\* odometry.  For the PCL engine this rests on the swap, which makes a source
\* with all that was computed for it the next target.
SameTrajectory == Odometry!Sequential

\* An engine that aligns to a model has inserted every frame it has returned
\* a pose for, in order and at that pose, and has aligned each frame to all
\* the frames before it, starting from the pose of the last.
ModelComplete ==
    ScanToModel =>
        /\ model = [i \in 1 .. Len(traj) |-> <<<<1, i - 1>>, traj[i]>>]
        /\ \A i \in 2 .. Len(traj) :
              traj[i] = << [frame |-> <<1, i - 1>>, guess |-> traj[i - 1],
                            map |-> SubSeq(model, 1, i - 1)] >>
=============================================================================
