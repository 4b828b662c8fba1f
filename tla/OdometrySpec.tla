----------------------------- MODULE OdometrySpec ----------------------------
(***************************************************************************)
(* Odometry as a program without a pipeline would compute it: one frame    *)
(* after the other, each aligned to the frame before it.  The frame before *)
(* the first of a call is the last one of an earlier call, if there is one.*)
(*                                                                         *)
(* A pose is the sequence of the relative transformations it is a product  *)
(* of, each named by the two frames it was estimated from.                 *)
(***************************************************************************)
EXTENDS Integers, Sequences, FiniteSetsExt

CONSTANTS
    Lengths,   \* the number of clouds of every call of estimate()
    NoFrame    \* the null pointer

VARIABLES
    call,      \* the current or last call of estimate(), 0 before the first
    traj,      \* its trajectory
    returned   \* whether no call is running

specVars == <<call, traj, returned>>

\* Frame i (counted from 0) of call c.
Predecessor(c, i) ==
    LET earlier == {d \in 1 .. c - 1 : Lengths[d] > 0} IN
    IF i > 0 THEN <<c, i - 1>>
    ELSE IF earlier = {} THEN NoFrame
    ELSE <<Max(earlier), Lengths[Max(earlier)] - 1>>

Identity == <<>>
Relative(target, source) == IF target = NoFrame THEN Identity ELSE << <<target, source>> >>
LastPose(t) == IF t = <<>> THEN Identity ELSE t[Len(t)]

InitSpec == call = 0 /\ traj = <<>> /\ returned = TRUE

CallEstimate ==
    /\ returned
    /\ call < Len(Lengths)
    /\ call' = call + 1
    /\ traj' = <<>>
    /\ returned' = FALSE

NextFrame ==
    LET i == Len(traj) IN
    /\ ~returned
    /\ i < Lengths[call]
    /\ traj' = Append(traj, LastPose(traj) \o Relative(Predecessor(call, i), <<call, i>>))
    /\ UNCHANGED <<call, returned>>

ReturnTrajectory ==
    /\ ~returned
    /\ Len(traj) = Lengths[call]
    /\ returned' = TRUE
    /\ UNCHANGED <<call, traj>>

NextSpec == CallEstimate \/ NextFrame \/ ReturnTrajectory

Sequential == InitSpec /\ [][NextSpec]_specVars
=============================================================================
