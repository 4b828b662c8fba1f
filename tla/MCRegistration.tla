--------------------------- MODULE MCRegistration ---------------------------
(***************************************************************************)
(* Instances of Registration: four source points and three target points  *)
(* with a gap, so that poses differ in their correspondences, in their     *)
(* inliers and in ties between two nearest targets.                        *)
(***************************************************************************)
EXTENDS Registration

MCSource == [n \in 1 .. 4 |-> <<0, 1, 3, 7>>[n]]
MCTarget == {0, 2, 6}
MCPoses == -3 .. 4

\* One point, and the pose one undamped step away from the initial guess.
MCOneSource == [n \in {1} |-> 0]
=============================================================================
