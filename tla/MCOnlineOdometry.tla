-------------------------- MODULE MCOnlineOdometry --------------------------
(***************************************************************************)
(* Instance of OnlineOdometry: three frames for every kind of engine, and  *)
(* any calls of the helper's functions and of RegistrationPCL on clouds of *)
(* the same size, too few points for a covariance, and none.               *)
(***************************************************************************)
EXTENDS OnlineOdometry

CONSTANTS few, empty

MCFrames == {<<1, i>> : i \in 0 .. NumFrames - 1}
MCGiven == {<<1, 0>>, <<1, 1>>, few, empty}
MCClouds == MCFrames \cup {few, empty}
MCSize == [c \in MCClouds |-> IF c = few THEN 4 ELSE IF c = empty THEN 0 ELSE 6]

\* Downsampling leaves few points of the second frame.
MCSampled == [r \in {1} |-> [c \in MCClouds |-> IF c = <<1, 1>> THEN few ELSE c]]
=============================================================================
