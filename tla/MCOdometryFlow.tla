--------------------------- MODULE MCOdometryFlow ---------------------------
(***************************************************************************)
(* Instance of OdometryFlow: two calls of estimate(), enough frames that   *)
(* some overtake, and the first pair of the second call reaches back.      *)
(***************************************************************************)
EXTENDS OdometryFlow

MCLengths == <<4, 0, 2>>
=============================================================================
