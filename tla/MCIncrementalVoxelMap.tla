----------------------- MODULE MCIncrementalVoxelMap ------------------------
(***************************************************************************)
(* Instance of FlatVoxelMap: three points of one voxel on the negative     *)
(* side of an axis, where floor and truncation differ, two of them too     *)
(* close to each other, and two neighbours, in scans of up to two points.  *)
(***************************************************************************)
EXTENDS FlatVoxelMap

MCPoints == {<<-1, 0, 0>>, <<-2, 1, 0>>, <<-1, 1, 1>>, <<1, 0, 0>>, <<2, 0, 0>>}
MCScans == UNION {[1 .. n -> MCPoints] : n \in 0 .. 2}
=============================================================================
