--------------------------- MODULE MCVoxelHashMap ---------------------------
(***************************************************************************)
(* Instances of VoxelHashMap: voxels that collide, in a table of four      *)
(* positions that grows when a third slot is needed.                       *)
(***************************************************************************)
EXTENDS VoxelHashMap, TLC

CONSTANTS k1, k2, k3

\* k1 and k2 share the last position until the table has grown twice; the next
\* one, position 0, is k3's: the three form one probe chain, around the end.
MCHash == k1 :> 7 @@ k2 :> 15 @@ k3 :> 0

MCScans == {<<>>, k1 :> 2, k2 :> 1, k3 :> 1, (k1 :> 1 @@ k2 :> 2), (k2 :> 1 @@ k3 :> 1),
            (k1 :> 1 @@ k2 :> 1 @@ k3 :> 1)}
=============================================================================
