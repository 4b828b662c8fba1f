--------------------------- MODULE MCDownsampling ---------------------------
(***************************************************************************)
(* Instances of Downsampling with two bits per coordinate: voxels in range *)
(* run from -2 to 1 on each axis.                                          *)
(***************************************************************************)
EXTENDS Downsampling, Sequences

Cloud(points) == [n \in 0 .. Len(points) - 1 |-> points[n + 1]]

\* Three points of one voxel, its neighbours across 0 and on the next axis, a
\* point on the range's border, and one outside.
MCClouds ==
    {Cloud(<<>>),
     Cloud(<<<<9, 0, 0>>>>),
     Cloud(<<<<1, 0, 0>>, <<0, 1, 1>>, <<-1, 0, 0>>, <<3, -4, 0>>, <<1, 1, 0>>, <<0, 0, 4>>>>)}

\* One block (serial), blocks of one size (OpenMP, TBB), and of other sizes (TBB).
MCBlockings == {{}, {3}, {2, 4}, {1, 4, 5}}
=============================================================================
