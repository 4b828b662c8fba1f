---------------------------- MODULE MCGpuCloud ----------------------------
EXTENDS GpuCloud

MCHash == [key \in ValidKeys |-> key % 3]
\* Voxels of two units on a board of eight by eight.  A crowd around the origin
\* with two points in one voxel, a point at each end of the range, and points
\* out of range, alone or first in line.
MCRawClouds == {
    <<<<0, 0>>, <<1, 0>>, <<-1, 3>>, <<20, 0>>, <<2, 2>>, <<-3, -1>>>>,
    <<<<7, 7>>, <<-8, -8>>, <<0, -20>>, <<7, 5>>>>,
    <<<<3, 2>>, <<0, 0>>, <<-8, 5>>, <<2, 0>>, <<0, -3>>>>,
    <<<<9, 9>>>>,
    <<>>
}
===========================================================================
