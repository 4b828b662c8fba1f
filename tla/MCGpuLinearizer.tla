-------------------------- MODULE MCGpuLinearizer --------------------------
EXTENDS GpuLinearizer

\* Voxels of two units, sixteen by sixteen of them: a target around the origin
\* with points two, three and four voxels apart, one at the end of the range,
\* and nothing.
MCTargets == {
    <<<<0, -7>>, <<0, 0>>, <<5, 0>>, <<-4, 4>>, <<1, 7>>>>,
    <<<<-16, -16>>, <<-5, 0>>, <<4, 4>>, <<15, 15>>>>,
    <<>>
}
\* Five points fill three warps of the four launched; three fill two.
MCSources == {
    <<<<0, 3>>, <<0, 0>>, <<15, 14>>, <<-1, -1>>, <<3, 3>>>>,
    <<<<-2, 2>>, <<9, 0>>, <<4, -4>>>>,
    <<>>
}
MCPoses == {<<0, 0>>, <<3, -1>>}
===========================================================================
