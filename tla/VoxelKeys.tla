----------------------------- MODULE VoxelKeys -----------------------------
(***************************************************************************)
(* Positions, voxels and packed voxel keys as the GPU engine uses them,    *)
(* without the third axis.  A position is a pair of integers in units of   *)
(* 1/Res of a leaf, a voxel the pair of its coordinates, and a key packs   *)
(* CoordBits bits of each coordinate.                                      *)
(***************************************************************************)
EXTENDS Integers, FiniteSets

CONSTANTS
    Res,        \* units per leaf
    CoordBits   \* COORD_BIT_SIZE (21 in the code)

ASSUME ResAssumption == Res \in Nat \ {0}
ASSUME CoordBitsAssumption == CoordBits \in Nat \ {0}

Axes == {1, 2}
Side == 2^CoordBits
COORD_OFFSET == Side \div 2
INVALID_KEY == Side * Side      \* above every packed key
ValidKeys == 0 .. Side * Side - 1

Voxel(p) == [a \in Axes |-> p[a] \div Res]

\* Packs voxel coordinates without a range check: they wrap around.
coord_key(c) == ((c[1] + COORD_OFFSET) % Side) + Side * ((c[2] + COORD_OFFSET) % Side)

key_coord(key) == <<(key % Side) - COORD_OFFSET, (key \div Side) - COORD_OFFSET>>

voxel_key(p) ==
    IF \A a \in Axes : Voxel(p)[a] + COORD_OFFSET \in 0 .. Side - 1
    THEN coord_key(Voxel(p))
    ELSE INVALID_KEY

\* Where a position is inside its voxel.
Frac(p) == [a \in Axes |-> p[a] % Res]

Moved(c, o) == <<c[1] + o[1], c[2] + o[2]>>
Sq(x) == x * x
SqDist(p, q) == Sq(p[1] - q[1]) + Sq(p[2] - q[2])

\* Offsets of a cube of voxels, and the shell of the cube an offset is in.
Cube(r) == (-r .. r) \X (-r .. r)
Abs(x) == IF x < 0 THEN -x ELSE x
ShellOf(o) == IF Abs(o[1]) > Abs(o[2]) THEN Abs(o[1]) ELSE Abs(o[2])

\* The voxels of a cube in the order they are visited.
CubeSize(r) == (2 * r + 1) * (2 * r + 1)
NthOffset(t, r) == <<((t - 1) \div (2 * r + 1)) - r, ((t - 1) % (2 * r + 1)) - r>>

\* Candidates by distance, then index.
lex_less(a, b) == a.d2 < b.d2 \/ (a.d2 = b.d2 /\ a.j < b.j)

=============================================================================
