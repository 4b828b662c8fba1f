---------------------------- MODULE VoxelMapSpec ----------------------------
(***************************************************************************)
(* What an incremental voxel map promises, without its storage: every      *)
(* point added is counted in the voxel it falls into, every voxel carries  *)
(* the time of its last point, and each clear cycle forgets exactly the    *)
(* voxels untouched for more than the horizon.                             *)
(***************************************************************************)
EXTENDS Integers

CONSTANTS
    Points,     \* transformed points, <<x, y, z>>
    LeafSize,   \* voxel size
    Horizon,    \* lru_horizon
    Cycle       \* lru_clear_cycle

VARIABLES
    clock,      \* lru_counter
    cells       \* voxel coordinate -> [n, sum, lru], for the voxels present

specVars == <<clock, cells>>

\* fast_floor(pt * inv_leaf_size)
Coord(p) == <<p[1] \div LeafSize, p[2] \div LeafSize, p[3] \div LeafSize>>

Zero == <<0, 0, 0>>
Plus(u, v) == <<u[1] + v[1], u[2] + v[2], u[3] + v[3]>>

NewCell == [n |-> 0, sum |-> Zero, lru |-> 0]
CellAt(k) == IF k \in DOMAIN cells THEN cells[k] ELSE NewCell

InitSpec == clock = 0 /\ cells = [k \in {} |-> NewCell]

AddPoint(p) ==
    /\ cells' = [k \in DOMAIN cells \cup {Coord(p)} |->
                    IF k = Coord(p)
                    THEN [n |-> CellAt(k).n + 1, sum |-> Plus(CellAt(k).sum, p), lru |-> clock]
                    ELSE cells[k]]
    /\ UNCHANGED clock

Stale(cell, now) == cell.lru + Horizon < now

Tick ==
    /\ clock' = clock + 1
    /\ cells' = IF clock' % Cycle = 0
                THEN [k \in {j \in DOMAIN cells : ~Stale(cells[j], clock')} |-> cells[k]]
                ELSE cells

NextSpec == Tick \/ \E p \in Points : AddPoint(p)

SpecMap == InitSpec /\ [][NextSpec]_specVars
=============================================================================
