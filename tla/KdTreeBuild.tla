---------------------------- MODULE KdTreeBuild ----------------------------
(***************************************************************************)
(* Construction of a k-d tree: UnsafeKdTree's constructor and the three    *)
(* builders (serial, OpenMP tasks, TBB parallel_invoke), which share one   *)
(* recursive create_node.  A call of create_node is identified by the      *)
(* half-open range <<first, last>> of kdtree.indices it works on.  Ranges  *)
(* longer than ParallelThreshold (512 in the code) hand their two halves   *)
(* to concurrent tasks; shorter ones recurse left, then right.  The serial *)
(* builder is the instance ParallelThreshold >= Size.                      *)
(*                                                                         *)
(* Only the order of the points along an axis matters, so the contents of  *)
(* a range of kdtree.indices are kept as the set of its point ids.         *)
(***************************************************************************)
EXTENDS Integers, FiniteSets

CONSTANTS
    Size,               \* traits::size(points)
    MaxLeafSize,        \* max_leaf_size (20 in the code)
    ParallelThreshold,  \* ranges longer than this are split by parallel tasks
    Axes,               \* the projections find_axis may pick
    Coord,              \* Coord[a][p]: projection of point p on axis a
    UninitIndex         \* values an uninitialised NodeIndexType may hold

Points == 0 .. Size - 1

ASSUME SizeAssumption == Size \in Nat
ASSUME LeafAssumption == MaxLeafSize \in Nat /\ MaxLeafSize >= 3
ASSUME ThresholdAssumption == ParallelThreshold \in Nat
ASSUME CoordAssumption == Axes # {} /\ Coord \in [Axes -> [Points -> Int]]
ASSUME UninitAssumption == UninitIndex \subseteq Nat

INVALID_NODE == -1      \* numeric_limits<uint32>::max(): no node has it

Ranges == {r \in (0 .. Size) \X (0 .. Size) : r[1] < r[2]}

VARIABLES
    pc,          \* pc[r]: where the call of create_node on r stands
    node_index,  \* node_index[r]: its local variable of that name
    node_count,  \* the (atomic) counter shared by all calls
    nodes,       \* kdtree.nodes, sized to the number of points before the build
    indices,     \* indices[r]: the points in kdtree.indices[first .. last)
    root         \* kdtree.root

vars == <<pc, node_index, node_count, nodes, indices, root>>

Root == <<0, Size>>
Distance(r) == r[2] - r[1]
Mid(r) == r[1] + (Distance(r) \div 2)
LeftHalf(r) == <<r[1], Mid(r)>>

\* Faulty variants of a definition stand before it; the properties notice them.
TakesMedianTwice(r) == <<Mid(r) - 1, r[2]>>
RightHalf(r) == <<Mid(r), r[2]>>

IgnoresLeafSize(r) == Distance(r) <= 1
IsLeaf(r) == Distance(r) <= MaxLeafSize

EmptyNode == [lr |-> <<0, 0>>, proj |-> CHOOSE a \in Axes : TRUE, thresh |-> 0,
              left |-> INVALID_NODE, right |-> INVALID_NODE]

Node == [lr : (0 .. Size) \X (0 .. Size), proj : Axes, thresh : Int,
         left : Nat \cup {INVALID_NODE}, right : Nat \cup {INVALID_NODE}]

States == {"none", "create", "leaf", "partition", "left", "right", "both", "return", "done"}

-----------------------------------------------------------------------------
\* An empty cloud leaves the constructor before build_tree: root keeps
\* whatever the memory held.  Otherwise build_tree calls create_node on Root.
Init ==
    /\ pc = [r \in Ranges |-> IF r = Root THEN "create" ELSE "none"]
    /\ node_index = [r \in Ranges |-> INVALID_NODE]
    /\ node_count = 0
    /\ nodes = [n \in Points |-> EmptyNode]
    /\ indices = [r \in Ranges |-> IF r = Root THEN Points ELSE {}]
    /\ root \in UninitIndex

CountsDown == node_count - 1
LostUpdate ==
    IF Cardinality({r \in Ranges : pc[r] = "create"}) > 1 THEN node_count ELSE node_count + 1
NextCount == node_count + 1

\* node_index = node_count++, atomically in the parallel builders
CreateNode(r) ==
    /\ pc[r] = "create"
    /\ node_index' = [node_index EXCEPT ![r] = node_count]
    /\ node_count' = NextCount
    /\ pc' = [pc EXCEPT ![r] = IF IsLeaf(r) THEN "leaf" ELSE "partition"]
    /\ UNCHANGED <<nodes, indices, root>>

WriteLeaf(r) ==
    /\ pc[r] = "leaf"
    /\ nodes' = [nodes EXCEPT ![node_index[r]].lr = r]
    /\ pc' = [pc EXCEPT ![r] = "return"]
    /\ UNCHANGED <<node_index, node_count, indices, root>>

\* What nth_element may leave behind: lower is the left half, and median, the
\* element at Mid(r), is a smallest one of the right half.
SplitBy(a, r, lower, median) ==
    /\ Cardinality(lower) = Distance(r) \div 2
    /\ median \in indices[r] \ lower
    /\ \A p \in lower : Coord[a][p] <= Coord[a][median]
    /\ \A p \in indices[r] \ lower : Coord[a][median] <= Coord[a][p]

FixedAxis(a, median) == Coord[CHOOSE b \in Axes : TRUE][median]
Threshold(a, median) == Coord[a][median]

\* find_axis, nth_element, the non-leaf fields, and the first recursive calls
Partition(r) ==
    /\ pc[r] = "partition"
    /\ \E a \in Axes, lower \in SUBSET indices[r], median \in indices[r] :
        /\ SplitBy(a, r, lower, median)
        /\ indices' = [indices EXCEPT ![LeftHalf(r)] = lower,
                                      ![RightHalf(r)] = indices[r] \ lower]
        /\ nodes' = [nodes EXCEPT ![node_index[r]].proj = a,
                                  ![node_index[r]].thresh = Threshold(a, median)]
    /\ pc' = IF Distance(r) > ParallelThreshold
             THEN [pc EXCEPT ![r] = "both", ![LeftHalf(r)] = "create", ![RightHalf(r)] = "create"]
             ELSE [pc EXCEPT ![r] = "left", ![LeftHalf(r)] = "create"]
    /\ UNCHANGED <<node_index, node_count, root>>

\* node.left = create_node(left half), when that call has returned
AssignLeft(r) ==
    /\ pc[r] \in {"left", "both"}
    /\ pc[LeftHalf(r)] = "return"
    /\ nodes' = [nodes EXCEPT ![node_index[r]].left = node_index[LeftHalf(r)]]
    /\ pc' = IF pc[r] = "left"
             THEN [pc EXCEPT ![LeftHalf(r)] = "done", ![r] = "right", ![RightHalf(r)] = "create"]
             ELSE [pc EXCEPT ![LeftHalf(r)] = "done"]
    /\ UNCHANGED <<node_index, node_count, indices, root>>

AssignRight(r) ==
    /\ pc[r] \in {"right", "both"}
    /\ pc[RightHalf(r)] = "return"
    /\ nodes' = [nodes EXCEPT ![node_index[r]].right = node_index[RightHalf(r)]]
    /\ pc' = [pc EXCEPT ![RightHalf(r)] = "done"]
    /\ UNCHANGED <<node_index, node_count, indices, root>>

WaitsForReturn(r) ==
    /\ pc[r] \in {"right", "both"}
    /\ pc[LeftHalf(r)] = "return"
    /\ pc[RightHalf(r)] = "return"
    /\ pc' = [pc EXCEPT ![r] = "return"]
    /\ UNCHANGED <<node_index, node_count, nodes, indices, root>>

\* omp taskwait / the return of parallel_invoke
TaskWait(r) ==
    /\ pc[r] \in {"right", "both"}
    /\ pc[LeftHalf(r)] = "done"
    /\ pc[RightHalf(r)] = "done"
    /\ pc' = [pc EXCEPT ![r] = "return"]
    /\ UNCHANGED <<node_index, node_count, nodes, indices, root>>

\* kdtree.root = create_node(...); nodes.resize(node_count)
FinishBuild ==
    /\ Size > 0
    /\ pc[Root] = "return"
    /\ root' = node_index[Root]
    /\ pc' = [pc EXCEPT ![Root] = "done"]
    /\ UNCHANGED <<node_index, node_count, nodes, indices>>

Constructed == Size > 0 => pc[Root] = "done"

Step(r) ==
    \/ CreateNode(r)
    \/ WriteLeaf(r)
    \/ Partition(r)
    \/ AssignLeft(r)
    \/ AssignRight(r)
    \/ TaskWait(r)

Next ==
    \/ \E r \in Ranges : Step(r)
    \/ FinishBuild
    \/ Constructed /\ UNCHANGED vars

Spec == Init /\ [][Next]_vars

\* Every task that can run is run: the thread waiting in taskwait or
\* parallel_invoke executes queued tasks itself.
FairSpec == Spec /\ (\A r \in Ranges : WF_vars(Step(r))) /\ WF_vars(FinishBuild)

-----------------------------------------------------------------------------
Started == {r \in Ranges : pc[r] # "none"}
Claimed == {r \in Ranges : pc[r] \notin {"none", "create"}}

\* The types of the build's state.
TypeOK ==
    /\ pc \in [Ranges -> States]
    /\ node_index \in [Ranges -> Nat \cup {INVALID_NODE}]
    /\ node_count \in Nat
    /\ nodes \in [Points -> Node]
    /\ indices \in [Ranges -> SUBSET Points]
    /\ root \in Nat \cup {INVALID_NODE}

\* kdtree.nodes is resized to the number of points before the build and never
\* checked again: no call may be handed a slot past its end, and the final
\* resize(node_count) must only shrink it.
NodesInBounds ==
    /\ node_count <= Size
    /\ \A r \in Claimed : node_index[r] \in Points

\* Two calls never share a node slot, however the tasks interleave on the
\* atomic counter.
NodesUnique ==
    \A r, s \in Claimed : node_index[r] = node_index[s] => r = s

\* Two calls that are about to permute their part of kdtree.indices, or whose
\* leaves are being written, work on disjoint parts of it.
Disjoint(r, s) == r[2] <= s[1] \/ s[2] <= r[1]
NoIndexRace ==
    \A r, s \in Ranges :
        r # s /\ pc[r] \in {"create", "partition", "leaf"} /\ pc[s] \in {"create", "partition", "leaf"}
            => Disjoint(r, s)

\* What a search relies on, read off the nodes alone.  A node is a leaf exactly
\* when its left link is INVALID_NODE (the test knn_search makes).
LeafNode(n) == nodes[n].left = INVALID_NODE
Subtree ==
    LET sub[n \in Points] ==
            IF LeafNode(n) THEN indices[nodes[n].lr]
            ELSE sub[nodes[n].left] \cup sub[nodes[n].right]
    IN  sub

\* Once built, the tree below root holds every point, both children of every
\* inner node hold some, and the threshold separates them: points of the left
\* subtree do not lie above it, points of the right one do not lie below it.
Separates(n, sub) ==
    LET lo == sub[nodes[n].left]
        hi == sub[nodes[n].right]
        a  == nodes[n].proj
    IN  /\ lo # {} /\ hi # {} /\ lo \cap hi = {}
        /\ \A p \in lo : Coord[a][p] <= nodes[n].thresh
        /\ \A p \in hi : nodes[n].thresh <= Coord[a][p]

TreeCorrect ==
    Constructed /\ Size > 0 =>
        LET sub == Subtree IN
        /\ sub[root] = Points
        /\ \A n \in 0 .. node_count - 1 : LeafNode(n) \/ Separates(n, sub)

\* The build ends: no task waits for a child that nobody runs.
BuildTerminates == <>Constructed
=============================================================================
