---------------------------- MODULE KdTreeSearch ---------------------------
(***************************************************************************)
(* A k-nearest-neighbour query on the tree that KdTreeBuild leaves behind: *)
(* UnsafeKdTree::knn_search with its recursion as an explicit stack.       *)
(* Points and queries have integer coordinates, one per projection, so     *)
(* that squared distances are exact.                                       *)
(***************************************************************************)
EXTENDS KdTreeBuild, KnnResult

CONSTANTS
    Queries,       \* query points, functions in [Axes -> Int]
    Neighbors,     \* the values of k (num_neighbors) asked for
    Epsilons       \* the values of KnnSetting::epsilon

VARIABLES
    query,    \* [q, k, epsilon] of the query, or NoQuery
    stack,    \* frames of knn_search: [node, stage, todo]
    result    \* KnnResult: [found, indices, distances]

searchVars == <<query, stack, result>>
allVars == <<vars, searchVars>>

\* find_axis picks one of the three axes; all points and queries agree in a
\* coordinate that is not among Axes.
ASSUME AxesAssumption == Axes \subseteq 0 .. 2
ASSUME QueriesAssumption == Queries \subseteq [Axes -> Int]
\* KnnResult aborts for k <= 0.
ASSUME NeighborsAssumption == Neighbors \subseteq Nat \ {0}
ASSUME EpsilonsAssumption == Epsilons \subseteq 0 .. MaxDistance

NoQuery == [k |-> 0]

Square(x) == x * x
SquaredDistance(q, p) ==
    LET along(a) == IF a \in Axes THEN Square(Coord[a][p] - q[a]) ELSE 0
    IN  along(0) + along(1) + along(2)

\* No distance overflows.
ASSUME OverflowAssumption ==
    \A q \in Queries, p \in Points : SquaredDistance(q, p) < MaxDistance

-----------------------------------------------------------------------------
fulfilled == worst_distance(result) < query.epsilon

-----------------------------------------------------------------------------
Frame(n) == [node |-> n, stage |-> "enter",
             todo |-> IF LeafNode(n) THEN indices[nodes[n].lr] ELSE {}]
Top == Last(stack)
Replaced(stage, todo) == Append(Front(stack), [Top EXCEPT !.stage = stage, !.todo = todo])
Difference(n) == query.q[nodes[n].proj] - nodes[n].thresh
best_child(n) == IF Difference(n) < 0 THEN nodes[n].left ELSE nodes[n].right
other_child(n) == IF Difference(n) < 0 THEN nodes[n].right ELSE nodes[n].left
DoubledCut(n) == 2 * Square(Difference(n))
cut_sq_dist(n) == Square(Difference(n))

InitSearch == Init /\ query = NoQuery /\ stack = <<>> /\ result = EmptyResult(1)

StartQuery ==
    /\ Constructed
    /\ Size > 0
    /\ query = NoQuery
    /\ \E q \in Queries, k \in Neighbors, e \in Epsilons :
        /\ query' = [q |-> q, k |-> k, epsilon |-> e]
        /\ result' = EmptyResult(k)
    /\ stack' = <<Frame(root)>>
    /\ UNCHANGED vars

\* The loop over a leaf's points, in whatever order nth_element left them
ScanLeaf ==
    /\ stack # <<>> /\ LeafNode(Top.node) /\ Top.todo # {}
    /\ \E p \in Top.todo :
        /\ result' = push(result, p, SquaredDistance(query.q, p))
        /\ stack' = Replaced("scan", Top.todo \ {p})
    /\ UNCHANGED <<vars, query>>

\* return !setting.fulfilled(result): false unwinds the whole recursion
LeaveLeaf ==
    /\ stack # <<>> /\ LeafNode(Top.node) /\ Top.todo = {}
    /\ stack' = IF fulfilled THEN <<>> ELSE Front(stack)
    /\ UNCHANGED <<vars, query, result>>

VisitBest ==
    /\ stack # <<>> /\ ~LeafNode(Top.node) /\ Top.stage = "enter"
    /\ stack' = Append(Replaced("best", {}), Frame(best_child(Top.node)))
    /\ UNCHANGED <<vars, query, result>>

VisitOther ==
    /\ stack # <<>> /\ ~LeafNode(Top.node) /\ Top.stage = "best"
    /\ worst_distance(result) > cut_sq_dist(Top.node)
    /\ stack' = Append(Front(stack), Frame(other_child(Top.node)))   \* a tail call
    /\ UNCHANGED <<vars, query, result>>

PruneOther ==
    /\ stack # <<>> /\ ~LeafNode(Top.node) /\ Top.stage = "best"
    /\ ~(worst_distance(result) > cut_sq_dist(Top.node))
    /\ stack' = Front(stack)
    /\ UNCHANGED <<vars, query, result>>

Answered == query # NoQuery /\ stack = <<>>

SearchStep == ScanLeaf \/ LeaveLeaf \/ VisitBest \/ VisitOther \/ PruneOther

BuildStep == (FinishBuild \/ \E r \in Ranges : Step(r)) /\ UNCHANGED searchVars

SearchNext ==
    \/ BuildStep
    \/ StartQuery
    \/ SearchStep
    \/ Answered /\ UNCHANGED allVars

\* Tasks of the build run whenever they can (see KdTreeBuild); a caller's own
\* thread carries out its query.
SearchSpec ==
    /\ InitSearch
    /\ [][SearchNext]_allVars
    /\ (\A r \in Ranges : WF_vars(Step(r))) /\ WF_vars(FinishBuild)
    /\ WF_allVars(SearchStep)

-----------------------------------------------------------------------------
\* ds lists the smallest squared distances in order: entry i has fewer than i
\* points strictly nearer, and at least i points no farther.
AreNearest(q, ds) ==
    LET d == [p \in Points |-> SquaredDistance(q, p)] IN
    \A i \in 1 .. Min({Len(ds), Size}) :
        /\ Cardinality({p \in Points : d[p] < ds[i]}) < i
        /\ Cardinality({p \in Points : d[p] <= ds[i]}) >= i

\* Pruning loses nothing: an answer is the k nearest points, unless the search
\* stopped early, and then all k are closer than epsilon.  Either way it names
\* different points, each with its own distance, and the places without a point
\* are at the distance no point has.
NearestFound ==
    Answered =>
        LET n == result.found IN
        /\ \A i \in 1 .. n :
              /\ result.distances[i] = SquaredDistance(query.q, result.indices[i])
              /\ \A j \in 1 .. i - 1 : result.indices[i] # result.indices[j]
        /\ \A i \in n + 1 .. query.k : result.distances[i] = MaxDistance
        /\ \/ AreNearest(query.q, result.distances) /\ n = Min({query.k, Size})
           \/ n = query.k /\ worst_distance(result) < query.epsilon
=============================================================================
