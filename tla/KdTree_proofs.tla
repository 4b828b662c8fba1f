---------------------------- MODULE KdTree_proofs ---------------------------
(***************************************************************************)
(* What holds of the k-d tree: of its build for every number of points,    *)
(* every leaf size of at least three, every task threshold and every       *)
(* interleaving; and of a k-nearest-neighbour query on the tree whatever   *)
(* tree the tasks of the build left behind, for every query, number of     *)
(* neighbours and epsilon.                                                 *)
(*                                                                         *)
(* The argument: two calls of create_node work on disjoint ranges, or one  *)
(* of them works inside one half of the other's range.  Give every call    *)
(* one point of its own -- a leaf its first point, an inner node the last  *)
(* point of its left half -- and no two calls get the same point, because  *)
(* every leaf has two points or more.  So there are never more nodes than  *)
(* points, and the array sized to the number of points is never overrun.   *)
(*                                                                         *)
(* The tree itself: a call's range is as long as it has points, a range    *)
(* that was split stays split as its node says, every node taken is some   *)
(* call's, and every call but the root's was made by one that waits for    *)
(* it.  When the root's call has returned all have, and the points below a *)
(* node are those of its call: there is no shortest call for which not.    *)
(*                                                                         *)
(* A query: the buffer holds different points, sorted by their own         *)
(* distances.  A point is in the buffer, or below a node that a frame of   *)
(* the recursion has yet to visit -- below one only --, or at least as far *)
(* away as the worst entry: pushed out of the buffer, or pruned because    *)
(* its node lies on the other side of a cut that is as far away.           *)
(***************************************************************************)
EXTENDS KdTreeSearch, FiniteSetTheorems, SequenceTheorems, TLAPS

InLeft(s, r) == ~IsLeaf(r) /\ r[1] <= s[1] /\ s[2] <= Mid(r)
InRight(s, r) == ~IsLeaf(r) /\ Mid(r) <= s[1] /\ s[2] <= r[2]
Inside(s, r) == InLeft(s, r) \/ InRight(s, r)

Growing == {"create", "partition", "leaf"}
Splitting == {"partition", "left", "right", "both"}

\* Inner calls have split a range longer than a leaf; every call but the
\* root's has at least two points.
Sized ==
    /\ \A r \in Ranges : pc[r] \in Splitting => ~IsLeaf(r)
    /\ \A r \in Started : r = Root \/ Distance(r) >= 2

\* Calls are disjoint or nested in a half of one another.
Nested ==
    \A r, s \in Started : r = s \/ Disjoint(r, s) \/ Inside(r, s) \/ Inside(s, r)

\* Nothing works inside a range that has not been split yet, nor inside the
\* right half before the left one has returned.
Fresh ==
    \A r, s \in Started :
        /\ pc[r] \in Growing => ~Inside(s, r)
        /\ pc[r] = "left" => ~InRight(s, r)

\* The counter counts the calls that took a node, and each took its own.
Counted ==
    /\ IsFiniteSet(Claimed)
    /\ node_count = Cardinality(Claimed)
    /\ \A r \in Claimed : node_index[r] \in 0 .. node_count - 1
    /\ NodesUnique

IInv == TypeOK /\ Sized /\ Nested /\ Fresh /\ Counted

-----------------------------------------------------------------------------
\* The two halves of a range longer than a leaf are ranges of two points or
\* more (create_node's median_itr = first + N / 2, with leaves of three).
LEMMA HalfBounds ==
    ASSUME NEW r \in Ranges, ~IsLeaf(r)
    PROVE  /\ Mid(r) \in Int
           /\ r[1] + 2 <= Mid(r)
           /\ Mid(r) + 2 <= r[2]
           /\ LeftHalf(r) \in Ranges
           /\ RightHalf(r) \in Ranges
           /\ Distance(LeftHalf(r)) >= 2
           /\ Distance(RightHalf(r)) >= 2
<1>1. /\ r = <<r[1], r[2]>>
      /\ r[1] \in 0 .. Size
      /\ r[2] \in 0 .. Size
      /\ r[2] - r[1] >= 4
      /\ Size \in Nat
  BY SizeAssumption, LeafAssumption DEF Ranges, IsLeaf, Distance
<1> DEFINE n == r[2] - r[1]
<1>2. n \in Int /\ n >= 4
  BY <1>1
<1>3. /\ n \div 2 \in Int
      /\ 2 <= n \div 2
      /\ (n \div 2) + 2 <= n
  BY <1>2
<1>4. /\ Mid(r) \in Int
      /\ r[1] + 2 <= Mid(r)
      /\ Mid(r) + 2 <= r[2]
  BY <1>1, <1>3 DEF Mid, Distance
<1> HIDE DEF n
<1>5. QED
  BY <1>1, <1>4 DEF LeftHalf, RightHalf, Ranges, Distance

\* The ends of a range.
LEMMA RangeEnds ==
    ASSUME NEW r \in Ranges
    PROVE  r[1] \in Int /\ r[2] \in Int /\ 0 <= r[1] /\ r[1] < r[2] /\ r[2] <= Size
  BY SizeAssumption DEF Ranges

\* Something disjoint from a range is inside neither it nor its halves, and
\* they are not inside it.
LEMMA DisjointNotInside ==
    ASSUME NEW r \in Ranges, NEW s \in Ranges, Disjoint(r, s)
    PROVE  ~Inside(r, s) /\ ~Inside(s, r) /\ r # s /\ Disjoint(s, r)
<1>1. /\ r[1] \in Int /\ r[2] \in Int /\ r[1] < r[2]
      /\ s[1] \in Int /\ s[2] \in Int /\ s[1] < s[2]
  BY RangeEnds
<1>2. ~IsLeaf(r) => Mid(r) \in Int /\ r[1] + 2 <= Mid(r) /\ Mid(r) + 2 <= r[2]
  BY HalfBounds
<1>3. ~IsLeaf(s) => Mid(s) \in Int /\ s[1] + 2 <= Mid(s) /\ Mid(s) + 2 <= s[2]
  BY HalfBounds
<1>4. QED
  BY <1>1, <1>2, <1>3 DEF Disjoint, Inside, InLeft, InRight

\* The two halves of a range.
LEMMA HalvesApart ==
    ASSUME NEW r \in Ranges, ~IsLeaf(r)
    PROVE  /\ Disjoint(LeftHalf(r), RightHalf(r))
           /\ InLeft(LeftHalf(r), r)
           /\ InRight(RightHalf(r), r)
           /\ ~InRight(LeftHalf(r), r)
           /\ ~InLeft(RightHalf(r), r)
<1>1. r[1] \in Int /\ r[2] \in Int
  BY RangeEnds
<1>2. Mid(r) \in Int /\ r[1] + 2 <= Mid(r) /\ Mid(r) + 2 <= r[2]
  BY HalfBounds
<1>3. QED
  BY <1>1, <1>2 DEF InLeft, InRight, Disjoint, LeftHalf, RightHalf

\* How a half t of r lies with respect to any other range s.
LEMMA HalvesNest ==
    ASSUME NEW r \in Ranges, NEW s \in Ranges, NEW t \in Ranges, ~IsLeaf(r),
           t = LeftHalf(r) \/ t = RightHalf(r)
    PROVE  /\ t # r /\ ~Inside(r, t) /\ ~Inside(t, t)
           /\ Inside(s, t) => Inside(s, r)
           /\ InLeft(r, s) => InLeft(t, s) /\ ~InRight(t, s)
           /\ InRight(r, s) => InRight(t, s)
           /\ Disjoint(r, s) => Disjoint(t, s)
<1>1. /\ r[1] \in Int /\ r[2] \in Int /\ r[1] < r[2]
      /\ s[1] \in Int /\ s[2] \in Int /\ s[1] < s[2]
      /\ t[1] \in Int /\ t[2] \in Int /\ t[1] < t[2]
  BY RangeEnds
<1>2. Mid(r) \in Int /\ r[1] + 2 <= Mid(r) /\ Mid(r) + 2 <= r[2]
  BY HalfBounds
<1>3. ~IsLeaf(s) => Mid(s) \in Int /\ s[1] + 2 <= Mid(s) /\ Mid(s) + 2 <= s[2]
  BY HalfBounds
<1>4. ~IsLeaf(t) => Mid(t) \in Int /\ t[1] + 2 <= Mid(t) /\ Mid(t) + 2 <= t[2]
  BY HalfBounds
<1>5. \/ t[1] = r[1] /\ t[2] = Mid(r)
      \/ t[1] = Mid(r) /\ t[2] = r[2]
  BY DEF LeftHalf, RightHalf
<1>6. t # r /\ ~Inside(r, t) /\ ~Inside(t, t)
  <2>1. t # r
    BY <1>1, <1>2, <1>5
  <2>2. ~Inside(r, t) /\ ~Inside(t, t)
    BY <1>1, <1>2, <1>4, <1>5 DEF Inside, InLeft, InRight
  <2>3. QED
    BY <2>1, <2>2
<1>7. Inside(s, t) => Inside(s, r)
  BY <1>1, <1>2, <1>4, <1>5 DEF Inside, InLeft, InRight
<1>8. InLeft(r, s) => InLeft(t, s) /\ ~InRight(t, s)
  BY <1>1, <1>2, <1>3, <1>5 DEF InLeft, InRight
<1>9. InRight(r, s) => InRight(t, s)
  BY <1>1, <1>2, <1>3, <1>5 DEF InRight
<1>10. Disjoint(r, s) => Disjoint(t, s)
  BY <1>1, <1>2, <1>5 DEF Disjoint
<1>11. QED
  BY <1>6, <1>7, <1>8, <1>9, <1>10

-----------------------------------------------------------------------------
\* The point a call owns: a leaf its first, an inner node the last of its left
\* half.
Own(r) == IF IsLeaf(r) THEN r[1] ELSE Mid(r) - 1

\* A call owns one of the points it works on.
LEMMA OwnPoint ==
    ASSUME NEW r \in Ranges
    PROVE  Own(r) \in Points /\ r[1] <= Own(r) /\ Own(r) < r[2]
<1>1. r[1] \in Int /\ r[2] \in Int /\ 0 <= r[1] /\ r[1] < r[2] /\ r[2] <= Size
  BY RangeEnds
<1>2. ~IsLeaf(r) => Mid(r) \in Int /\ r[1] + 2 <= Mid(r) /\ Mid(r) + 2 <= r[2]
  BY HalfBounds
<1>3. QED
  BY <1>1, <1>2, SizeAssumption DEF Own, Points

\* A call nested in a half of another owns another point.
LEMMA OwnInside ==
    ASSUME NEW r \in Ranges, NEW s \in Ranges, Inside(s, r), Distance(s) >= 2
    PROVE  Own(s) # Own(r)
<1>1. /\ r[1] \in Int /\ r[2] \in Int /\ r[1] < r[2]
      /\ s[1] \in Int /\ s[2] \in Int /\ s[1] + 2 <= s[2]
  BY RangeEnds DEF Distance
<1>2. ~IsLeaf(r) /\ Mid(r) \in Int /\ r[1] + 2 <= Mid(r) /\ Mid(r) + 2 <= r[2]
  BY HalfBounds DEF Inside, InLeft, InRight
<1>3. ~IsLeaf(s) => Mid(s) \in Int /\ s[1] + 2 <= Mid(s) /\ Mid(s) + 2 <= s[2]
  BY HalfBounds
<1>4. QED
  BY <1>1, <1>2, <1>3 DEF Inside, InLeft, InRight, Own

\* Disjoint calls own different points.
LEMMA OwnDisjoint ==
    ASSUME NEW r \in Ranges, NEW s \in Ranges, Disjoint(r, s)
    PROVE  Own(s) # Own(r)
<1>1. /\ r[1] \in Int /\ r[2] \in Int /\ s[1] \in Int /\ s[2] \in Int
  BY RangeEnds
<1>2. /\ Own(r) \in Int /\ r[1] <= Own(r) /\ Own(r) < r[2]
      /\ Own(s) \in Int /\ s[1] <= Own(s) /\ Own(s) < s[2]
  BY OwnPoint, SizeAssumption DEF Points
<1>3. QED
  BY <1>1, <1>2 DEF Disjoint

\* Nothing lies inside the root's halves but proper parts of it.
LEMMA RootOutermost ==
    ASSUME NEW r \in Ranges, Inside(Root, r)
    PROVE  FALSE
<1>1. r[1] \in Int /\ r[2] \in Int /\ 0 <= r[1] /\ r[1] < r[2] /\ r[2] <= Size
  BY RangeEnds
<1>2. ~IsLeaf(r) /\ Mid(r) \in Int /\ r[1] + 2 <= Mid(r) /\ Mid(r) + 2 <= r[2]
  BY HalfBounds DEF Inside, InLeft, InRight
<1>3. QED
  BY <1>1, <1>2, SizeAssumption DEF Inside, InLeft, InRight, Root

\* There are at most as many calls as there are points ...
LEMMA StartedBounded ==
    ASSUME Sized, Nested
    PROVE  IsFiniteSet(Started) /\ Cardinality(Started) <= Size
<1> DEFINE own == [r \in Started |-> Own(r)]
<1>1. Started \subseteq Ranges
  BY DEF Started
<1>2. own \in [Started -> Points]
  BY <1>1, OwnPoint
<1>3. ASSUME NEW r \in Started, NEW s \in Started, r # s
      PROVE  own[r] # own[s]
  <2>1. r \in Ranges /\ s \in Ranges
    BY <1>1
  <2>2. Disjoint(r, s) \/ Inside(r, s) \/ Inside(s, r)
    BY <1>3, <2>1 DEF Nested
  <2>3. CASE Disjoint(r, s)
    BY <2>1, <2>3, OwnDisjoint
  <2>4. CASE Inside(r, s)
    <3>1. Distance(r) >= 2
      BY <2>1, <2>4, RootOutermost DEF Sized
    <3>2. QED
      BY <2>1, <2>4, <3>1, OwnInside
  <2>5. CASE Inside(s, r)
    <3>1. Distance(s) >= 2
      BY <2>1, <2>5, RootOutermost DEF Sized
    <3>2. QED
      BY <2>1, <2>5, <3>1, OwnInside
  <2>6. QED
    BY <2>2, <2>3, <2>4, <2>5
<1>4. own \in Injection(Started, Points)
  BY <1>2, <1>3 DEF Injection, IsInjective
<1>5. IsFiniteSet(Points) /\ Cardinality(Points) = Size
  <2>1. 0 \in Int /\ Size - 1 \in Int
    BY SizeAssumption
  <2>2. IsFiniteSet(0 .. (Size - 1)) /\ Cardinality(0 .. (Size - 1)) = IF 0 > Size - 1 THEN 0 ELSE (Size - 1) - 0 + 1
    BY <2>1, FS_Interval
  <2>3. QED
    BY <2>2, SizeAssumption DEF Points
<1>6. IsFiniteSet(Started) /\ Cardinality(Started) <= Cardinality(Points)
  BY <1>4, <1>5, FS_Injection
<1>7. QED
  BY <1>5, <1>6

\* ... and at most as many that took a node.
LEMMA ClaimedBounded ==
    ASSUME Sized, Nested
    PROVE  IsFiniteSet(Claimed) /\ Cardinality(Claimed) <= Size
<1>1. Claimed \subseteq Started
  BY DEF Claimed, Started
<1>2. IsFiniteSet(Started) /\ Cardinality(Started) <= Size
  BY StartedBounded
<1>3. IsFiniteSet(Claimed) /\ Cardinality(Claimed) <= Cardinality(Started)
  BY <1>1, <1>2, FS_Subset
<1>4. Cardinality(Claimed) \in Nat /\ Cardinality(Started) \in Nat
  BY <1>2, <1>3, FS_CardinalityType
<1>5. QED
  BY <1>2, <1>3, <1>4, SizeAssumption

-----------------------------------------------------------------------------
\* The invariant holds when build_tree makes its first call.
LEMMA InitIInv == Init => IInv
<1> SUFFICES ASSUME Init PROVE IInv
  OBVIOUS
<1>1. TypeOK
  <2>1. EmptyNode \in Node
    BY SizeAssumption, CoordAssumption DEF EmptyNode, Node
  <2>2. QED
    BY <2>1, UninitAssumption DEF Init, TypeOK, States
<1>2. \A r \in Ranges : r # Root => pc[r] = "none"
  BY DEF Init
<1>3. Started \subseteq {Root} /\ Claimed = {}
  BY <1>2 DEF Started, Claimed, Init
<1>4. Sized
  BY <1>2, <1>3 DEF Sized, Splitting, Init
<1>5. Nested
  BY <1>3 DEF Nested
<1>6. Fresh
  <2> SUFFICES ASSUME Root \in Ranges PROVE ~Inside(Root, Root)
    BY <1>3 DEF Fresh, Started, Inside
  <2>1. QED
    BY RootOutermost
<1>7. Counted
  BY <1>3, FS_EmptySet DEF Counted, NodesUnique, Init
<1>8. QED
  BY <1>1, <1>4, <1>5, <1>6, <1>7 DEF IInv

\* Adding one half of an inner call's range to the started calls keeps them
\* disjoint or nested, provided nothing works inside that half yet.
LEMMA NestHalf ==
    ASSUME Sized, Nested,
           NEW r \in Started, ~IsLeaf(r),
           NEW t \in Ranges, t = LeftHalf(r) \/ t = RightHalf(r),
           NEW s \in Started,
           Inside(s, r) => Disjoint(s, t)
    PROVE  Disjoint(s, t) \/ Inside(t, s)
<1>1. r \in Ranges /\ s \in Ranges
  BY DEF Started
<1>2. r = s \/ Disjoint(r, s) \/ Inside(r, s) \/ Inside(s, r)
  BY DEF Nested
<1>3. CASE r = s
  BY <1>1, <1>3, HalvesApart DEF Inside
<1>4. CASE Disjoint(r, s)
  <2>1. Disjoint(t, s)
    BY <1>1, <1>4, HalvesNest
  <2>2. QED
    BY <1>1, <2>1, DisjointNotInside
<1>5. CASE Inside(r, s)
  BY <1>1, <1>5, HalvesNest DEF Inside
<1>6. CASE Inside(s, r)
  BY <1>6
<1>7. QED
  BY <1>2, <1>3, <1>4, <1>5, <1>6

\* A step that starts no call and moves none back keeps the shape.
LEMMA SameStarted ==
    ASSUME IInv, Started' = Started,
           \A r \in Started : /\ pc'[r] \in Growing => pc[r] \in Growing
                              /\ pc'[r] = "left" => pc[r] = "left"
    PROVE  Nested' /\ Fresh'
<1>1. Nested'
  BY DEF IInv, Nested, Disjoint, Inside, InLeft, InRight
<1>2. Fresh'
  BY DEF IInv, Fresh, Inside, InLeft, InRight
<1>3. QED
  BY <1>1, <1>2

\* A step in which no call takes a node keeps the count.
LEMMA SameClaimed ==
    ASSUME IInv, Claimed' = Claimed, node_count' = node_count, node_index' = node_index
    PROVE  Counted'
  BY DEF IInv, Counted, NodesUnique

\* Writing a field of a node keeps the type of the node array.
LEMMA LeafWrite ==
    ASSUME TypeOK, NEW n, NEW r \in Ranges
    PROVE  [nodes EXCEPT ![n].lr = r] \in [Points -> Node]
<1>1. nodes \in [Points -> Node] /\ r \in (0 .. Size) \X (0 .. Size)
  BY DEF TypeOK, Ranges
<1>2. CASE n \notin Points
  BY <1>1, <1>2
<1>3. CASE n \in Points
  <2>1. [nodes[n] EXCEPT !.lr = r] \in Node
    BY <1>1, <1>3 DEF Node
  <2>2. QED
    BY <1>1, <1>3, <2>1
<1>4. QED
  BY <1>2, <1>3

\* So does writing the fields of an inner node ...
LEMMA SplitWrite ==
    ASSUME TypeOK, NEW n, NEW a \in Axes, NEW c \in Int
    PROVE  [nodes EXCEPT ![n].proj = a, ![n].thresh = c] \in [Points -> Node]
<1>1. nodes \in [Points -> Node]
  BY DEF TypeOK
<1>2. CASE n \notin Points
  BY <1>1, <1>2
<1>3. CASE n \in Points
  <2>1. [nodes[n] EXCEPT !.proj = a] \in Node
    BY <1>1, <1>3 DEF Node
  <2>2. [[nodes[n] EXCEPT !.proj = a] EXCEPT !.thresh = c] \in Node
    BY <2>1 DEF Node
  <2>3. QED
    BY <1>1, <1>3, <2>1, <2>2
<1>4. QED
  BY <1>2, <1>3

\* ... and the links to its children.
LEMMA LinkWrite ==
    ASSUME TypeOK, NEW n, NEW m \in Nat \cup {INVALID_NODE}
    PROVE  /\ [nodes EXCEPT ![n].left = m] \in [Points -> Node]
           /\ [nodes EXCEPT ![n].right = m] \in [Points -> Node]
<1>1. nodes \in [Points -> Node]
  BY DEF TypeOK
<1>2. CASE n \notin Points
  BY <1>1, <1>2
<1>3. CASE n \in Points
  <2>1. [nodes[n] EXCEPT !.left = m] \in Node /\ [nodes[n] EXCEPT !.right = m] \in Node
    BY <1>1, <1>3 DEF Node
  <2>2. QED
    BY <1>1, <1>3, <2>1
<1>4. QED
  BY <1>2, <1>3

-----------------------------------------------------------------------------
\* One lemma per action.
\* node_count++ hands out a slot nobody has.
LEMMA CreateNodePreserves ==
    ASSUME IInv, NEW r \in Ranges, CreateNode(r)
    PROVE  IInv'
<1>1. /\ pc[r] = "create"
      /\ pc' = [pc EXCEPT ![r] = IF IsLeaf(r) THEN "leaf" ELSE "partition"]
      /\ pc \in [Ranges -> States]
      /\ node_index' = [node_index EXCEPT ![r] = node_count]
      /\ node_index \in [Ranges -> Nat \cup {INVALID_NODE}]
      /\ node_count \in Nat
      /\ node_count' = node_count + 1
  BY DEF CreateNode, NextCount, IInv, TypeOK
<1>2. TypeOK'
  <2>1. pc' \in [Ranges -> States]
    BY <1>1 DEF States
  <2>2. node_index' \in [Ranges -> Nat \cup {INVALID_NODE}] /\ node_count' \in Nat
    BY <1>1
  <2>3. QED
    BY <2>1, <2>2 DEF CreateNode, NextCount, IInv, TypeOK
<1>3. Started' = Started
  BY <1>1 DEF Started
<1>4. Claimed' = Claimed \cup {r} /\ r \notin Claimed
  BY <1>1 DEF Claimed
<1>5. Sized'
  BY <1>1, <1>3 DEF Sized, Splitting, IInv
<1>6. Nested' /\ Fresh'
  BY <1>1, <1>3, SameStarted DEF Started, Growing
<1>7. Counted'
  <2>1. /\ IsFiniteSet(Claimed)
        /\ node_count = Cardinality(Claimed)
        /\ \A s \in Claimed : node_index[s] \in 0 .. node_count - 1
        /\ NodesUnique
    BY DEF IInv, Counted
  <2>2. IsFiniteSet(Claimed') /\ node_count' = Cardinality(Claimed')
    BY <1>1, <1>4, <2>1, FS_AddElement
  <2>3. node_index'[r] = node_count /\ \A s \in Claimed : node_index'[s] = node_index[s]
    BY <1>1, <1>4 DEF Claimed
  <2>4. \A s \in Claimed' : node_index'[s] \in 0 .. node_count' - 1
    BY <1>1, <1>4, <2>1, <2>3
  <2>5. NodesUnique'
    <3> SUFFICES ASSUME NEW s \in Claimed', NEW t \in Claimed', node_index'[s] = node_index'[t]
                 PROVE  s = t
      BY DEF NodesUnique
    <3>1. \A x \in Claimed : node_index[x] # node_count
      BY <1>1, <2>1
    <3>2. CASE s = r /\ t \in Claimed
      BY <2>3, <3>1, <3>2
    <3>3. CASE t = r /\ s \in Claimed
      BY <2>3, <3>1, <3>3
    <3>4. CASE s \in Claimed /\ t \in Claimed
      BY <2>1, <2>3, <3>4 DEF NodesUnique
    <3>5. QED
      BY <1>4, <3>2, <3>3, <3>4
  <2>6. QED
    BY <2>2, <2>4, <2>5 DEF Counted
<1>8. QED
  BY <1>2, <1>5, <1>6, <1>7 DEF IInv

\* Writing a leaf touches the call's own slot.
LEMMA WriteLeafPreserves ==
    ASSUME IInv, NEW r \in Ranges, WriteLeaf(r)
    PROVE  IInv'
<1>1. /\ pc[r] = "leaf"
      /\ pc' = [pc EXCEPT ![r] = "return"]
      /\ pc \in [Ranges -> States]
  BY DEF WriteLeaf, IInv, TypeOK
<1>2. TypeOK'
  <2>1. nodes' \in [Points -> Node]
    BY LeafWrite DEF WriteLeaf, IInv
  <2>2. pc' \in [Ranges -> States]
    BY <1>1 DEF States
  <2>3. QED
    BY <2>1, <2>2 DEF WriteLeaf, IInv, TypeOK
<1>3. Started' = Started /\ Claimed' = Claimed
  BY <1>1 DEF Started, Claimed
<1>4. Sized'
  BY <1>1, <1>3 DEF Sized, Splitting, IInv
<1>5. Nested' /\ Fresh'
  BY <1>1, <1>3, SameStarted DEF Started, Growing
<1>6. Counted'
  BY <1>3, SameClaimed DEF WriteLeaf
<1>7. QED
  BY <1>2, <1>4, <1>5, <1>6 DEF IInv

\* Publishing the right child starts no call.
LEMMA AssignRightPreserves ==
    ASSUME IInv, NEW r \in Ranges, AssignRight(r)
    PROVE  IInv'
<1>1. /\ pc[r] \in {"right", "both"}
      /\ pc[RightHalf(r)] = "return"
      /\ pc' = [pc EXCEPT ![RightHalf(r)] = "done"]
      /\ pc \in [Ranges -> States]
  BY DEF AssignRight, IInv, TypeOK
<1>2. ~IsLeaf(r) /\ RightHalf(r) \in Ranges
  BY <1>1, HalfBounds DEF IInv, Sized, Splitting
<1>3. TypeOK'
  <2>1. node_index[RightHalf(r)] \in Nat \cup {INVALID_NODE}
    BY <1>2 DEF IInv, TypeOK
  <2>2. nodes' \in [Points -> Node]
    BY <2>1, LinkWrite DEF AssignRight, IInv
  <2>3. pc' \in [Ranges -> States]
    BY <1>1 DEF States
  <2>4. QED
    BY <2>2, <2>3 DEF AssignRight, IInv, TypeOK
<1>4. Started' = Started /\ Claimed' = Claimed
  BY <1>1, <1>2 DEF Started, Claimed
<1>5. Sized'
  BY <1>1, <1>4 DEF Sized, Splitting, IInv
<1>6. Nested' /\ Fresh'
  BY <1>1, <1>4, SameStarted DEF Started, Growing
<1>7. Counted'
  BY <1>4, SameClaimed DEF AssignRight
<1>8. QED
  BY <1>3, <1>5, <1>6, <1>7 DEF IInv

\* Waiting for the children starts no call.
LEMMA TaskWaitPreserves ==
    ASSUME IInv, NEW r \in Ranges, TaskWait(r)
    PROVE  IInv'
<1>1. /\ pc[r] \in {"right", "both"}
      /\ pc' = [pc EXCEPT ![r] = "return"]
      /\ pc \in [Ranges -> States]
  BY DEF TaskWait, IInv, TypeOK
<1>2. TypeOK'
  BY <1>1 DEF TaskWait, IInv, TypeOK, States
<1>3. Started' = Started /\ Claimed' = Claimed
  BY <1>1 DEF Started, Claimed
<1>4. Sized'
  BY <1>1, <1>3 DEF Sized, Splitting, IInv
<1>5. Nested' /\ Fresh'
  BY <1>1, <1>3, SameStarted DEF Started, Growing
<1>6. Counted'
  BY <1>3, SameClaimed DEF TaskWait
<1>7. QED
  BY <1>2, <1>4, <1>5, <1>6 DEF IInv

\* Neither does storing the root.
LEMMA FinishBuildPreserves ==
    ASSUME IInv, FinishBuild
    PROVE  IInv'
<1>1. /\ Root \in Ranges
      /\ pc[Root] = "return"
      /\ pc' = [pc EXCEPT ![Root] = "done"]
      /\ pc \in [Ranges -> States]
  BY SizeAssumption DEF FinishBuild, IInv, TypeOK, Root, Ranges
<1>2. TypeOK'
  BY <1>1 DEF FinishBuild, IInv, TypeOK, States
<1>3. Started' = Started /\ Claimed' = Claimed
  BY <1>1 DEF Started, Claimed
<1>4. Sized'
  BY <1>1, <1>3 DEF Sized, Splitting, IInv
<1>5. Nested' /\ Fresh'
  BY <1>1, <1>3, SameStarted DEF Started, Growing
<1>6. Counted'
  BY <1>3, SameClaimed DEF FinishBuild
<1>7. QED
  BY <1>2, <1>4, <1>5, <1>6 DEF IInv

\* Publishing the left child, and starting the right one where the recursion is
\* sequential.
LEMMA AssignLeftPreserves ==
    ASSUME IInv, NEW r \in Ranges, AssignLeft(r)
    PROVE  IInv'
<1> DEFINE L == LeftHalf(r)
           R == RightHalf(r)
<1>1. /\ pc[r] \in {"left", "both"}
      /\ pc[L] = "return"
      /\ pc' = IF pc[r] = "left"
               THEN [pc EXCEPT ![L] = "done", ![r] = "right", ![R] = "create"]
               ELSE [pc EXCEPT ![L] = "done"]
      /\ pc \in [Ranges -> States]
  BY DEF AssignLeft, IInv, TypeOK
<1>2. /\ ~IsLeaf(r) /\ L \in Ranges /\ R \in Ranges
      /\ L # r /\ R # r /\ L # R
      /\ Distance(R) >= 2
  <2>1. ~IsLeaf(r)
    BY <1>1 DEF IInv, Sized, Splitting
  <2>2. L \in Ranges /\ R \in Ranges /\ Distance(R) >= 2
    BY <2>1, HalfBounds
  <2>3. L # r /\ R # r
    BY <2>1, <2>2, HalvesNest
  <2>4. L # R
    BY <2>1, <2>2, HalvesApart, DisjointNotInside
  <2>5. QED
    BY <2>1, <2>2, <2>3, <2>4
<1>3. TypeOK'
  <2>1. node_index[L] \in Nat \cup {INVALID_NODE}
    BY <1>2 DEF IInv, TypeOK
  <2>2. nodes' \in [Points -> Node]
    BY <2>1, LinkWrite DEF AssignLeft, IInv
  <2>3. pc' \in [Ranges -> States]
    BY <1>1 DEF States
  <2>4. QED
    BY <2>2, <2>3 DEF AssignLeft, IInv, TypeOK
<1> HIDE DEF L, R
<1>4. CASE pc[r] = "both"
  <2>1. pc' = [pc EXCEPT ![L] = "done"]
    BY <1>1, <1>4
  <2>2. Started' = Started /\ Claimed' = Claimed
    BY <1>1, <1>2, <2>1 DEF Started, Claimed
  <2>3. Sized'
    BY <1>1, <1>2, <2>1, <2>2 DEF Sized, Splitting, IInv
  <2>4. Nested' /\ Fresh'
    BY <1>1, <1>2, <2>1, <2>2, SameStarted DEF Started, Growing
  <2>5. Counted'
    BY <2>2, SameClaimed DEF AssignLeft
  <2>6. QED
    BY <1>3, <2>3, <2>4, <2>5 DEF IInv
<1>5. CASE pc[r] = "left"
  <2>1. pc' = [pc EXCEPT ![L] = "done", ![r] = "right", ![R] = "create"]
    BY <1>1, <1>5
  <2>2. r \in Started
    BY <1>5 DEF Started
  <2>3. \A s \in Started : ~InRight(s, r)
    BY <1>5, <2>2 DEF IInv, Fresh
  <2>4. R \notin Started /\ pc[R] = "none"
    <3>1. InRight(R, r)
      BY <1>2, HalvesApart DEF R
    <3>2. QED
      BY <1>2, <2>3, <3>1 DEF Started
  <2>5. Started' = Started \cup {R}
    BY <1>1, <1>2, <2>1, <2>2, <2>4 DEF Started
  <2>6. Claimed' = Claimed
    BY <1>1, <1>2, <1>5, <2>1, <2>4 DEF Claimed
  <2>7. Sized'
    BY <1>1, <1>2, <2>1, <2>5 DEF Sized, Splitting, IInv
  <2>8. \A s \in Started : Disjoint(s, R) \/ Inside(R, s)
    <3> SUFFICES ASSUME NEW s \in Started PROVE Disjoint(s, R) \/ Inside(R, s)
      OBVIOUS
    <3>1. Inside(s, r) => Disjoint(s, R)
      BY <2>3 DEF Inside, InLeft, Disjoint, R, RightHalf
    <3>2. QED
      BY <1>2, <2>2, <3>1, NestHalf DEF IInv, R
  <2>9. Nested'
    <3>1. Nested
      BY DEF IInv
    <3>2. \A s \in Started : Disjoint(s, R) => Disjoint(R, s)
      BY DEF Disjoint
    <3>3. \A s, t \in Started' : s = t \/ Disjoint(s, t) \/ Inside(s, t) \/ Inside(t, s)
      BY <2>5, <2>8, <3>1, <3>2 DEF Nested
    <3>4. QED
      BY <3>3 DEF Nested, Disjoint, Inside, InLeft, InRight
  <2>10. Fresh'
    <3>1. Fresh /\ Started \subseteq Ranges
      BY DEF IInv, Started
    <3>2. ASSUME NEW s \in Started', NEW x \in Started', pc'[x] \in Growing
          PROVE  ~Inside(s, x)
      <4>1. CASE x = R
        <5>1. CASE s = R
          BY <1>2, <4>1, <5>1, HalvesNest DEF R
        <5>2. CASE s \in Started
          <6>1. CASE Disjoint(s, R)
            BY <1>2, <3>1, <4>1, <5>2, <6>1, DisjointNotInside
          <6>2. CASE Inside(R, s)
            <7> SUFFICES ASSUME Inside(s, R) PROVE FALSE
              BY <4>1
            <7>1. Inside(s, r)
              BY <1>2, <3>1, <5>2, HalvesNest DEF R
            <7>2. Disjoint(s, R)
              BY <2>3, <5>2, <7>1 DEF Inside, InLeft, Disjoint, R, RightHalf
            <7>3. QED
              BY <1>2, <3>1, <5>2, <7>2, DisjointNotInside
          <6>3. QED
            BY <2>8, <5>2, <6>1, <6>2
        <5>3. QED
          BY <2>5, <5>1, <5>2
      <4>2. CASE x # R
        <5>1. x \in Started /\ x # r /\ x # L /\ pc[x] \in Growing
          BY <1>1, <1>2, <2>1, <2>5, <3>2, <4>2 DEF Growing, Started
        <5>2. CASE s \in Started
          BY <3>1, <5>1, <5>2 DEF Fresh
        <5>3. CASE s = R
          <6>1. ~Inside(r, x)
            BY <2>2, <3>1, <5>1 DEF Fresh
          <6>2. Disjoint(r, x) \/ Inside(x, r)
            BY <2>2, <5>1, <6>1 DEF IInv, Nested
          <6>3. Disjoint(R, x)
            <7>1. CASE Disjoint(r, x)
              BY <1>2, <3>1, <5>1, <7>1, HalvesNest DEF R
            <7>2. CASE Inside(x, r)
              BY <2>3, <5>1, <7>2 DEF Inside, InLeft, Disjoint, R, RightHalf
            <7>3. QED
              BY <6>2, <7>1, <7>2
          <6>4. QED
            BY <1>2, <3>1, <5>1, <5>3, <6>3, DisjointNotInside
        <5>4. QED
          BY <2>5, <5>2, <5>3
      <4>3. QED
        BY <4>1, <4>2
    <3>3. ASSUME NEW s \in Started', NEW x \in Started', pc'[x] = "left"
          PROVE  ~InRight(s, x)
      <4>1. x \in Started /\ x # r /\ x # L /\ x # R /\ pc[x] = "left"
        BY <1>1, <1>2, <2>1, <2>5, <3>3 DEF Started
      <4>2. CASE s \in Started
        BY <3>1, <4>1, <4>2 DEF Fresh
      <4>3. CASE s = R
        <5>1. ~InRight(r, x)
          BY <2>2, <3>1, <4>1 DEF Fresh
        <5>2. r = x \/ Disjoint(r, x) \/ InLeft(r, x) \/ Inside(x, r)
          BY <2>2, <4>1, <5>1 DEF IInv, Nested, Inside
        <5>3. CASE Disjoint(r, x)
          <6>1. Disjoint(R, x)
            BY <1>2, <3>1, <4>1, <5>3, HalvesNest DEF R
          <6>2. QED
            BY <1>2, <3>1, <4>1, <4>3, <6>1, DisjointNotInside DEF Inside
        <5>4. CASE InLeft(r, x)
          BY <1>2, <3>1, <4>1, <4>3, <5>4, HalvesNest DEF R
        <5>5. CASE Inside(x, r)
          <6>1. Disjoint(R, x)
            BY <2>3, <4>1, <5>5 DEF Inside, InLeft, Disjoint, R, RightHalf
          <6>2. QED
            BY <1>2, <3>1, <4>1, <4>3, <6>1, DisjointNotInside DEF Inside
        <5>6. QED
          BY <4>1, <5>2, <5>3, <5>4, <5>5
      <4>4. QED
        BY <2>5, <4>2, <4>3
    <3>4. \A x, s \in Started' : /\ pc'[x] \in Growing => ~Inside(s, x)
                                 /\ pc'[x] = "left" => ~InRight(s, x)
      BY <3>2, <3>3
    <3>5. QED
      BY <3>4 DEF Fresh, Inside, InLeft, InRight
  <2>11. Counted'
    BY <2>6, SameClaimed DEF AssignLeft
  <2>12. QED
    BY <1>3, <2>7, <2>9, <2>10, <2>11 DEF IInv
<1>6. QED
  BY <1>1, <1>4, <1>5

\* Splitting a range starts one or two calls inside it.
LEMMA PartitionPreserves ==
    ASSUME IInv, NEW r \in Ranges, Partition(r)
    PROVE  IInv'
<1> DEFINE L == LeftHalf(r)
           R == RightHalf(r)
<1>1. /\ pc[r] = "partition"
      /\ pc' = IF Distance(r) > ParallelThreshold
               THEN [pc EXCEPT ![r] = "both", ![L] = "create", ![R] = "create"]
               ELSE [pc EXCEPT ![r] = "left", ![L] = "create"]
      /\ pc \in [Ranges -> States]
  BY DEF Partition, Threshold, IInv, TypeOK
<1>2. /\ ~IsLeaf(r) /\ L \in Ranges /\ R \in Ranges
      /\ L # r /\ R # r /\ L # R
      /\ Distance(L) >= 2 /\ Distance(R) >= 2
  <2>1. ~IsLeaf(r)
    BY <1>1 DEF IInv, Sized, Splitting
  <2>2. L \in Ranges /\ R \in Ranges /\ Distance(L) >= 2 /\ Distance(R) >= 2
    BY <2>1, HalfBounds
  <2>3. L # r /\ R # r
    BY <2>1, <2>2, HalvesNest
  <2>4. L # R
    BY <2>1, <2>2, HalvesApart, DisjointNotInside
  <2>5. QED
    BY <2>1, <2>2, <2>3, <2>4
<1>3. TypeOK'
  <2>1. PICK a \in Axes, lower \in SUBSET indices[r], median \in indices[r] :
           /\ indices' = [indices EXCEPT ![L] = lower, ![R] = indices[r] \ lower]
           /\ nodes' = [nodes EXCEPT ![node_index[r]].proj = a,
                                     ![node_index[r]].thresh = Coord[a][median]]
    BY DEF Partition, Threshold
  <2>2. indices \in [Ranges -> SUBSET Points] /\ indices[r] \in SUBSET Points
    BY DEF IInv, TypeOK
  <2>3. indices' \in [Ranges -> SUBSET Points]
    BY <2>1, <2>2
  <2>4. Coord[a][median] \in Int
    BY <2>2, CoordAssumption
  <2>5. nodes' \in [Points -> Node]
    BY <2>1, <2>4, SplitWrite DEF IInv
  <2>6. pc' \in [Ranges -> States]
    BY <1>1 DEF States
  <2>7. QED
    BY <2>3, <2>5, <2>6 DEF Partition, Threshold, IInv, TypeOK
<1> HIDE DEF L, R
<1>4. /\ r \in Started /\ Started \subseteq Ranges
      /\ \A s \in Started : ~Inside(s, r)
  BY <1>1 DEF IInv, Fresh, Started, Growing
<1>5. L \notin Started /\ R \notin Started /\ pc[L] = "none" /\ pc[R] = "none"
  <2>1. Inside(L, r) /\ Inside(R, r)
    BY <1>2, HalvesApart DEF Inside, L, R
  <2>2. QED
    BY <1>2, <1>4, <2>1 DEF Started
<1>6. /\ Claimed' = Claimed
      /\ Started' \subseteq Started \cup {L, R}
      /\ pc'[r] = "left" => Started' = Started \cup {L}
  BY <1>1, <1>2, <1>5 DEF Claimed, Started
<1>7. Sized'
  BY <1>1, <1>2, <1>6 DEF Sized, Splitting, IInv
\* where the new calls lie with respect to the old ones
<1>8. \A s \in Started, t \in {L, R} : Disjoint(s, t) \/ Inside(t, s)
  BY <1>2, <1>4, NestHalf DEF IInv, L, R
<1>9. Disjoint(L, R) /\ Disjoint(R, L)
  BY <1>2, HalvesApart, DisjointNotInside DEF L, R
<1>10. Nested'
  <2>1. \A s \in Started, t \in {L, R} : Disjoint(s, t) => Disjoint(t, s)
    BY DEF Disjoint
  <2>2. \A s, t \in Started' : s = t \/ Disjoint(s, t) \/ Inside(s, t) \/ Inside(t, s)
    <3> SUFFICES ASSUME NEW s \in Started', NEW t \in Started'
                 PROVE  s = t \/ Disjoint(s, t) \/ Inside(s, t) \/ Inside(t, s)
      OBVIOUS
    <3>1. CASE s \in Started /\ t \in Started
      BY <3>1 DEF IInv, Nested
    <3>2. CASE s \in Started /\ t \in {L, R}
      BY <1>8, <3>2
    <3>3. CASE s \in {L, R} /\ t \in Started
      BY <1>8, <2>1, <3>3
    <3>4. CASE s \in {L, R} /\ t \in {L, R}
      BY <1>9, <3>4
    <3>5. QED
      BY <1>6, <3>1, <3>2, <3>3, <3>4
  <2>3. QED
    BY <2>2 DEF Nested, Disjoint, Inside, InLeft, InRight
<1>11. Fresh'
  <2>1. ASSUME NEW s \in Started', NEW x \in Started', pc'[x] \in Growing
        PROVE  ~Inside(s, x)
    <3>1. CASE x \in {L, R} /\ s \in Started
      BY <1>2, <1>4, <3>1, HalvesNest DEF L, R
    <3>2. CASE x \in {L, R} /\ s \in {L, R}
      <4>1. CASE s = x
        BY <1>2, <3>2, <4>1, HalvesNest DEF L, R
      <4>2. CASE s # x
        BY <1>2, <1>9, <3>2, <4>2, DisjointNotInside
      <4>3. QED
        BY <4>1, <4>2
    <3>3. CASE x \in Started
      <4>1. x # r /\ pc[x] \in Growing
        BY <1>1, <1>2, <1>4, <1>5, <2>1, <3>3 DEF Growing
      <4>2. CASE s \in Started
        BY <3>3, <4>1, <4>2 DEF IInv, Fresh
      <4>3. CASE s \in {L, R}
        <5>1. Disjoint(r, x)
          BY <1>4, <3>3, <4>1 DEF IInv, Fresh, Nested
        <5>2. Disjoint(s, x)
          BY <1>2, <1>4, <3>3, <4>3, <5>1, HalvesNest DEF L, R
        <5>3. QED
          BY <1>2, <1>4, <3>3, <4>3, <5>2, DisjointNotInside
      <4>4. QED
        BY <1>6, <4>2, <4>3
    <3>4. QED
      BY <1>6, <3>1, <3>2, <3>3
  <2>2. ASSUME NEW s \in Started', NEW x \in Started', pc'[x] = "left"
        PROVE  ~InRight(s, x)
    <3>1. x \in Started
      BY <1>1, <1>2, <1>6, <2>2
    <3>2. CASE x = r
      <4>1. s \in Started \cup {L}
        BY <1>6, <2>2, <3>2
      <4>2. QED
        BY <1>2, <1>4, <3>2, <4>1, HalvesApart DEF Inside, L
    <3>3. CASE x # r
      <4>1. pc[x] = "left"
        BY <1>1, <1>2, <1>4, <1>5, <2>2, <3>1, <3>3
      <4>2. CASE s \in Started
        BY <3>1, <4>1, <4>2 DEF IInv, Fresh
      <4>3. CASE s \in {L, R}
        <5>1. ~InRight(r, x)
          BY <1>4, <3>1, <4>1 DEF IInv, Fresh
        <5>2. Disjoint(r, x) \/ InLeft(r, x)
          BY <1>4, <3>1, <3>3, <5>1 DEF IInv, Nested, Inside
        <5>3. CASE Disjoint(r, x)
          <6>1. Disjoint(s, x)
            BY <1>2, <1>4, <3>1, <4>3, <5>3, HalvesNest DEF L, R
          <6>2. QED
            BY <1>2, <1>4, <3>1, <4>3, <6>1, DisjointNotInside DEF Inside
        <5>4. CASE InLeft(r, x)
          BY <1>2, <1>4, <3>1, <4>3, <5>4, HalvesNest DEF L, R
        <5>5. QED
          BY <5>2, <5>3, <5>4
      <4>4. QED
        BY <1>6, <4>2, <4>3
    <3>4. QED
      BY <3>2, <3>3
  <2>3. \A x, s \in Started' : /\ pc'[x] \in Growing => ~Inside(s, x)
                               /\ pc'[x] = "left" => ~InRight(s, x)
    BY <2>1, <2>2
  <2>4. QED
    BY <2>3 DEF Fresh, Inside, InLeft, InRight
<1>12. Counted'
  BY <1>6, SameClaimed DEF Partition, Threshold
<1>13. QED
  BY <1>3, <1>7, <1>10, <1>11, <1>12 DEF IInv

-----------------------------------------------------------------------------
(* The tree.                                                               *)
-----------------------------------------------------------------------------
Waiting == {"left", "right", "both"}
Returned == {"return", "done"}

\* A range has been split by the axis and the threshold of its node.
SplitDone(r) ==
    LET lo == indices[LeftHalf(r)]
        hi == indices[RightHalf(r)]
        node == nodes[node_index[r]]
    IN  /\ lo \cup hi = indices[r] /\ lo \cap hi = {}
        /\ Cardinality(lo) = Distance(LeftHalf(r)) /\ Cardinality(hi) = Distance(RightHalf(r))
        /\ \A p \in lo : Coord[node.proj][p] <= node.thresh
        /\ \A p \in hi : node.thresh <= Coord[node.proj][p]

\* Every call has as many points as its range is long; what is split stays so.
Contents ==
    /\ Root \in Ranges => indices[Root] = Points
    /\ \A r \in Started : Cardinality(indices[r]) = Distance(r)
    /\ \A r \in Claimed : ~IsLeaf(r) /\ pc[r] # "partition" => SplitDone(r)

\* Nodes that nobody has taken look like leaves; the others are somebody's,
\* and lead to his points.
Links ==
    /\ \A n \in Points : n >= node_count => nodes[n].left = INVALID_NODE
    /\ \A n \in 0 .. node_count - 1 : \E r \in Claimed : node_index[r] = n
    /\ \A r \in Claimed : IsLeaf(r) =>
          /\ nodes[node_index[r]].left = INVALID_NODE
          /\ pc[r] # "leaf" => nodes[node_index[r]].lr = r
    /\ \A r \in Claimed : ~IsLeaf(r) =>
          /\ pc[LeftHalf(r)] = "done" => nodes[node_index[r]].left = node_index[LeftHalf(r)]
          /\ pc[RightHalf(r)] = "done" => nodes[node_index[r]].right = node_index[RightHalf(r)]

\* Every call but the root's was made by one that waits for it.
MadeBy(r, s) ==
    /\ s \in Started /\ ~IsLeaf(s) /\ (r = LeftHalf(s) \/ r = RightHalf(s))
    /\ pc[r] # "done" => pc[s] \in Waiting
Waits ==
    /\ \A r \in Started : r = Root \/ \E s \in Ranges : MadeBy(r, s)
    /\ \A r \in Claimed : ~IsLeaf(r) /\ pc[r] \in Returned =>
          pc[LeftHalf(r)] = "done" /\ pc[RightHalf(r)] = "done"
    /\ \A r \in Ranges : pc[r] = "leaf" => IsLeaf(r)
    /\ Root \in Ranges /\ pc[Root] = "done" => root = node_index[Root]

TreeInv == Contents /\ Links /\ Waits

\* No range is a half of two calls'.
LEMMA OneParent ==
    ASSUME NEW r \in Ranges, NEW s \in Ranges, ~IsLeaf(r), ~IsLeaf(s),
           r = s \/ Disjoint(r, s) \/ Inside(r, s) \/ Inside(s, r),
           NEW t, t = LeftHalf(r) \/ t = RightHalf(r), t = LeftHalf(s) \/ t = RightHalf(s)
    PROVE  r = s
<1>1. /\ r[1] \in Int /\ r[2] \in Int /\ s[1] \in Int /\ s[2] \in Int
  BY RangeEnds
<1>2. /\ Mid(r) \in Int /\ r[1] < Mid(r) /\ Mid(r) < r[2]
      /\ Mid(s) \in Int /\ s[1] < Mid(s) /\ Mid(s) < s[2]
  <2>1. Mid(r) \in Int /\ r[1] + 2 <= Mid(r) /\ Mid(r) + 2 <= r[2]
    BY HalfBounds
  <2>2. Mid(s) \in Int /\ s[1] + 2 <= Mid(s) /\ Mid(s) + 2 <= s[2]
    BY HalfBounds
  <2>3. QED
    BY <1>1, <2>1, <2>2
<1>3. /\ \/ t[1] = r[1] /\ t[2] = Mid(r)
         \/ t[1] = Mid(r) /\ t[2] = r[2]
      /\ \/ t[1] = s[1] /\ t[2] = Mid(s)
         \/ t[1] = Mid(s) /\ t[2] = s[2]
  BY DEF LeftHalf, RightHalf
<1>4. ~Disjoint(r, s)
  BY <1>1, <1>2, <1>3 DEF Disjoint
<1>5. ~Inside(r, s) /\ ~Inside(s, r)
  BY <1>1, <1>2, <1>3 DEF Inside, InLeft, InRight
<1>6. QED
  BY <1>4, <1>5

LEMMA PointsFinite == IsFiniteSet(Points) /\ Cardinality(Points) = Size
<1>1. 0 \in Int /\ Size - 1 \in Int
  BY SizeAssumption
<1>2. IsFiniteSet(0 .. (Size - 1)) /\ Cardinality(0 .. (Size - 1)) = IF 0 > Size - 1 THEN 0 ELSE (Size - 1) - 0 + 1
  BY <1>1, FS_Interval
<1>3. QED
  BY <1>2, SizeAssumption DEF Points

\* What the steps of a started call r that is longer than a leaf can rely on.
LEMMA HalvesOf ==
    ASSUME IInv, NEW r \in Started, ~IsLeaf(r)
    PROVE  /\ r \in Ranges /\ LeftHalf(r) \in Ranges /\ RightHalf(r) \in Ranges
           /\ LeftHalf(r) # r /\ RightHalf(r) # r /\ LeftHalf(r) # RightHalf(r)
           /\ LeftHalf(r) # Root /\ RightHalf(r) # Root
           /\ \A s \in Started : ~IsLeaf(s) /\ s # r =>
                 /\ LeftHalf(s) # LeftHalf(r) /\ LeftHalf(s) # RightHalf(r)
                 /\ RightHalf(s) # LeftHalf(r) /\ RightHalf(s) # RightHalf(r)
           /\ pc[r] \in Growing => LeftHalf(r) \notin Started /\ RightHalf(r) \notin Started
           /\ pc[r] = "left" => RightHalf(r) \notin Started
<1> DEFINE L == LeftHalf(r)
           R == RightHalf(r)
<1>1. r \in Ranges /\ L \in Ranges /\ R \in Ranges
  BY HalfBounds DEF Started
<1>2. L # r /\ R # r
  BY <1>1, HalvesNest
<1>3. L # R
  BY <1>1, HalvesApart, DisjointNotInside
<1>4. Inside(L, r) /\ InRight(R, r) /\ Inside(R, r)
  BY HalvesApart, <1>1 DEF Inside
<1>5. L # Root /\ R # Root
  BY <1>1, <1>4, RootOutermost
<1>6. ASSUME NEW s \in Started, ~IsLeaf(s), s # r
      PROVE  LeftHalf(s) # L /\ LeftHalf(s) # R /\ RightHalf(s) # L /\ RightHalf(s) # R
  <2>1. s \in Ranges /\ (r = s \/ Disjoint(r, s) \/ Inside(r, s) \/ Inside(s, r))
    BY DEF IInv, Nested, Started
  <2>2. QED
    BY <1>1, <1>6, <2>1, OneParent
<1>7. pc[r] \in Growing => L \notin Started /\ R \notin Started
  BY <1>4 DEF IInv, Fresh
<1>8. pc[r] = "left" => R \notin Started
  BY <1>4 DEF IInv, Fresh
<1>9. QED
  BY <1>1, <1>2, <1>3, <1>5, <1>6, <1>7, <1>8

\* The nodes of calls are of the array, and each call's own.
LEMMA NodesOf ==
    ASSUME IInv
    PROVE  /\ node_count \in Nat /\ node_count <= Size
           /\ \A r \in Claimed : node_index[r] \in Points /\ node_index[r] \in 0 .. node_count - 1
           /\ \A r, s \in Claimed : r # s => node_index[r] # node_index[s]
           /\ Claimed \subseteq Started /\ Started \subseteq Ranges
           /\ nodes \in [Points -> Node]
<1>1. node_count \in Nat /\ node_count <= Size
  BY ClaimedBounded DEF IInv, Counted, TypeOK
<1>2. \A r \in Claimed : node_index[r] \in 0 .. node_count - 1
  BY DEF IInv, Counted
<1>3. \A r \in Claimed : node_index[r] \in Points
  BY <1>1, <1>2, SizeAssumption DEF Points
<1>4. QED
  BY <1>1, <1>2, <1>3 DEF IInv, Counted, NodesUnique, Claimed, Started, TypeOK

\* A call that has no node yet finds one.
LEMMA NodeLeft ==
    ASSUME IInv, NEW r \in Started, r \notin Claimed
    PROVE  node_count \in Points
<1>1. IsFiniteSet(Started) /\ Cardinality(Started) <= Size
  BY StartedBounded DEF IInv
<1>2. Claimed \subseteq Started
  BY NodesOf
<1>3. IsFiniteSet(Claimed) /\ Cardinality(Claimed) = node_count
  BY DEF IInv, Counted
<1>4. Claimed \cup {r} \subseteq Started /\ IsFiniteSet(Claimed \cup {r})
  BY <1>2, <1>3, FS_AddElement
<1>5. Cardinality(Claimed \cup {r}) = node_count + 1
  BY <1>3, FS_AddElement
<1>6. Cardinality(Claimed \cup {r}) <= Cardinality(Started)
  BY <1>1, <1>4, FS_Subset
<1>7. Cardinality(Started) \in Nat /\ node_count \in Nat
  BY <1>1, NodesOf, FS_CardinalityType
<1>8. QED
  BY <1>1, <1>5, <1>6, <1>7, SizeAssumption DEF Points

\* A split is only undone by a step that writes its halves or its node.
LEMMA SplitKept ==
    ASSUME NEW r, SplitDone(r),
           indices'[r] = indices[r], indices'[LeftHalf(r)] = indices[LeftHalf(r)],
           indices'[RightHalf(r)] = indices[RightHalf(r)], node_index'[r] = node_index[r],
           nodes'[node_index[r]].proj = nodes[node_index[r]].proj,
           nodes'[node_index[r]].thresh = nodes[node_index[r]].thresh
    PROVE  SplitDone(r)'
  BY DEF SplitDone, LeftHalf, RightHalf, Mid, Distance

LEMMA TreeInit == Init => TreeInv
<1> SUFFICES ASSUME Init PROVE TreeInv
  OBVIOUS
<1>1. \A r \in Ranges : r # Root => pc[r] = "none"
  BY DEF Init
<1>2. Started \subseteq {Root} /\ Claimed = {} /\ Started \subseteq Ranges
  BY <1>1 DEF Started, Claimed, Init
<1>3. Contents
  <2>1. Root \in Ranges => indices[Root] = Points
    BY DEF Init
  <2>2. Distance(Root) = Size
    BY SizeAssumption DEF Distance, Root
  <2>3. QED
    BY <1>2, <2>1, <2>2, PointsFinite DEF Contents
<1>4. Links
  <2>1. \A n \in Points : nodes[n].left = INVALID_NODE
    BY DEF Init, EmptyNode
  <2>2. 0 .. node_count - 1 = {}
    BY DEF Init
  <2>3. QED
    BY <1>2, <2>1, <2>2 DEF Links
<1>5. Waits
  BY <1>1, <1>2 DEF Waits, Init
<1>6. QED
  BY <1>3, <1>4, <1>5 DEF TreeInv

LEMMA CreateNodeTree ==
    ASSUME IInv, TreeInv, NEW r \in Ranges, CreateNode(r)
    PROVE  TreeInv'
<1>1. /\ pc[r] = "create"
      /\ pc' = [pc EXCEPT ![r] = IF IsLeaf(r) THEN "leaf" ELSE "partition"]
      /\ node_index' = [node_index EXCEPT ![r] = node_count]
      /\ node_count' = node_count + 1
      /\ UNCHANGED <<nodes, indices, root>>
      /\ pc \in [Ranges -> States] /\ node_index \in [Ranges -> Nat \cup {INVALID_NODE}]
  BY DEF CreateNode, NextCount, IInv, TypeOK
<1>2. /\ r \in Started /\ r \notin Claimed /\ Started' = Started
      /\ Claimed' = Claimed \cup {r}
      /\ \A s \in Ranges : s # r => pc'[s] = pc[s] /\ node_index'[s] = node_index[s]
      /\ node_index'[r] = node_count
      /\ pc'[r] = IF IsLeaf(r) THEN "leaf" ELSE "partition"
  BY <1>1 DEF Started, Claimed
<1>3. node_count \in Points /\ node_count \in Nat /\ Claimed \subseteq Ranges /\ Started \subseteq Ranges
  BY <1>2, NodeLeft, NodesOf
<1>4. \A s \in Ranges : pc'[s] = "done" <=> pc[s] = "done"
  BY <1>1, <1>2
<1>5. \A s \in Claimed : s # r /\ node_index'[s] = node_index[s] /\ pc'[s] = pc[s]
  BY <1>2, <1>3
<1>6. Contents'
  <2>1. \A s \in Claimed' : ~IsLeaf(s) /\ pc'[s] # "partition" => SplitDone(s)'
    <3> SUFFICES ASSUME NEW s \in Claimed', ~IsLeaf(s), pc'[s] # "partition" PROVE SplitDone(s)'
      OBVIOUS
    <3>1. s \in Claimed
      BY <1>2
    <3>2. SplitDone(s)
      BY <1>5, <3>1 DEF TreeInv, Contents
    <3>3. QED
      BY <1>1, <1>5, <3>1, <3>2, SplitKept
  <2>2. QED
    BY <1>1, <1>2, <2>1 DEF TreeInv, Contents, Distance, Root, Ranges, IsLeaf
<1>7. Links'
  <2>1. \A n \in Points' : n >= node_count' => nodes'[n].left = INVALID_NODE
    <3>1. \A n \in Points : n >= node_count + 1 => n >= node_count
      BY <1>3, SizeAssumption DEF Points
    <3>2. QED
      BY <1>1, <3>1 DEF TreeInv, Links, Points
  <2>2. ASSUME NEW n \in 0 .. node_count' - 1 PROVE \E s \in Claimed' : node_index'[s] = n
    <3>1. CASE n = node_count
      BY <1>2, <3>1
    <3>2. CASE n # node_count
      <4>1. n \in 0 .. node_count - 1
        BY <1>1, <1>3, <3>2
      <4>2. PICK s \in Claimed : node_index[s] = n
        BY <4>1 DEF TreeInv, Links
      <4>3. QED
        BY <1>2, <1>5, <4>2
    <3>3. QED
      BY <3>1, <3>2
  <2>3. ASSUME NEW s \in Claimed', IsLeaf(s)
        PROVE  /\ nodes'[node_index'[s]].left = INVALID_NODE
               /\ pc'[s] # "leaf" => nodes'[node_index'[s]].lr = s
    <3>1. CASE s = r
      <4>1. nodes[node_count].left = INVALID_NODE
        BY <1>3 DEF TreeInv, Links
      <4>2. QED
        BY <1>1, <1>2, <2>3, <3>1, <4>1
    <3>2. CASE s # r
      <4>1. s \in Claimed
        BY <1>2, <3>2
      <4>2. QED
        BY <1>1, <1>5, <2>3, <4>1 DEF TreeInv, Links
    <3>3. QED
      BY <3>1, <3>2
  <2>4. ASSUME NEW s \in Claimed', ~IsLeaf(s)
        PROVE  /\ pc'[LeftHalf(s)] = "done" =>
                     nodes'[node_index'[s]].left = node_index'[LeftHalf(s)]
               /\ pc'[RightHalf(s)] = "done" =>
                     nodes'[node_index'[s]].right = node_index'[RightHalf(s)]
    <3>1. s \in Started
      BY <1>2, NodesOf
    <3>2. LeftHalf(s) \in Ranges /\ RightHalf(s) \in Ranges
      BY <2>4, <3>1, HalvesOf
    <3>3. CASE s = r
      <4>1. LeftHalf(r) \notin Started /\ RightHalf(r) \notin Started
        BY <1>1, <2>4, <3>1, <3>3, HalvesOf DEF Growing
      <4>2. pc[LeftHalf(r)] # "done" /\ pc[RightHalf(r)] # "done"
        BY <3>2, <3>3, <4>1 DEF Started
      <4>3. QED
        BY <1>4, <3>2, <3>3, <4>2
    <3>4. CASE s # r
      <4>1. s \in Claimed
        BY <1>2, <3>4
      <4>2. \A t \in Ranges : pc[t] = "done" => node_index'[t] = node_index[t]
        BY <1>1, <1>2
      <4>3. QED
        BY <1>1, <1>4, <1>5, <2>4, <3>2, <4>1, <4>2 DEF TreeInv, Links
    <3>5. QED
      BY <3>3, <3>4
  <2>5. QED
    BY <2>1, <2>2, <2>3, <2>4 DEF Links, LeftHalf, RightHalf, Mid, Distance, IsLeaf
<1>8. Waits'
  <2>1. ASSUME NEW s \in Started', s # Root PROVE \E t \in Ranges : MadeBy(s, t)'
    <3>1. s \in Started /\ s \in Ranges
      BY <1>2, <1>3
    <3>2. PICK t \in Ranges : MadeBy(s, t)
      BY <2>1, <3>1 DEF TreeInv, Waits
    <3>3. t # r
      <4>1. SUFFICES ASSUME t = r PROVE FALSE
        OBVIOUS
      <4>2. LeftHalf(r) \notin Started /\ RightHalf(r) \notin Started
        BY <1>1, <1>2, <3>2, <4>1, HalvesOf DEF MadeBy, Growing
      <4>3. QED
        BY <3>1, <3>2, <4>1, <4>2 DEF MadeBy
    <3>4. MadeBy(s, t)'
      BY <1>2, <1>4, <3>1, <3>2, <3>3 DEF MadeBy, LeftHalf, RightHalf, Mid, Distance, IsLeaf
    <3>5. QED
      BY <3>4
  <2>2. ASSUME NEW s \in Claimed', ~IsLeaf(s), pc'[s] \in Returned
        PROVE  pc'[LeftHalf(s)] = "done" /\ pc'[RightHalf(s)] = "done"
    <3>1. s # r
      BY <1>2, <2>2 DEF Returned
    <3>2. s \in Claimed /\ s \in Started
      BY <1>2, <3>1, NodesOf
    <3>3. pc[LeftHalf(s)] = "done" /\ pc[RightHalf(s)] = "done"
      BY <1>5, <2>2, <3>2 DEF TreeInv, Waits
    <3>4. QED
      BY <1>4, <2>2, <3>2, <3>3, HalvesOf
  <2>3. \A s \in Ranges : pc'[s] = "leaf" => IsLeaf(s)
    BY <1>2 DEF TreeInv, Waits
  <2>4. Root \in Ranges /\ pc'[Root] = "done" => root' = node_index'[Root]
    BY <1>1, <1>2 DEF TreeInv, Waits
  <2>5. QED
    BY <2>1, <2>2, <2>3, <2>4 DEF Waits, LeftHalf, RightHalf, Mid, Distance, IsLeaf, Root, Ranges
<1>9. QED
  BY <1>6, <1>7, <1>8 DEF TreeInv

LEMMA WriteLeafTree ==
    ASSUME IInv, TreeInv, NEW r \in Ranges, WriteLeaf(r)
    PROVE  TreeInv'
<1>1. /\ pc[r] = "leaf"
      /\ nodes' = [nodes EXCEPT ![node_index[r]].lr = r]
      /\ pc' = [pc EXCEPT ![r] = "return"]
      /\ UNCHANGED <<node_index, node_count, indices, root>>
      /\ pc \in [Ranges -> States]
  BY DEF WriteLeaf, IInv, TypeOK
<1>2. /\ r \in Claimed /\ r \in Started /\ Claimed' = Claimed /\ Started' = Started
      /\ pc'[r] = "return" /\ \A s \in Ranges : s # r => pc'[s] = pc[s]
  BY <1>1 DEF Claimed, Started
<1>3. IsLeaf(r)
  BY <1>1 DEF TreeInv, Waits
<1>4. /\ Claimed \subseteq Ranges /\ Started \subseteq Ranges
      /\ \A s \in Claimed : node_index[s] \in Points
      /\ \A s \in Claimed : s # r => node_index[s] # node_index[r]
      /\ nodes \in [Points -> Node] /\ node_count \in Nat
  BY <1>2, NodesOf
<1>5. /\ nodes'[node_index[r]].lr = r
      /\ \A n \in Points : /\ nodes'[n].left = nodes[n].left /\ nodes'[n].right = nodes[n].right
                           /\ nodes'[n].proj = nodes[n].proj /\ nodes'[n].thresh = nodes[n].thresh
      /\ \A n \in Points : n # node_index[r] => nodes'[n].lr = nodes[n].lr
  BY <1>1, <1>2, <1>4 DEF Node
<1>6. \A s \in Ranges : pc'[s] = "done" <=> pc[s] = "done"
  BY <1>1, <1>2
<1>7. Contents'
  <2>1. ASSUME NEW s \in Claimed', ~IsLeaf(s), pc'[s] # "partition" PROVE SplitDone(s)'
    <3>1. s \in Claimed /\ s # r /\ pc[s] # "partition"
      BY <1>2, <1>3, <1>4, <2>1
    <3>2. SplitDone(s)
      BY <2>1, <3>1 DEF TreeInv, Contents
    <3>3. QED
      BY <1>1, <1>4, <1>5, <3>1, <3>2, SplitKept
  <2>2. QED
    BY <1>1, <1>2, <2>1 DEF TreeInv, Contents, Distance, Root, Ranges, IsLeaf
<1>8. Links'
  <2>1. \A n \in Points : n >= node_count => nodes'[n].left = INVALID_NODE
    BY <1>5 DEF TreeInv, Links
  <2>2. \A n \in 0 .. node_count - 1 : \E s \in Claimed' : node_index'[s] = n
    BY <1>1, <1>2 DEF TreeInv, Links
  <2>3. ASSUME NEW s \in Claimed', IsLeaf(s)
        PROVE  /\ nodes'[node_index'[s]].left = INVALID_NODE
               /\ pc'[s] # "leaf" => nodes'[node_index'[s]].lr = s
    <3>1. nodes[node_index[s]].left = INVALID_NODE /\ node_index[s] \in Points
      BY <1>2, <1>4, <2>3 DEF TreeInv, Links
    <3>2. CASE s = r
      BY <1>1, <1>5, <3>1, <3>2
    <3>3. CASE s # r
      BY <1>1, <1>2, <1>4, <1>5, <2>3, <3>1, <3>3 DEF TreeInv, Links
    <3>4. QED
      BY <3>2, <3>3
  <2>4. ASSUME NEW s \in Claimed', ~IsLeaf(s)
        PROVE  /\ pc'[LeftHalf(s)] = "done" =>
                     nodes'[node_index'[s]].left = node_index'[LeftHalf(s)]
               /\ pc'[RightHalf(s)] = "done" =>
                     nodes'[node_index'[s]].right = node_index'[RightHalf(s)]
    <3>1. s \in Started /\ s \in Claimed
      BY <1>2, NodesOf
    <3>2. LeftHalf(s) \in Ranges /\ RightHalf(s) \in Ranges
      BY <2>4, <3>1, HalvesOf
    <3>3. QED
      BY <1>1, <1>4, <1>5, <1>6, <2>4, <3>1, <3>2 DEF TreeInv, Links
  <2>5. QED
    BY <1>1, <2>1, <2>2, <2>3, <2>4 DEF Links, LeftHalf, RightHalf, Mid, Distance, IsLeaf, Points
<1>9. Waits'
  <2>1. ASSUME NEW s \in Started', s # Root PROVE \E t \in Ranges : MadeBy(s, t)'
    <3>1. s \in Started /\ s \in Ranges
      BY <1>2, <1>4
    <3>2. PICK t \in Ranges : MadeBy(s, t)
      BY <2>1, <3>1 DEF TreeInv, Waits
    <3>3. t # r
      BY <1>3, <3>2 DEF MadeBy
    <3>4. MadeBy(s, t)'
      BY <1>2, <1>6, <3>1, <3>2, <3>3 DEF MadeBy, LeftHalf, RightHalf, Mid, Distance, IsLeaf
    <3>5. QED
      BY <3>4
  <2>2. ASSUME NEW s \in Claimed', ~IsLeaf(s), pc'[s] \in Returned
        PROVE  pc'[LeftHalf(s)] = "done" /\ pc'[RightHalf(s)] = "done"
    <3>1. s # r /\ s \in Claimed /\ s \in Started
      BY <1>2, <1>3, <2>2, NodesOf
    <3>2. pc[LeftHalf(s)] = "done" /\ pc[RightHalf(s)] = "done"
      BY <1>2, <1>4, <2>2, <3>1 DEF TreeInv, Waits
    <3>3. QED
      BY <1>6, <2>2, <3>1, <3>2, HalvesOf
  <2>3. \A s \in Ranges : pc'[s] = "leaf" => IsLeaf(s)
    BY <1>2 DEF TreeInv, Waits
  <2>4. Root \in Ranges /\ pc'[Root] = "done" => root' = node_index'[Root]
    BY <1>1, <1>6 DEF TreeInv, Waits
  <2>5. QED
    BY <2>1, <2>2, <2>3, <2>4 DEF Waits, LeftHalf, RightHalf, Mid, Distance, IsLeaf, Root, Ranges
<1>10. QED
  BY <1>7, <1>8, <1>9 DEF TreeInv

LEMMA PartitionTree ==
    ASSUME IInv, TreeInv, NEW r \in Ranges, Partition(r)
    PROVE  TreeInv'
<1> DEFINE L == LeftHalf(r)
           R == RightHalf(r)
           m == node_index[r]
<1>1. /\ pc[r] = "partition"
      /\ pc' = IF Distance(r) > ParallelThreshold
               THEN [pc EXCEPT ![r] = "both", ![L] = "create", ![R] = "create"]
               ELSE [pc EXCEPT ![r] = "left", ![L] = "create"]
      /\ UNCHANGED <<node_index, node_count, root>>
      /\ pc \in [Ranges -> States] /\ indices \in [Ranges -> SUBSET Points]
  BY DEF Partition, IInv, TypeOK
<1>2. PICK a \in Axes, lower \in SUBSET indices[r], median \in indices[r] :
         /\ SplitBy(a, r, lower, median)
         /\ indices' = [indices EXCEPT ![L] = lower, ![R] = indices[r] \ lower]
         /\ nodes' = [nodes EXCEPT ![m].proj = a, ![m].thresh = Coord[a][median]]
  BY DEF Partition, Threshold
<1>3. r \in Claimed /\ r \in Started /\ ~IsLeaf(r)
  BY <1>1 DEF Claimed, Started, IInv, Sized, Splitting
<1>4. /\ L \in Ranges /\ R \in Ranges /\ L # r /\ R # r /\ L # R /\ L # Root /\ R # Root
      /\ L \notin Started /\ R \notin Started
      /\ \A s \in Started : ~IsLeaf(s) /\ s # r =>
            LeftHalf(s) # L /\ LeftHalf(s) # R /\ RightHalf(s) # L /\ RightHalf(s) # R
  BY <1>1, <1>3, HalvesOf DEF Growing
<1>5. /\ Claimed \subseteq Started /\ Started \subseteq Ranges
      /\ \A s \in Claimed : node_index[s] \in Points
      /\ \A s \in Claimed : s # r => node_index[s] # m
      /\ nodes \in [Points -> Node] /\ node_count \in Nat
  BY <1>3, NodesOf
<1> HIDE DEF L, R, m
<1>6. /\ m \in Points /\ nodes'[m].proj = a /\ nodes'[m].thresh = Coord[a][median]
      /\ \A n \in Points : nodes'[n].left = nodes[n].left /\ nodes'[n].right = nodes[n].right
                           /\ nodes'[n].lr = nodes[n].lr
      /\ \A n \in Points : n # m => nodes'[n].proj = nodes[n].proj /\ nodes'[n].thresh = nodes[n].thresh
  <2>1. m \in Points
    BY <1>3, <1>5 DEF m
  <2>2. nodes'[m] = [[nodes[m] EXCEPT !.proj = a] EXCEPT !.thresh = Coord[a][median]]
    BY <1>2, <1>5, <2>1
  <2>3. \A n \in Points : n # m => nodes'[n] = nodes[n]
    BY <1>2, <1>5, <2>1
  <2>4. nodes[m] \in Node
    BY <1>5, <2>1
  <2>5. /\ nodes'[m].proj = a /\ nodes'[m].thresh = Coord[a][median]
        /\ nodes'[m].left = nodes[m].left /\ nodes'[m].right = nodes[m].right
        /\ nodes'[m].lr = nodes[m].lr
    BY <2>2, <2>4 DEF Node
  <2>6. QED
    BY <2>1, <2>3, <2>5
<1>7. /\ pc'[r] \in Waiting /\ pc'[L] = "create" /\ pc'[R] \in {"none", "create"}
      /\ \A s \in Ranges : s \notin {r, L, R} => pc'[s] = pc[s]
      /\ pc[L] = "none" /\ pc[R] = "none"
  <2>1. pc[L] = "none" /\ pc[R] = "none"
    BY <1>4 DEF Started
  <2>2. QED
    BY <1>1, <1>4, <2>1 DEF Waiting
<1>8. Claimed' = Claimed /\ Started \subseteq Started' /\ Started' \subseteq Started \cup {L, R}
  BY <1>1, <1>3, <1>4, <1>7 DEF Claimed, Started, Waiting
<1>9. /\ indices'[L] = lower /\ indices'[R] = indices[r] \ lower
      /\ \A s \in Ranges : s \notin {L, R} => indices'[s] = indices[s]
  BY <1>1, <1>2, <1>4
<1>10. /\ Cardinality(indices[r]) = Distance(r) /\ IsFiniteSet(indices[r])
       /\ Cardinality(lower) = Distance(L) /\ Cardinality(indices[r] \ lower) = Distance(R)
  <2>1. Cardinality(indices[r]) = Distance(r)
    BY <1>3 DEF TreeInv, Contents
  <2>2. IsFiniteSet(indices[r])
    <3>1. indices[r] \subseteq Points
      BY <1>1, <1>3, <1>5
    <3>2. QED
      BY <3>1, PointsFinite, FS_Subset
  <2>3. Cardinality(lower) = Distance(r) \div 2
    BY <1>2 DEF SplitBy
  <2>4. Cardinality(indices[r] \ lower) = Distance(r) - (Distance(r) \div 2)
    <3>1. lower \cap indices[r] = lower /\ IsFiniteSet(lower)
      BY <2>2, FS_Subset
    <3>2. Cardinality(indices[r] \ lower) = Cardinality(indices[r]) - Cardinality(indices[r] \cap lower)
      BY <2>2, FS_Difference
    <3>3. indices[r] \cap lower = lower
      OBVIOUS
    <3>4. QED
      BY <2>1, <2>3, <3>2, <3>3
  <2>5. r[1] \in Int /\ r[2] \in Int /\ Mid(r) \in Int
    BY <1>3, RangeEnds, HalfBounds
  <2>6. Distance(L) = Distance(r) \div 2 /\ Distance(R) = Distance(r) - (Distance(r) \div 2)
    <3>1. Distance(L) = Mid(r) - r[1] /\ Distance(R) = r[2] - Mid(r)
      BY DEF Distance, LeftHalf, RightHalf, L, R
    <3>2. Mid(r) = r[1] + (Distance(r) \div 2) /\ Distance(r) = r[2] - r[1]
      BY DEF Mid, Distance
    <3> DEFINE h == Distance(r) \div 2
    <3>3. h \in Int
      BY <2>5, <3>2
    <3> HIDE DEF h
    <3>4. Mid(r) = r[1] + h
      BY <3>2 DEF h
    <3>5. Distance(L) = h /\ Distance(R) = Distance(r) - h
      BY <2>5, <3>1, <3>2, <3>3, <3>4
    <3>6. QED
      BY <3>5 DEF h
  <2>7. QED
    BY <2>1, <2>2, <2>3, <2>4, <2>6
<1>11. Contents'
  <2>1. Root \in Ranges => indices'[Root] = Points
    BY <1>4, <1>9 DEF TreeInv, Contents
  <2>2. ASSUME NEW s \in Started' PROVE Cardinality(indices'[s]) = Distance(s)
    <3>1. CASE s = L \/ s = R
      BY <1>9, <1>10, <3>1
    <3>2. CASE s # L /\ s # R
      <4>1. s \in Started /\ s \in Ranges
        BY <1>5, <1>8, <3>2
      <4>2. QED
        BY <1>9, <3>2, <4>1 DEF TreeInv, Contents
    <3>3. QED
      BY <3>1, <3>2
  <2>3. ASSUME NEW s \in Claimed', ~IsLeaf(s), pc'[s] # "partition" PROVE SplitDone(s)'
    <3>1. s \in Claimed /\ s \in Started /\ s \in Ranges /\ s # L /\ s # R
      BY <1>4, <1>5, <1>8
    <3>2. CASE s # r
      <4>1. pc[s] # "partition"
        BY <1>7, <2>3, <3>1, <3>2
      <4>2. SplitDone(s)
        BY <2>3, <3>1, <4>1 DEF TreeInv, Contents
      <4>3. LeftHalf(s) \in Ranges /\ RightHalf(s) \in Ranges
        BY <2>3, <3>1, HalvesOf
      <4>4. indices'[s] = indices[s] /\ indices'[LeftHalf(s)] = indices[LeftHalf(s)]
            /\ indices'[RightHalf(s)] = indices[RightHalf(s)]
        BY <1>4, <1>9, <2>3, <3>1, <3>2, <4>3
      <4>5. QED
        BY <1>1, <1>5, <1>6, <3>1, <3>2, <4>2, <4>4, SplitKept
    <3>3. CASE s = r
      <4>1. /\ \A p \in lower : Coord[a][p] <= Coord[a][median]
            /\ \A p \in indices[r] \ lower : Coord[a][median] <= Coord[a][p]
        BY <1>2 DEF SplitBy
      <4>2. indices'[r] = indices[r] /\ node_index'[r] = m
        BY <1>1, <1>3, <1>4, <1>5, <1>9 DEF m
      <4>3. lower \cup (indices[r] \ lower) = indices[r] /\ lower \cap (indices[r] \ lower) = {}
        OBVIOUS
      <4>4. /\ LeftHalf(r)' = L /\ RightHalf(r)' = R
            /\ Distance(LeftHalf(r))' = Distance(L) /\ Distance(RightHalf(r))' = Distance(R)
        BY DEF LeftHalf, RightHalf, Mid, Distance, L, R
      <4>5. QED
        BY <1>6, <1>9, <1>10, <3>3, <4>1, <4>2, <4>3, <4>4 DEF SplitDone
    <3>4. QED
      BY <3>2, <3>3
  <2>4. QED
    BY <2>1, <2>2, <2>3 DEF Contents, Distance, Root, Ranges, IsLeaf, Points
<1>12. \A s \in Ranges : pc'[s] = "done" <=> pc[s] = "done"
  BY <1>1, <1>7 DEF Waiting
<1>13. Links'
  <2>1. \A n \in Points : n >= node_count => nodes'[n].left = INVALID_NODE
    BY <1>6 DEF TreeInv, Links
  <2>2. \A n \in 0 .. node_count - 1 : \E s \in Claimed' : node_index'[s] = n
    BY <1>1, <1>8 DEF TreeInv, Links
  <2>3. ASSUME NEW s \in Claimed', IsLeaf(s)
        PROVE  /\ nodes'[node_index'[s]].left = INVALID_NODE
               /\ pc'[s] # "leaf" => nodes'[node_index'[s]].lr = s
    <3>1. s \in Claimed /\ s # r /\ s # L /\ s # R /\ s \in Ranges
      BY <1>3, <1>4, <1>5, <1>8, <2>3
    <3>2. QED
      BY <1>1, <1>5, <1>6, <1>7, <2>3, <3>1 DEF TreeInv, Links
  <2>4. ASSUME NEW s \in Claimed', ~IsLeaf(s)
        PROVE  /\ pc'[LeftHalf(s)] = "done" =>
                     nodes'[node_index'[s]].left = node_index'[LeftHalf(s)]
               /\ pc'[RightHalf(s)] = "done" =>
                     nodes'[node_index'[s]].right = node_index'[RightHalf(s)]
    <3>1. s \in Started /\ s \in Claimed
      BY <1>5, <1>8
    <3>2. LeftHalf(s) \in Ranges /\ RightHalf(s) \in Ranges
      BY <2>4, <3>1, HalvesOf
    <3>3. QED
      BY <1>1, <1>5, <1>6, <1>12, <2>4, <3>1, <3>2 DEF TreeInv, Links
  <2>5. QED
    BY <1>1, <2>1, <2>2, <2>3, <2>4 DEF Links, LeftHalf, RightHalf, Mid, Distance, IsLeaf, Points
<1>14. Waits'
  <2>1. ASSUME NEW s \in Started', s # Root PROVE \E t \in Ranges : MadeBy(s, t)'
    <3>1. CASE s = L \/ s = R
      <4>1. MadeBy(s, r)'
        BY <1>3, <1>7, <1>8, <3>1 DEF MadeBy, LeftHalf, RightHalf, Mid, Distance, IsLeaf, L, R
      <4>2. QED
        BY <4>1
    <3>2. CASE s # L /\ s # R
      <4>1. s \in Started /\ s \in Ranges
        BY <1>5, <1>8, <3>2
      <4>2. PICK t \in Ranges : MadeBy(s, t)
        BY <2>1, <4>1 DEF TreeInv, Waits
      <4>3. t # r /\ t # L /\ t # R
        BY <1>4, <3>2, <4>2 DEF MadeBy, L, R
      <4>4. MadeBy(s, t)'
        BY <1>7, <1>8, <1>12, <4>1, <4>2, <4>3 DEF MadeBy, LeftHalf, RightHalf, Mid, Distance, IsLeaf
      <4>5. QED
        BY <4>4
    <3>3. QED
      BY <3>1, <3>2
  <2>2. ASSUME NEW s \in Claimed', ~IsLeaf(s), pc'[s] \in Returned
        PROVE  pc'[LeftHalf(s)] = "done" /\ pc'[RightHalf(s)] = "done"
    <3>1. s # r /\ s \in Claimed /\ s \in Started /\ s # L /\ s # R /\ s \in Ranges
      BY <1>4, <1>5, <1>7, <1>8, <2>2 DEF Waiting, Returned
    <3>2. pc[LeftHalf(s)] = "done" /\ pc[RightHalf(s)] = "done"
      BY <1>7, <2>2, <3>1 DEF TreeInv, Waits
    <3>3. QED
      BY <1>12, <2>2, <3>1, <3>2, HalvesOf
  <2>3. \A s \in Ranges : pc'[s] = "leaf" => IsLeaf(s)
    BY <1>7 DEF TreeInv, Waits, Waiting
  <2>4. Root \in Ranges /\ pc'[Root] = "done" => root' = node_index'[Root]
    BY <1>1, <1>12 DEF TreeInv, Waits
  <2>5. QED
    BY <2>1, <2>2, <2>3, <2>4 DEF Waits, LeftHalf, RightHalf, Mid, Distance, IsLeaf, Root, Ranges
<1>15. QED
  BY <1>11, <1>13, <1>14 DEF TreeInv

LEMMA AssignLeftTree ==
    ASSUME IInv, TreeInv, NEW r \in Ranges, AssignLeft(r)
    PROVE  TreeInv'
<1> DEFINE L == LeftHalf(r)
           R == RightHalf(r)
           m == node_index[r]
<1>1. /\ pc[r] \in {"left", "both"} /\ pc[L] = "return"
      /\ nodes' = [nodes EXCEPT ![m].left = node_index[L]]
      /\ pc' = IF pc[r] = "left"
               THEN [pc EXCEPT ![L] = "done", ![r] = "right", ![R] = "create"]
               ELSE [pc EXCEPT ![L] = "done"]
      /\ UNCHANGED <<node_index, node_count, indices, root>>
      /\ pc \in [Ranges -> States]
  BY DEF AssignLeft, IInv, TypeOK
<1>2. r \in Claimed /\ r \in Started /\ ~IsLeaf(r)
  BY <1>1 DEF Claimed, Started, IInv, Sized, Splitting
<1>3. /\ L \in Ranges /\ R \in Ranges /\ L # r /\ R # r /\ L # R /\ L # Root /\ R # Root
      /\ \A s \in Started : ~IsLeaf(s) /\ s # r =>
            LeftHalf(s) # L /\ LeftHalf(s) # R /\ RightHalf(s) # L /\ RightHalf(s) # R
      /\ pc[r] = "left" => R \notin Started
  BY <1>2, HalvesOf
<1>4. /\ Claimed \subseteq Started /\ Started \subseteq Ranges
      /\ \A s \in Claimed : node_index[s] \in Points
      /\ \A s \in Claimed : s # r => node_index[s] # m
      /\ nodes \in [Points -> Node] /\ node_count \in Nat /\ m \in 0 .. node_count - 1
      /\ m \in Points
  BY <1>2, NodesOf
<1>5. /\ nodes'[m].left = node_index[L]
      /\ \A n \in Points : /\ nodes'[n].right = nodes[n].right /\ nodes'[n].lr = nodes[n].lr
                           /\ nodes'[n].proj = nodes[n].proj /\ nodes'[n].thresh = nodes[n].thresh
      /\ \A n \in Points : n # m => nodes'[n].left = nodes[n].left
  <2>1. nodes'[m] = [nodes[m] EXCEPT !.left = node_index[L]]
    BY <1>1, <1>4
  <2>2. \A n \in Points : n # m => nodes'[n] = nodes[n]
    BY <1>1, <1>4
  <2>3. nodes[m] \in Node
    BY <1>4
  <2>4. /\ nodes'[m].left = node_index[L] /\ nodes'[m].right = nodes[m].right
        /\ nodes'[m].lr = nodes[m].lr /\ nodes'[m].proj = nodes[m].proj
        /\ nodes'[m].thresh = nodes[m].thresh
    BY <2>1, <2>3 DEF Node
  <2>5. QED
    BY <2>2, <2>4
<1>6. SplitDone(r)
  BY <1>1, <1>2 DEF TreeInv, Contents
<1>7. Cardinality(indices[R]) = Distance(R)
  BY <1>6 DEF SplitDone
<1> HIDE DEF L, R, m
<1>8. /\ pc'[L] = "done" /\ pc'[r] \in {"right", "both"}
      /\ \A s \in Ranges : s \notin {r, L, R} => pc'[s] = pc[s]
      /\ IF pc[r] = "left" THEN pc[R] = "none" /\ pc'[R] = "create" ELSE pc'[R] = pc[R]
  BY <1>1, <1>3 DEF Started
<1>9. /\ Claimed' = Claimed /\ L \in Claimed
      /\ Started \subseteq Started' /\ Started' \subseteq Started \cup {R}
      /\ R \in Started' /\ R \notin Started => pc[r] = "left"
  BY <1>1, <1>2, <1>3, <1>8 DEF Claimed, Started
<1>10. /\ \A s \in Ranges : pc[s] = "done" => pc'[s] = "done"
       /\ \A s \in Ranges : s # L /\ pc'[s] = "done" => pc[s] = "done"
  BY <1>1, <1>3, <1>8
<1>11. Contents'
  <2>1. \A s \in Started' : Cardinality(indices'[s]) = Distance(s)
    BY <1>1, <1>7, <1>9 DEF TreeInv, Contents
  <2>2. ASSUME NEW s \in Claimed', ~IsLeaf(s), pc'[s] # "partition" PROVE SplitDone(s)'
    <3>1. s \in Claimed /\ s \in Ranges
      BY <1>4, <1>9
    <3>2. pc[s] # "partition"
      BY <1>1, <1>3, <1>8, <2>2, <3>1
    <3>3. SplitDone(s)
      BY <2>2, <3>1, <3>2 DEF TreeInv, Contents
    <3>4. QED
      BY <1>1, <1>4, <1>5, <3>1, <3>3, SplitKept
  <2>3. QED
    BY <1>1, <2>1, <2>2 DEF TreeInv, Contents, Distance, Root, Ranges, IsLeaf, Points
<1>12. Links'
  <2>1. \A n \in Points : n >= node_count => nodes'[n].left = INVALID_NODE
    BY <1>4, <1>5 DEF TreeInv, Links
  <2>2. \A n \in 0 .. node_count - 1 : \E s \in Claimed' : node_index'[s] = n
    BY <1>1, <1>9 DEF TreeInv, Links
  <2>3. ASSUME NEW s \in Claimed', IsLeaf(s)
        PROVE  /\ nodes'[node_index'[s]].left = INVALID_NODE
               /\ pc'[s] # "leaf" => nodes'[node_index'[s]].lr = s
    <3>1. s \in Claimed /\ s # r /\ s \in Ranges
      BY <1>2, <1>4, <1>9, <2>3
    <3>2. pc'[s] # "leaf" => pc[s] # "leaf"
      BY <1>1, <1>8, <3>1
    <3>3. node_index[s] \in Points /\ node_index[s] # m
      BY <1>4, <3>1
    <3>4. QED
      BY <1>1, <1>5, <2>3, <3>1, <3>2, <3>3 DEF TreeInv, Links
  <2>4. ASSUME NEW s \in Claimed', ~IsLeaf(s)
        PROVE  /\ pc'[LeftHalf(s)] = "done" =>
                     nodes'[node_index'[s]].left = node_index'[LeftHalf(s)]
               /\ pc'[RightHalf(s)] = "done" =>
                     nodes'[node_index'[s]].right = node_index'[RightHalf(s)]
    <3>1. s \in Started /\ s \in Claimed
      BY <1>4, <1>9
    <3>2. LeftHalf(s) \in Ranges /\ RightHalf(s) \in Ranges
      BY <2>4, <3>1, HalvesOf
    <3>3. CASE s = r
      <4>1. pc'[R] = "done" => nodes[m].right = node_index[R]
        BY <1>2, <1>3, <1>10 DEF TreeInv, Links, R, m
      <4>2. QED
        BY <1>1, <1>4, <1>5, <3>3, <4>1 DEF L, R, m
    <3>4. CASE s # r
      <4>1. LeftHalf(s) # L /\ RightHalf(s) # L
        BY <1>3, <2>4, <3>1, <3>4
      <4>2. node_index[s] \in Points /\ node_index[s] # m
        BY <1>4, <3>1, <3>4
      <4>3. QED
        BY <1>1, <1>5, <1>10, <2>4, <3>1, <3>2, <4>1, <4>2 DEF TreeInv, Links
    <3>5. QED
      BY <3>3, <3>4
  <2>5. QED
    BY <1>1, <2>1, <2>2, <2>3, <2>4 DEF Links, LeftHalf, RightHalf, Mid, Distance, IsLeaf, Points
<1>13. Waits'
  <2>1. ASSUME NEW s \in Started', s # Root PROVE \E t \in Ranges : MadeBy(s, t)'
    <3>1. CASE s \notin Started
      <4>1. s = R /\ pc'[r] = "right"
        BY <1>1, <1>3, <1>8, <1>9, <3>1
      <4>2. MadeBy(s, r)'
        BY <1>2, <1>9, <4>1 DEF MadeBy, LeftHalf, RightHalf, Mid, Distance, IsLeaf, R, Waiting
      <4>3. QED
        BY <4>2
    <3>2. CASE s \in Started
      <4>1. s \in Ranges
        BY <1>4, <3>2
      <4>2. PICK t \in Ranges : MadeBy(s, t)
        BY <2>1, <3>2 DEF TreeInv, Waits
      <4>3. pc'[s] # "done" => pc'[t] \in Waiting
        <5>1. SUFFICES ASSUME pc'[s] # "done" PROVE pc'[t] \in Waiting
          OBVIOUS
        <5>2. pc[t] \in Waiting
          BY <1>10, <4>1, <4>2, <5>1 DEF MadeBy
        <5>3. t # L
          BY <1>1, <5>2 DEF Waiting
        <5>4. CASE t = r
          BY <1>8, <5>4 DEF Waiting
        <5>5. CASE t = R
          BY <1>8, <5>2, <5>5 DEF Waiting
        <5>6. CASE t # r /\ t # R
          BY <1>8, <5>2, <5>3, <5>6
        <5>7. QED
          BY <5>4, <5>5, <5>6
      <4>4. MadeBy(s, t)'
        BY <1>9, <4>2, <4>3 DEF MadeBy, LeftHalf, RightHalf, Mid, Distance, IsLeaf
      <4>5. QED
        BY <4>4
    <3>3. QED
      BY <3>1, <3>2
  <2>2. ASSUME NEW s \in Claimed', ~IsLeaf(s), pc'[s] \in Returned
        PROVE  pc'[LeftHalf(s)] = "done" /\ pc'[RightHalf(s)] = "done"
    <3>1. s # r /\ s \in Claimed /\ s \in Started /\ s \in Ranges
      BY <1>4, <1>8, <1>9, <2>2 DEF Returned
    <3>2. pc[s] \in Returned
      BY <1>1, <1>8, <2>2, <3>1 DEF Returned
    <3>3. pc[LeftHalf(s)] = "done" /\ pc[RightHalf(s)] = "done"
      BY <2>2, <3>1, <3>2 DEF TreeInv, Waits
    <3>4. QED
      BY <1>10, <2>2, <3>1, <3>3, HalvesOf
  <2>3. \A s \in Ranges : pc'[s] = "leaf" => IsLeaf(s)
    BY <1>1, <1>8 DEF TreeInv, Waits
  <2>4. Root \in Ranges /\ pc'[Root] = "done" => root' = node_index'[Root]
    BY <1>1, <1>3, <1>10 DEF TreeInv, Waits
  <2>5. QED
    BY <2>1, <2>2, <2>3, <2>4 DEF Waits, LeftHalf, RightHalf, Mid, Distance, IsLeaf, Root, Ranges
<1>14. QED
  BY <1>11, <1>12, <1>13 DEF TreeInv

\* Taking the index a child returned leaves everybody waiting who has to wait.
LEMMA ReturnedDone ==
    ASSUME IInv, TreeInv, NEW c \in Ranges, c # Root, pc[c] = "return",
           pc' = [pc EXCEPT ![c] = "done"], UNCHANGED <<node_index, root>>
    PROVE  Waits'
<1>1. pc \in [Ranges -> States]
  BY DEF IInv, TypeOK
<1>2. /\ pc'[c] = "done" /\ Claimed' = Claimed /\ Started' = Started
      /\ \A s \in Ranges : s # c => pc'[s] = pc[s]
      /\ Claimed \subseteq Started /\ Started \subseteq Ranges
  BY <1>1, NodesOf DEF Claimed, Started
<1>3. ASSUME NEW s \in Started', s # Root PROVE \E t \in Ranges : MadeBy(s, t)'
  <2>1. s \in Started /\ s \in Ranges
    BY <1>2
  <2>2. PICK t \in Ranges : MadeBy(s, t)
    BY <1>3, <2>1 DEF TreeInv, Waits
  <2>3. pc'[s] # "done" => pc'[t] \in Waiting
    <3>1. SUFFICES ASSUME pc'[s] # "done" PROVE pc'[t] \in Waiting
      OBVIOUS
    <3>2. pc[t] \in Waiting
      BY <1>2, <2>1, <2>2, <3>1 DEF MadeBy
    <3>3. t # c
      BY <3>2 DEF Waiting
    <3>4. QED
      BY <1>2, <3>2, <3>3
  <2>4. MadeBy(s, t)'
    BY <1>2, <2>2, <2>3 DEF MadeBy, LeftHalf, RightHalf, Mid, Distance, IsLeaf
  <2>5. QED
    BY <2>4
<1>4. ASSUME NEW s \in Claimed', ~IsLeaf(s), pc'[s] \in Returned
      PROVE  pc'[LeftHalf(s)] = "done" /\ pc'[RightHalf(s)] = "done"
  <2>1. s \in Claimed /\ s \in Started /\ s \in Ranges /\ pc[s] \in Returned
    BY <1>2, <1>4 DEF Returned
  <2>2. pc[LeftHalf(s)] = "done" /\ pc[RightHalf(s)] = "done"
    BY <1>4, <2>1 DEF TreeInv, Waits
  <2>3. LeftHalf(s) \in Ranges /\ RightHalf(s) \in Ranges
    BY <1>4, <2>1, HalvesOf
  <2>4. QED
    BY <1>2, <2>2, <2>3
<1>5. \A s \in Ranges : pc'[s] = "leaf" => IsLeaf(s)
  BY <1>2 DEF TreeInv, Waits
<1>6. Root \in Ranges /\ pc'[Root] = "done" => root' = node_index'[Root]
  BY <1>2 DEF TreeInv, Waits
<1>7. QED
  BY <1>3, <1>4, <1>5, <1>6 DEF Waits, LeftHalf, RightHalf, Mid, Distance, IsLeaf, Root, Ranges

LEMMA AssignRightTree ==
    ASSUME IInv, TreeInv, NEW r \in Ranges, AssignRight(r)
    PROVE  TreeInv'
<1> DEFINE L == LeftHalf(r)
           R == RightHalf(r)
           m == node_index[r]
<1>1. /\ pc[r] \in {"right", "both"} /\ pc[R] = "return"
      /\ nodes' = [nodes EXCEPT ![m].right = node_index[R]]
      /\ pc' = [pc EXCEPT ![R] = "done"]
      /\ UNCHANGED <<node_index, node_count, indices, root>>
      /\ pc \in [Ranges -> States]
  BY DEF AssignRight, IInv, TypeOK
<1>2. r \in Claimed /\ r \in Started /\ ~IsLeaf(r)
  BY <1>1 DEF Claimed, Started, IInv, Sized, Splitting
<1>3. /\ L \in Ranges /\ R \in Ranges /\ R # r /\ L # R /\ R # Root
      /\ \A s \in Started : ~IsLeaf(s) /\ s # r => LeftHalf(s) # R /\ RightHalf(s) # R
  BY <1>2, HalvesOf
<1>4. /\ Claimed \subseteq Started /\ Started \subseteq Ranges
      /\ \A s \in Claimed : node_index[s] \in Points
      /\ \A s \in Claimed : s # r => node_index[s] # m
      /\ nodes \in [Points -> Node] /\ node_count \in Nat
      /\ m \in Points
  BY <1>2, NodesOf
<1>5. /\ nodes'[m].right = node_index[R]
      /\ \A n \in Points : /\ nodes'[n].left = nodes[n].left /\ nodes'[n].lr = nodes[n].lr
                           /\ nodes'[n].proj = nodes[n].proj /\ nodes'[n].thresh = nodes[n].thresh
      /\ \A n \in Points : n # m => nodes'[n].right = nodes[n].right
  <2>1. nodes'[m] = [nodes[m] EXCEPT !.right = node_index[R]]
    BY <1>1, <1>4
  <2>2. \A n \in Points : n # m => nodes'[n] = nodes[n]
    BY <1>1, <1>4
  <2>3. nodes[m] \in Node
    BY <1>4
  <2>4. /\ nodes'[m].right = node_index[R] /\ nodes'[m].left = nodes[m].left
        /\ nodes'[m].lr = nodes[m].lr /\ nodes'[m].proj = nodes[m].proj
        /\ nodes'[m].thresh = nodes[m].thresh
    BY <2>1, <2>3 DEF Node
  <2>5. QED
    BY <2>2, <2>4
<1> HIDE DEF L, R, m
<1>6. /\ pc'[R] = "done" /\ Claimed' = Claimed /\ Started' = Started
      /\ \A s \in Ranges : s # R => pc'[s] = pc[s]
  BY <1>1, <1>3 DEF Claimed, Started
<1>7. Contents'
  <2>1. ASSUME NEW s \in Claimed', ~IsLeaf(s), pc'[s] # "partition" PROVE SplitDone(s)'
    <3>1. s \in Claimed /\ s \in Ranges
      BY <1>4, <1>6
    <3>2. pc[s] # "partition"
      BY <1>1, <1>6, <2>1, <3>1
    <3>3. SplitDone(s)
      BY <2>1, <3>1, <3>2 DEF TreeInv, Contents
    <3>4. QED
      BY <1>1, <1>4, <1>5, <3>1, <3>3, SplitKept
  <2>2. QED
    BY <1>1, <1>6, <2>1 DEF TreeInv, Contents, Distance, Root, Ranges, IsLeaf, Points
<1>8. Links'
  <2>1. \A n \in Points : n >= node_count => nodes'[n].left = INVALID_NODE
    BY <1>5 DEF TreeInv, Links
  <2>2. \A n \in 0 .. node_count - 1 : \E s \in Claimed' : node_index'[s] = n
    BY <1>1, <1>6 DEF TreeInv, Links
  <2>3. ASSUME NEW s \in Claimed', IsLeaf(s)
        PROVE  /\ nodes'[node_index'[s]].left = INVALID_NODE
               /\ pc'[s] # "leaf" => nodes'[node_index'[s]].lr = s
    <3>1. s \in Claimed /\ s \in Ranges /\ node_index[s] \in Points
      BY <1>4, <1>6
    <3>2. pc'[s] # "leaf" => pc[s] # "leaf"
      BY <1>1, <1>6, <3>1
    <3>3. QED
      BY <1>1, <1>5, <2>3, <3>1, <3>2 DEF TreeInv, Links
  <2>4. ASSUME NEW s \in Claimed', ~IsLeaf(s)
        PROVE  /\ pc'[LeftHalf(s)] = "done" =>
                     nodes'[node_index'[s]].left = node_index'[LeftHalf(s)]
               /\ pc'[RightHalf(s)] = "done" =>
                     nodes'[node_index'[s]].right = node_index'[RightHalf(s)]
    <3>1. s \in Started /\ s \in Claimed
      BY <1>4, <1>6
    <3>2. LeftHalf(s) \in Ranges /\ RightHalf(s) \in Ranges
      BY <2>4, <3>1, HalvesOf
    <3>3. CASE s = r
      <4>1. pc'[L] = "done" => nodes[m].left = node_index[L]
        BY <1>2, <1>3, <1>6 DEF TreeInv, Links, L, m
      <4>2. QED
        BY <1>1, <1>4, <1>5, <3>3, <4>1 DEF L, R, m
    <3>4. CASE s # r
      <4>1. LeftHalf(s) # R /\ RightHalf(s) # R
        BY <1>3, <2>4, <3>1, <3>4
      <4>2. node_index[s] \in Points /\ node_index[s] # m
        BY <1>4, <3>1, <3>4
      <4>3. QED
        BY <1>1, <1>5, <1>6, <2>4, <3>1, <3>2, <4>1, <4>2 DEF TreeInv, Links
    <3>5. QED
      BY <3>3, <3>4
  <2>5. QED
    BY <1>1, <2>1, <2>2, <2>3, <2>4 DEF Links, LeftHalf, RightHalf, Mid, Distance, IsLeaf, Points
<1>9. Waits'
  <2>1. UNCHANGED <<node_index, root>> /\ pc' = [pc EXCEPT ![R] = "done"] /\ pc[R] = "return"
    BY <1>1
  <2>2. R \in Ranges /\ R # Root
    BY <1>3
  <2>3. QED
    BY <2>1, <2>2, ReturnedDone
<1>10. QED
  BY <1>7, <1>8, <1>9 DEF TreeInv

LEMMA TaskWaitTree ==
    ASSUME IInv, TreeInv, NEW r \in Ranges, TaskWait(r)
    PROVE  TreeInv'
<1>1. /\ pc[r] \in {"right", "both"} /\ pc[LeftHalf(r)] = "done" /\ pc[RightHalf(r)] = "done"
      /\ pc' = [pc EXCEPT ![r] = "return"]
      /\ UNCHANGED <<node_index, node_count, nodes, indices, root>>
      /\ pc \in [Ranges -> States]
  BY DEF TaskWait, IInv, TypeOK
<1>2. r \in Claimed /\ r \in Started /\ ~IsLeaf(r)
  BY <1>1 DEF Claimed, Started, IInv, Sized, Splitting
<1>3. /\ pc'[r] = "return" /\ Claimed' = Claimed /\ Started' = Started
      /\ \A s \in Ranges : s # r => pc'[s] = pc[s]
      /\ Claimed \subseteq Started /\ Started \subseteq Ranges
  BY <1>1, NodesOf DEF Claimed, Started
<1>4. \A s \in Ranges : pc'[s] = "done" <=> pc[s] = "done"
  BY <1>1, <1>3
<1>5. Contents'
  <2>1. ASSUME NEW s \in Claimed', ~IsLeaf(s), pc'[s] # "partition" PROVE SplitDone(s)'
    <3>1. s \in Claimed /\ s \in Ranges /\ pc[s] # "partition"
      BY <1>1, <1>3, <2>1
    <3>2. SplitDone(s)
      BY <2>1, <3>1 DEF TreeInv, Contents
    <3>3. QED
      BY <1>1, <3>2, SplitKept
  <2>2. QED
    BY <1>1, <1>3, <2>1 DEF TreeInv, Contents, Distance, Root, Ranges, IsLeaf, Points
<1>6. Links'
  <2>1. ASSUME NEW s \in Claimed, ~IsLeaf(s)
        PROVE  LeftHalf(s) \in Ranges /\ RightHalf(s) \in Ranges
    BY <1>3, <2>1, HalvesOf
  <2>2. \A s \in Claimed : s \in Ranges /\ (IsLeaf(s) => s # r)
    BY <1>2, <1>3
  <2>3. ASSUME NEW s \in Claimed', IsLeaf(s)
        PROVE  /\ nodes'[node_index'[s]].left = INVALID_NODE
               /\ pc'[s] # "leaf" => nodes'[node_index'[s]].lr = s
    BY <1>1, <1>3, <2>2, <2>3 DEF TreeInv, Links
  <2>4. ASSUME NEW s \in Claimed', ~IsLeaf(s)
        PROVE  /\ pc'[LeftHalf(s)] = "done" =>
                     nodes'[node_index'[s]].left = node_index'[LeftHalf(s)]
               /\ pc'[RightHalf(s)] = "done" =>
                     nodes'[node_index'[s]].right = node_index'[RightHalf(s)]
    BY <1>1, <1>3, <1>4, <2>1, <2>4 DEF TreeInv, Links
  <2>5. \A n \in Points : n >= node_count => nodes'[n].left = INVALID_NODE
    BY <1>1 DEF TreeInv, Links
  <2>6. \A n \in 0 .. node_count - 1 : \E s \in Claimed' : node_index'[s] = n
    BY <1>1, <1>3 DEF TreeInv, Links
  <2>7. QED
    BY <1>1, <2>3, <2>4, <2>5, <2>6 DEF Links, LeftHalf, RightHalf, Mid, Distance, IsLeaf, Points
<1>7. Waits'
  <2>1. ASSUME NEW s \in Started', s # Root PROVE \E t \in Ranges : MadeBy(s, t)'
    <3>1. s \in Started /\ s \in Ranges
      BY <1>3
    <3>2. PICK t \in Ranges : MadeBy(s, t)
      BY <2>1, <3>1 DEF TreeInv, Waits
    <3>3. pc'[s] # "done" => pc'[t] \in Waiting
      <4>1. CASE t = r
        BY <1>1, <1>4, <3>1, <3>2, <4>1 DEF MadeBy
      <4>2. CASE t # r
        BY <1>3, <1>4, <3>1, <3>2, <4>2 DEF MadeBy
      <4>3. QED
        BY <4>1, <4>2
    <3>4. MadeBy(s, t)'
      BY <1>3, <3>2, <3>3 DEF MadeBy, LeftHalf, RightHalf, Mid, Distance, IsLeaf
    <3>5. QED
      BY <3>4
  <2>2. ASSUME NEW s \in Claimed', ~IsLeaf(s), pc'[s] \in Returned
        PROVE  pc'[LeftHalf(s)] = "done" /\ pc'[RightHalf(s)] = "done"
    <3>1. s \in Claimed /\ s \in Started /\ s \in Ranges
      BY <1>3
    <3>2. pc[LeftHalf(s)] = "done" /\ pc[RightHalf(s)] = "done"
      <4>1. CASE s = r
        BY <1>1, <4>1
      <4>2. CASE s # r
        BY <1>3, <2>2, <3>1, <4>2 DEF TreeInv, Waits
      <4>3. QED
        BY <4>1, <4>2
    <3>3. QED
      BY <1>4, <2>2, <3>1, <3>2, HalvesOf
  <2>3. \A s \in Ranges : pc'[s] = "leaf" => IsLeaf(s)
    BY <1>3 DEF TreeInv, Waits
  <2>4. Root \in Ranges /\ pc'[Root] = "done" => root' = node_index'[Root]
    BY <1>1, <1>4 DEF TreeInv, Waits
  <2>5. QED
    BY <2>1, <2>2, <2>3, <2>4 DEF Waits, LeftHalf, RightHalf, Mid, Distance, IsLeaf, Root, Ranges
<1>8. QED
  BY <1>5, <1>6, <1>7 DEF TreeInv

\* Storing the root ends the call of build_tree.
LEMMA FinishTree ==
    ASSUME IInv, TreeInv, FinishBuild
    PROVE  TreeInv'
<1>1. /\ pc[Root] = "return" /\ root' = node_index[Root]
      /\ pc' = [pc EXCEPT ![Root] = "done"]
      /\ UNCHANGED <<node_index, node_count, nodes, indices>>
      /\ pc \in [Ranges -> States] /\ Root \in Ranges
  BY SizeAssumption DEF FinishBuild, IInv, TypeOK, Root, Ranges
<1>2. /\ pc'[Root] = "done" /\ Claimed' = Claimed /\ Started' = Started
      /\ \A s \in Ranges : s # Root => pc'[s] = pc[s]
      /\ Claimed \subseteq Started /\ Started \subseteq Ranges
  BY <1>1, NodesOf DEF Claimed, Started
<1>3. Contents'
  <2>1. ASSUME NEW s \in Claimed', ~IsLeaf(s), pc'[s] # "partition" PROVE SplitDone(s)'
    <3>1. s \in Claimed /\ s \in Ranges /\ pc[s] # "partition"
      BY <1>1, <1>2, <2>1
    <3>2. SplitDone(s)
      BY <2>1, <3>1 DEF TreeInv, Contents
    <3>3. QED
      BY <1>1, <3>2, SplitKept
  <2>2. QED
    BY <1>1, <1>2, <2>1 DEF TreeInv, Contents, Distance, Root, Ranges, IsLeaf, Points
<1>4. Links'
  <2>1. ASSUME NEW s \in Claimed', IsLeaf(s)
        PROVE  /\ nodes'[node_index'[s]].left = INVALID_NODE
               /\ pc'[s] # "leaf" => nodes'[node_index'[s]].lr = s
    <3>1. s \in Claimed /\ s \in Ranges /\ (pc'[s] # "leaf" => pc[s] # "leaf")
      BY <1>1, <1>2
    <3>2. QED
      BY <1>1, <2>1, <3>1 DEF TreeInv, Links
  <2>2. ASSUME NEW s \in Claimed', ~IsLeaf(s)
        PROVE  /\ pc'[LeftHalf(s)] = "done" =>
                     nodes'[node_index'[s]].left = node_index'[LeftHalf(s)]
               /\ pc'[RightHalf(s)] = "done" =>
                     nodes'[node_index'[s]].right = node_index'[RightHalf(s)]
    <3>1. s \in Claimed /\ s \in Started
      BY <1>2
    <3>2. LeftHalf(s) \in Ranges /\ RightHalf(s) \in Ranges /\ LeftHalf(s) # Root /\ RightHalf(s) # Root
      BY <2>2, <3>1, HalvesOf
    <3>3. QED
      BY <1>1, <1>2, <2>2, <3>1, <3>2 DEF TreeInv, Links
  <2>3. \A n \in Points : n >= node_count => nodes'[n].left = INVALID_NODE
    BY <1>1 DEF TreeInv, Links
  <2>4. \A n \in 0 .. node_count - 1 : \E s \in Claimed' : node_index'[s] = n
    BY <1>1, <1>2 DEF TreeInv, Links
  <2>5. QED
    BY <1>1, <2>1, <2>2, <2>3, <2>4 DEF Links, LeftHalf, RightHalf, Mid, Distance, IsLeaf, Points
<1>5. Waits'
  <2>1. ASSUME NEW s \in Started', s # Root PROVE \E t \in Ranges : MadeBy(s, t)'
    <3>1. s \in Started /\ s \in Ranges
      BY <1>2
    <3>2. PICK t \in Ranges : MadeBy(s, t)
      BY <2>1, <3>1 DEF TreeInv, Waits
    <3>3. pc'[s] # "done" => pc'[t] \in Waiting
      <4>1. SUFFICES ASSUME pc'[s] # "done" PROVE pc'[t] \in Waiting
        OBVIOUS
      <4>2. pc[t] \in Waiting
        BY <1>2, <2>1, <3>1, <3>2, <4>1 DEF MadeBy
      <4>3. t # Root
        BY <1>1, <4>2 DEF Waiting
      <4>4. QED
        BY <1>2, <4>2, <4>3
    <3>4. MadeBy(s, t)'
      BY <1>2, <3>2, <3>3 DEF MadeBy, LeftHalf, RightHalf, Mid, Distance, IsLeaf
    <3>5. QED
      BY <3>4
  <2>2. ASSUME NEW s \in Claimed', ~IsLeaf(s), pc'[s] \in Returned
        PROVE  pc'[LeftHalf(s)] = "done" /\ pc'[RightHalf(s)] = "done"
    <3>1. s \in Claimed /\ s \in Started /\ s \in Ranges /\ pc[s] \in Returned
      BY <1>1, <1>2, <2>2 DEF Returned
    <3>2. pc[LeftHalf(s)] = "done" /\ pc[RightHalf(s)] = "done"
      BY <2>2, <3>1 DEF TreeInv, Waits
    <3>3. LeftHalf(s) \in Ranges /\ RightHalf(s) \in Ranges /\ LeftHalf(s) # Root /\ RightHalf(s) # Root
      BY <2>2, <3>1, HalvesOf
    <3>4. QED
      BY <1>2, <3>2, <3>3
  <2>3. \A s \in Ranges : pc'[s] = "leaf" => IsLeaf(s)
    BY <1>1, <1>2 DEF TreeInv, Waits
  <2>4. root' = node_index'[Root]
    BY <1>1
  <2>5. QED
    BY <2>1, <2>2, <2>3, <2>4 DEF Waits, LeftHalf, RightHalf, Mid, Distance, IsLeaf, Root, Ranges
<1>6. QED
  BY <1>3, <1>4, <1>5 DEF TreeInv

-----------------------------------------------------------------------------
(* What the finished tree holds.                                           *)
-----------------------------------------------------------------------------
\* Every set of natural numbers has a least element, from which whatever an
\* induction needs follows.
LEMMA LeastNat ==
    ASSUME NEW S, S \subseteq Nat, S # {}
    PROVE  \E m \in S : \A n \in S : m <= n
<1> DEFINE R == {ss \in Nat \X Nat : ss[1] < ss[2]}
<1>1. IsWellFoundedOn(R, Nat)
  BY NatLessThanWellFounded DEF OpToRel
<1>2. \A m, n \in Nat : <<n, m>> \in R <=> n < m
  OBVIOUS
<1> HIDE DEF R
<1>3. PICK m \in S : \A n \in S : <<n, m>> \notin R
  BY <1>1, WFMin
<1>4. ASSUME NEW n \in S PROVE m <= n
  <2>1. m \in Nat /\ n \in Nat
    OBVIOUS
  <2>2. ~(n < m)
    BY <1>2, <1>3, <2>1
  <2>3. QED
    BY <2>1, <2>2
<1>5. QED
  BY <1>3, <1>4

\* The halves of a range are shorter than it.
LEMMA HalvesShorter ==
    ASSUME NEW r \in Ranges, ~IsLeaf(r), NEW t, t = LeftHalf(r) \/ t = RightHalf(r)
    PROVE  Distance(t) < Distance(r)
<1>1. r[1] \in Int /\ r[2] \in Int
  BY RangeEnds
<1>2. Mid(r) \in Int /\ r[1] + 2 <= Mid(r) /\ Mid(r) + 2 <= r[2]
  BY HalfBounds
<1>3. /\ Distance(r) = r[2] - r[1]
      /\ Distance(t) = Mid(r) - r[1] \/ Distance(t) = r[2] - Mid(r)
  BY DEF Distance, LeftHalf, RightHalf
<1>4. QED
  BY <1>1, <1>2, <1>3

\* When the root's call has returned, so has every call: one that had not would
\* have been made by a longer one that had not.
LEMMA AllReturned ==
    ASSUME IInv, TreeInv, Root \in Ranges, pc[Root] = "done"
    PROVE  \A r \in Started : pc[r] = "done"
<1> DEFINE Shortfall == {n \in Nat : \E r \in Started : pc[r] # "done" /\ n = Size - Distance(r)}
<1> SUFFICES ASSUME NEW q \in Started, pc[q] # "done" PROVE FALSE
  OBVIOUS
<1>1. \A r \in Started : r \in Ranges /\ Distance(r) \in Int /\ Size - Distance(r) \in Nat
  BY RangeEnds, SizeAssumption DEF Started, Distance
<1>2. Shortfall \subseteq Nat /\ Size - Distance(q) \in Shortfall
  BY <1>1
<1>3. PICK m \in Shortfall : \A n \in Shortfall : m <= n
  BY <1>2, LeastNat
<1>4. PICK r \in Started : pc[r] # "done" /\ m = Size - Distance(r)
  BY <1>3
<1>5. PICK s \in Ranges : MadeBy(r, s)
  BY <1>4 DEF TreeInv, Waits
<1>6. s \in Started /\ ~IsLeaf(s) /\ pc[s] # "done"
  BY <1>4, <1>5 DEF MadeBy, Waiting
<1>7. Distance(r) < Distance(s)
  BY <1>5, HalvesShorter DEF MadeBy
<1>8. Size - Distance(s) \in Shortfall
  BY <1>1, <1>6
<1>9. m <= Size - Distance(s)
  BY <1>3, <1>8
<1>10. QED
  BY <1>1, <1>4, <1>6, <1>7, <1>9, SizeAssumption

\* The recursion by which the points below a node are read off the nodes.
Reads(sub) ==
    sub = [n \in Points |-> IF LeafNode(n) THEN indices[nodes[n].lr]
                            ELSE sub[nodes[n].left] \cup sub[nodes[n].right]]

\* What the nodes of a finished build say of the calls that made them.
LEMMA NodeOfCall ==
    ASSUME IInv, TreeInv, Root \in Ranges, pc[Root] = "done", NEW r \in Claimed
    PROVE  /\ node_index[r] \in Points /\ r \in Ranges
           /\ IsLeaf(r) => LeafNode(node_index[r]) /\ nodes[node_index[r]].lr = r
           /\ ~IsLeaf(r) => /\ LeftHalf(r) \in Claimed /\ RightHalf(r) \in Claimed
                            /\ ~LeafNode(node_index[r])
                            /\ nodes[node_index[r]].left = node_index[LeftHalf(r)]
                            /\ nodes[node_index[r]].right = node_index[RightHalf(r)]
                            /\ SplitDone(r)
<1>1. r \in Started /\ node_index[r] \in Points /\ r \in Ranges
  BY NodesOf
<1>2. pc[r] = "done"
  BY <1>1, AllReturned
<1>3. IsLeaf(r) => LeafNode(node_index[r]) /\ nodes[node_index[r]].lr = r
  BY <1>2 DEF TreeInv, Links, LeafNode
<1>4. ASSUME ~IsLeaf(r)
      PROVE  /\ LeftHalf(r) \in Claimed /\ RightHalf(r) \in Claimed
             /\ ~LeafNode(node_index[r])
             /\ nodes[node_index[r]].left = node_index[LeftHalf(r)]
             /\ nodes[node_index[r]].right = node_index[RightHalf(r)]
             /\ SplitDone(r)
  <2>1. pc[LeftHalf(r)] = "done" /\ pc[RightHalf(r)] = "done"
    BY <1>2, <1>4 DEF TreeInv, Waits, Returned
  <2>2. LeftHalf(r) \in Claimed /\ RightHalf(r) \in Claimed
    BY <1>1, <1>4, <2>1, HalvesOf DEF Claimed
  <2>3. /\ nodes[node_index[r]].left = node_index[LeftHalf(r)]
        /\ nodes[node_index[r]].right = node_index[RightHalf(r)]
    BY <1>4, <2>1 DEF TreeInv, Links
  <2>4. node_index[LeftHalf(r)] \in Nat
    BY <2>2, NodesOf, SizeAssumption DEF Points
  <2>5. ~LeafNode(node_index[r])
    BY <2>3, <2>4 DEF LeafNode, INVALID_NODE
  <2>6. SplitDone(r)
    BY <1>2, <1>4 DEF TreeInv, Contents
  <2>7. QED
    BY <2>2, <2>3, <2>5, <2>6
<1>5. QED
  BY <1>1, <1>3, <1>4

\* The recursion has a solution: what every call worked on.
LEMMA SubtreeReads ==
    ASSUME IInv, TreeInv, Root \in Ranges, pc[Root] = "done"
    PROVE  Reads(Subtree)
<1> DEFINE CallOf(n) == CHOOSE r \in Claimed : node_index[r] = n
           below == [n \in Points |-> IF n < node_count THEN indices[CallOf(n)]
                                      ELSE indices[nodes[n].lr]]
<1>1. \A r \in Claimed : CallOf(node_index[r]) = r
  BY NodesOf
<1>2. \A r \in Claimed : below[node_index[r]] = indices[r]
  <2>1. \A r \in Claimed : node_index[r] \in Points /\ node_index[r] < node_count
    BY NodesOf
  <2>2. QED
    BY <1>1, <2>1
<1>3. ASSUME NEW n \in Points
      PROVE  below[n] = IF LeafNode(n) THEN indices[nodes[n].lr]
                        ELSE below[nodes[n].left] \cup below[nodes[n].right]
  <2>1. CASE ~(n < node_count)
    <3>1. n >= node_count
      BY <2>1, NodesOf, SizeAssumption DEF Points
    <3>2. LeafNode(n)
      BY <3>1 DEF LeafNode, TreeInv, Links
    <3>3. QED
      BY <2>1, <3>2
  <2>2. CASE n < node_count
    <3>1. n \in 0 .. node_count - 1
      BY <2>2, NodesOf, SizeAssumption DEF Points
    <3>2. PICK r \in Claimed : node_index[r] = n
      BY <3>1 DEF TreeInv, Links
    <3>3. below[n] = indices[r]
      BY <1>2, <3>2
    <3>4. CASE IsLeaf(r)
      BY <3>2, <3>3, <3>4, NodeOfCall
    <3>5. CASE ~IsLeaf(r)
      <4>1. /\ LeftHalf(r) \in Claimed /\ RightHalf(r) \in Claimed /\ ~LeafNode(n)
            /\ nodes[n].left = node_index[LeftHalf(r)]
            /\ nodes[n].right = node_index[RightHalf(r)]
            /\ SplitDone(r)
        BY <3>2, <3>5, NodeOfCall
      <4>2. below[nodes[n].left] \cup below[nodes[n].right] = indices[r]
        BY <1>2, <4>1 DEF SplitDone
      <4>3. QED
        BY <3>3, <4>1, <4>2
    <3>6. QED
      BY <3>4, <3>5
  <2>3. QED
    BY <2>1, <2>2
<1>4. Reads(below)
  <2>1. below = [n \in Points |-> below[n]]
    OBVIOUS
  <2> HIDE DEF below
  <2>2. QED
    BY <1>3, <2>1 DEF Reads
<1> HIDE DEF below
<1>5. \E sub : Reads(sub)
  BY <1>4
<1>6. Subtree = CHOOSE sub : Reads(sub)
  BY DEF Subtree, Reads
<1>7. QED
  BY <1>5, <1>6

\* Below the node of a call are the points it worked on.
LEMMA BelowCall ==
    ASSUME IInv, TreeInv, Root \in Ranges, pc[Root] = "done", NEW sub, Reads(sub)
    PROVE  \A r \in Claimed : sub[node_index[r]] = indices[r]
<1> DEFINE Wrong == {n \in Nat : \E r \in Claimed : sub[node_index[r]] # indices[r] /\ n = Distance(r)}
<1> SUFFICES ASSUME NEW q \in Claimed, sub[node_index[q]] # indices[q] PROVE FALSE
  OBVIOUS
<1>1. \A r \in Claimed : r \in Ranges /\ Distance(r) \in Nat
  BY NodesOf, RangeEnds DEF Distance
<1>2. Wrong \subseteq Nat /\ Distance(q) \in Wrong
  BY <1>1
<1>3. PICK m \in Wrong : \A n \in Wrong : m <= n
  BY <1>2, LeastNat
<1>4. PICK r \in Claimed : sub[node_index[r]] # indices[r] /\ m = Distance(r)
  BY <1>3
<1> DEFINE n == node_index[r]
<1>5. n \in Points
  BY NodeOfCall
<1>6. sub[n] = IF LeafNode(n) THEN indices[nodes[n].lr]
               ELSE sub[nodes[n].left] \cup sub[nodes[n].right]
  BY <1>5 DEF Reads
<1>7. CASE IsLeaf(r)
  BY <1>4, <1>6, <1>7, NodeOfCall
<1>8. CASE ~IsLeaf(r)
  <2>1. /\ LeftHalf(r) \in Claimed /\ RightHalf(r) \in Claimed /\ ~LeafNode(n)
        /\ nodes[n].left = node_index[LeftHalf(r)]
        /\ nodes[n].right = node_index[RightHalf(r)]
        /\ SplitDone(r)
    BY <1>8, NodeOfCall
  <2>2. ASSUME NEW c \in {LeftHalf(r), RightHalf(r)} PROVE sub[node_index[c]] = indices[c]
    <3>1. c \in Claimed /\ Distance(c) \in Nat /\ m \in Nat /\ Distance(c) < m
      BY <1>1, <1>4, <1>8, <2>1, <2>2, HalvesShorter
    <3>2. Distance(c) \notin Wrong
      BY <1>3, <3>1
    <3>3. QED
      BY <3>1, <3>2
  <2>3. QED
    BY <1>4, <1>6, <2>1, <2>2 DEF SplitDone
<1>9. QED
  BY <1>7, <1>8

\* So the finished tree is what a search takes it for.
LEMMA TreeBuilt == IInv /\ TreeInv => TreeCorrect
<1> SUFFICES ASSUME IInv, TreeInv, Constructed, Size > 0
             PROVE  /\ Subtree[root] = Points
                    /\ \A n \in 0 .. node_count - 1 : LeafNode(n) \/ Separates(n, Subtree)
  BY DEF TreeCorrect
<1>1. Root \in Ranges /\ pc[Root] = "done"
  BY SizeAssumption DEF Constructed, Root, Ranges
<1>2. \A r \in Claimed : Subtree[node_index[r]] = indices[r]
  BY <1>1, SubtreeReads, BelowCall
<1>3. Subtree[root] = Points
  <2>1. root = node_index[Root] /\ indices[Root] = Points
    BY <1>1 DEF TreeInv, Contents, Waits
  <2>2. Root \in Claimed
    BY <1>1 DEF Claimed
  <2>3. QED
    BY <1>2, <2>1, <2>2
<1>4. ASSUME NEW n \in 0 .. node_count - 1 PROVE LeafNode(n) \/ Separates(n, Subtree)
  <2>1. PICK r \in Claimed : node_index[r] = n
    BY DEF TreeInv, Links
  <2>2. CASE IsLeaf(r)
    BY <1>1, <2>1, <2>2, NodeOfCall
  <2>3. CASE ~IsLeaf(r)
    <3>1. /\ LeftHalf(r) \in Claimed /\ RightHalf(r) \in Claimed
          /\ nodes[n].left = node_index[LeftHalf(r)]
          /\ nodes[n].right = node_index[RightHalf(r)]
          /\ SplitDone(r) /\ r \in Ranges
      BY <1>1, <2>1, <2>3, NodeOfCall
    <3>2. /\ Subtree[nodes[n].left] = indices[LeftHalf(r)]
          /\ Subtree[nodes[n].right] = indices[RightHalf(r)]
      BY <1>2, <3>1
    <3>3. indices[LeftHalf(r)] # {} /\ indices[RightHalf(r)] # {}
      <4>1. /\ Cardinality(indices[LeftHalf(r)]) >= 2
            /\ Cardinality(indices[RightHalf(r)]) >= 2
        BY <2>3, <3>1, HalfBounds DEF SplitDone
      <4>2. QED
        BY <4>1, FS_EmptySet
    <3>4. Separates(n, Subtree)
      BY <2>1, <3>1, <3>2, <3>3 DEF Separates, SplitDone
    <3>5. QED
      BY <3>4
  <2>4. QED
    BY <2>2, <2>3
<1>5. QED
  BY <1>3, <1>4

-----------------------------------------------------------------------------
\* The inductive invariant holds throughout every build.
THEOREM Invariance == Spec => []IInv
<1>1. Init => IInv
  BY InitIInv
<1>2. IInv /\ [Next]_vars => IInv'
  <2> SUFFICES ASSUME IInv, [Next]_vars PROVE IInv'
    OBVIOUS
  <2>1. ASSUME NEW r \in Ranges, Step(r) PROVE IInv'
    <3>1. CASE CreateNode(r)
      BY <3>1, CreateNodePreserves
    <3>2. CASE WriteLeaf(r)
      BY <3>2, WriteLeafPreserves
    <3>3. CASE Partition(r)
      BY <3>3, PartitionPreserves
    <3>4. CASE AssignLeft(r)
      BY <3>4, AssignLeftPreserves
    <3>5. CASE AssignRight(r)
      BY <3>5, AssignRightPreserves
    <3>6. CASE TaskWait(r)
      BY <3>6, TaskWaitPreserves
    <3>7. QED
      BY <2>1, <3>1, <3>2, <3>3, <3>4, <3>5, <3>6 DEF Step
  <2>2. CASE FinishBuild
    BY <2>2, FinishBuildPreserves
  <2>3. CASE UNCHANGED vars
    BY <2>3 DEF vars, IInv, TypeOK, Sized, Nested, Fresh, Counted, NodesUnique,
                Started, Claimed, Disjoint, Inside, InLeft, InRight
  <2>4. QED
    BY <2>1, <2>2, <2>3 DEF Next
<1>3. QED
  BY <1>1, <1>2, PTL DEF Spec

\* The state of a build is well typed, for any number of points and tasks.
THEOREM TypeCorrectness == Spec => []TypeOK
<1>1. IInv => TypeOK
  BY DEF IInv
<1>2. QED
  BY <1>1, Invariance, PTL

\* No builder ever takes a node beyond the array it sized to the number of
\* points, whatever the number of points, the leaf size (of three or more) and
\* the interleaving of its tasks: nodes[node_index] needs no check.
THEOREM NoOverrun == Spec => []NodesInBounds
<1>1. IInv => NodesInBounds
  <2> SUFFICES ASSUME IInv PROVE NodesInBounds
    OBVIOUS
  <2>1. node_count <= Size /\ node_count \in Nat
    BY ClaimedBounded DEF IInv, Counted, TypeOK
  <2>2. \A r \in Claimed : node_index[r] \in Points
    BY <2>1, SizeAssumption DEF IInv, Counted, Points
  <2>3. QED
    BY <2>1, <2>2 DEF NodesInBounds
<1>2. QED
  BY <1>1, Invariance, PTL

\* Every call writes a node of its own, however the tasks interleave.
THEOREM OwnNodes == Spec => []NodesUnique
<1>1. IInv => NodesUnique
  BY DEF IInv, Counted
<1>2. QED
  BY <1>1, Invariance, PTL

\* Two calls that permute or publish their part of kdtree.indices at the same
\* time work on disjoint parts.
THEOREM DisjointWork == Spec => []NoIndexRace
<1>1. IInv => NoIndexRace
  <2> SUFFICES ASSUME IInv, NEW r \in Ranges, NEW s \in Ranges, r # s,
                      pc[r] \in Growing, pc[s] \in Growing
               PROVE  Disjoint(r, s)
    BY DEF NoIndexRace, Growing
  <2>1. r \in Started /\ s \in Started
    BY DEF Started, Growing
  <2>2. ~Inside(r, s) /\ ~Inside(s, r)
    BY <2>1 DEF IInv, Fresh
  <2>3. QED
    BY <2>1, <2>2 DEF IInv, Nested
<1>2. QED
  BY <1>1, Invariance, PTL

\* What the tree under construction holds at every step.
THEOREM TreeInvariance == Spec => [](IInv /\ TreeInv)
<1>1. Init => TreeInv
  BY TreeInit
<1>2. IInv /\ TreeInv /\ [Next]_vars => TreeInv'
  <2> SUFFICES ASSUME IInv, TreeInv, [Next]_vars PROVE TreeInv'
    OBVIOUS
  <2>1. ASSUME NEW r \in Ranges, Step(r) PROVE TreeInv'
    <3>1. CASE CreateNode(r)
      BY <3>1, CreateNodeTree
    <3>2. CASE WriteLeaf(r)
      BY <3>2, WriteLeafTree
    <3>3. CASE Partition(r)
      BY <3>3, PartitionTree
    <3>4. CASE AssignLeft(r)
      BY <3>4, AssignLeftTree
    <3>5. CASE AssignRight(r)
      BY <3>5, AssignRightTree
    <3>6. CASE TaskWait(r)
      BY <3>6, TaskWaitTree
    <3>7. QED
      BY <2>1, <3>1, <3>2, <3>3, <3>4, <3>5, <3>6 DEF Step
  <2>2. CASE FinishBuild
    BY <2>2, FinishTree
  <2>3. CASE UNCHANGED vars
    <3>1. Contents'
      BY <2>3 DEF vars, TreeInv, Contents, SplitDone, Started, Claimed, Distance, Mid,
                  LeftHalf, RightHalf, IsLeaf
    <3>2. Links'
      BY <2>3 DEF vars, TreeInv, Links, Claimed, Distance, Mid, LeftHalf, RightHalf, IsLeaf
    <3>3. Waits'
      BY <2>3 DEF vars, TreeInv, Waits, MadeBy, Started, Claimed, Distance, Mid,
                  LeftHalf, RightHalf, IsLeaf
    <3>4. QED
      BY <3>1, <3>2, <3>3 DEF TreeInv
  <2>4. QED
    BY <2>1, <2>2, <2>3 DEF Next
<1>3. QED
  BY <1>1, <1>2, Invariance, PTL DEF Spec

\* A finished tree holds every point below its root, and the threshold of every
\* inner node separates the points below its two children, of which there are
\* some, whatever the order in which the tasks ran and nth_element's choices.
THEOREM TreeIsCorrect == Spec => []TreeCorrect
BY TreeInvariance, TreeBuilt, PTL

-----------------------------------------------------------------------------
(* The result buffer.                                                      *)
-----------------------------------------------------------------------------
\* A buffer for k neighbours: sorted, without repetition, filled from the front.
Buffer(r, k) ==
    /\ r.found \in 0 .. k
    /\ r.indices \in [1 .. k -> Int]
    /\ r.distances \in [1 .. k -> 0 .. MaxDistance]
    /\ \A i, j \in 1 .. k : i <= j => r.distances[i] <= r.distances[j]
    /\ \A i \in 1 .. k : i > r.found => r.distances[i] = MaxDistance
    /\ \A i, j \in 1 .. r.found : i # j => r.indices[i] # r.indices[j]

TakenOf(r) == {r.indices[i] : i \in 1 .. r.found}

\* The worst entry of a buffer is its last.
LEMMA WorstOf ==
    ASSUME NEW r, NEW k \in Nat \ {0}, Buffer(r, k)
    PROVE  Len(r.distances) = k /\ worst_distance(r) = r.distances[k]
<1>1. r.distances \in [1 .. k -> 0 .. MaxDistance] /\ k \in Nat
  BY DEF Buffer
<1>2. r.distances \in Seq(0 .. MaxDistance)
  BY <1>1, SeqDef
<1>3. Len(r.distances) = k
  BY <1>1, <1>2, LenProperties
<1>4. QED
  BY <1>3 DEF worst_distance, Last

LEMMA EmptyBuffer ==
    ASSUME NEW k \in Nat \ {0}
    PROVE  Buffer(EmptyResult(k), k) /\ EmptyResult(k).found = 0
  BY DistanceAssumption DEF Buffer, EmptyResult, INVALID

\* Where push inserts: behind the entries that are not worse.
LEMMA PlaceOf ==
    ASSUME NEW k \in Nat \ {0}, NEW end \in 1 .. k, NEW ds \in [1 .. k -> 0 .. MaxDistance], NEW d \in Nat,
           \A i, j \in 1 .. k : i <= j => ds[i] <= ds[j],
           NEW loc \in 1 .. end, \A j \in loc .. end - 1 : d < ds[j],
           \A i \in 1 .. end : (\A j \in i .. end - 1 : d < ds[j]) => loc <= i
    PROVE  \A j \in 1 .. k : j < loc => ds[j] <= d
<1> SUFFICES ASSUME NEW j \in 1 .. k, j < loc, ~(ds[j] <= d) PROVE FALSE
  OBVIOUS
<1>1. j \in 1 .. end /\ ds[j] \in Nat /\ d < ds[j]
  BY DistanceAssumption
<1>2. \A i \in j .. end - 1 : d < ds[i]
  <2> SUFFICES ASSUME NEW i \in j .. end - 1 PROVE d < ds[i]
    OBVIOUS
  <2>1. i \in 1 .. k /\ j <= i
    OBVIOUS
  <2>2. ds[j] <= ds[i] /\ ds[i] \in Nat
    BY <2>1, DistanceAssumption
  <2>3. QED
    BY <1>1, <2>2
<1>3. loc <= j
  BY <1>1, <1>2
<1>4. QED
  BY <1>3

\* A push keeps the buffer sorted; what it displaces, or refuses, is no closer
\* than the worst that stays.
LEMMA PushBuffer ==
    ASSUME NEW r, NEW k \in Nat \ {0}, Buffer(r, k), NEW x \in Int, NEW d \in Nat, d < MaxDistance,
           x \notin TakenOf(r), NEW s, s = push(r, x, d)
    PROVE  /\ Buffer(s, k)
           /\ worst_distance(s) <= worst_distance(r)
           /\ \A i \in 1 .. s.found :
                 \/ s.indices[i] = x /\ s.distances[i] = d
                 \/ \E j \in 1 .. r.found : s.indices[i] = r.indices[j] /\ s.distances[i] = r.distances[j]
           /\ \A j \in 1 .. r.found :
                 r.indices[j] \in TakenOf(s) \/ r.distances[j] >= worst_distance(s)
           /\ x \in TakenOf(s) \/ d >= worst_distance(s)
<1> DEFINE end == IF r.found < k THEN r.found + 1 ELSE k
           loc == Min({i \in 1 .. end : \A j \in i .. end - 1 : d < r.distances[j]})
           put(f, v) == [i \in 1 .. k |-> IF i = loc THEN v
                                          ELSE IF i > loc /\ i <= end THEN f[i - 1] ELSE f[i]]
<1>1. r.found \in 0 .. k /\ MaxDistance \in Nat
  BY DistanceAssumption DEF Buffer
<1>2. r.indices \in [1 .. k -> Int] /\ r.distances \in [1 .. k -> 0 .. MaxDistance]
  BY DEF Buffer
<1>3. \A i, j \in 1 .. k : i <= j => r.distances[i] <= r.distances[j]
  BY DEF Buffer
<1>4. \A i \in 1 .. k : i > r.found => r.distances[i] = MaxDistance
  BY DEF Buffer
<1>5. \A i, j \in 1 .. r.found : i # j => r.indices[i] # r.indices[j]
  BY DEF Buffer
<1>6. Len(r.distances) = k /\ worst_distance(r) = r.distances[k]
  BY WorstOf
<1>7. s = IF d >= r.distances[k] THEN r
          ELSE [found |-> IF r.found < k THEN r.found + 1 ELSE k,
                indices |-> put(r.indices, x), distances |-> put(r.distances, d)]
  BY <1>6 DEF push
<1>8. \A i \in 1 .. k : r.distances[i] \in Nat
  BY <1>1, <1>2
<1>9. CASE d >= r.distances[k]
  <2>1. s = r
    BY <1>7, <1>9
  <2>2. r.distances[k] \in Nat
    BY <1>8
  <2>3. QED
    BY <1>6, <1>9, <2>1, <2>2 DEF TakenOf
<1>10. CASE ~(d >= r.distances[k])
  <2>1. end \in 1 .. k
    BY <1>1
  <2>2. d < r.distances[k]
    BY <1>8, <1>10
  <2>3. s.found = end /\ s.indices = put(r.indices, x) /\ s.distances = put(r.distances, d)
    BY <1>7, <1>10
  <2>4. r.found <= end /\ end <= r.found + 1 /\ (end = r.found => end = k) /\ end \in Nat
    BY <1>1
  <2> HIDE DEF end
  <2>5. /\ loc \in 1 .. end
        /\ \A j \in 1 .. k : j < loc => r.distances[j] <= d
        /\ \A j \in loc .. end - 1 : d < r.distances[j]
    <3> DEFINE ds == r.distances
    <3>1. ds \in [1 .. k -> 0 .. MaxDistance] /\ \A i, j \in 1 .. k : i <= j => ds[i] <= ds[j]
      BY <1>2, <1>3
    <3> DEFINE Worse == {i \in 1 .. end : \A j \in i .. end - 1 : d < ds[j]}
    <3>2. end \in Worse /\ Worse \subseteq Nat
      BY <2>1
    <3>3. \E m \in Worse : \A n \in Worse : m <= n
      BY <3>2, LeastNat
    <3>4. loc \in Worse /\ \A n \in Worse : loc <= n
      BY <3>3 DEF Min
    <3> HIDE DEF ds, loc
    <3>5. /\ loc \in 1 .. end /\ \A j \in loc .. end - 1 : d < ds[j]
          /\ \A i \in 1 .. end : (\A j \in i .. end - 1 : d < ds[j]) => loc <= i
      BY <3>4
    <3> HIDE DEF Worse
    <3>6. \A j \in 1 .. k : j < loc => ds[j] <= d
      BY <2>1, <3>1, <3>5, PlaceOf
    <3>7. QED
      BY <3>5, <3>6 DEF ds
  <2> HIDE DEF loc
  <2>6. \A i \in 1 .. k : i < loc => s.distances[i] = r.distances[i] /\ s.indices[i] = r.indices[i]
    BY <2>1, <2>3, <2>5
  <2>7. s.distances[loc] = d /\ s.indices[loc] = x /\ loc \in 1 .. k
    BY <2>1, <2>3, <2>5
  <2>8. \A i \in 1 .. k : i > loc /\ i <= end =>
              s.distances[i] = r.distances[i - 1] /\ s.indices[i] = r.indices[i - 1]
    BY <2>1, <2>3, <2>5
  <2>9. \A i \in 1 .. k : i > end => s.distances[i] = r.distances[i] /\ s.indices[i] = r.indices[i]
    BY <2>1, <2>3, <2>5
  <2>10. s.found = end
    BY <2>3
  <2>11. s.indices \in [1 .. k -> Int]
    BY <1>2, <2>1, <2>3, <2>5
  <2>12. s.distances \in [1 .. k -> 0 .. MaxDistance]
    BY <1>1, <1>2, <2>1, <2>3, <2>5
  <2> HIDE DEF put
  <2>13. \A i \in 1 .. k : s.distances[i] \in Nat
    BY <1>1, <2>12
  <2>14. \A i \in 1 .. k : i > s.found => s.distances[i] = MaxDistance
    <3> SUFFICES ASSUME NEW i \in 1 .. k, i > end PROVE s.distances[i] = MaxDistance
      BY <2>10
    <3>1. i > r.found
      BY <1>1, <2>4
    <3>2. QED
      BY <1>4, <2>9, <3>1
  \* sorted
  <2>15. ASSUME NEW i \in 1 .. k, NEW j \in 1 .. k, i < j PROVE s.distances[i] <= s.distances[j]
    <3>1. CASE j > end
      <4>1. s.distances[j] = MaxDistance
        BY <2>10, <2>14, <3>1
      <4>2. QED
        BY <1>1, <2>12, <4>1
    <3>2. CASE j < loc
      <4>1. s.distances[i] = r.distances[i] /\ s.distances[j] = r.distances[j]
        BY <2>6, <2>7, <2>15, <3>2
      <4>2. QED
        BY <1>3, <2>15, <4>1
    <3>3. CASE j = loc
      <4>1. s.distances[i] = r.distances[i] /\ s.distances[j] = d /\ r.distances[i] <= d
        BY <2>5, <2>6, <2>7, <2>15, <3>3
      <4>2. QED
        BY <4>1
    <3>4. CASE j > loc /\ j <= end
      <4>1. s.distances[j] = r.distances[j - 1] /\ j - 1 \in 1 .. k /\ j - 1 \in loc .. end - 1
        BY <2>1, <2>7, <2>8, <3>4
      <4>2. d < r.distances[j - 1] /\ r.distances[j - 1] \in Nat
        BY <1>8, <2>5, <4>1
      <4>3. CASE i < loc
        <5>1. s.distances[i] = r.distances[i] /\ r.distances[i] <= d /\ r.distances[i] \in Nat
          BY <1>8, <2>5, <2>6, <4>3
        <5>2. QED
          BY <4>1, <4>2, <5>1
      <4>4. CASE i = loc
        BY <2>7, <4>1, <4>2, <4>4
      <4>5. CASE i > loc
        <5>1. s.distances[i] = r.distances[i - 1] /\ i - 1 \in 1 .. k /\ i - 1 <= j - 1
          BY <2>1, <2>7, <2>8, <2>15, <3>4, <4>5
        <5>2. r.distances[i - 1] <= r.distances[j - 1]
          BY <1>3, <4>1, <5>1
        <5>3. QED
          BY <4>1, <5>1, <5>2
      <4>6. QED
        BY <2>7, <4>3, <4>4, <4>5
    <3>5. QED
      BY <2>1, <2>7, <3>1, <3>2, <3>3, <3>4
  <2>16. \A i, j \in 1 .. k : i <= j => s.distances[i] <= s.distances[j]
    <3> SUFFICES ASSUME NEW i \in 1 .. k, NEW j \in 1 .. k, i <= j PROVE s.distances[i] <= s.distances[j]
      OBVIOUS
    <3>1. CASE i = j
      BY <2>13, <3>1
    <3>2. CASE i < j
      BY <2>15, <3>2
    <3>3. QED
      BY <3>1, <3>2
  \* where the entries come from
  <2>17. ASSUME NEW i \in 1 .. end
         PROVE  \/ i = loc /\ s.indices[i] = x /\ s.distances[i] = d
                \/ /\ i < loc /\ i \in 1 .. r.found
                   /\ s.indices[i] = r.indices[i] /\ s.distances[i] = r.distances[i]
                \/ /\ i > loc /\ i - 1 \in 1 .. r.found
                   /\ s.indices[i] = r.indices[i - 1] /\ s.distances[i] = r.distances[i - 1]
    <3>1. i \in 1 .. k
      BY <2>1
    <3>2. CASE i = loc
      BY <2>7, <3>2
    <3>3. CASE i < loc
      <4>1. i \in 1 .. r.found
        BY <1>1, <2>1, <2>4, <2>5, <3>3
      <4>2. QED
        BY <2>6, <3>1, <3>3, <4>1
    <3>4. CASE i > loc
      <4>1. i - 1 \in 1 .. r.found
        BY <1>1, <2>1, <2>4, <2>5, <3>4
      <4>2. QED
        BY <2>8, <3>1, <3>4, <4>1
    <3>5. QED
      BY <2>7, <3>1, <3>2, <3>3, <3>4
  <2>18. \A i \in 1 .. r.found : r.indices[i] # x
    BY DEF TakenOf
  <2>19. ASSUME NEW i \in 1 .. end, NEW j \in 1 .. end, i # j
         PROVE  s.indices[i] # s.indices[j]
    <3> DEFINE From(l, m) == \/ l = loc /\ m = 0 /\ s.indices[l] = x
                             \/ m \in 1 .. r.found /\ s.indices[l] = r.indices[m]
                                /\ ((l < loc /\ m = l) \/ (l > loc /\ m = l - 1))
    <3>1. \A l \in 1 .. end : \E m \in 0 .. r.found : From(l, m)
      <4> SUFFICES ASSUME NEW l \in 1 .. end PROVE \E m \in 0 .. r.found : From(l, m)
        OBVIOUS
      <4>1. CASE l = loc
        BY <1>1, <2>17, <4>1
      <4>2. CASE l < loc
        <5>1. l \in 1 .. r.found /\ s.indices[l] = r.indices[l]
          BY <1>1, <2>7, <2>17, <4>2
        <5>2. From(l, l)
          BY <4>2, <5>1
        <5>3. l \in 0 .. r.found
          BY <1>1, <5>1
        <5>4. QED
          BY <5>2, <5>3
      <4>3. CASE l > loc
        <5>1. From(l, l - 1) /\ l - 1 \in 0 .. r.found
          BY <1>1, <2>7, <2>17, <4>3
        <5>2. QED
          BY <5>1
      <4>4. QED
        BY <2>7, <4>1, <4>2, <4>3
    <3>2. PICK m \in 0 .. r.found : From(i, m)
      BY <3>1
    <3>3. PICK n \in 0 .. r.found : From(j, n)
      BY <3>1
    <3>4. m # n
      BY <2>19, <3>2, <3>3, <2>7, <1>1
    <3>5. QED
      BY <1>1, <1>5, <2>18, <3>2, <3>3, <3>4
  <2>20. Buffer(s, k)
    <3>1. s.found \in 0 .. k
      BY <2>1, <2>10
    <3>2. QED
      BY <2>10, <2>11, <2>12, <2>14, <2>16, <2>19, <3>1 DEF Buffer
  <2>21. worst_distance(s) = s.distances[k]
    BY <2>20, WorstOf
  <2>22. s.distances[k] <= r.distances[k]
    <3>1. k \in 1 .. k
      OBVIOUS
    <3>2. CASE k > end
      BY <1>8, <2>9, <3>1, <3>2
    <3>3. CASE k = loc
      BY <1>8, <2>2, <2>7, <3>1, <3>3
    <3>4. CASE k <= end /\ loc < k
      <4>1. s.distances[k] = r.distances[k - 1] /\ k - 1 \in 1 .. k
        BY <2>7, <2>8, <3>1, <3>4
      <4>2. QED
        BY <1>3, <3>1, <4>1
    <3>5. QED
      BY <2>1, <2>7, <3>2, <3>3, <3>4
  <2>23. ASSUME NEW j \in 1 .. r.found
         PROVE  r.indices[j] \in TakenOf(s) \/ r.distances[j] >= worst_distance(s)
    <3>1. j \in 1 .. k /\ j <= end
      BY <1>1, <2>4
    <3>2. CASE j < loc
      <4>1. j \in 1 .. s.found /\ s.indices[j] = r.indices[j]
        BY <2>6, <2>10, <3>1, <3>2
      <4>2. QED
        BY <4>1 DEF TakenOf
    <3>3. CASE j >= loc /\ j + 1 <= end
      <4>1. j + 1 \in 1 .. k /\ j + 1 > loc /\ j + 1 - 1 = j
        BY <2>1, <2>7, <3>1, <3>3
      <4>2. j + 1 \in 1 .. s.found /\ s.indices[j + 1] = r.indices[j]
        <5>1. s.indices[j + 1] = r.indices[(j + 1) - 1]
          BY <2>8, <3>3, <4>1
        <5>2. QED
          BY <2>10, <3>3, <4>1, <5>1
      <4>3. QED
        BY <4>2 DEF TakenOf
    <3>4. CASE j >= loc /\ ~(j + 1 <= end)
      <4>1. j = end
        BY <2>4, <3>1, <3>4
      <4>2. j = k
        BY <1>1, <2>4, <3>1, <4>1
      <4>3. s.distances[k] \in Nat /\ r.distances[k] \in Nat
        BY <1>8, <2>13
      <4>4. QED
        BY <2>21, <2>22, <4>2, <4>3
    <3>5. QED
      BY <2>7, <3>2, <3>3, <3>4
  <2>24. x \in TakenOf(s)
    BY <2>5, <2>7, <2>10 DEF TakenOf
  <2>25. ASSUME NEW i \in 1 .. s.found
         PROVE  \/ s.indices[i] = x /\ s.distances[i] = d
                \/ \E j \in 1 .. r.found : s.indices[i] = r.indices[j] /\ s.distances[i] = r.distances[j]
    BY <2>10, <2>17
  <2>26. QED
    BY <1>6, <2>20, <2>21, <2>22, <2>23, <2>24, <2>25
<1>11. QED
  BY <1>9, <1>10

-----------------------------------------------------------------------------
(* Distances.                                                              *)
-----------------------------------------------------------------------------
LEMMA SquareUp ==
    ASSUME NEW x \in Nat, NEW y \in Nat, x <= y
    PROVE  x * x <= y * y
<1>1. x * x <= x * y
  BY x <= y
<1>2. x * y <= y * y
  BY x <= y
<1>3. x * x \in Nat /\ x * y \in Nat /\ y * y \in Nat
  OBVIOUS
<1>4. QED
  BY <1>1, <1>2, <1>3

LEMMA SquareType ==
    ASSUME NEW x \in Int
    PROVE  Square(x) \in Nat /\ Square(-x) = Square(x)
  BY DEF Square

\* A point is at least as far away as along any one axis.
LEMMA AlongAxis ==
    ASSUME NEW q \in Queries, NEW p \in Points
    PROVE  /\ SquaredDistance(q, p) \in Nat /\ SquaredDistance(q, p) < MaxDistance
           /\ \A a \in Axes : Square(Coord[a][p] - q[a]) <= SquaredDistance(q, p)
<1> DEFINE along(a) == IF a \in Axes THEN Square(Coord[a][p] - q[a]) ELSE 0
<1>1. \A a \in Axes : Coord[a][p] - q[a] \in Int
  BY CoordAssumption, QueriesAssumption
<1>2. \A a \in Axes : Square(Coord[a][p] - q[a]) \in Nat
  BY <1>1, SquareType
<1>3. along(0) \in Nat /\ along(1) \in Nat /\ along(2) \in Nat
  BY <1>2
<1>4. \A a \in Axes : a \in {0, 1, 2}
  BY AxesAssumption
<1>5. ASSUME NEW a \in Axes PROVE along(a) = Square(Coord[a][p] - q[a])
  BY DEF along
<1>6. SquaredDistance(q, p) = along(0) + along(1) + along(2)
  BY DEF SquaredDistance
<1> HIDE DEF along
<1>7. \A a \in {0, 1, 2} : along(a) <= along(0) + along(1) + along(2)
  BY <1>3
<1>8. \A a \in Axes : along(a) = Square(Coord[a][p] - q[a])
  BY <1>5
<1>9. QED
  BY <1>3, <1>4, <1>6, <1>7, <1>8, OverflowAssumption

\* A point beyond a cut is at least as far away as the cut.
LEMMA BeyondCut ==
    ASSUME NEW q \in Queries, NEW p \in Points, NEW a \in Axes, NEW t \in Int,
           IF q[a] - t < 0 THEN t <= Coord[a][p] ELSE Coord[a][p] <= t
    PROVE  Square(q[a] - t) \in Nat /\ Square(q[a] - t) <= SquaredDistance(q, p)
<1>1. q[a] \in Int /\ Coord[a][p] \in Int
  BY CoordAssumption, QueriesAssumption
<1> DEFINE x == IF q[a] - t < 0 THEN t - q[a] ELSE q[a] - t
           y == IF q[a] - t < 0 THEN Coord[a][p] - q[a] ELSE q[a] - Coord[a][p]
<1>2. x \in Nat /\ y \in Nat /\ x <= y
  BY <1>1
<1>3. x * x = Square(q[a] - t)
  BY <1>1 DEF Square
<1>4. y * y = Square(Coord[a][p] - q[a])
  BY <1>1 DEF Square
<1> HIDE DEF x, y
<1>5. x * x <= y * y /\ x * x \in Nat /\ y * y \in Nat
  BY <1>2, SquareUp
<1>6. Square(Coord[a][p] - q[a]) <= SquaredDistance(q, p) /\ SquaredDistance(q, p) \in Nat
  BY AlongAxis
<1>7. QED
  BY <1>3, <1>4, <1>5, <1>6

-----------------------------------------------------------------------------
(* The search.                                                             *)
-----------------------------------------------------------------------------
\* The points that a frame of the recursion has yet to visit.
Pending(f) ==
    IF LeafNode(f.node) THEN f.todo
    ELSE IF f.stage = "enter" THEN Subtree[f.node]
    ELSE Subtree[other_child(f.node)]

FrameSet == [node : Points, stage : {"enter", "scan", "best"}, todo : SUBSET Points]
FrameOK(f) ==
    /\ f \in FrameSet
    /\ f.node \in 0 .. node_count - 1
    /\ LeafNode(f.node) \/ f.stage \in {"enter", "best"}

\* Entries are points with their distances.
EntriesOK(res) ==
    /\ Buffer(res, query.k)
    /\ \A i \in 1 .. res.found :
          /\ res.indices[i] \in Points
          /\ res.distances[i] = SquaredDistance(query.q, res.indices[i])

IsPending(p, st) == \E m \in 1 .. Len(st) : p \in Pending(st[m])

\* No point is pending twice, or pending and taken; every point but those of X
\* is pending, taken or no closer than the worst entry.
Working(st, res, X) ==
    /\ EntriesOK(res)
    /\ st \in Seq(FrameSet) /\ \A m \in 1 .. Len(st) : FrameOK(st[m])
    /\ \A m, n \in 1 .. Len(st) : m # n => Pending(st[m]) \cap Pending(st[n]) = {}
    /\ \A m \in 1 .. Len(st) : Pending(st[m]) \cap TakenOf(res) = {}
    /\ \A p \in Points : \/ p \in X \/ p \in TakenOf(res) \/ IsPending(p, st)
                         \/ SquaredDistance(query.q, p) >= worst_distance(res)

\* A query is under way, has been answered, or stopped early.
Asked == /\ Size > 0 /\ Constructed
         /\ query \in [q : Queries, k : Neighbors, epsilon : Epsilons]
\* P is neither pending in st nor taken.
Apart(P, st, res) ==
    /\ P \cap TakenOf(res) = {}
    /\ \A m \in 1 .. Len(st) : P \cap Pending(st[m]) = {}

Stopped == stack = <<>> /\ fulfilled /\ EntriesOK(result)
SearchInv ==
    IF query = NoQuery THEN stack = <<>>
    ELSE Asked /\ (Working(stack, result, {}) \/ Stopped)

\* What a search finds in the tree.
LEMMA SearchedTree ==
    ASSUME IInv, TreeInv, Size > 0, Constructed
    PROVE  /\ root \in 0 .. node_count - 1 /\ Subtree[root] = Points
           /\ \A n \in 0 .. node_count - 1 :
                 /\ n \in Points /\ Subtree[n] \subseteq Points
                 /\ LeafNode(n) => Subtree[n] = indices[nodes[n].lr]
                 /\ ~LeafNode(n) =>
                       /\ nodes[n].left \in 0 .. node_count - 1
                       /\ nodes[n].right \in 0 .. node_count - 1
                       /\ Subtree[n] = Subtree[nodes[n].left] \cup Subtree[nodes[n].right]
                       /\ Separates(n, Subtree)
                       /\ nodes[n].proj \in Axes /\ nodes[n].thresh \in Int
<1>1. Root \in Ranges /\ pc[Root] = "done"
  BY SizeAssumption DEF Constructed, Root, Ranges
<1>2. \A r \in Claimed : Subtree[node_index[r]] = indices[r]
  BY <1>1, SubtreeReads, BelowCall
<1>3. TreeCorrect
  BY TreeBuilt
<1>4. Subtree[root] = Points
  BY <1>3 DEF TreeCorrect
<1>5. root \in 0 .. node_count - 1
  <2>1. root = node_index[Root] /\ Root \in Claimed
    BY <1>1 DEF TreeInv, Waits, Claimed
  <2>2. QED
    BY <2>1, NodesOf
<1>6. ASSUME NEW n \in 0 .. node_count - 1
      PROVE  /\ n \in Points /\ Subtree[n] \subseteq Points
             /\ LeafNode(n) => Subtree[n] = indices[nodes[n].lr]
             /\ ~LeafNode(n) =>
                   /\ nodes[n].left \in 0 .. node_count - 1
                   /\ nodes[n].right \in 0 .. node_count - 1
                   /\ Subtree[n] = Subtree[nodes[n].left] \cup Subtree[nodes[n].right]
                   /\ Separates(n, Subtree)
                   /\ nodes[n].proj \in Axes /\ nodes[n].thresh \in Int
  <2>1. PICK r \in Claimed : node_index[r] = n
    BY DEF TreeInv, Links
  <2>2. n \in Points /\ r \in Ranges
    BY <2>1, NodesOf
  <2>3. Subtree[n] \subseteq Points
    BY <1>2, <2>1, <2>2 DEF IInv, TypeOK
  <2>4. Reads(Subtree)
    BY <1>1, SubtreeReads
  <2>5. Subtree[n] = IF LeafNode(n) THEN indices[nodes[n].lr]
                     ELSE Subtree[nodes[n].left] \cup Subtree[nodes[n].right]
    <3> DEFINE sub == Subtree
    <3> HIDE DEF sub
    <3>1. Reads(sub)
      BY <2>4 DEF sub
    <3>2. sub[n] = IF LeafNode(n) THEN indices[nodes[n].lr]
                   ELSE sub[nodes[n].left] \cup sub[nodes[n].right]
      BY <2>2, <3>1 DEF Reads
    <3>3. QED
      BY <3>2 DEF sub
  <2>6. ASSUME ~LeafNode(n)
        PROVE  nodes[n].left \in 0 .. node_count - 1 /\ nodes[n].right \in 0 .. node_count - 1
    <3>1. /\ LeftHalf(r) \in Claimed /\ RightHalf(r) \in Claimed
          /\ nodes[n].left = node_index[LeftHalf(r)]
          /\ nodes[n].right = node_index[RightHalf(r)]
      BY <1>1, <2>1, <2>6, NodeOfCall
    <3>2. QED
      BY <3>1, NodesOf
  <2>7. LeafNode(n) \/ Separates(n, Subtree)
    BY <1>3 DEF TreeCorrect
  <2>8. nodes[n].proj \in Axes /\ nodes[n].thresh \in Int
    BY <2>2 DEF IInv, TypeOK, Node
  <2>9. QED
    BY <2>2, <2>3, <2>5, <2>6, <2>7, <2>8
<1>7. QED
  BY <1>4, <1>5, <1>6

-----------------------------------------------------------------------------
(* The stack of the recursion.                                             *)
-----------------------------------------------------------------------------
LEMMA StackTop ==
    ASSUME NEW S, NEW st \in Seq(S), st # <<>>
    PROVE  /\ Front(st) \in Seq(S) /\ Len(st) \in Nat \ {0} /\ Len(Front(st)) = Len(st) - 1
           /\ \A i \in 1 .. Len(Front(st)) : i \in 1 .. Len(st) /\ i # Len(st) /\ Front(st)[i] = st[i]
           /\ Last(st) = st[Len(st)] /\ Last(st) \in S
<1>1. Len(st) \in Nat \ {0}
  BY EmptySeq
<1>2. \A i \in 1 .. Len(st) - 1 : st[i] \in S
  BY <1>1, ElementOfSeq
<1>3. /\ SubSeq(st, 1, Len(st) - 1) \in Seq(S)
      /\ Len(SubSeq(st, 1, Len(st) - 1)) = IF 1 <= Len(st) - 1 THEN (Len(st) - 1) - 1 + 1 ELSE 0
      /\ \A i \in 1 .. (Len(st) - 1) - 1 + 1 : SubSeq(st, 1, Len(st) - 1)[i] = st[1 + i - 1]
  BY <1>1, <1>2, SubSeqProperties
<1>4. Len(Front(st)) = Len(st) - 1
  <2>1. Front(st) = SubSeq(st, 1, Len(st) - 1)
    BY DEF Front
  <2>2. Len(Front(st)) = IF 1 <= Len(st) - 1 THEN (Len(st) - 1) - 1 + 1 ELSE 0
    BY <1>3, <2>1
  <2>3. ASSUME NEW n \in Nat \ {0}, NEW l, l = IF 1 <= n - 1 THEN (n - 1) - 1 + 1 ELSE 0 PROVE l = n - 1
    BY <2>3
  <2>4. QED
    BY <1>1, <2>2, <2>3
<1>5. ASSUME NEW i \in 1 .. Len(Front(st))
      PROVE  i \in 1 .. Len(st) /\ i # Len(st) /\ Front(st)[i] = st[i]
  <2>1. i \in 1 .. (Len(st) - 1) - 1 + 1 /\ 1 + i - 1 = i
    BY <1>1, <1>4
  <2>2. QED
    BY <1>1, <1>3, <2>1 DEF Front
<1>6. Last(st) = st[Len(st)] /\ Last(st) \in S
  BY <1>1, ElementOfSeq DEF Last
<1>7. Front(st) \in Seq(S)
  BY <1>3 DEF Front
<1>8. QED
  BY <1>1, <1>4, <1>5, <1>6, <1>7

\* A frame that returns leaves its points to be accounted for.
LEMMA PopWorking ==
    ASSUME NEW st, NEW res, NEW X, Working(st, res, X), st # <<>>
    PROVE  /\ Working(Front(st), res, X \cup Pending(Last(st)))
           /\ FrameOK(Last(st))
           /\ Apart(Pending(Last(st)), Front(st), res)
<1> DEFINE fr == Front(st)
           top == Last(st)
<1>1. /\ fr \in Seq(FrameSet) /\ Len(st) \in Nat \ {0} /\ Len(fr) = Len(st) - 1
      /\ \A i \in 1 .. Len(fr) : i \in 1 .. Len(st) /\ i # Len(st) /\ fr[i] = st[i]
      /\ top = st[Len(st)]
  BY StackTop DEF Working
<1> HIDE DEF fr, top
<1>2. Len(st) \in 1 .. Len(st)
  BY <1>1
<1>3. FrameOK(top)
  BY <1>1, <1>2 DEF Working
<1>4. Apart(Pending(top), fr, res)
  BY <1>1, <1>2 DEF Working, Apart
<1>5. ASSUME NEW p \in Points
      PROVE  \/ p \in X \cup Pending(top) \/ p \in TakenOf(res) \/ IsPending(p, fr)
             \/ SquaredDistance(query.q, p) >= worst_distance(res)
  <2>1. CASE IsPending(p, st)
    <3>1. PICK m \in 1 .. Len(st) : p \in Pending(st[m])
      BY <2>1 DEF IsPending
    <3>2. CASE m = Len(st)
      BY <1>1, <3>1, <3>2
    <3>3. CASE m # Len(st)
      <4>1. m \in 1 .. Len(fr) /\ fr[m] = st[m]
        BY <1>1, <3>3
      <4>2. QED
        BY <3>1, <4>1 DEF IsPending
    <3>4. QED
      BY <3>2, <3>3
  <2>2. QED
    BY <2>1 DEF Working
<1>6. Working(fr, res, X \cup Pending(top))
  <2>1. \A m \in 1 .. Len(fr) : FrameOK(fr[m]) /\ Pending(fr[m]) \cap TakenOf(res) = {}
    BY <1>1 DEF Working
  <2>2. \A m, n \in 1 .. Len(fr) : m # n => Pending(fr[m]) \cap Pending(fr[n]) = {}
    BY <1>1 DEF Working
  <2>3. QED
    BY <1>1, <1>5, <2>1, <2>2 DEF Working
<1>7. QED
  BY <1>3, <1>4, <1>6 DEF fr, top

\* A frame that is entered takes its points over.
LEMMA PushWorking ==
    ASSUME NEW st, NEW res, NEW X, Working(st, res, X),
           NEW g, FrameOK(g), Apart(Pending(g), st, res)
    PROVE  Working(Append(st, g), res, X \ Pending(g))
<1> DEFINE up == Append(st, g)
<1>1. st \in Seq(FrameSet) /\ g \in FrameSet /\ Len(st) \in Nat
  BY LenProperties DEF Working, FrameOK
<1>2. /\ up \in Seq(FrameSet) /\ Len(up) = Len(st) + 1
      /\ \A i \in 1 .. Len(st) : up[i] = st[i]
      /\ up[Len(st) + 1] = g
  BY <1>1, AppendProperties
<1> HIDE DEF up
<1>3. ASSUME NEW m \in 1 .. Len(up)
      PROVE  (m \in 1 .. Len(st) /\ up[m] = st[m]) \/ (m = Len(st) + 1 /\ up[m] = g)
  BY <1>1, <1>2
<1>4. \A m \in 1 .. Len(up) : FrameOK(up[m]) /\ Pending(up[m]) \cap TakenOf(res) = {}
  BY <1>3 DEF Working, Apart
<1>5. ASSUME NEW m \in 1 .. Len(up), NEW n \in 1 .. Len(up), m # n
      PROVE  Pending(up[m]) \cap Pending(up[n]) = {}
  <2>1. CASE m = Len(st) + 1
    <3>1. n \in 1 .. Len(st) /\ up[n] = st[n] /\ up[m] = g
      BY <1>2, <1>3, <1>5, <2>1
    <3>2. QED
      BY <3>1 DEF Apart
  <2>2. CASE n = Len(st) + 1
    <3>1. m \in 1 .. Len(st) /\ up[m] = st[m] /\ up[n] = g
      BY <1>2, <1>3, <1>5, <2>2
    <3>2. QED
      BY <3>1 DEF Apart
  <2>3. CASE m \in 1 .. Len(st) /\ up[m] = st[m] /\ n \in 1 .. Len(st) /\ up[n] = st[n]
    BY <1>5, <2>3 DEF Working
  <2>4. QED
    BY <1>3, <2>1, <2>2, <2>3
<1>6. ASSUME NEW p \in Points
      PROVE  \/ p \in X \ Pending(g) \/ p \in TakenOf(res) \/ IsPending(p, up)
             \/ SquaredDistance(query.q, p) >= worst_distance(res)
  <2>1. CASE IsPending(p, st)
    <3>1. PICK m \in 1 .. Len(st) : p \in Pending(st[m])
      BY <2>1 DEF IsPending
    <3>2. m \in 1 .. Len(up) /\ up[m] = st[m]
      BY <1>1, <1>2
    <3>3. QED
      BY <3>1, <3>2 DEF IsPending
  <2>2. CASE p \in Pending(g)
    <3>1. Len(st) + 1 \in 1 .. Len(up)
      BY <1>1, <1>2
    <3>2. QED
      BY <1>2, <2>2, <3>1 DEF IsPending
  <2>3. QED
    BY <2>1, <2>2 DEF Working
<1>7. Working(up, res, X \ Pending(g))
  BY <1>2, <1>4, <1>5, <1>6 DEF Working
<1>8. QED
  BY <1>7 DEF up

\* Points at least as far away as the worst entry need no account.
LEMMA TooFar ==
    ASSUME NEW st, NEW res, NEW X, Working(st, res, X), NEW Y,
           \A p \in Points : p \in X => p \in Y \/ SquaredDistance(query.q, p) >= worst_distance(res)
    PROVE  Working(st, res, Y)
BY DEF Working

\* Pushing a point accounts for it.
LEMMA TakePoint ==
    ASSUME Asked, NEW st, NEW res, NEW X, Working(st, res, X),
           NEW p \in Points, Apart({p}, st, res),
           NEW s, s = push(res, p, SquaredDistance(query.q, p))
    PROVE  /\ Working(st, s, X \ {p})
           /\ TakenOf(s) \subseteq TakenOf(res) \cup {p}
<1> DEFINE d == SquaredDistance(query.q, p)
           k == query.k
<1>1. query.q \in Queries /\ k \in Nat \ {0}
  BY NeighborsAssumption DEF Asked
<1>2. \A z \in Points : SquaredDistance(query.q, z) \in Nat
  BY <1>1, AlongAxis
<1>3. d \in Nat /\ d < MaxDistance /\ p \in Int
  BY <1>1, AlongAxis, SizeAssumption DEF Points
<1>4. EntriesOK(res) /\ Buffer(res, k)
  BY DEF Working, EntriesOK
<1>5. p \notin TakenOf(res)
  BY DEF Apart
<1> HIDE DEF d, k
<1>6. s = push(res, p, d)
  BY DEF d
<1>7. /\ Buffer(s, k)
      /\ worst_distance(s) <= worst_distance(res)
      /\ \A i \in 1 .. s.found :
            \/ s.indices[i] = p /\ s.distances[i] = d
            \/ \E j \in 1 .. res.found : s.indices[i] = res.indices[j] /\ s.distances[i] = res.distances[j]
      /\ \A j \in 1 .. res.found :
            res.indices[j] \in TakenOf(s) \/ res.distances[j] >= worst_distance(s)
      /\ p \in TakenOf(s) \/ d >= worst_distance(s)
  BY <1>1, <1>3, <1>4, <1>5, <1>6, PushBuffer
<1>8. worst_distance(s) \in Int /\ worst_distance(res) \in Int
  <2>1. ASSUME NEW r, Buffer(r, k) PROVE worst_distance(r) \in Int
    <3>1. worst_distance(r) = r.distances[k] /\ k \in 1 .. k
      BY <1>1, <2>1, WorstOf
    <3>2. r.distances[k] \in 0 .. MaxDistance
      BY <2>1, <3>1 DEF Buffer
    <3>3. QED
      BY <3>1, <3>2, DistanceAssumption
  <2>2. QED
    BY <1>4, <1>7, <2>1
<1>9. EntriesOK(s)
  <2>1. ASSUME NEW i \in 1 .. s.found
        PROVE  s.indices[i] \in Points /\ s.distances[i] = SquaredDistance(query.q, s.indices[i])
    <3>1. CASE s.indices[i] = p /\ s.distances[i] = d
      BY <3>1 DEF d
    <3>2. CASE \E j \in 1 .. res.found : s.indices[i] = res.indices[j] /\ s.distances[i] = res.distances[j]
      BY <1>4, <3>2 DEF EntriesOK
    <3>3. QED
      BY <1>7, <3>1, <3>2
  <2>2. QED
    BY <1>7, <2>1 DEF EntriesOK, k
<1>10. TakenOf(s) \subseteq TakenOf(res) \cup {p}
  <2> SUFFICES ASSUME NEW i \in 1 .. s.found PROVE s.indices[i] \in TakenOf(res) \cup {p}
    BY DEF TakenOf
  <2>1. QED
    BY <1>7 DEF TakenOf
<1>11. \A m \in 1 .. Len(st) : Pending(st[m]) \cap TakenOf(s) = {}
  BY <1>10 DEF Working, Apart
<1>12. ASSUME NEW z \in Points
       PROVE  \/ z \in X \ {p} \/ z \in TakenOf(s) \/ IsPending(z, st)
              \/ SquaredDistance(query.q, z) >= worst_distance(s)
  <2>1. SquaredDistance(query.q, z) \in Nat
    BY <1>2
  <2>2. CASE z = p
    BY <1>7, <2>2 DEF d
  <2>3. CASE z \in TakenOf(res)
    <3>1. PICK j \in 1 .. res.found : z = res.indices[j]
      BY <2>3 DEF TakenOf
    <3>2. res.distances[j] = SquaredDistance(query.q, z)
      BY <1>4, <3>1 DEF EntriesOK
    <3>3. QED
      BY <1>7, <3>1, <3>2
  <2>4. CASE SquaredDistance(query.q, z) >= worst_distance(res)
    BY <1>7, <1>8, <2>1, <2>4
  <2>5. QED
    BY <2>2, <2>3, <2>4 DEF Working
<1>13. Working(st, s, X \ {p})
  BY <1>9, <1>11, <1>12 DEF Working
<1>14. QED
  BY <1>10, <1>13

-----------------------------------------------------------------------------
(* Every step keeps the account.                                           *)
-----------------------------------------------------------------------------
\* The account depends on nothing that a step of the search changes but the
\* stack and the buffer.
LEMMA AccountKept ==
    ASSUME Asked, query # NoQuery, UNCHANGED <<vars, query>>, Working(stack', result', {})
    PROVE  SearchInv'
<1>1. /\ pc' = pc /\ nodes' = nodes /\ indices' = indices /\ node_count' = node_count /\ query' = query
  BY DEF vars
<1>2. Asked' /\ query' # NoQuery
  BY <1>1 DEF Asked, Constructed
<1>3. Subtree' = Subtree
  BY <1>1 DEF Subtree, LeafNode
<1>4. EntriesOK(result)'
  <2>1. EntriesOK(result')
    BY DEF Working
  <2>2. QED
    BY <1>1, <2>1 DEF EntriesOK
<1>5. (stack \in Seq(FrameSet) /\ \A m \in 1 .. Len(stack) : FrameOK(stack[m]))'
  <2>1. stack' \in Seq(FrameSet) /\ \A m \in 1 .. Len(stack') : FrameOK(stack'[m])
    BY DEF Working
  <2>2. ASSUME NEW m \in 1 .. Len(stack') PROVE FrameOK(stack[m])'
    <3>1. FrameOK(stack'[m])
      BY <2>1
    <3>2. QED
      BY <1>1, <3>1 DEF FrameOK, LeafNode
  <2>3. QED
    BY <2>1, <2>2
<1>6. (\A m, n \in 1 .. Len(stack) : m # n => Pending(stack[m]) \cap Pending(stack[n]) = {})'
  <2>1. \A m, n \in 1 .. Len(stack') : m # n => Pending(stack'[m]) \cap Pending(stack'[n]) = {}
    BY DEF Working
  <2>2. QED
    BY <1>1, <1>3, <2>1 DEF Pending, LeafNode, other_child, Difference
<1>7. (\A m \in 1 .. Len(stack) : Pending(stack[m]) \cap TakenOf(result) = {})'
  <2>1. \A m \in 1 .. Len(stack') : Pending(stack'[m]) \cap TakenOf(result') = {}
    BY DEF Working
  <2>2. QED
    BY <1>1, <1>3, <2>1 DEF Pending, LeafNode, other_child, Difference
<1>8. (\A p \in Points : \/ p \in TakenOf(result) \/ IsPending(p, stack)
                        \/ SquaredDistance(query.q, p) >= worst_distance(result))'
  <2>1. \A p \in Points : \/ p \in TakenOf(result') \/ IsPending(p, stack')
                          \/ SquaredDistance(query.q, p) >= worst_distance(result')
    BY DEF Working
  <2>2. QED
    BY <1>1, <1>3, <2>1 DEF IsPending, Pending, LeafNode, other_child, Difference
<1>9. Working(stack, result, {})'
  BY <1>4, <1>5, <1>6, <1>7, <1>8 DEF Working
<1>10. QED
  BY <1>2, <1>9 DEF SearchInv, NoQuery

LEMMA Underway ==
    ASSUME IInv, TreeInv, SearchInv, stack # <<>>
    PROVE  /\ Asked /\ query # NoQuery
           /\ Top = Last(stack) /\ FrameOK(Top) /\ Front(stack) \in Seq(FrameSet)
           /\ Working(Front(stack), result, Pending(Top))
           /\ Apart(Pending(Top), Front(stack), result)
<1>1. Asked /\ query # NoQuery /\ Working(stack, result, {})
  BY DEF SearchInv, Stopped
<1>2. /\ Working(Front(stack), result, {} \cup Pending(Last(stack)))
      /\ FrameOK(Last(stack))
      /\ Apart(Pending(Last(stack)), Front(stack), result)
  BY <1>1, PopWorking
<1>3. {} \cup Pending(Last(stack)) = Pending(Last(stack))
  OBVIOUS
<1>4. QED
  BY <1>1, <1>2, <1>3 DEF Top, Working

\* A frame just entered has to visit the whole subtree of its node.
LEMMA FrameEntered ==
    ASSUME IInv, TreeInv, Size > 0, Constructed, NEW n \in 0 .. node_count - 1
    PROVE  FrameOK(Frame(n)) /\ Pending(Frame(n)) = Subtree[n]
<1>1. n \in Points /\ Subtree[n] \subseteq Points /\ (LeafNode(n) => Subtree[n] = indices[nodes[n].lr])
  BY SearchedTree
<1>2. Frame(n).node = n /\ Frame(n).stage = "enter"
  BY DEF Frame
<1>3. Frame(n).todo = IF LeafNode(n) THEN indices[nodes[n].lr] ELSE {}
  BY DEF Frame
<1>4. Frame(n) \in FrameSet
  <2>1. (IF LeafNode(n) THEN indices[nodes[n].lr] ELSE {}) \subseteq Points
    BY <1>1
  <2>2. QED
    BY <1>1, <2>1 DEF Frame, FrameSet
<1>5. FrameOK(Frame(n))
  BY <1>2, <1>4 DEF FrameOK
<1>6. Pending(Frame(n)) = Subtree[n]
  BY <1>1, <1>2, <1>3 DEF Pending
<1>7. QED
  BY <1>5, <1>6

LEMMA ApartAppend ==
    ASSUME NEW st \in Seq(FrameSet), NEW g \in FrameSet, NEW res, NEW P, Apart(P, st, res), P \cap Pending(g) = {}
    PROVE  Apart(P, Append(st, g), res)
<1> DEFINE up == Append(st, g)
<1>1. /\ Len(st) \in Nat /\ Len(up) = Len(st) + 1
      /\ \A i \in 1 .. Len(st) : up[i] = st[i]
      /\ up[Len(st) + 1] = g
  BY AppendProperties, LenProperties
<1> HIDE DEF up
<1>2. ASSUME NEW m \in 1 .. Len(up) PROVE P \cap Pending(up[m]) = {}
  <2>1. CASE m \in 1 .. Len(st)
    BY <1>1, <2>1 DEF Apart
  <2>2. CASE m \notin 1 .. Len(st)
    BY <1>1, <2>2
  <2>3. QED
    BY <2>1, <2>2
<1>3. QED
  BY <1>2 DEF Apart, up

LEMMA ScanLeafKeeps == IInv /\ TreeInv /\ SearchInv /\ ScanLeaf => SearchInv'
<1> SUFFICES ASSUME IInv, TreeInv, SearchInv, stack # <<>>, LeafNode(Top.node), Top.todo # {},
                    NEW p \in Top.todo,
                    result' = push(result, p, SquaredDistance(query.q, p)),
                    stack' = Replaced("scan", Top.todo \ {p}),
                    UNCHANGED <<vars, query>>
             PROVE  SearchInv'
  BY DEF ScanLeaf
<1> DEFINE fr == Front(stack)
           g == [Top EXCEPT !.stage = "scan", !.todo = Top.todo \ {p}]
<1>1. /\ Asked /\ query # NoQuery /\ FrameOK(Top) /\ fr \in Seq(FrameSet)
      /\ Working(fr, result, Pending(Top)) /\ Apart(Pending(Top), fr, result)
  BY Underway
<1>2. Pending(Top) = Top.todo
  BY DEF Pending
<1>3. Top \in FrameSet /\ Top.todo \subseteq Points
  BY <1>1 DEF FrameOK, FrameSet
<1>4. g \in FrameSet /\ g.node = Top.node /\ g.stage = "scan" /\ g.todo = Top.todo \ {p}
  BY <1>3 DEF FrameSet
<1>5. stack' = Append(fr, g)
  BY DEF Replaced
<1> HIDE DEF fr, g
<1>6. Pending(g) = Top.todo \ {p}
  BY <1>4 DEF Pending
<1>7. Apart({p}, fr, result)
  BY <1>1, <1>2 DEF Apart
<1>8. Working(fr, result', Top.todo \ {p}) /\ TakenOf(result') \subseteq TakenOf(result) \cup {p}
  <2>1. Working(fr, result, Top.todo) /\ p \in Points /\ Asked
    BY <1>1, <1>2, <1>3
  <2> DEFINE s == push(result, p, SquaredDistance(query.q, p))
  <2>2. s = push(result, p, SquaredDistance(query.q, p)) /\ result' = s
    OBVIOUS
  <2> HIDE DEF s
  <2>3. Working(fr, s, Top.todo \ {p}) /\ TakenOf(s) \subseteq TakenOf(result) \cup {p}
    BY <1>7, <2>1, <2>2, TakePoint
  <2>4. QED
    BY <2>2, <2>3
<1>9. Apart(Pending(g), fr, result')
  BY <1>1, <1>2, <1>6, <1>8 DEF Apart
<1>10. FrameOK(g)
  BY <1>1, <1>4 DEF FrameOK
<1>11. Working(Append(fr, g), result', (Top.todo \ {p}) \ Pending(g))
  BY <1>8, <1>9, <1>10, PushWorking
<1>12. (Top.todo \ {p}) \ Pending(g) = {}
  BY <1>6
<1>13. QED
  BY <1>1, <1>5, <1>11, <1>12, AccountKept

LEMMA LeaveLeafKeeps == IInv /\ TreeInv /\ SearchInv /\ LeaveLeaf => SearchInv'
<1> SUFFICES ASSUME IInv, TreeInv, SearchInv, LeaveLeaf PROVE SearchInv'
  OBVIOUS
<1>1. /\ stack # <<>> /\ LeafNode(Top.node) /\ Top.todo = {}
      /\ stack' = IF fulfilled THEN <<>> ELSE Front(stack)
      /\ UNCHANGED <<vars, query>> /\ result' = result
  BY DEF LeaveLeaf
<1>2. Asked /\ query # NoQuery /\ Working(Front(stack), result, Pending(Top))
  BY <1>1, Underway
<1>3. Pending(Top) = {}
  BY <1>1 DEF Pending
<1>4. CASE ~fulfilled
  BY <1>1, <1>2, <1>3, <1>4, AccountKept
<1>5. CASE fulfilled
  <2>1. EntriesOK(result)' /\ fulfilled' /\ query' = query
    BY <1>1, <1>2, <1>5 DEF Working, EntriesOK, fulfilled
  <2>2. Asked'
    BY <1>1, <1>2 DEF Asked, Constructed, vars
  <2>3. QED
    BY <1>1, <1>2, <1>5, <2>1, <2>2 DEF SearchInv, Stopped, NoQuery
<1>6. QED
  BY <1>4, <1>5

\* An inner node's subtree is divided between its best and its other child.
LEMMA Children ==
    ASSUME IInv, TreeInv, Asked, NEW n \in 0 .. node_count - 1, ~LeafNode(n)
    PROVE  /\ best_child(n) \in 0 .. node_count - 1 /\ other_child(n) \in 0 .. node_count - 1
           /\ Subtree[n] = Subtree[best_child(n)] \cup Subtree[other_child(n)]
           /\ Subtree[best_child(n)] \cap Subtree[other_child(n)] = {}
           /\ Subtree[other_child(n)] \subseteq Points
           /\ \A p \in Subtree[other_child(n)] :
                 Square(Difference(n)) <= SquaredDistance(query.q, p)
           /\ Square(Difference(n)) \in Nat
<1> DEFINE l == nodes[n].left
           r == nodes[n].right
           a == nodes[n].proj
           t == nodes[n].thresh
<1>1. /\ \A m \in 0 .. node_count - 1 : Subtree[m] \subseteq Points
      /\ l \in 0 .. node_count - 1 /\ r \in 0 .. node_count - 1
      /\ Subtree[n] = Subtree[l] \cup Subtree[r]
      /\ Separates(n, Subtree)
      /\ a \in Axes /\ t \in Int
  BY SearchedTree DEF Asked
<1>2. /\ Subtree[l] \cap Subtree[r] = {}
      /\ \A p \in Subtree[l] : Coord[a][p] <= t
      /\ \A p \in Subtree[r] : t <= Coord[a][p]
  BY <1>1 DEF Separates
<1>3. Difference(n) = query.q[a] - t
  BY DEF Difference
<1>4. \/ Difference(n) < 0 /\ best_child(n) = l /\ other_child(n) = r
      \/ ~(Difference(n) < 0) /\ best_child(n) = r /\ other_child(n) = l
  BY DEF best_child, other_child
<1>5. query.q \in Queries
  BY DEF Asked
<1> HIDE DEF l, r, a, t
<1>6. Subtree[other_child(n)] \subseteq Points
  BY <1>1, <1>4
<1>7. ASSUME NEW p \in Subtree[other_child(n)]
      PROVE  Square(Difference(n)) <= SquaredDistance(query.q, p)
  <2>1. p \in Points
    BY <1>6
  <2>2. IF query.q[a] - t < 0 THEN t <= Coord[a][p] ELSE Coord[a][p] <= t
    BY <1>2, <1>3, <1>4
  <2>3. QED
    BY <1>1, <1>3, <1>5, <2>1, <2>2, BeyondCut
<1>8. Square(Difference(n)) \in Nat
  <2>1. query.q[a] - t \in Int
    BY <1>1, <1>5, QueriesAssumption
  <2>2. QED
    BY <1>3, <2>1, SquareType
<1>9. QED
  BY <1>1, <1>2, <1>4, <1>6, <1>7, <1>8

LEMMA VisitBestKeeps == IInv /\ TreeInv /\ SearchInv /\ VisitBest => SearchInv'
<1> SUFFICES ASSUME IInv, TreeInv, SearchInv, VisitBest PROVE SearchInv'
  OBVIOUS
<1> DEFINE fr == Front(stack)
           n == Top.node
           g == [Top EXCEPT !.stage = "best", !.todo = {}]
           h == Frame(best_child(n))
<1>1. /\ stack # <<>> /\ ~LeafNode(n) /\ Top.stage = "enter"
      /\ stack' = Append(Append(fr, g), h)
      /\ UNCHANGED <<vars, query>> /\ result' = result
  BY DEF VisitBest, Replaced
<1>2. /\ Asked /\ query # NoQuery /\ FrameOK(Top) /\ fr \in Seq(FrameSet)
      /\ Working(fr, result, Pending(Top)) /\ Apart(Pending(Top), fr, result)
  BY <1>1, Underway
<1>3. Top \in FrameSet /\ n \in 0 .. node_count - 1
  BY <1>2 DEF FrameOK
<1>4. g \in FrameSet /\ g.node = n /\ g.stage = "best"
  <2>1. Top \in FrameSet
    BY <1>3
  <2>2. QED
    BY <2>1 DEF FrameSet
<1>5. Pending(Top) = Subtree[n]
  BY <1>1 DEF Pending
<1> HIDE DEF fr, n, g, h
<1>6. Pending(g) = Subtree[other_child(n)] /\ FrameOK(g)
  BY <1>1, <1>3, <1>4 DEF Pending, FrameOK
<1>7. /\ best_child(n) \in 0 .. node_count - 1
      /\ Subtree[n] = Subtree[best_child(n)] \cup Subtree[other_child(n)]
      /\ Subtree[best_child(n)] \cap Subtree[other_child(n)] = {}
  BY <1>1, <1>2, <1>3, Children
<1>8. FrameOK(h) /\ Pending(h) = Subtree[best_child(n)]
  BY <1>2, <1>7, FrameEntered DEF h, Asked
<1>9. Apart(Pending(g), fr, result) /\ Apart(Pending(h), fr, result) /\ Pending(h) \cap Pending(g) = {}
  BY <1>2, <1>5, <1>6, <1>7, <1>8 DEF Apart
<1>10. Working(Append(fr, g), result, Pending(Top) \ Pending(g))
  BY <1>2, <1>6, <1>9, PushWorking
<1>11. Apart(Pending(h), Append(fr, g), result)
  BY <1>2, <1>4, <1>9, ApartAppend
<1>12. Working(Append(Append(fr, g), h), result, (Pending(Top) \ Pending(g)) \ Pending(h))
  BY <1>8, <1>10, <1>11, PushWorking
<1>13. (Pending(Top) \ Pending(g)) \ Pending(h) = {}
  BY <1>5, <1>6, <1>7, <1>8
<1>14. QED
  BY <1>1, <1>2, <1>12, <1>13, AccountKept

\* What the two ends of a visit have in common.
LEMMA AtBest ==
    ASSUME IInv, TreeInv, SearchInv, stack # <<>>, ~LeafNode(Top.node), Top.stage = "best"
    PROVE  /\ Asked /\ query # NoQuery /\ Top.node \in 0 .. node_count - 1
           /\ Working(Front(stack), result, Subtree[other_child(Top.node)])
           /\ Apart(Subtree[other_child(Top.node)], Front(stack), result)
<1>1. /\ Asked /\ query # NoQuery /\ FrameOK(Top)
      /\ Working(Front(stack), result, Pending(Top)) /\ Apart(Pending(Top), Front(stack), result)
  BY Underway
<1>2. Pending(Top) = Subtree[other_child(Top.node)]
  BY DEF Pending
<1>3. Top.node \in 0 .. node_count - 1
  BY <1>1 DEF FrameOK
<1>4. QED
  BY <1>1, <1>2, <1>3

LEMMA VisitOtherKeeps == IInv /\ TreeInv /\ SearchInv /\ VisitOther => SearchInv'
<1> SUFFICES ASSUME IInv, TreeInv, SearchInv, VisitOther PROVE SearchInv'
  OBVIOUS
<1> DEFINE n == Top.node
           h == Frame(other_child(n))
<1>1. /\ stack # <<>> /\ ~LeafNode(n) /\ Top.stage = "best"
      /\ stack' = Append(Front(stack), h)
      /\ UNCHANGED <<vars, query>> /\ result' = result
  BY DEF VisitOther
<1>2. /\ Asked /\ query # NoQuery /\ n \in 0 .. node_count - 1
      /\ Working(Front(stack), result, Subtree[other_child(n)])
      /\ Apart(Subtree[other_child(n)], Front(stack), result)
  BY <1>1, AtBest
<1> HIDE DEF n, h
<1>3. other_child(n) \in 0 .. node_count - 1
  BY <1>1, <1>2, Children
<1>4. FrameOK(h) /\ Pending(h) = Subtree[other_child(n)]
  BY <1>2, <1>3, FrameEntered DEF h, Asked
<1>5. Working(Append(Front(stack), h), result, Subtree[other_child(n)] \ Pending(h))
  BY <1>2, <1>4, PushWorking
<1>6. Subtree[other_child(n)] \ Pending(h) = {}
  BY <1>4
<1>7. QED
  BY <1>1, <1>2, <1>5, <1>6, AccountKept

\* Pruning loses nothing: the points beyond the cut are at least as far away
\* as the cut, and the worst entry no farther.
LEMMA PruneOtherKeeps == IInv /\ TreeInv /\ SearchInv /\ PruneOther => SearchInv'
<1> SUFFICES ASSUME IInv, TreeInv, SearchInv, PruneOther PROVE SearchInv'
  OBVIOUS
<1> DEFINE n == Top.node
           w == worst_distance(result)
<1>1. /\ stack # <<>> /\ ~LeafNode(n) /\ Top.stage = "best"
      /\ ~(w > cut_sq_dist(n))
      /\ stack' = Front(stack)
      /\ UNCHANGED <<vars, query>> /\ result' = result
  BY DEF PruneOther
<1>2. /\ Asked /\ query # NoQuery /\ n \in 0 .. node_count - 1
      /\ Working(Front(stack), result, Subtree[other_child(n)])
  BY <1>1, AtBest
<1>3. w \in Int
  <2>1. query.k \in Nat \ {0} /\ Buffer(result, query.k)
    BY <1>2, NeighborsAssumption DEF Asked, Working, EntriesOK
  <2>2. w = result.distances[query.k] /\ query.k \in 1 .. query.k
    BY <2>1, WorstOf
  <2>3. result.distances[query.k] \in 0 .. MaxDistance
    BY <2>1, <2>2 DEF Buffer
  <2>4. QED
    BY <2>2, <2>3, DistanceAssumption
<1>4. /\ \A p \in Subtree[other_child(n)] : Square(Difference(n)) <= SquaredDistance(query.q, p)
      /\ Square(Difference(n)) \in Nat
  BY <1>1, <1>2, Children
<1>5. query.q \in Queries
  BY <1>2 DEF Asked
<1> HIDE DEF n, w
<1>6. \A p \in Points : SquaredDistance(query.q, p) \in Nat
  BY <1>5, AlongAxis
<1>7. w <= Square(Difference(n))
  BY <1>1, <1>3, <1>4 DEF cut_sq_dist
<1>8. ASSUME NEW p \in Points, p \in Subtree[other_child(n)]
      PROVE  SquaredDistance(query.q, p) >= w
  <2>1. SquaredDistance(query.q, p) \in Nat /\ Square(Difference(n)) <= SquaredDistance(query.q, p)
    BY <1>4, <1>6, <1>8
  <2>2. QED
    BY <1>3, <1>4, <1>7, <2>1
<1>9. Working(Front(stack), result, {})
  BY <1>2, <1>8, TooFar DEF w
<1>10. QED
  BY <1>1, <1>2, <1>9, AccountKept

LEMMA StartQueryKeeps == IInv /\ TreeInv /\ SearchInv /\ StartQuery => SearchInv'
<1> SUFFICES ASSUME IInv, TreeInv, Constructed, Size > 0,
                    NEW q \in Queries, NEW k \in Neighbors, NEW e \in Epsilons,
                    query' = [q |-> q, k |-> k, epsilon |-> e],
                    result' = EmptyResult(k), stack' = <<Frame(root)>>, UNCHANGED vars
             PROVE  SearchInv'
  BY DEF StartQuery
<1> DEFINE f == Frame(root)
<1>1. /\ pc' = pc /\ nodes' = nodes /\ indices' = indices /\ node_count' = node_count
  BY DEF vars
<1>2. Asked' /\ query' # NoQuery /\ query'.k = k /\ k \in Nat \ {0}
  <2>1. k \in Nat \ {0}
    BY NeighborsAssumption
  <2>2. query' \in [q : Queries, k : Neighbors, epsilon : Epsilons] /\ query'.k = k
    OBVIOUS
  <2>3. query' # NoQuery
    BY <2>1, <2>2 DEF NoQuery
  <2>4. QED
    BY <1>1, <2>1, <2>2, <2>3 DEF Asked, Constructed
<1>3. Subtree' = Subtree
  BY <1>1 DEF Subtree, LeafNode
<1>4. FrameOK(f) /\ Pending(f) = Points
  BY SearchedTree, FrameEntered
<1>5. Buffer(EmptyResult(k), k) /\ EmptyResult(k).found = 0
  BY <1>2, EmptyBuffer
<1>6. EntriesOK(result)' /\ TakenOf(result)' = {}
  BY <1>2, <1>5 DEF EntriesOK, TakenOf
<1> HIDE DEF f
<1>7. stack' \in Seq(FrameSet) /\ Len(stack') = 1 /\ stack'[1] = f
  BY <1>4 DEF FrameOK, f
<1>8. (\A m \in 1 .. Len(stack) : FrameOK(stack[m]))'
  BY <1>1, <1>4, <1>7 DEF FrameOK, LeafNode
<1>9. (\A m, n \in 1 .. Len(stack) : m # n => Pending(stack[m]) \cap Pending(stack[n]) = {})'
  BY <1>7
<1>10. \A p \in Points : p \in Pending(f)
  BY <1>4
<1>11. (\A p \in Points : IsPending(p, stack))'
  <2>1. 1 \in 1 .. Len(stack')
    BY <1>7
  <2>2. (\A p \in Points : p \in Pending(stack[1]))'
    <3>1. LeafNode(f.node) \/ f.stage = "enter"
      BY <1>4, SearchedTree DEF f, Frame
    <3>2. QED
      BY <1>1, <1>3, <1>7, <1>10, <3>1 DEF Pending, LeafNode
  <2>3. QED
    BY <2>1, <2>2 DEF IsPending
<1>12. Working(stack, result, {})'
  BY <1>6, <1>7, <1>8, <1>9, <1>11 DEF Working
<1>13. QED
  BY <1>2, <1>12 DEF SearchInv, NoQuery

\* Nothing of the build is left to run once a query has been asked.
LEMMA BuildStepKeeps == IInv /\ TreeInv /\ SearchInv /\ BuildStep => SearchInv'
<1> SUFFICES ASSUME IInv, TreeInv, SearchInv, BuildStep PROVE SearchInv'
  OBVIOUS
<1>1. stack' = stack /\ query' = query /\ (FinishBuild \/ \E r \in Ranges : Step(r))
  BY DEF BuildStep, searchVars
<1>2. CASE query = NoQuery
  BY <1>1, <1>2 DEF SearchInv, NoQuery
<1>3. CASE query # NoQuery
  <2>1. Asked /\ Root \in Ranges /\ pc[Root] = "done"
    BY <1>3, SizeAssumption DEF SearchInv, Asked, Constructed, Root, Ranges
  <2>2. \A r \in Ranges : pc[r] \in {"none", "done"}
    BY <2>1, AllReturned DEF Started
  <2>3. CASE FinishBuild
    BY <2>1, <2>3 DEF FinishBuild
  <2>4. CASE \E r \in Ranges : Step(r)
    BY <2>2, <2>4 DEF Step, CreateNode, WriteLeaf, Partition, AssignLeft, AssignRight, TaskWait
  <2>5. QED
    BY <1>1, <2>3, <2>4
<1>4. QED
  BY <1>2, <1>3

LEMMA UnchangedKeeps == SearchInv /\ UNCHANGED allVars => SearchInv'
<1> SUFFICES ASSUME SearchInv, UNCHANGED allVars PROVE SearchInv'
  OBVIOUS
<1>1. UNCHANGED vars /\ query' = query /\ stack' = stack /\ result' = result
  BY DEF allVars, searchVars
<1>2. CASE query = NoQuery
  BY <1>1, <1>2 DEF SearchInv, NoQuery
<1>3. CASE query # NoQuery /\ Working(stack, result, {})
  BY <1>1, <1>3, AccountKept DEF SearchInv
<1>4. CASE query # NoQuery /\ Stopped
  <2>1. Stopped'
    BY <1>1, <1>4 DEF Stopped, EntriesOK, fulfilled
  <2>2. Asked'
    BY <1>1, <1>4 DEF SearchInv, Asked, Constructed, vars
  <2>3. QED
    BY <1>1, <1>4, <2>1, <2>2 DEF SearchInv, NoQuery
<1>5. QED
  BY <1>2, <1>3, <1>4 DEF SearchInv

\* The build goes on as it would without the search.
LEMMA BuildsOn == SearchSpec => Spec
<1>1. InitSearch => Init
  BY DEF InitSearch
<1>2. [SearchNext]_allVars => [Next]_vars
  <2> SUFFICES ASSUME [SearchNext]_allVars PROVE [Next]_vars
    OBVIOUS
  <2>1. CASE BuildStep
    BY <2>1 DEF BuildStep, Next
  <2>2. CASE StartQuery
    BY <2>2 DEF StartQuery
  <2>3. CASE SearchStep
    BY <2>3 DEF SearchStep, ScanLeaf, LeaveLeaf, VisitBest, VisitOther, PruneOther
  <2>4. CASE UNCHANGED allVars
    BY <2>4 DEF allVars
  <2>5. QED
    BY <2>1, <2>2, <2>3, <2>4 DEF SearchNext
<1>3. QED
  BY <1>1, <1>2, PTL DEF SearchSpec, Spec

\* At every moment of a query, each point is accounted for.
THEOREM SearchInvariance == SearchSpec => []SearchInv
<1>1. InitSearch => SearchInv
  BY DEF InitSearch, SearchInv
<1>2. IInv /\ TreeInv /\ SearchInv /\ [SearchNext]_allVars => SearchInv'
  <2> SUFFICES ASSUME IInv, TreeInv, SearchInv, [SearchNext]_allVars PROVE SearchInv'
    OBVIOUS
  <2>1. CASE BuildStep
    BY <2>1, BuildStepKeeps
  <2>2. CASE StartQuery
    BY <2>2, StartQueryKeeps
  <2>3. CASE SearchStep
    BY <2>3, ScanLeafKeeps, LeaveLeafKeeps, VisitBestKeeps, VisitOtherKeeps, PruneOtherKeeps DEF SearchStep
  <2>4. CASE UNCHANGED allVars
    BY <2>4, UnchangedKeeps
  <2>5. QED
    BY <2>1, <2>2, <2>3, <2>4 DEF SearchNext
<1>3. QED
  BY <1>1, <1>2, BuildsOn, TreeInvariance, PTL DEF SearchSpec

-----------------------------------------------------------------------------
(* What an answer is worth.                                                *)
-----------------------------------------------------------------------------
LEMMA AtMost ==
    ASSUME NEW m \in Nat, NEW f, NEW S, \A x \in S : \E j \in 1 .. m : f[j] = x
    PROVE  IsFiniteSet(S) /\ Cardinality(S) <= m
<1> DEFINE at == [x \in S |-> CHOOSE j \in 1 .. m : f[j] = x]
<1>1. \A x \in S : at[x] \in 1 .. m /\ f[at[x]] = x
  OBVIOUS
<1>2. at \in [S -> 1 .. m]
  BY <1>1
<1> HIDE DEF at
<1>3. at \in Injection(S, 1 .. m)
  BY <1>1, <1>2 DEF Injection, IsInjective
<1>4. IsFiniteSet(1 .. m) /\ Cardinality(1 .. m) = m
  BY FS_Interval
<1>5. QED
  BY <1>3, <1>4, FS_Injection

LEMMA AtLeast ==
    ASSUME NEW m \in Nat, NEW f, NEW S, IsFiniteSet(S),
           \A j \in 1 .. m : f[j] \in S,
           \A i, j \in 1 .. m : i # j => f[i] # f[j]
    PROVE  m <= Cardinality(S)
<1> DEFINE g == [j \in 1 .. m |-> f[j]]
<1>1. g \in Injection(1 .. m, S)
  BY DEF Injection, IsInjective
<1>2. Cardinality(1 .. m) = m
  BY FS_Interval
<1>3. Cardinality(1 .. m) <= Cardinality(S)
  BY <1>1, FS_Injection
<1>4. QED
  BY <1>2, <1>3

LEMMA LesserOf ==
    ASSUME NEW a \in Nat, NEW b \in Nat, NEW m \in Nat, m <= a, m <= b, m = a \/ m = b
    PROVE  Min({a, b}) = m
<1>1. \A x, y \in Nat : x <= y /\ y <= x => x = y
  OBVIOUS
<1>2. m \in {a, b} /\ \A y \in {a, b} : m <= y
  OBVIOUS
<1>3. \A x \in {a, b} : (\A y \in {a, b} : x <= y) => x = m
  BY <1>1, <1>2
<1>4. QED
  BY <1>2, <1>3 DEF Min

\* With nothing pending, the buffer holds the nearest points.
LEMMA AllAccounted ==
    ASSUME Asked, EntriesOK(result),
           \A p \in Points : \/ p \in TakenOf(result)
                             \/ SquaredDistance(query.q, p) >= worst_distance(result)
    PROVE  AreNearest(query.q, result.distances) /\ result.found = Min({query.k, Size})
<1> DEFINE n == result.found
           k == query.k
           ds == result.distances
           is == result.indices
           w == worst_distance(result)
           dist(p) == SquaredDistance(query.q, p)
<1>1. k \in Nat \ {0} /\ query.q \in Queries
  BY NeighborsAssumption DEF Asked
<1>2. \A p \in Points : dist(p) \in Nat /\ dist(p) < MaxDistance
  BY <1>1, AlongAxis
<1>3. /\ n \in 0 .. k
      /\ ds \in [1 .. k -> 0 .. MaxDistance]
      /\ \A i, j \in 1 .. k : i <= j => ds[i] <= ds[j]
      /\ \A i \in 1 .. k : i > n => ds[i] = MaxDistance
      /\ \A i, j \in 1 .. n : i # j => is[i] # is[j]
      /\ \A i \in 1 .. n : is[i] \in Points /\ ds[i] = dist(is[i])
  BY DEF EntriesOK, Buffer
<1>4. w = ds[k] /\ Len(ds) = k /\ k \in 1 .. k
  BY <1>1, WorstOf DEF EntriesOK
<1>5. \A p \in Points : dist(p) < w => \E j \in 1 .. n : is[j] = p
  <2> SUFFICES ASSUME NEW p \in Points, dist(p) < w PROVE \E j \in 1 .. n : is[j] = p
    OBVIOUS
  <2>1. w \in Nat /\ dist(p) \in Nat
    BY <1>2, <1>3, <1>4, DistanceAssumption
  <2>2. p \in TakenOf(result)
    BY <2>1
  <2>3. QED
    BY <2>2 DEF TakenOf
<1>6. IsFiniteSet(Points) /\ Cardinality(Points) = Size /\ Size \in Nat
  BY PointsFinite, SizeAssumption
<1> HIDE DEF n, k, ds, is, w, dist
<1>7. MaxDistance \in Nat /\ n \in Nat /\ \A i \in 1 .. k : ds[i] \in Nat
  BY <1>1, <1>3, DistanceAssumption
<1>8. n <= Size
  BY <1>3, <1>6, <1>7, AtLeast
<1>9. n < k => Size <= n
  <2> SUFFICES ASSUME n < k PROVE Size <= n
    OBVIOUS
  <2>1. w = MaxDistance
    BY <1>3, <1>4
  <2>2. \A p \in Points : \E j \in 1 .. n : is[j] = p
    BY <1>2, <1>5, <2>1
  <2>3. Cardinality(Points) <= n
    BY <1>7, <2>2, AtMost
  <2>4. QED
    BY <1>6, <2>3
<1>10. n = Min({k, Size})
  BY <1>1, <1>3, <1>6, <1>7, <1>8, <1>9, LesserOf
<1>11. ASSUME NEW i \in 1 .. n
       PROVE  /\ Cardinality({p \in Points : dist(p) < ds[i]}) < i
              /\ Cardinality({p \in Points : dist(p) <= ds[i]}) >= i
  <2>1. i \in 1 .. k /\ i \in Nat /\ i - 1 \in Nat /\ ds[i] \in Nat
    BY <1>1, <1>3, <1>7
  <2>2. ds[i] <= w
    BY <1>3, <1>4, <2>1
  <2>3. \A p \in {z \in Points : dist(z) < ds[i]} : \E j \in 1 .. i - 1 : is[j] = p
    <3> SUFFICES ASSUME NEW p \in Points, dist(p) < ds[i] PROVE \E j \in 1 .. i - 1 : is[j] = p
      OBVIOUS
    <3>1. dist(p) < w
      BY <1>2, <1>4, <1>7, <2>1, <2>2
    <3>2. PICK j \in 1 .. n : is[j] = p
      BY <1>5, <3>1
    <3>3. ds[j] = dist(p) /\ j \in 1 .. k
      BY <1>1, <1>3, <3>2
    <3>4. ~(i <= j)
      <4> SUFFICES ASSUME i <= j PROVE FALSE
        OBVIOUS
      <4>1. ds[i] <= ds[j]
        BY <1>3, <2>1, <3>3
      <4>2. QED
        BY <1>2, <2>1, <3>3, <4>1
    <3>5. j \in 1 .. i - 1
      BY <2>1, <3>3, <3>4
    <3>6. QED
      BY <3>2, <3>5
  <2>4. IsFiniteSet({p \in Points : dist(p) < ds[i]}) /\ Cardinality({p \in Points : dist(p) < ds[i]}) <= i - 1
    BY <2>1, <2>3, AtMost
  <2>5. Cardinality({p \in Points : dist(p) < ds[i]}) \in Nat
    BY <2>4, FS_CardinalityType
  <2>6. IsFiniteSet({p \in Points : dist(p) <= ds[i]})
    BY <1>6, FS_Subset
  <2>7. \A j \in 1 .. i : is[j] \in {p \in Points : dist(p) <= ds[i]}
    <3> SUFFICES ASSUME NEW j \in 1 .. i PROVE is[j] \in Points /\ dist(is[j]) <= ds[i]
      OBVIOUS
    <3>1. j \in 1 .. n /\ j \in 1 .. k /\ j <= i
      BY <1>1, <1>3, <2>1
    <3>2. QED
      BY <1>3, <2>1, <3>1
  <2>8. \A j, m \in 1 .. i : j # m => is[j] # is[m]
    <3>1. \A j \in 1 .. i : j \in 1 .. n
      BY <1>1, <1>3, <2>1
    <3>2. QED
      BY <1>3, <3>1
  <2>9. i <= Cardinality({p \in Points : dist(p) <= ds[i]})
    BY <2>1, <2>6, <2>7, <2>8, AtLeast
  <2>10. Cardinality({p \in Points : dist(p) <= ds[i]}) \in Nat
    BY <2>6, FS_CardinalityType
  <2>11. QED
    BY <2>1, <2>4, <2>5, <2>9, <2>10
<1>12. AreNearest(query.q, ds)
  <2>1. Min({Len(ds), Size}) = n
    BY <1>4, <1>10
  <2>2. \A i \in 1 .. n :
           /\ {p \in Points : [z \in Points |-> dist(z)][p] < ds[i]} = {p \in Points : dist(p) < ds[i]}
           /\ {p \in Points : [z \in Points |-> dist(z)][p] <= ds[i]} = {p \in Points : dist(p) <= ds[i]}
    OBVIOUS
  <2>3. QED
    BY <1>11, <2>1, <2>2 DEF AreNearest, dist
<1>13. QED
  BY <1>10, <1>12 DEF n, k, ds

LEMMA AnswerRight == SearchInv => NearestFound
<1> SUFFICES ASSUME SearchInv, query # NoQuery, stack = <<>>
             PROVE  /\ \A i \in 1 .. result.found :
                          /\ result.distances[i] = SquaredDistance(query.q, result.indices[i])
                          /\ \A j \in 1 .. i - 1 : result.indices[i] # result.indices[j]
                    /\ \A i \in result.found + 1 .. query.k : result.distances[i] = MaxDistance
                    /\ \/ /\ AreNearest(query.q, result.distances)
                          /\ result.found = Min({query.k, Size})
                       \/ result.found = query.k /\ worst_distance(result) < query.epsilon
  BY DEF NearestFound, Answered
<1>1. Asked /\ EntriesOK(result)
  BY DEF SearchInv, Working, Stopped
<1>2. query.k \in Nat \ {0} /\ query.epsilon \in 0 .. MaxDistance /\ MaxDistance \in Nat
  BY <1>1, NeighborsAssumption, EpsilonsAssumption, DistanceAssumption DEF Asked
<1>3. /\ result.found \in 0 .. query.k
      /\ \A i \in 1 .. query.k : i > result.found => result.distances[i] = MaxDistance
      /\ \A i, j \in 1 .. result.found : i # j => result.indices[i] # result.indices[j]
      /\ \A i \in 1 .. result.found : result.distances[i] = SquaredDistance(query.q, result.indices[i])
  BY <1>1 DEF EntriesOK, Buffer
<1>4. \A i \in 1 .. result.found : \A j \in 1 .. i - 1 : result.indices[i] # result.indices[j]
  <2> SUFFICES ASSUME NEW i \in 1 .. result.found, NEW j \in 1 .. i - 1
               PROVE  result.indices[i] # result.indices[j]
    OBVIOUS
  <2>1. j \in 1 .. result.found /\ i # j
    BY <1>2, <1>3
  <2>2. QED
    BY <1>3, <2>1
<1>5. \A i \in result.found + 1 .. query.k : result.distances[i] = MaxDistance
  <2> SUFFICES ASSUME NEW i \in result.found + 1 .. query.k PROVE result.distances[i] = MaxDistance
    OBVIOUS
  <2>1. i \in 1 .. query.k /\ i > result.found
    BY <1>2, <1>3
  <2>2. QED
    BY <1>3, <2>1
<1>6. CASE Working(stack, result, {})
  <2>1. \A p \in Points : ~IsPending(p, stack)
    BY DEF IsPending
  <2>2. \A p \in Points : \/ p \in TakenOf(result)
                          \/ SquaredDistance(query.q, p) >= worst_distance(result)
    BY <1>6, <2>1 DEF Working
  <2>3. QED
    BY <1>1, <1>3, <1>4, <1>5, <2>2, AllAccounted
<1>7. CASE Stopped
  <2>1. worst_distance(result) < query.epsilon
    BY <1>7 DEF Stopped, fulfilled
  <2>2. worst_distance(result) = result.distances[query.k] /\ query.k \in 1 .. query.k
    BY <1>1, <1>2, WorstOf DEF EntriesOK
  <2>3. result.found = query.k
    BY <1>2, <1>3, <2>1, <2>2
  <2>4. QED
    BY <1>3, <1>4, <1>5, <2>1, <2>3
<1>8. QED
  BY <1>6, <1>7 DEF SearchInv

\* For every cloud, leaf size, number of neighbours and epsilon, and whatever
\* tree the tasks of a parallel build left: the answer to a query is the k
\* nearest points, or k points all closer than epsilon.
THEOREM NearestFoundHolds == SearchSpec => []NearestFound
BY SearchInvariance, AnswerRight, PTL

=============================================================================
