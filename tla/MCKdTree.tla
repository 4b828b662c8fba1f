------------------------------ MODULE MCKdTree ------------------------------
(***************************************************************************)
(* Instances of the k-d tree: points on two axes, with a tie across the    *)
(* median of the first, and queries inside and outside the points' range.  *)
(***************************************************************************)
EXTENDS KdTreeSearch

MCAxes == {0, 1}
X == <<0, 1, 2, 4, 4, 5, 6, 9>>
Y == <<3, 7, 0, 5, 1, 8, 2, 6>>
MCCoord ==
    [a \in MCAxes |-> [p \in 0 .. Size - 1 |-> IF a = 0 THEN X[p + 1] ELSE Y[p + 1]]]
At(x, y) == [a \in MCAxes |-> IF a = 0 THEN x ELSE y]
MCQueries == {At(3, 4), At(10, 0)}
MCUninit == {4095}

=============================================================================
