------------------------------ MODULE KnnResult -----------------------------
(***************************************************************************)
(* The result buffer of all neighbour searches (ann/knn_result.hpp): up to *)
(* k indices sorted by their squared distances.                            *)
(***************************************************************************)
EXTENDS Integers, Sequences, SequencesExt

CONSTANT MaxDistance    \* numeric_limits<double>::max()

ASSUME DistanceAssumption == MaxDistance \in Nat

INVALID == -1

\* A buffer for k neighbours before the first is pushed.
EmptyResult(k) ==
    [found |-> 0,
     indices |-> [i \in 1 .. k |-> INVALID],
     distances |-> [i \in 1 .. k |-> MaxDistance]]

worst_distance(r) == Last(r.distances)

\* Shift the worse entries one place down, dropping the last of a full buffer.
push(r, index, distance) ==
    LET k   == Len(r.distances)
        end == IF r.found < k THEN r.found + 1 ELSE k      \* insert_loc, from 1
        loc == Min({i \in 1 .. end : \A j \in i .. end - 1 : distance < r.distances[j]})
        shifted(s, x) == [i \in 1 .. k |->
                            IF i = loc THEN x
                            ELSE IF i > loc /\ i <= end THEN s[i - 1] ELSE s[i]]
    IN  IF distance >= worst_distance(r) THEN r
        ELSE [found |-> IF r.found < k THEN r.found + 1 ELSE k,
              indices |-> shifted(r.indices, index),
              distances |-> shifted(r.distances, distance)]
=============================================================================
