---------------------------- MODULE Registration ----------------------------
(***************************************************************************)
(* Registration::align: per-point factors linearised in parallel, reduced  *)
(* to one system, and an optimiser that steps on it: Gauss-Newton ("GN"),  *)
(* Levenberg-Marquardt ("LM") or the GPU engine's port of it ("GPU").      *)
(*                                                                         *)
(* Poses are translations along a line and every error is a squared        *)
(* distance (ICPFactor; GICPFactor with equal isotropic covariances), kept *)
(* doubled to stay integral.  A step solved from a system with b = 0 is 0; *)
(* any other may lead to any other pose: rotations make the step's error   *)
(* go up or down whatever lambda is, so H and lambda are not kept.         *)
(***************************************************************************)
EXTENDS Integers, FiniteSetsExt

CONSTANTS
    Source,             \* source points, a function from factor indices
    Target,             \* coordinates of the target points
    NoTarget,           \* target_index of a factor that is not an inlier
    Poses, InitPoses,   \* translations, and the initial guesses among them
    MaxDistSq,          \* DistanceRejector::max_dist_sq
    Eps,                \* TerminationCriteria::translation_eps
    Prior, Weight,      \* general factor Weight * |T - Prior|^2; 0: NullFactor
    Threads,            \* threads (OpenMP) or bodies (TBB) of the reduction
    Optimizers,
    MaxIterations,      \* max_iterations
    MaxInner            \* max_inner_iterations

VARIABLES
    optimizer,
    factors,   \* target_index of every factor
    todo,      \* factors the running linearisation has not reached
    acc,       \* bs and es: what every thread has summed
    sys,       \* b and e of the optimisation loop
    i, j,      \* its outer and inner iteration
    result,
    stage      \* "linearize", "solve", "count" or "done"

vars == <<optimizer, factors, todo, acc, sys, i, j, result, stage>>

Indices == DOMAIN Source

ASSUME PosesAssumption == InitPoses \subseteq Poses /\ Poses \subseteq Int
ASSUME PointsAssumption ==
    /\ IsFiniteSet(Target) /\ Target \subseteq Int /\ NoTarget \notin Target
    /\ IsFiniteSet(Indices) /\ Source \in [Indices -> Int]
ASSUME SettingsAssumption ==
    /\ {MaxDistSq, Eps, Weight, MaxIterations, MaxInner} \subseteq Nat /\ Prior \in Int
    /\ IsFiniteSet(Threads) /\ Threads # {} /\ Optimizers \subseteq {"GN", "LM", "GPU"}

-----------------------------------------------------------------------------
\* Factors.
Abs(x) == IF x < 0 THEN -x ELSE x
SqDist(T, n, t) == (t - T - Source[n]) * (t - T - Source[n])
Nearest(T, n) == {t \in Target : \A u \in Target : SqDist(T, n, t) <= SqDist(T, n, u)}
Rejected(sq_dist) == sq_dist > MaxDistSq

NoCorrespondence(T, n) == \A t \in Nearest(T, n) : Rejected(SqDist(T, n, t))
\* Faulty: a rejected factor keeps the correspondence it had.
KeepsTarget(T, n) == IF NoCorrespondence(T, n) THEN {factors[n]} ELSE Nearest(T, n)
\* The target indices linearize() may leave in factor n.
Corresponding(T, n) == IF NoCorrespondence(T, n) THEN {NoTarget} ELSE Nearest(T, n)

FactorError(T, n, t) == IF t = NoTarget THEN 0 ELSE SqDist(T, n, t)
FactorB(T, n, t) == IF t = NoTarget THEN 0 ELSE T + Source[n] - t

Zero == [b |-> 0, e |-> 0]
Plus(s, r) == [b |-> s.b + r.b, e |-> s.e + r.e]
Factor(T, n, t) == [b |-> FactorB(T, n, t), e |-> FactorError(T, n, t)]
GeneralFactor(T) == [b |-> Weight * (T - Prior), e |-> Weight * (T - Prior) * (T - Prior)]

\* reduction.error(): the error of the correspondences found last, at pose T.
FrozenError(T) == SumFunction([n \in Indices |-> FactorError(T, n, factors[n])])
Inliers == {n \in Indices : factors[n] # NoTarget}

-----------------------------------------------------------------------------
\* reduction.linearize(): each factor by one thread, in any order.
Linearize(th, n) ==
    /\ stage = "linearize"
    /\ n \in todo
    /\ todo' = todo \ {n}
    /\ \E t \in Corresponding(result.T, n) :
         /\ factors' = [factors EXCEPT ![n] = t]
         /\ acc' = [acc EXCEPT ![th] = Plus(@, Factor(result.T, n, t))]
    /\ UNCHANGED <<optimizer, sys, i, j, result, stage>>

Total == [b |-> SumFunction([th \in Threads |-> acc[th].b]),
          e |-> SumFunction([th \in Threads |-> acc[th].e])]

\* The threads' sums are added up, and the general factor to them.
Reduce ==
    /\ stage = "linearize"
    /\ todo = {}
    /\ IF optimizer = "GPU"   \* no general factor; counts its inliers here
       THEN sys' = Total /\ result' = [result EXCEPT !.num_inliers = Cardinality(Inliers)]
       ELSE sys' = Plus(Total, GeneralFactor(result.T)) /\ UNCHANGED result
    /\ j' = 0
    /\ stage' = "solve"
    /\ UNCHANGED <<optimizer, factors, todo, acc, i>>

-----------------------------------------------------------------------------
\* The optimisers.
Solutions == IF sys.b = 0 THEN {result.T} ELSE Poses \ {result.T}
Converged(new_T) == Abs(new_T - result.T) <= Eps

\* Faulty: the iteration counter stands still.
NeverAdvances(k) == k
NextIteration(k) == k + 1

\* The head of the outer loop, after iteration i ended with convergence c.
EndIteration(c) ==
    IF NextIteration(i) < MaxIterations /\ ~c
    THEN /\ i' = NextIteration(i)
         /\ stage' = "linearize"
         /\ todo' = Indices
         /\ acc' = [th \in Threads |-> Zero]
    ELSE /\ stage' = IF optimizer = "GPU" THEN "done" ELSE "count"
         /\ UNCHANGED <<i, todo, acc>>

Moved(new_T, e) ==
    [result EXCEPT !.T = new_T, !.converged = Converged(new_T), !.iterations = i,
                   !.b = sys.b, !.error = e]

GaussNewtonStep ==
    /\ stage = "solve"
    /\ optimizer = "GN"
    /\ \E new_T \in Solutions :
         /\ result' = Moved(new_T, sys.e)
         /\ EndIteration(Converged(new_T))
    /\ UNCHANGED <<optimizer, factors, sys, j>>

\* The error a trial pose has to reach.  update_error() adds the general
\* factor's error at that pose to e; the GPU engine has no general factor.
Bound(new_T) == IF optimizer = "LM" THEN sys.e + GeneralFactor(new_T).e ELSE sys.e

\* Faulty: a step is taken whatever its error.
AcceptsAll(new_T) == TRUE
Decreases(new_T) == FrozenError(new_T) <= Bound(new_T)

\* Faulty: e is left at the error of the pose before the step.
KeepsError(new_T) == Bound(new_T)
\* e once a step to new_T is taken: only the CPU optimiser replaces it.
ErrorAfter(new_T) == IF optimizer = "LM" THEN FrozenError(new_T) ELSE sys.e

TriesLeft == j < MaxInner

LevenbergMarquardtAccept ==
    /\ stage = "solve"
    /\ optimizer # "GN"
    /\ TriesLeft
    /\ \E new_T \in Solutions :
         /\ Decreases(new_T)
         /\ result' = Moved(new_T, ErrorAfter(new_T))
         /\ sys' = [sys EXCEPT !.e = ErrorAfter(new_T)]
         /\ EndIteration(Converged(new_T))
    /\ UNCHANGED <<optimizer, factors, j>>

LevenbergMarquardtReject ==
    /\ stage = "solve"
    /\ optimizer # "GN"
    /\ TriesLeft
    /\ \E new_T \in Solutions :
         /\ ~Decreases(new_T)
         /\ sys' = [sys EXCEPT !.e = Bound(new_T)]
    /\ j' = j + 1
    /\ UNCHANGED <<optimizer, factors, todo, acc, i, result, stage>>

\* No trial succeeded: the outer loop is left, the pose as it was.
LevenbergMarquardtGiveUp ==
    /\ stage = "solve"
    /\ optimizer # "GN"
    /\ ~TriesLeft
    /\ result' = [result EXCEPT !.iterations = i, !.b = sys.b, !.error = sys.e]
    /\ stage' = IF optimizer = "GPU" THEN "done" ELSE "count"
    /\ UNCHANGED <<optimizer, factors, todo, acc, sys, i, j>>

CountInliers ==
    /\ stage = "count"
    /\ result' = [result EXCEPT !.num_inliers = Cardinality(Inliers)]
    /\ stage' = "done"
    /\ UNCHANGED <<optimizer, factors, todo, acc, sys, i, j>>

-----------------------------------------------------------------------------
Init ==
    /\ optimizer \in Optimizers
    /\ factors = [n \in Indices |-> NoTarget]
    /\ todo = Indices
    /\ acc = [th \in Threads |-> Zero]
    /\ sys = Zero
    /\ i = 0
    /\ j = 0
    /\ \E init_T \in InitPoses :
         result = [T |-> init_T, converged |-> FALSE, iterations |-> 0,
                   num_inliers |-> 0, b |-> 0, error |-> 0]
    /\ stage = IF MaxIterations > 0 THEN "linearize"
               ELSE IF optimizer = "GPU" THEN "done" ELSE "count"

Next ==
    \/ \E th \in Threads, n \in Indices : Linearize(th, n)
    \/ Reduce
    \/ GaussNewtonStep
    \/ LevenbergMarquardtAccept
    \/ LevenbergMarquardtReject
    \/ LevenbergMarquardtGiveUp
    \/ CountInliers

Spec == Init /\ [][Next]_vars

\* align() is a call that runs until it returns.
FairSpec == Spec /\ WF_vars(Next)

-----------------------------------------------------------------------------
\* However the factors were shared out among the threads, the system the
\* optimiser solves is the sum over all factors at the current pose, each with
\* a nearest target point within max_dist_sq or with none: no factor is lost,
\* added twice or left with the correspondence of an earlier pose.
SystemIsSerialSum ==
    stage = "solve" /\ j = 0 =>
        /\ \A n \in Indices :
             LET near == {t \in Target : SqDist(result.T, n, t) <= MaxDistSq}
             IN  IF near = {} THEN factors[n] = NoTarget
                 ELSE factors[n] \in Nearest(result.T, n) \cap near
        /\ Weight = 0 =>
             /\ sys.e = FrozenError(result.T)
             /\ sys.b = SumFunction([n \in Indices |-> FactorB(result.T, n, factors[n])])

\* What align() minimises: distances to the nearest target, cut off at the
\* rejector's limit.
Cut(T, n) == Min({MaxDistSq} \cup {SqDist(T, n, t) : t \in Target})
Objective(T) == SumFunction([n \in Indices |-> Cut(T, n)])

\* A Levenberg-Marquardt step never makes the pose worse.  A trial is judged by
\* the frozen correspondences only, and the next linearisation searches new
\* ones and drops or adds inliers; the objective still does not rise.
Descends ==
    [][optimizer # "GN" /\ Weight = 0 => Objective(result'.T) <= Objective(result.T)]_vars

\* Without a general factor the error reported is the error of the last
\* correspondences at the pose reported, after a step taken as after giving up.
FinalError ==
    stage = "done" /\ optimizer = "LM" /\ Weight = 0 /\ MaxIterations > 0 =>
        result.error = FrozenError(result.T)

\* update_error() is there to keep the error consistent with a general factor
\* that adds its own: the error reported would be that of the correspondences
\* and of the general factor, both at the pose reported.
ErrorOfPrior ==
    stage = "done" /\ optimizer = "LM" /\ MaxIterations > 0 =>
        result.error = FrozenError(result.T) + GeneralFactor(result.T).e

\* The GPU engine is documented as a line-by-line port of the CPU optimiser, so
\* it would report the same error; its e keeps the value before the last step.
ErrorAsPorted ==
    stage = "done" /\ optimizer = "GPU" /\ MaxIterations > 0 =>
        result.error = FrozenError(result.T)

\* align() returns.
AlignTerminates == <>(stage = "done")
=============================================================================
