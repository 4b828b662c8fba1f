------------------------ MODULE Registration_proofs -------------------------
(***************************************************************************)
(* What holds of Registration::align for any factors, targets, poses,      *)
(* settings and number of threads.                                         *)
(***************************************************************************)
EXTENDS Registration, FiniteSetTheorems, TLAPS

-----------------------------------------------------------------------------
(* Sums over finite sets.                                                  *)
-----------------------------------------------------------------------------
\* Every set of natural numbers has a least element, from which whatever an
\* induction needs follows.
LEMMA LeastNat ==
    ASSUME NEW S, S \subseteq Nat, S # {}
    PROVE  \E m \in S : \A n \in S : m <= n
<1> DEFINE R == {ss \in Nat \X Nat : ss[1] < ss[2]}
<1>1. IsWellFoundedOn(R, Nat)
  BY NatLessThanWellFounded DEF OpToRel
<1>2. \A m, n \in Nat : <<n, m>> \in R <=> n < m
  OBVIOUS
<1> HIDE DEF R
<1>3. PICK m \in S : \A n \in S : <<n, m>> \notin R
  BY <1>1, WFMin
<1>4. ASSUME NEW n \in S PROVE m <= n
  <2>1. m \in Nat /\ n \in Nat
    OBVIOUS
  <2>2. ~(n < m)
    BY <1>2, <1>3, <2>1
  <2>3. QED
    BY <2>1, <2>2
<1>5. QED
  BY <1>4

\* A family of subsets of a finite set has a smallest member.
LEMMA SmallestSet ==
    ASSUME NEW S, IsFiniteSet(S), NEW W, W \subseteq SUBSET S, W # {}
    PROVE  \E R \in W : \A x \in R : R \ {x} \notin W
<1> DEFINE sizes == {Cardinality(R) : R \in W}
<1>1. \A R \in W : IsFiniteSet(R) /\ Cardinality(R) \in Nat
  BY FS_Subset, FS_CardinalityType
<1>2. sizes \subseteq Nat /\ sizes # {}
  BY <1>1
<1>3. PICK m \in sizes : \A n \in sizes : m <= n
  BY <1>2, LeastNat
<1>4. PICK R \in W : Cardinality(R) = m
  BY <1>3
<1>5. ASSUME NEW x \in R, R \ {x} \in W PROVE FALSE
  <2>1. Cardinality(R \ {x}) = m - 1
    BY <1>1, <1>4, FS_RemoveElement
  <2>2. m <= m - 1 /\ m \in Nat
    BY <1>1, <1>3, <1>4, <1>5, <2>1
  <2>3. QED
    BY <2>2
<1>6. QED
  BY <1>5

\* What defines the sums over the subsets of a set.
Chosen(R) == CHOOSE x \in R : TRUE
SumStep(f, s, R) == IF R = {} THEN 0 ELSE f[Chosen(R)] + s[R \ {Chosen(R)}]
Sums(f, S) == CHOOSE s : s = [R \in SUBSET S |-> SumStep(f, s, R)]

LEMMA SumsDef ==
    ASSUME NEW f, NEW S
    PROVE  SumFunctionOnSet(f, S) = Sums(f, S)[S]
BY DEF SumFunctionOnSet, FoldFunctionOnSet, MapThenFoldSet, Sums, SumStep, Chosen

\* There are such sums ...
LEMMA SumsExist ==
    ASSUME NEW f, NEW S, IsFiniteSet(S)
    PROVE  \A R \in SUBSET S : Sums(f, S)[R] = SumStep(f, Sums(f, S), R)
<1> DEFINE Solves(s, m) == \A R \in SUBSET S : Cardinality(R) <= m => s[R] = SumStep(f, s, R)
           Bad == {m \in Nat : ~\E s : Solves(s, m)}
<1>1. \A R \in SUBSET S : IsFiniteSet(R) /\ Cardinality(R) \in Nat
  BY FS_Subset, FS_CardinalityType
<1>2. ASSUME NEW R \in SUBSET S, R # {}
      PROVE  /\ Chosen(R) \in R /\ R \ {Chosen(R)} \in SUBSET S
             /\ Cardinality(R \ {Chosen(R)}) = Cardinality(R) - 1
  <2>1. Chosen(R) \in R
    BY <1>2 DEF Chosen
  <2>2. Cardinality(R \ {Chosen(R)}) = Cardinality(R) - 1
    BY <1>1, <2>1, FS_RemoveElement
  <2>3. QED
    BY <2>1, <2>2
<1>3. Bad = {}
  <2> SUFFICES ASSUME Bad # {} PROVE FALSE
    OBVIOUS
  <2>1. PICK m \in Bad : \A n \in Bad : m <= n
    BY LeastNat
  <2>2. m \in Nat /\ ~\E s : Solves(s, m)
    OBVIOUS
  <2>3. CASE m = 0
    <3> DEFINE s == [R \in SUBSET S |-> 0]
    <3>1. ASSUME NEW R \in SUBSET S, Cardinality(R) <= m PROVE s[R] = SumStep(f, s, R)
      <4>1. R = {}
        BY <1>1, <2>3, <3>1, FS_EmptySet
      <4>2. QED
        BY <4>1 DEF SumStep
    <3> HIDE DEF s
    <3>2. QED
      BY <2>2, <3>1
  <2>4. CASE m # 0
    <3>1. m - 1 \in Nat /\ m - 1 \notin Bad
      BY <2>1, <2>2, <2>4
    <3>2. PICK s : Solves(s, m - 1)
      BY <3>1
    <3> DEFINE u == [R \in SUBSET S |-> IF Cardinality(R) <= m - 1 THEN s[R] ELSE SumStep(f, s, R)]
    <3>3. ASSUME NEW R \in SUBSET S, Cardinality(R) <= m PROVE u[R] = SumStep(f, u, R)
      <4>1. u[R] = SumStep(f, s, R)
        BY <3>2
      <4>2. R # {} => u[R \ {Chosen(R)}] = s[R \ {Chosen(R)}]
        BY <1>1, <1>2, <2>2, <3>3
      <4>3. QED
        BY <4>1, <4>2 DEF SumStep
    <3> HIDE DEF u
    <3>4. QED
      BY <2>2, <3>3
  <2>5. QED
    BY <2>3, <2>4
<1>4. Cardinality(S) \in Nat /\ \A R \in SUBSET S : Cardinality(R) <= Cardinality(S)
  BY FS_Subset, FS_CardinalityType
<1>5. PICK s : Solves(s, Cardinality(S))
  BY <1>3, <1>4
<1> DEFINE u == [R \in SUBSET S |-> s[R]]
<1>6. u = [R \in SUBSET S |-> SumStep(f, u, R)]
  <2>1. ASSUME NEW R \in SUBSET S PROVE u[R] = SumStep(f, u, R)
    <3>1. u[R] = SumStep(f, s, R)
      BY <1>4, <1>5
    <3>2. R # {} => u[R \ {Chosen(R)}] = s[R \ {Chosen(R)}]
      BY <1>2
    <3>3. QED
      BY <3>1, <3>2 DEF SumStep
  <2>2. QED
    BY <2>1
<1> HIDE DEF u
<1>7. \E v : v = [R \in SUBSET S |-> SumStep(f, v, R)]
  BY <1>6
<1>8. Sums(f, S) = [R \in SUBSET S |-> SumStep(f, Sums(f, S), R)]
  BY <1>7 DEF Sums
<1> DEFINE w == Sums(f, S)
<1>9. w = [R \in SUBSET S |-> SumStep(f, w, R)]
  BY <1>8
<1> HIDE DEF w
<1>10. \A R \in SUBSET S : w[R] = SumStep(f, w, R)
  BY <1>9
<1>11. QED
  BY <1>10 DEF w

\* ... of integers, ...
LEMMA SumsType ==
    ASSUME NEW f, NEW S, IsFiniteSet(S), \A x \in S : f[x] \in Int
    PROVE  \A R \in SUBSET S : Sums(f, S)[R] \in Int
<1> DEFINE s == Sums(f, S)
           W == {R \in SUBSET S : s[R] \notin Int}
<1>1. \A R \in SUBSET S : s[R] = SumStep(f, s, R)
  BY SumsExist
<1> HIDE DEF s
<1>2. W = {}
  <2> SUFFICES ASSUME W # {} PROVE FALSE
    OBVIOUS
  <2>1. W \subseteq SUBSET S
    OBVIOUS
  <2> HIDE DEF W
  <2>2. PICK R \in W : \A x \in R : R \ {x} \notin W
    BY <2>1, SmallestSet
  <2>3. R \in SUBSET S /\ s[R] \notin Int
    BY DEF W
  <2>4. s[R] = SumStep(f, s, R)
    BY <1>1, <2>3
  <2>5. CASE R = {}
    <3>1. s[R] = 0
      BY <2>4, <2>5 DEF SumStep
    <3>2. QED
      BY <2>3, <3>1
  <2>6. CASE R # {}
    <3> DEFINE c == Chosen(R)
    <3>1. c \in R
      BY <2>6 DEF Chosen
    <3>2. s[R] = f[c] + s[R \ {c}]
      BY <2>4, <2>6 DEF SumStep
    <3> HIDE DEF c
    <3>3. s[R \ {c}] \in Int
      BY <2>2, <2>3, <3>1 DEF W
    <3>4. f[c] \in Int
      BY <2>3, <3>1
    <3>5. QED
      BY <2>3, <3>2, <3>3, <3>4
  <2>7. QED
    BY <2>5, <2>6
<1>3. QED
  BY <1>2 DEF s

\* ... and any element may be the first.
LEMMA SumsAny ==
    ASSUME NEW f, NEW S, IsFiniteSet(S), \A x \in S : f[x] \in Int
    PROVE  \A R \in SUBSET S : \A x \in R : Sums(f, S)[R] = f[x] + Sums(f, S)[R \ {x}]
<1> DEFINE s == Sums(f, S)
           W == {R \in SUBSET S : \E x \in R : s[R] # f[x] + s[R \ {x}]}
<1>1. \A R \in SUBSET S : s[R] = SumStep(f, s, R) /\ s[R] \in Int
  BY SumsExist, SumsType
<1> HIDE DEF s
<1>2. W = {}
  <2> SUFFICES ASSUME W # {} PROVE FALSE
    OBVIOUS
  <2>1. W \subseteq SUBSET S
    OBVIOUS
  <2>2. PICK R \in W : \A x \in R : R \ {x} \notin W
    BY <2>1, SmallestSet
  <2>3. R \in SUBSET S
    OBVIOUS
  <2>4. PICK x \in R : s[R] # f[x] + s[R \ {x}]
    OBVIOUS
  <2> DEFINE c == Chosen(R)
  <2>5. c \in R
    BY <2>4 DEF Chosen
  <2> HIDE DEF c
  <2>6. s[R] = f[c] + s[R \ {c}]
    BY <1>1, <2>3, <2>4 DEF SumStep, c
  <2>7. x # c
    BY <2>4, <2>6
  <2>8. s[R \ {c}] = f[x] + s[(R \ {c}) \ {x}]
    <3>1. R \ {c} \notin W /\ R \ {c} \in SUBSET S /\ x \in R \ {c}
      BY <2>2, <2>3, <2>4, <2>5, <2>7
    <3>2. QED
      BY <3>1
  <2>9. s[R \ {x}] = f[c] + s[(R \ {x}) \ {c}]
    <3>1. R \ {x} \notin W /\ R \ {x} \in SUBSET S /\ c \in R \ {x}
      BY <2>2, <2>3, <2>4, <2>5, <2>7
    <3>2. QED
      BY <3>1
  <2>10. (R \ {c}) \ {x} = (R \ {x}) \ {c}
    OBVIOUS
  <2>11. s[(R \ {x}) \ {c}] \in Int /\ f[x] \in Int /\ f[c] \in Int
    BY <1>1, <2>3, <2>4, <2>5
  <2>12. \A a, b, t \in Int : a + (b + t) = b + (a + t)
    OBVIOUS
  <2>13. s[R] = f[c] + (f[x] + s[(R \ {x}) \ {c}])
    BY <2>6, <2>8, <2>10
  <2>14. f[x] + s[R \ {x}] = f[x] + (f[c] + s[(R \ {x}) \ {c}])
    BY <2>9
  <2>15. QED
    BY <2>4, <2>11, <2>12, <2>13, <2>14
<1>3. QED
  BY <1>2 DEF s

\* A sum depends on nothing but the values that it sums.
LEMMA SumsAgree ==
    ASSUME NEW f, NEW S, IsFiniteSet(S), NEW g, NEW U, IsFiniteSet(U)
    PROVE  \A R \in SUBSET S : R \subseteq U /\ (\A x \in R : f[x] = g[x]) => Sums(f, S)[R] = Sums(g, U)[R]
<1> DEFINE s == Sums(f, S)
           u == Sums(g, U)
           W == {R \in SUBSET S : R \subseteq U /\ (\A x \in R : f[x] = g[x]) /\ s[R] # u[R]}
<1>1. \A R \in SUBSET S : s[R] = SumStep(f, s, R)
  BY SumsExist
<1>2. \A R \in SUBSET U : u[R] = SumStep(g, u, R)
  BY SumsExist
<1> HIDE DEF s, u
<1>3. W = {}
  <2> SUFFICES ASSUME W # {} PROVE FALSE
    OBVIOUS
  <2>1. W \subseteq SUBSET S
    OBVIOUS
  <2>2. PICK R \in W : \A x \in R : R \ {x} \notin W
    BY <2>1, SmallestSet
  <2>3. /\ R \in SUBSET S /\ R \in SUBSET U
        /\ \A x \in R : f[x] = g[x]
        /\ s[R] # u[R]
    OBVIOUS
  <2>4. CASE R = {}
    BY <1>1, <1>2, <2>3, <2>4 DEF SumStep
  <2>5. CASE R # {}
    <3> DEFINE c == Chosen(R)
    <3>1. c \in R
      BY <2>5 DEF Chosen
    <3> HIDE DEF c
    <3>2. R \ {c} \notin W
      BY <2>2, <3>1
    <3>3. s[R \ {c}] = u[R \ {c}]
      BY <2>3, <3>2
    <3>4. s[R] = f[c] + s[R \ {c}] /\ u[R] = g[c] + u[R \ {c}]
      BY <1>1, <1>2, <2>3, <2>5 DEF SumStep, c
    <3>5. QED
      BY <2>3, <3>1, <3>3, <3>4
  <2>6. QED
    BY <2>4, <2>5
<1>4. QED
  BY <1>3 DEF s, u

\* The same of the sums themselves.
LEMMA SumEmpty ==
    ASSUME NEW f
    PROVE  SumFunctionOnSet(f, {}) = 0
<1>1. IsFiniteSet({}) /\ {} \in SUBSET {}
  BY FS_EmptySet
<1>2. Sums(f, {})[{}] = SumStep(f, Sums(f, {}), {})
  BY <1>1, SumsExist
<1>3. QED
  BY <1>2, SumsDef DEF SumStep

LEMMA SumType ==
    ASSUME NEW f, NEW S, IsFiniteSet(S), \A x \in S : f[x] \in Int
    PROVE  SumFunctionOnSet(f, S) \in Int
BY SumsType, SumsDef

LEMMA SumSame ==
    ASSUME NEW f, NEW g, NEW S, IsFiniteSet(S), \A x \in S : f[x] = g[x]
    PROVE  SumFunctionOnSet(f, S) = SumFunctionOnSet(g, S)
<1>1. S \in SUBSET S /\ S \subseteq S
  OBVIOUS
<1>2. Sums(f, S)[S] = Sums(g, S)[S]
  BY <1>1, SumsAgree
<1>3. QED
  BY <1>2, SumsDef

LEMMA SumWithout ==
    ASSUME NEW f, NEW S, IsFiniteSet(S), \A x \in S : f[x] \in Int, NEW x \in S
    PROVE  SumFunctionOnSet(f, S) = f[x] + SumFunctionOnSet(f, S \ {x})
<1>1. Sums(f, S)[S] = f[x] + Sums(f, S)[S \ {x}]
  BY SumsAny
<1>2. IsFiniteSet(S \ {x}) /\ S \ {x} \in SUBSET S
  BY FS_Subset
<1>3. Sums(f, S)[S \ {x}] = Sums(f, S \ {x})[S \ {x}]
  BY <1>2, SumsAgree
<1>4. QED
  BY <1>1, <1>3, SumsDef

\* Sums add up, ...
LEMMA SumOfSums ==
    ASSUME NEW S, IsFiniteSet(S), NEW f, NEW g, NEW h,
           \A x \in S : f[x] \in Int /\ g[x] \in Int /\ h[x] = f[x] + g[x]
    PROVE  SumFunctionOnSet(h, S) = SumFunctionOnSet(f, S) + SumFunctionOnSet(g, S)
<1> DEFINE W == {R \in SUBSET S : SumFunctionOnSet(h, R) # SumFunctionOnSet(f, R) + SumFunctionOnSet(g, R)}
<1>1. W = {}
  <2> SUFFICES ASSUME W # {} PROVE FALSE
    OBVIOUS
  <2>1. W \subseteq SUBSET S
    OBVIOUS
  <2>2. PICK R \in W : \A x \in R : R \ {x} \notin W
    BY <2>1, SmallestSet
  <2>3. /\ R \in SUBSET S
        /\ SumFunctionOnSet(h, R) # SumFunctionOnSet(f, R) + SumFunctionOnSet(g, R)
    OBVIOUS
  <2>4. CASE R = {}
    BY <2>3, <2>4, SumEmpty
  <2>5. CASE R # {}
    <3>1. PICK x \in R : TRUE
      BY <2>5
    <3> DEFINE Q == R \ {x}
    <3>2. Q \notin W /\ Q \in SUBSET S /\ IsFiniteSet(R) /\ IsFiniteSet(Q)
      BY <2>2, <2>3, <3>1, FS_Subset
    <3>3. SumFunctionOnSet(h, Q) = SumFunctionOnSet(f, Q) + SumFunctionOnSet(g, Q)
      BY <3>2
    <3>4. /\ \A z \in R : f[z] \in Int
          /\ \A z \in R : g[z] \in Int
          /\ \A z \in R : h[z] \in Int
      BY <2>3
    <3>5. /\ SumFunctionOnSet(f, R) = f[x] + SumFunctionOnSet(f, Q)
          /\ SumFunctionOnSet(g, R) = g[x] + SumFunctionOnSet(g, Q)
          /\ SumFunctionOnSet(h, R) = h[x] + SumFunctionOnSet(h, Q)
      BY <3>2, <3>4, SumWithout
    <3>6. SumFunctionOnSet(f, Q) \in Int /\ SumFunctionOnSet(g, Q) \in Int
      BY <3>2, <3>4, SumType
    <3>7. h[x] = f[x] + g[x] /\ f[x] \in Int /\ g[x] \in Int
      BY <2>3
    <3> HIDE DEF Q
    <3>8. QED
      BY <2>3, <3>3, <3>5, <3>6, <3>7
  <2>6. QED
    BY <2>4, <2>5
<1>2. QED
  BY <1>1

\* ... and are no larger than the sums of larger numbers.
LEMMA SumAtMost ==
    ASSUME NEW S, IsFiniteSet(S), NEW f, NEW g,
           \A x \in S : f[x] \in Int /\ g[x] \in Int /\ f[x] <= g[x]
    PROVE  SumFunctionOnSet(f, S) <= SumFunctionOnSet(g, S)
<1> DEFINE W == {R \in SUBSET S : ~(SumFunctionOnSet(f, R) <= SumFunctionOnSet(g, R))}
<1>1. W = {}
  <2> SUFFICES ASSUME W # {} PROVE FALSE
    OBVIOUS
  <2>1. W \subseteq SUBSET S
    OBVIOUS
  <2>2. PICK R \in W : \A x \in R : R \ {x} \notin W
    BY <2>1, SmallestSet
  <2>3. R \in SUBSET S /\ ~(SumFunctionOnSet(f, R) <= SumFunctionOnSet(g, R))
    OBVIOUS
  <2>4. CASE R = {}
    BY <2>3, <2>4, SumEmpty
  <2>5. CASE R # {}
    <3>1. PICK x \in R : TRUE
      BY <2>5
    <3> DEFINE Q == R \ {x}
    <3>2. Q \notin W /\ Q \in SUBSET S /\ IsFiniteSet(R) /\ IsFiniteSet(Q)
      BY <2>2, <2>3, <3>1, FS_Subset
    <3>3. SumFunctionOnSet(f, Q) <= SumFunctionOnSet(g, Q)
      BY <3>2
    <3>4. (\A z \in R : f[z] \in Int) /\ (\A z \in R : g[z] \in Int)
      BY <2>3
    <3>5. /\ SumFunctionOnSet(f, R) = f[x] + SumFunctionOnSet(f, Q)
          /\ SumFunctionOnSet(g, R) = g[x] + SumFunctionOnSet(g, Q)
      BY <3>2, <3>4, SumWithout
    <3>6. SumFunctionOnSet(f, Q) \in Int /\ SumFunctionOnSet(g, Q) \in Int
      BY <3>2, <3>4, SumType
    <3>7. f[x] <= g[x] /\ f[x] \in Int /\ g[x] \in Int
      BY <2>3
    <3> HIDE DEF Q
    <3>8. QED
      BY <2>3, <3>3, <3>5, <3>6, <3>7
  <2>6. QED
    BY <2>4, <2>5
<1>2. QED
  BY <1>1

\* Changing one number changes the sum by as much.
LEMMA SumChanged ==
    ASSUME NEW S, IsFiniteSet(S), NEW f, NEW g, NEW x \in S,
           \A z \in S : f[z] \in Int,
           g[x] \in Int, \A z \in S : z # x => g[z] = f[z]
    PROVE  SumFunctionOnSet(g, S) = SumFunctionOnSet(f, S) + (g[x] - f[x])
<1> DEFINE Q == S \ {x}
<1>1. IsFiniteSet(Q) /\ Q \subseteq S
  BY FS_Subset
<1>2. \A z \in S : g[z] \in Int
  OBVIOUS
<1>3. SumFunctionOnSet(g, S) = g[x] + SumFunctionOnSet(g, Q)
  BY <1>2, SumWithout
<1>4. SumFunctionOnSet(f, S) = f[x] + SumFunctionOnSet(f, Q)
  BY SumWithout
<1>5. SumFunctionOnSet(g, Q) = SumFunctionOnSet(f, Q)
  BY <1>1, SumSame
<1>6. SumFunctionOnSet(f, Q) \in Int
  BY <1>1, SumType
<1> HIDE DEF Q
<1>7. QED
  BY <1>3, <1>4, <1>5, <1>6

LEMMA SumBumped ==
    ASSUME NEW S, IsFiniteSet(S), NEW f \in [S -> Int], NEW x \in S, NEW d \in Int
    PROVE  SumFunctionOnSet([f EXCEPT ![x] = f[x] + d], S) = SumFunctionOnSet(f, S) + d
<1> DEFINE g == [f EXCEPT ![x] = f[x] + d]
<1>1. (\A z \in S : f[z] \in Int) /\ g[x] = f[x] + d /\ \A z \in S : z # x => g[z] = f[z]
  OBVIOUS
<1> HIDE DEF g
<1>2. g[x] \in Int /\ g[x] - f[x] = d
  BY <1>1
<1>3. SumFunctionOnSet(g, S) = SumFunctionOnSet(f, S) + (g[x] - f[x])
  BY <1>1, <1>2, SumChanged
<1>4. QED
  BY <1>2, <1>3 DEF g

-----------------------------------------------------------------------------
(* Factors.                                                                *)
-----------------------------------------------------------------------------
\* What linearize() may leave in a factor: a nearest target within the limit,
\* or none when there is no target within it.
Matched(T, n, t) ==
    LET near == {u \in Target : SqDist(T, n, u) <= MaxDistSq}
    IN  IF near = {} THEN t = NoTarget ELSE t \in Nearest(T, n) \cap near

Kept == Target \cup {NoTarget}
ErrorsOf(T, fs) == [n \in Indices |-> FactorError(T, n, fs[n])]
BsOf(T, fs) == [n \in Indices |-> FactorB(T, n, fs[n])]
Frozen(T, fs) == SumFunctionOnSet(ErrorsOf(T, fs), Indices)

LEMMA SquareNat ==
    ASSUME NEW x \in Int
    PROVE  x * x \in Nat
OBVIOUS

LEMMA FactorType ==
    ASSUME NEW T \in Int, NEW n \in Indices
    PROVE  /\ \A t \in Target : SqDist(T, n, t) \in Nat
           /\ \A t \in Kept : FactorError(T, n, t) \in Nat /\ FactorB(T, n, t) \in Int
<1>1. Source[n] \in Int /\ \A t \in Target : t \in Int
  BY PointsAssumption
<1>2. ASSUME NEW t \in Target PROVE SqDist(T, n, t) \in Nat
  <2>1. t - T - Source[n] \in Int
    BY <1>1
  <2>2. QED
    BY <2>1, SquareNat DEF SqDist
<1>3. ASSUME NEW t \in Kept PROVE FactorError(T, n, t) \in Nat /\ FactorB(T, n, t) \in Int
  BY <1>1, <1>2 DEF Kept, FactorError, FactorB
<1>4. QED
  BY <1>2, <1>3

LEMMA NearestExists ==
    ASSUME NEW T \in Int, NEW n \in Indices, Target # {}
    PROVE  Nearest(T, n) # {}
<1> DEFINE ds == {SqDist(T, n, t) : t \in Target}
<1>1. ds \subseteq Nat /\ ds # {}
  BY FactorType
<1>2. PICK m \in ds : \A d \in ds : m <= d
  BY <1>1, LeastNat
<1>3. PICK t \in Target : SqDist(T, n, t) = m
  BY <1>2
<1>4. \A u \in Target : SqDist(T, n, t) <= SqDist(T, n, u)
  BY <1>2, <1>3
<1>5. QED
  BY <1>4 DEF Nearest

LEMMA CorrespondingMatches ==
    ASSUME NEW T \in Int, NEW n \in Indices, NEW t \in Corresponding(T, n)
    PROVE  t \in Kept /\ Matched(T, n, t)
<1> DEFINE near == {u \in Target : SqDist(T, n, u) <= MaxDistSq}
<1>1. MaxDistSq \in Nat /\ \A u \in Target : SqDist(T, n, u) \in Nat
  BY SettingsAssumption, FactorType
<1>2. \A u \in Target : Rejected(SqDist(T, n, u)) <=> u \notin near
  BY <1>1 DEF Rejected
<1>3. \A u \in near : \A v \in Nearest(T, n) : v \in near
  <2> SUFFICES ASSUME NEW u \in near, NEW v \in Nearest(T, n) PROVE v \in near
    OBVIOUS
  <2>1. v \in Target /\ SqDist(T, n, v) <= SqDist(T, n, u) /\ SqDist(T, n, u) <= MaxDistSq
    BY DEF Nearest
  <2>2. QED
    BY <1>1, <2>1
<1>4. CASE near = {}
  <2>1. NoCorrespondence(T, n)
    BY <1>2, <1>4 DEF NoCorrespondence, Nearest
  <2>2. t = NoTarget
    BY <2>1 DEF Corresponding
  <2>3. QED
    BY <1>4, <2>2 DEF Matched, Kept
<1>5. CASE near # {}
  <2>1. PICK v \in Nearest(T, n) : TRUE
    BY <1>5, NearestExists
  <2>2. v \in Target /\ v \in near
    BY <1>3, <1>5, <2>1 DEF Nearest
  <2>3. ~NoCorrespondence(T, n)
    BY <1>2, <2>1, <2>2 DEF NoCorrespondence
  <2>4. t \in Nearest(T, n)
    BY <2>3 DEF Corresponding
  <2>5. t \in Target /\ t \in near
    BY <1>3, <1>5, <2>4 DEF Nearest
  <2>6. QED
    BY <1>5, <2>4, <2>5 DEF Matched, Kept
<1>6. QED
  BY <1>4, <1>5

-----------------------------------------------------------------------------
(* The invariant.                                                          *)
-----------------------------------------------------------------------------
Types ==
    /\ optimizer \in {"GN", "LM", "GPU"}
    /\ factors \in [Indices -> Kept]
    /\ todo \subseteq Indices
    /\ acc \in [Threads -> [b : Int, e : Int]]
    /\ sys \in [b : Int, e : Int]
    /\ i \in Nat /\ j \in Nat
    /\ result \in [T : Poses, converged : BOOLEAN, iterations : Nat,
                   num_inliers : Nat, b : Int, error : Int]
    /\ stage \in {"linearize", "solve", "count", "done"}

\* The threads' sums are those of the factors they have linearised, ...
Linearizing ==
    stage = "linearize" =>
        /\ \A n \in Indices \ todo : Matched(result.T, n, factors[n])
        /\ Total.b = SumFunctionOnSet(BsOf(result.T, factors), Indices \ todo)
        /\ Total.e = SumFunctionOnSet(ErrorsOf(result.T, factors), Indices \ todo)

\* ... the system is the sum over all of them, through any rejected trials, ...
Solving ==
    stage = "solve" =>
        /\ \A n \in Indices : Matched(result.T, n, factors[n])
        /\ Weight = 0 =>
             /\ sys.e = Frozen(result.T, factors)
             /\ sys.b = SumFunctionOnSet(BsOf(result.T, factors), Indices)

\* ... and the error is that of the pose and the correspondences kept.
Reporting ==
    stage \in {"count", "done"} /\ optimizer = "LM" /\ Weight = 0 /\ MaxIterations > 0 =>
        result.error = Frozen(result.T, factors)

IInv == Types /\ Linearizing /\ Solving /\ Reporting

LEMMA PosesType == \A T \in Poses : T \in Int
BY PosesAssumption

\* A frozen error is a sum over all factors.
LEMMA FrozenSum ==
    ASSUME NEW T
    PROVE  FrozenError(T) = Frozen(T, factors)
<1>1. DOMAIN ErrorsOf(T, factors) = Indices
  BY DEF ErrorsOf
<1>2. FrozenError(T) = SumFunction(ErrorsOf(T, factors))
  BY DEF FrozenError, ErrorsOf
<1>3. QED
  BY <1>1, <1>2 DEF SumFunction, Frozen

LEMMA SumsOfFactors ==
    ASSUME Types, NEW T \in Poses
    PROVE  /\ Frozen(T, factors) \in Int
           /\ \A n \in Indices : ErrorsOf(T, factors)[n] \in Nat /\ BsOf(T, factors)[n] \in Int
           /\ IsFiniteSet(Indices)
<1>1. IsFiniteSet(Indices) /\ T \in Int
  BY PointsAssumption, PosesType
<1>2. ASSUME NEW n \in Indices PROVE ErrorsOf(T, factors)[n] \in Nat /\ BsOf(T, factors)[n] \in Int
  <2>1. factors[n] \in Kept
    BY DEF Types
  <2>2. FactorError(T, n, factors[n]) \in Nat /\ FactorB(T, n, factors[n]) \in Int
    BY <1>1, <2>1, FactorType
  <2>3. QED
    BY <2>2 DEF ErrorsOf, BsOf
<1>3. SumFunctionOnSet(ErrorsOf(T, factors), Indices) \in Int
  BY <1>1, <1>2, SumType
<1>4. QED
  BY <1>1, <1>2, <1>3 DEF Frozen

\* The threads' sums, and what adding a factor to one of them adds to both.
LEMMA TotalOf ==
    /\ Total.b = SumFunctionOnSet([th \in Threads |-> acc[th].b], Threads)
    /\ Total.e = SumFunctionOnSet([th \in Threads |-> acc[th].e], Threads)
BY DEF Total, SumFunction

LEMMA TotalGrows ==
    ASSUME Types, NEW th \in Threads, NEW s \in [b : Int, e : Int],
           acc' = [acc EXCEPT ![th] = Plus(@, s)]
    PROVE  /\ acc' \in [Threads -> [b : Int, e : Int]]
           /\ Total'.b = Total.b + s.b /\ Total'.e = Total.e + s.e
           /\ Total.b \in Int /\ Total.e \in Int
<1>1. IsFiniteSet(Threads)
  BY SettingsAssumption
<1>2. acc \in [Threads -> [b : Int, e : Int]] /\ s.b \in Int /\ s.e \in Int
  BY DEF Types
<1>3. Plus(acc[th], s) = [b |-> acc[th].b + s.b, e |-> acc[th].e + s.e]
  BY DEF Plus
<1>4. acc[th].b \in Int /\ acc[th].e \in Int
  BY <1>2
<1>5. acc' = [acc EXCEPT ![th] = [b |-> acc[th].b + s.b, e |-> acc[th].e + s.e]]
  BY <1>3
<1>6. acc' \in [Threads -> [b : Int, e : Int]]
  BY <1>2, <1>4, <1>5
<1> DEFINE f == [h \in Threads |-> acc[h].b]
           g == [h \in Threads |-> acc'[h].b]
           p == [h \in Threads |-> acc[h].e]
           q == [h \in Threads |-> acc'[h].e]
<1>7. f \in [Threads -> Int] /\ p \in [Threads -> Int]
  BY <1>2
<1>8. g = [f EXCEPT ![th] = f[th] + s.b]
  <2>1. \A h \in Threads : acc'[h].b = IF h = th THEN acc[th].b + s.b ELSE acc[h].b
    BY <1>2, <1>5
  <2>2. QED
    BY <2>1
<1>9. q = [p EXCEPT ![th] = p[th] + s.e]
  <2>1. \A h \in Threads : acc'[h].e = IF h = th THEN acc[th].e + s.e ELSE acc[h].e
    BY <1>2, <1>5
  <2>2. QED
    BY <2>1
<1>10. /\ Total.b = SumFunctionOnSet(f, Threads) /\ Total.e = SumFunctionOnSet(p, Threads)
  BY TotalOf
<1>11. /\ Total'.b = SumFunctionOnSet(g, Threads) /\ Total'.e = SumFunctionOnSet(q, Threads)
  BY TotalOf DEF Total, SumFunction
<1> HIDE DEF f, g, p, q
<1>12. SumFunctionOnSet(g, Threads) = SumFunctionOnSet(f, Threads) + s.b
  <2> DEFINE d == s.b
  <2>1. d \in Int
    BY <1>2
  <2> HIDE DEF d
  <2>2. SumFunctionOnSet([f EXCEPT ![th] = f[th] + d], Threads) = SumFunctionOnSet(f, Threads) + d
    BY <1>1, <1>7, <2>1, SumBumped
  <2>3. QED
    BY <1>8, <2>2 DEF d
<1>13. SumFunctionOnSet(q, Threads) = SumFunctionOnSet(p, Threads) + s.e
  <2> DEFINE d == s.e
  <2>1. d \in Int
    BY <1>2
  <2> HIDE DEF d
  <2>2. SumFunctionOnSet([p EXCEPT ![th] = p[th] + d], Threads) = SumFunctionOnSet(p, Threads) + d
    BY <1>1, <1>7, <2>1, SumBumped
  <2>3. QED
    BY <1>9, <2>2 DEF d
<1>14. SumFunctionOnSet(f, Threads) \in Int /\ SumFunctionOnSet(p, Threads) \in Int
  BY <1>1, <1>7, SumType
<1>15. QED
  BY <1>6, <1>10, <1>11, <1>12, <1>13, <1>14

-----------------------------------------------------------------------------
(* Every step keeps the invariant.                                         *)
-----------------------------------------------------------------------------
LEMMA SumOfZeros ==
    ASSUME NEW S, IsFiniteSet(S), NEW f, \A x \in S : f[x] = 0
    PROVE  SumFunctionOnSet(f, S) = 0
<1>1. \A x \in S : f[x] \in Int /\ f[x] \in Int /\ f[x] = f[x] + f[x]
  OBVIOUS
<1>2. SumFunctionOnSet(f, S) = SumFunctionOnSet(f, S) + SumFunctionOnSet(f, S)
  BY <1>1, SumOfSums
<1>3. \A x \in S : f[x] \in Int
  OBVIOUS
<1>4. SumFunctionOnSet(f, S) \in Int
  BY <1>3, SumType
<1>5. \A a \in Int : a = a + a => a = 0
  OBVIOUS
<1>6. QED
  BY <1>2, <1>4, <1>5

\* What linearising factor n adds to the sums of the factors in D.
Grown(T, fs, gs, D, n) ==
    /\ SumFunctionOnSet(ErrorsOf(T, gs), D \cup {n})
         = SumFunctionOnSet(ErrorsOf(T, fs), D) + FactorError(T, n, gs[n])
    /\ SumFunctionOnSet(BsOf(T, gs), D \cup {n})
         = SumFunctionOnSet(BsOf(T, fs), D) + FactorB(T, n, gs[n])

LEMMA PartialGrows ==
    ASSUME NEW T \in Int, NEW fs \in [Indices -> Kept], NEW D, D \subseteq Indices,
           NEW n \in Indices, n \notin D,
           NEW gs \in [Indices -> Kept], \A m \in D : gs[m] = fs[m]
    PROVE  Grown(T, fs, gs, D, n)
<1> DEFINE E == D \cup {n}
<1>1. IsFiniteSet(E) /\ IsFiniteSet(D) /\ E \subseteq Indices /\ E \ {n} = D /\ n \in E
  <2>1. IsFiniteSet(Indices) /\ E \subseteq Indices
    BY PointsAssumption
  <2>2. QED
    BY <2>1, FS_Subset
<1>2. \A m \in Indices : gs[m] \in Kept /\ fs[m] \in Kept /\ (m \in D => gs[m] = fs[m])
  OBVIOUS
<1>3. ASSUME NEW m \in Indices
      PROVE  /\ ErrorsOf(T, gs)[m] \in Int /\ ErrorsOf(T, fs)[m] \in Int
             /\ BsOf(T, gs)[m] \in Int /\ BsOf(T, fs)[m] \in Int
             /\ m \in D => ErrorsOf(T, gs)[m] = ErrorsOf(T, fs)[m] /\ BsOf(T, gs)[m] = BsOf(T, fs)[m]
  <2>1. /\ FactorError(T, m, gs[m]) \in Int /\ FactorB(T, m, gs[m]) \in Int
        /\ FactorError(T, m, fs[m]) \in Int /\ FactorB(T, m, fs[m]) \in Int
    BY <1>2, FactorType
  <2>2. QED
    BY <1>2, <2>1 DEF ErrorsOf, BsOf
<1>4. ErrorsOf(T, gs)[n] = FactorError(T, n, gs[n]) /\ BsOf(T, gs)[n] = FactorB(T, n, gs[n])
  BY DEF ErrorsOf, BsOf
<1> DEFINE f == ErrorsOf(T, fs)
           g == ErrorsOf(T, gs)
           p == BsOf(T, fs)
           q == BsOf(T, gs)
<1>5. /\ \A m \in E : g[m] \in Int
      /\ \A m \in E : q[m] \in Int
      /\ \A m \in D : f[m] \in Int
      /\ \A m \in D : p[m] \in Int
      /\ \A m \in D : g[m] = f[m]
      /\ \A m \in D : q[m] = p[m]
  BY <1>1, <1>3
<1> HIDE DEF f, g, p, q, E
<1>6. SumFunctionOnSet(g, E) = g[n] + SumFunctionOnSet(g, D)
  BY <1>1, <1>5, SumWithout
<1>7. SumFunctionOnSet(q, E) = q[n] + SumFunctionOnSet(q, D)
  BY <1>1, <1>5, SumWithout
<1>8. SumFunctionOnSet(g, D) = SumFunctionOnSet(f, D)
  BY <1>1, <1>5, SumSame
<1>9. SumFunctionOnSet(q, D) = SumFunctionOnSet(p, D)
  BY <1>1, <1>5, SumSame
<1>10. SumFunctionOnSet(f, D) \in Int /\ SumFunctionOnSet(p, D) \in Int
  BY <1>1, <1>5, SumType
<1>11. g[n] \in Int /\ q[n] \in Int
  BY <1>1, <1>5
<1>12. /\ SumFunctionOnSet(g, E) = SumFunctionOnSet(f, D) + g[n]
       /\ SumFunctionOnSet(q, E) = SumFunctionOnSet(p, D) + q[n]
  BY <1>6, <1>7, <1>8, <1>9, <1>10, <1>11
<1>13. QED
  BY <1>4, <1>12 DEF f, g, p, q, E, Grown

LEMMA InitIInv == Init => IInv
<1> SUFFICES ASSUME Init PROVE IInv
  OBVIOUS
<1>1. Types
  <2>1. result \in [T : Poses, converged : BOOLEAN, iterations : Nat, num_inliers : Nat, b : Int, error : Int]
    <3>1. PICK init_T \in InitPoses :
            result = [T |-> init_T, converged |-> FALSE, iterations |-> 0,
                      num_inliers |-> 0, b |-> 0, error |-> 0]
      BY DEF Init
    <3>2. init_T \in Poses
      BY PosesAssumption
    <3>3. QED
      BY <3>1, <3>2
  <2>2. acc \in [Threads -> [b : Int, e : Int]] /\ sys \in [b : Int, e : Int]
    BY DEF Init, Zero
  <2>3. optimizer \in {"GN", "LM", "GPU"}
    BY SettingsAssumption DEF Init
  <2>4. QED
    BY <2>1, <2>2, <2>3 DEF Init, Types, Kept
<1>2. Linearizing
  <2>1. Indices \ todo = {}
    BY DEF Init
  <2>2. \A th \in Threads : acc[th].b = 0 /\ acc[th].e = 0
    BY DEF Init, Zero
  <2>3. IsFiniteSet(Threads)
    BY SettingsAssumption
  <2>4. Total.b = 0 /\ Total.e = 0
    BY <2>2, <2>3, SumOfZeros, TotalOf
  <2>5. QED
    BY <2>1, <2>4, SumEmpty DEF Linearizing
<1>3. Solving /\ Reporting
  <2>1. ~(MaxIterations > 0) \/ stage = "linearize"
    BY DEF Init
  <2>2. stage # "solve"
    BY DEF Init
  <2>3. QED
    BY <2>1, <2>2 DEF Solving, Reporting
<1>4. QED
  BY <1>1, <1>2, <1>3 DEF IInv

LEMMA LinearizeKeeps ==
    ASSUME IInv, NEW th \in Threads, NEW n \in Indices, Linearize(th, n)
    PROVE  IInv'
<1> DEFINE T == result.T
           D == Indices \ todo
<1>1. PICK t \in Corresponding(T, n) :
        /\ factors' = [factors EXCEPT ![n] = t]
        /\ acc' = [acc EXCEPT ![th] = Plus(@, Factor(T, n, t))]
  BY DEF Linearize
<1>2. /\ stage = "linearize" /\ n \in todo /\ todo' = todo \ {n}
      /\ optimizer' = optimizer /\ sys' = sys /\ i' = i /\ j' = j /\ result' = result /\ stage' = stage
  BY DEF Linearize
<1>3. Types /\ Linearizing
  BY DEF IInv
<1>4. T \in Int /\ factors \in [Indices -> Kept]
  BY <1>3, PosesType DEF Types
<1>5. t \in Kept /\ Matched(T, n, t)
  BY <1>4, CorrespondingMatches
<1>6. FactorError(T, n, t) \in Int /\ FactorB(T, n, t) \in Int
  BY <1>4, <1>5, FactorType
<1>7. Factor(T, n, t) \in [b : Int, e : Int] /\ Factor(T, n, t).b = FactorB(T, n, t) /\ Factor(T, n, t).e = FactorError(T, n, t)
  BY <1>6 DEF Factor
<1>8. /\ acc' \in [Threads -> [b : Int, e : Int]]
      /\ Total'.b = Total.b + FactorB(T, n, t) /\ Total'.e = Total.e + FactorError(T, n, t)
  BY <1>1, <1>3, <1>7, TotalGrows
<1>9. Types'
  BY <1>1, <1>2, <1>3, <1>4, <1>5, <1>8 DEF Types
<1>10. Indices \ todo' = D \cup {n} /\ n \notin D /\ D \subseteq Indices
  BY <1>2
<1>11. /\ SumFunctionOnSet(ErrorsOf(T, factors'), D \cup {n})
            = SumFunctionOnSet(ErrorsOf(T, factors), D) + FactorError(T, n, t)
       /\ SumFunctionOnSet(BsOf(T, factors'), D \cup {n})
            = SumFunctionOnSet(BsOf(T, factors), D) + FactorB(T, n, t)
  <2> DEFINE gs == [factors EXCEPT ![n] = t]
  <2>1. factors' = gs
    BY <1>1
  <2>2. gs = [factors EXCEPT ![n] = t]
    OBVIOUS
  <2> HIDE DEF gs, D
  <2>3. QED
    <3>1. gs \in [Indices -> Kept]
      BY <1>4, <1>5, <2>2
    <3>2. D \subseteq Indices /\ n \in Indices /\ n \notin D
      BY <1>10
    <3>3. gs[n] = t /\ \A m \in D : gs[m] = factors[m]
      BY <1>4, <2>2, <3>2
    <3> HIDE DEF T
    <3>4. Grown(T, factors, gs, D, n)
      BY <1>4, <3>1, <3>2, <3>3, PartialGrows
    <3>5. QED
      BY <2>1, <3>3, <3>4 DEF Grown
<1>12. \A m \in Indices \ todo' : Matched(T, m, factors'[m])
  <2> SUFFICES ASSUME NEW m \in Indices \ todo' PROVE Matched(T, m, factors'[m])
    OBVIOUS
  <2>1. CASE m = n
    BY <1>1, <1>4, <1>5, <2>1
  <2>2. CASE m # n
    <3>1. m \in D /\ factors'[m] = factors[m]
      BY <1>1, <1>2, <1>4, <2>2
    <3>2. QED
      BY <1>2, <1>3, <3>1 DEF Linearizing
  <2>3. QED
    BY <2>1, <2>2
<1>13. Linearizing'
  <2>1. /\ Total.b = SumFunctionOnSet(BsOf(T, factors), D)
        /\ Total.e = SumFunctionOnSet(ErrorsOf(T, factors), D)
    BY <1>2, <1>3 DEF Linearizing
  <2>2. /\ Total'.b = SumFunctionOnSet(BsOf(T, factors'), Indices \ todo')
        /\ Total'.e = SumFunctionOnSet(ErrorsOf(T, factors'), Indices \ todo')
    BY <1>8, <1>10, <1>11, <2>1
  <2>3. result'.T = T
    BY <1>2
  <2>4. QED
    BY <1>12, <2>2, <2>3 DEF Linearizing
<1>14. Solving' /\ Reporting'
  BY <1>2 DEF Solving, Reporting
<1>15. QED
  BY <1>9, <1>13, <1>14 DEF IInv

LEMMA GeneralType ==
    ASSUME NEW T \in Poses
    PROVE  GeneralFactor(T).b \in Int /\ GeneralFactor(T).e \in Int
           /\ (Weight = 0 => GeneralFactor(T).b = 0 /\ GeneralFactor(T).e = 0)
<1>1. T - Prior \in Int /\ Weight \in Int
  BY PosesType, SettingsAssumption
<1>2. \A w, x \in Int : w * x \in Int /\ w * x * x \in Int /\ 0 * x = 0 /\ 0 * x * x = 0
  OBVIOUS
<1>3. GeneralFactor(T).b = Weight * (T - Prior) /\ GeneralFactor(T).e = Weight * (T - Prior) * (T - Prior)
  BY DEF GeneralFactor
<1>4. QED
  BY <1>1, <1>2, <1>3

LEMMA InliersCounted == Cardinality(Inliers) \in Nat
<1>1. Inliers \subseteq Indices /\ IsFiniteSet(Indices)
  BY PointsAssumption DEF Inliers
<1>2. QED
  BY <1>1, FS_Subset, FS_CardinalityType

LEMMA ReduceKeeps ==
    ASSUME IInv, Reduce
    PROVE  IInv'
<1> DEFINE T == result.T
<1>1. /\ stage = "linearize" /\ todo = {} /\ j' = 0 /\ stage' = "solve"
      /\ optimizer' = optimizer /\ factors' = factors /\ todo' = todo /\ acc' = acc /\ i' = i
  BY DEF Reduce
<1>2. Types /\ T \in Poses
  BY DEF IInv, Types
<1>3. Indices \ todo = Indices
  BY <1>1
<1>4. /\ \A n \in Indices : Matched(T, n, factors[n])
      /\ Total.b = SumFunctionOnSet(BsOf(T, factors), Indices)
      /\ Total.e = Frozen(T, factors)
  BY <1>1, <1>3 DEF IInv, Linearizing, Frozen
<1>5. Total.e \in Int /\ Total.b \in Int
  BY <1>2, <1>4, SumsOfFactors, SumType
<1>6. Total = [b |-> Total.b, e |-> Total.e]
  BY DEF Total
<1>7. /\ sys' \in [b : Int, e : Int]
      /\ Weight = 0 => sys'.b = Total.b /\ sys'.e = Total.e
  <2>1. CASE optimizer = "GPU"
    BY <1>5, <1>6, <2>1 DEF Reduce
  <2>2. CASE optimizer # "GPU"
    <3>1. sys' = [b |-> Total.b + GeneralFactor(T).b, e |-> Total.e + GeneralFactor(T).e]
      BY <2>2 DEF Reduce, Plus
    <3>2. QED
      BY <1>2, <1>5, <3>1, GeneralType
  <2>3. QED
    BY <2>1, <2>2
<1>8. /\ result' \in [T : Poses, converged : BOOLEAN, iterations : Nat, num_inliers : Nat, b : Int, error : Int]
      /\ result'.T = T
  BY <1>2, InliersCounted DEF Reduce, Types
<1>9. Types'
  BY <1>1, <1>2, <1>7, <1>8 DEF Types
<1>10. Solving'
  BY <1>1, <1>4, <1>7, <1>8 DEF Solving
<1>11. Linearizing' /\ Reporting'
  BY <1>1 DEF Linearizing, Reporting
<1>12. QED
  BY <1>9, <1>10, <1>11 DEF IInv

\* A new outer iteration starts from nothing.
LEMMA RestartedSums ==
    ASSUME acc' = [th \in Threads |-> Zero]
    PROVE  Total'.b = 0 /\ Total'.e = 0
<1> DEFINE g == [th \in Threads |-> acc'[th].b]
           q == [th \in Threads |-> acc'[th].e]
<1>1. (\A th \in Threads : g[th] = 0) /\ (\A th \in Threads : q[th] = 0)
  BY DEF Zero
<1>2. Total'.b = SumFunctionOnSet(g, Threads) /\ Total'.e = SumFunctionOnSet(q, Threads)
  BY DEF Total, SumFunction
<1>3. IsFiniteSet(Threads)
  BY SettingsAssumption
<1> HIDE DEF g, q
<1>4. SumFunctionOnSet(g, Threads) = 0
  BY <1>1, <1>3, SumOfZeros
<1>5. SumFunctionOnSet(q, Threads) = 0
  BY <1>1, <1>3, SumOfZeros
<1>6. QED
  BY <1>2, <1>4, <1>5

LEMMA IterationEnds ==
    ASSUME Types, NEW c, EndIteration(c)
    PROVE  /\ i' \in Nat /\ todo' \subseteq Indices
           /\ acc' \in [Threads -> [b : Int, e : Int]]
           /\ stage' \in {"linearize", "count", "done"}
           /\ Linearizing'
<1> DEFINE goes == NextIteration(i) < MaxIterations /\ ~c
<1>1. CASE goes
  <2>1. i' = i + 1 /\ stage' = "linearize" /\ todo' = Indices /\ acc' = [th \in Threads |-> Zero]
    BY <1>1 DEF EndIteration, NextIteration
  <2>2. Total'.b = 0 /\ Total'.e = 0
    BY <2>1, RestartedSums
  <2>3. Indices \ todo' = {}
    BY <2>1
  <2>4. Linearizing'
    BY <2>2, <2>3, SumEmpty DEF Linearizing
  <2>5. acc' \in [Threads -> [b : Int, e : Int]]
    BY <2>1 DEF Zero
  <2>6. QED
    BY <2>1, <2>4, <2>5 DEF Types
<1>2. CASE ~goes
  <2>1. i' = i /\ todo' = todo /\ acc' = acc /\ stage' \in {"count", "done"}
    BY <1>2 DEF EndIteration
  <2>2. QED
    BY <2>1 DEF Types, Linearizing
<1>3. QED
  BY <1>1, <1>2

\* A step leads to a pose.
LEMMA MovedType ==
    ASSUME Types, NEW new_T \in Solutions, NEW e \in Int
    PROVE  /\ new_T \in Poses
           /\ Moved(new_T, e) \in [T : Poses, converged : BOOLEAN, iterations : Nat,
                                   num_inliers : Nat, b : Int, error : Int]
           /\ Moved(new_T, e).T = new_T /\ Moved(new_T, e).error = e
<1>1. new_T \in Poses
  BY DEF Solutions, Types
<1>2. Converged(new_T) \in BOOLEAN
  BY DEF Converged
<1>3. /\ result \in [T : Poses, converged : BOOLEAN, iterations : Nat,
                     num_inliers : Nat, b : Int, error : Int]
      /\ i \in Nat /\ sys.b \in Int
  BY DEF Types
<1>4. QED
  BY <1>1, <1>2, <1>3 DEF Moved

LEMMA GaussNewtonKeeps ==
    ASSUME IInv, GaussNewtonStep
    PROVE  IInv'
<1>1. Types
  BY DEF IInv
<1>2. PICK new_T \in Solutions :
        result' = Moved(new_T, sys.e) /\ EndIteration(Converged(new_T))
  BY DEF GaussNewtonStep
<1>3. optimizer = "GN" /\ optimizer' = optimizer /\ factors' = factors /\ sys' = sys /\ j' = j
  BY DEF GaussNewtonStep
<1>4. /\ i' \in Nat /\ todo' \subseteq Indices
      /\ acc' \in [Threads -> [b : Int, e : Int]]
      /\ stage' \in {"linearize", "count", "done"}
      /\ Linearizing'
  BY <1>1, <1>2, IterationEnds
<1>5. sys.e \in Int
  BY <1>1 DEF Types
<1>6. result' \in [T : Poses, converged : BOOLEAN, iterations : Nat,
                   num_inliers : Nat, b : Int, error : Int]
  BY <1>1, <1>2, <1>5, MovedType
<1>7. Types'
  BY <1>1, <1>3, <1>4, <1>6 DEF Types
<1>8. Solving' /\ Reporting'
  BY <1>3, <1>4 DEF Solving, Reporting
<1>9. QED
  BY <1>4, <1>7, <1>8 DEF IInv

LEMMA AcceptKeeps ==
    ASSUME IInv, LevenbergMarquardtAccept
    PROVE  IInv'
<1>1. Types
  BY DEF IInv
<1>2. PICK new_T \in Solutions :
        /\ result' = Moved(new_T, ErrorAfter(new_T))
        /\ sys' = [sys EXCEPT !.e = ErrorAfter(new_T)]
        /\ EndIteration(Converged(new_T))
  BY DEF LevenbergMarquardtAccept
<1>3. optimizer' = optimizer /\ factors' = factors /\ j' = j
  BY DEF LevenbergMarquardtAccept
<1>4. /\ i' \in Nat /\ todo' \subseteq Indices
      /\ acc' \in [Threads -> [b : Int, e : Int]]
      /\ stage' \in {"linearize", "count", "done"}
      /\ Linearizing'
  BY <1>1, <1>2, IterationEnds
<1>5. new_T \in Poses
  BY <1>1 DEF Solutions, Types
<1>6. FrozenError(new_T) = Frozen(new_T, factors) /\ Frozen(new_T, factors) \in Int
  BY <1>1, <1>5, FrozenSum, SumsOfFactors
<1>7. ErrorAfter(new_T) \in Int
  BY <1>1, <1>6 DEF ErrorAfter, Types
<1>8. /\ result' \in [T : Poses, converged : BOOLEAN, iterations : Nat,
                      num_inliers : Nat, b : Int, error : Int]
      /\ result'.T = new_T /\ result'.error = ErrorAfter(new_T)
  BY <1>1, <1>2, <1>7, MovedType
<1>9. sys' \in [b : Int, e : Int]
  BY <1>1, <1>2, <1>7 DEF Types
<1>10. Types'
  BY <1>1, <1>3, <1>4, <1>8, <1>9 DEF Types
<1>11. optimizer = "LM" => result'.error = Frozen(result'.T, factors')
  BY <1>3, <1>6, <1>8 DEF ErrorAfter
<1>12. Solving' /\ Reporting'
  BY <1>3, <1>4, <1>11 DEF Solving, Reporting
<1>13. QED
  BY <1>4, <1>10, <1>12 DEF IInv

\* Without a general factor a trial has to reach the error of the pose.
LEMMA BoundIsError ==
    ASSUME Types, NEW new_T \in Poses
    PROVE  Bound(new_T) \in Int /\ (Weight = 0 => Bound(new_T) = sys.e)
<1>1. sys.e \in Int
  BY DEF Types
<1>2. QED
  BY <1>1, GeneralType DEF Bound

LEMMA RejectKeeps ==
    ASSUME IInv, LevenbergMarquardtReject
    PROVE  IInv'
<1>1. Types
  BY DEF IInv
<1>2. PICK new_T \in Solutions : sys' = [sys EXCEPT !.e = Bound(new_T)]
  BY DEF LevenbergMarquardtReject
<1>3. /\ stage = "solve" /\ j' = j + 1
      /\ optimizer' = optimizer /\ factors' = factors /\ todo' = todo /\ acc' = acc
      /\ i' = i /\ result' = result /\ stage' = stage
  BY DEF LevenbergMarquardtReject
<1>4. new_T \in Poses
  BY <1>1 DEF Solutions, Types
<1>5. /\ sys' \in [b : Int, e : Int] /\ sys'.b = sys.b
      /\ Weight = 0 => sys'.e = sys.e
  BY <1>1, <1>2, <1>4, BoundIsError DEF Types
<1>6. Types'
  BY <1>1, <1>3, <1>5 DEF Types
<1>7. Solving'
  BY <1>3, <1>5 DEF IInv, Solving
<1>8. Linearizing' /\ Reporting'
  BY <1>3 DEF Linearizing, Reporting
<1>9. QED
  BY <1>6, <1>7, <1>8 DEF IInv

LEMMA GiveUpKeeps ==
    ASSUME IInv, LevenbergMarquardtGiveUp
    PROVE  IInv'
<1>1. Types /\ Solving
  BY DEF IInv
<1>2. /\ stage = "solve" /\ stage' \in {"count", "done"}
      /\ result' = [result EXCEPT !.iterations = i, !.b = sys.b, !.error = sys.e]
      /\ optimizer' = optimizer /\ factors' = factors /\ todo' = todo /\ acc' = acc
      /\ sys' = sys /\ i' = i /\ j' = j
  BY DEF LevenbergMarquardtGiveUp
<1>3. /\ result' \in [T : Poses, converged : BOOLEAN, iterations : Nat,
                      num_inliers : Nat, b : Int, error : Int]
      /\ result'.T = result.T /\ result'.error = sys.e
  BY <1>1, <1>2 DEF Types
<1>4. Types'
  BY <1>1, <1>2, <1>3 DEF Types
<1>5. Weight = 0 => sys.e = Frozen(result.T, factors)
  BY <1>1, <1>2 DEF Solving
<1>6. Linearizing' /\ Solving' /\ Reporting'
  BY <1>2, <1>3, <1>5 DEF Linearizing, Solving, Reporting
<1>7. QED
  BY <1>4, <1>6 DEF IInv

LEMMA CountKeeps ==
    ASSUME IInv, CountInliers
    PROVE  IInv'
<1>1. Types /\ Reporting
  BY DEF IInv
<1>2. /\ stage = "count" /\ stage' = "done"
      /\ result' = [result EXCEPT !.num_inliers = Cardinality(Inliers)]
      /\ optimizer' = optimizer /\ factors' = factors /\ todo' = todo /\ acc' = acc
      /\ sys' = sys /\ i' = i /\ j' = j
  BY DEF CountInliers
<1>3. /\ result' \in [T : Poses, converged : BOOLEAN, iterations : Nat,
                      num_inliers : Nat, b : Int, error : Int]
      /\ result'.T = result.T /\ result'.error = result.error
  BY <1>1, <1>2, InliersCounted DEF Types
<1>4. Types'
  BY <1>1, <1>2, <1>3 DEF Types
<1>5. Linearizing' /\ Solving' /\ Reporting'
  BY <1>1, <1>2, <1>3 DEF Linearizing, Solving, Reporting
<1>6. QED
  BY <1>4, <1>5 DEF IInv

\* The invariant holds throughout an alignment.
THEOREM Invariance == Spec => []IInv
<1>1. IInv /\ [Next]_vars => IInv'
  <2> SUFFICES ASSUME IInv, [Next]_vars PROVE IInv'
    OBVIOUS
  <2>1. CASE \E th \in Threads, n \in Indices : Linearize(th, n)
    BY <2>1, LinearizeKeeps
  <2>2. CASE Reduce
    BY <2>2, ReduceKeeps
  <2>3. CASE GaussNewtonStep
    BY <2>3, GaussNewtonKeeps
  <2>4. CASE LevenbergMarquardtAccept
    BY <2>4, AcceptKeeps
  <2>5. CASE LevenbergMarquardtReject
    BY <2>5, RejectKeeps
  <2>6. CASE LevenbergMarquardtGiveUp
    BY <2>6, GiveUpKeeps
  <2>7. CASE CountInliers
    BY <2>7, CountKeeps
  <2>8. CASE UNCHANGED vars
    BY <2>8 DEF vars, IInv, Types, Linearizing, Solving, Reporting, Matched, Nearest, SqDist,
                Frozen, ErrorsOf, BsOf, FactorError, FactorB, Total
  <2>9. QED
    BY <2>1, <2>2, <2>3, <2>4, <2>5, <2>6, <2>7, <2>8 DEF Next
<1>2. QED
  BY <1>1, InitIInv, PTL DEF Spec

-----------------------------------------------------------------------------
(* What the invariant says of the optimisers.                              *)
-----------------------------------------------------------------------------
\* The system an optimiser is given is the serial sum over all factors, each
\* with its nearest target or none (the reductions, and the factors'
\* linearize()).
THEOREM SerialSum == Spec => []SystemIsSerialSum
<1>1. IInv => SystemIsSerialSum
  <2> SUFFICES ASSUME IInv, stage = "solve", j = 0 PROVE SystemIsSerialSum
    BY DEF SystemIsSerialSum
  <2>1. Solving
    BY DEF IInv
  <2>2. \A n \in Indices : Matched(result.T, n, factors[n])
    BY <2>1 DEF Solving
  <2>3. ASSUME Weight = 0
        PROVE  /\ sys.e = FrozenError(result.T)
               /\ sys.b = SumFunction([n \in Indices |-> FactorB(result.T, n, factors[n])])
    <3>1. /\ sys.e = Frozen(result.T, factors)
          /\ sys.b = SumFunctionOnSet(BsOf(result.T, factors), Indices)
      BY <2>1, <2>3 DEF Solving
    <3>2. FrozenError(result.T) = Frozen(result.T, factors)
      BY FrozenSum
    <3>3. DOMAIN BsOf(result.T, factors) = Indices
      BY DEF BsOf
    <3>4. SumFunction(BsOf(result.T, factors)) = SumFunctionOnSet(BsOf(result.T, factors), Indices)
      BY <3>3 DEF SumFunction
    <3>5. BsOf(result.T, factors) = [n \in Indices |-> FactorB(result.T, n, factors[n])]
      BY DEF BsOf
    <3>6. QED
      BY <3>1, <3>2, <3>4, <3>5
  <2>4. QED
    BY <2>2, <2>3 DEF SystemIsSerialSum, Matched
<1>2. QED
  BY <1>1, Invariance, PTL

\* The error reported is that of the pose reported.
THEOREM FinalErrorHolds == Spec => []FinalError
<1>1. IInv => FinalError
  <2> SUFFICES ASSUME IInv, stage = "done", optimizer = "LM", Weight = 0, MaxIterations > 0
               PROVE  result.error = FrozenError(result.T)
    BY DEF FinalError
  <2>1. result.error = Frozen(result.T, factors)
    BY DEF IInv, Reporting
  <2>2. QED
    BY <2>1, FrozenSum
<1>2. QED
  BY <1>1, Invariance, PTL

-----------------------------------------------------------------------------
\* What a factor without a target leaves to the objective.
Out(t) == IF t = NoTarget THEN MaxDistSq ELSE 0

LEMMA CutIsLeast ==
    ASSUME NEW T \in Int, NEW n \in Indices
    PROVE  /\ Cut(T, n) = MaxDistSq \/ \E t \in Target : Cut(T, n) = SqDist(T, n, t)
           /\ Cut(T, n) <= MaxDistSq
           /\ \A t \in Target : Cut(T, n) <= SqDist(T, n, t)
           /\ Cut(T, n) \in Nat
<1> DEFINE ds == {MaxDistSq} \cup {SqDist(T, n, t) : t \in Target}
<1>1. ds \subseteq Nat /\ ds # {}
  BY FactorType, SettingsAssumption
<1>2. \E m \in ds : \A d \in ds : m <= d
  BY <1>1, LeastNat
<1>3. Cut(T, n) = CHOOSE m \in ds : \A d \in ds : m <= d
  BY DEF Cut, Min
<1> HIDE DEF ds
<1>4. Cut(T, n) \in ds /\ \A d \in ds : Cut(T, n) <= d
  BY <1>2, <1>3
<1>5. QED
  BY <1>1, <1>4 DEF ds

LEMMA CutAtMost ==
    ASSUME NEW T \in Int, NEW n \in Indices, NEW t \in Kept
    PROVE  Cut(T, n) <= FactorError(T, n, t) + Out(t)
<1>1. CASE t = NoTarget
  <2>1. FactorError(T, n, t) = 0 /\ Out(t) = MaxDistSq /\ MaxDistSq \in Nat
    BY <1>1, SettingsAssumption DEF FactorError, Out
  <2>2. QED
    BY <2>1, CutIsLeast
<1>2. CASE t # NoTarget
  <2>1. t \in Target
    BY <1>2 DEF Kept
  <2>2. FactorError(T, n, t) = SqDist(T, n, t) /\ Out(t) = 0 /\ SqDist(T, n, t) \in Nat
    BY <1>2, <2>1, FactorType DEF FactorError, Out
  <2>3. Cut(T, n) <= SqDist(T, n, t)
    BY <2>1, CutIsLeast
  <2>4. QED
    BY <2>2, <2>3
<1>3. QED
  BY <1>1, <1>2

LEMMA CutOfMatched ==
    ASSUME NEW T \in Int, NEW n \in Indices, NEW t \in Kept, Matched(T, n, t)
    PROVE  Cut(T, n) = FactorError(T, n, t) + Out(t)
<1> DEFINE near == {u \in Target : SqDist(T, n, u) <= MaxDistSq}
           c == Cut(T, n)
<1>1. /\ c = MaxDistSq \/ \E u \in Target : c = SqDist(T, n, u)
      /\ c <= MaxDistSq
      /\ \A u \in Target : c <= SqDist(T, n, u)
      /\ c \in Nat
  BY CutIsLeast
<1> HIDE DEF c
<1>2. MaxDistSq \in Nat /\ NoTarget \notin Target /\ \A u \in Target : SqDist(T, n, u) \in Nat
  BY SettingsAssumption, PointsAssumption, FactorType
<1>3. CASE near = {}
  <2>1. t = NoTarget
    BY <1>3 DEF Matched
  <2>2. \A u \in Target : ~(SqDist(T, n, u) <= MaxDistSq)
    BY <1>3
  <2>3. c = MaxDistSq
    BY <1>1, <1>2, <2>2
  <2>4. FactorError(T, n, t) = 0 /\ Out(t) = MaxDistSq
    BY <2>1 DEF FactorError, Out
  <2>5. QED
    BY <1>2, <2>3, <2>4 DEF c
<1>4. CASE near # {}
  <2>1. t \in Nearest(T, n) /\ t \in near
    BY <1>4 DEF Matched
  <2> DEFINE d == SqDist(T, n, t)
  <2>2. t \in Target /\ d <= MaxDistSq /\ \A u \in Target : d <= SqDist(T, n, u)
    BY <2>1 DEF Nearest
  <2>3. FactorError(T, n, t) = d /\ Out(t) = 0
    BY <1>2, <2>2 DEF FactorError, Out
  <2>4. d \in Nat /\ c <= d
    BY <1>1, <1>2, <2>2
  <2> HIDE DEF d
  <2>5. d <= c
    BY <1>1, <2>2
  <2>6. c = d
    BY <1>1, <2>4, <2>5
  <2>7. QED
    BY <2>3, <2>4, <2>6 DEF c
<1>5. QED
  BY <1>3, <1>4

CutsOf(T) == [n \in Indices |-> Cut(T, n)]
OutsOf(fs) == [n \in Indices |-> Out(fs[n])]

\* The objective is at most the frozen error and what the factors without a
\* target leave, and no less where the correspondences were searched.
LEMMA ObjectiveSum ==
    ASSUME NEW T
    PROVE  Objective(T) = SumFunctionOnSet(CutsOf(T), Indices)
<1>1. DOMAIN CutsOf(T) = Indices
  BY DEF CutsOf
<1>2. Objective(T) = SumFunction(CutsOf(T))
  BY DEF Objective, CutsOf
<1>3. QED
  BY <1>1, <1>2 DEF SumFunction

LEMMA ObjectiveBound ==
    ASSUME Types, NEW T \in Poses
    PROVE  /\ Objective(T) \in Int
           /\ SumFunctionOnSet(OutsOf(factors), Indices) \in Int
           /\ Objective(T) <= Frozen(T, factors) + SumFunctionOnSet(OutsOf(factors), Indices)
           /\ (\A n \in Indices : Matched(T, n, factors[n])) =>
                Objective(T) = Frozen(T, factors) + SumFunctionOnSet(OutsOf(factors), Indices)
<1> DEFINE f == ErrorsOf(T, factors)
           g == OutsOf(factors)
           h == [n \in Indices |-> f[n] + g[n]]
           c == CutsOf(T)
<1>1. IsFiniteSet(Indices) /\ T \in Int /\ factors \in [Indices -> Kept]
  BY PointsAssumption, PosesType DEF Types
<1>2. ASSUME NEW n \in Indices
      PROVE  /\ f[n] = FactorError(T, n, factors[n]) /\ f[n] \in Int
             /\ g[n] = Out(factors[n]) /\ g[n] \in Int
             /\ c[n] = Cut(T, n) /\ c[n] \in Int
  <2>1. f[n] = FactorError(T, n, factors[n]) /\ g[n] = Out(factors[n]) /\ c[n] = Cut(T, n)
    BY DEF ErrorsOf, OutsOf, CutsOf
  <2>2. f[n] \in Int
    BY SumsOfFactors
  <2>3. Out(factors[n]) \in Int
    BY SettingsAssumption DEF Out
  <2>4. Cut(T, n) \in Int
    BY <1>1, CutIsLeast
  <2>5. QED
    BY <2>1, <2>2, <2>3, <2>4
<1>3. \A n \in Indices : c[n] <= f[n] + g[n]
  BY <1>1, <1>2, CutAtMost
<1>4. \A n \in Indices : Matched(T, n, factors[n]) => c[n] = f[n] + g[n]
  BY <1>1, <1>2, CutOfMatched
<1>5. Objective(T) = SumFunctionOnSet(c, Indices) /\ Frozen(T, factors) = SumFunctionOnSet(f, Indices)
  BY ObjectiveSum DEF Frozen
<1>6. \A n \in Indices : h[n] = f[n] + g[n]
  OBVIOUS
<1> HIDE DEF f, g, h, c
<1>7. /\ \A n \in Indices : f[n] \in Int
      /\ \A n \in Indices : g[n] \in Int
      /\ \A n \in Indices : c[n] \in Int
      /\ \A n \in Indices : h[n] \in Int
  BY <1>2, <1>6
<1>8. SumFunctionOnSet(h, Indices) = SumFunctionOnSet(f, Indices) + SumFunctionOnSet(g, Indices)
  BY <1>1, <1>6, <1>7, SumOfSums
<1>9. SumFunctionOnSet(c, Indices) <= SumFunctionOnSet(h, Indices)
  <2>1. \A n \in Indices : c[n] \in Int /\ h[n] \in Int /\ c[n] <= h[n]
    BY <1>3, <1>6, <1>7
  <2>2. QED
    BY <1>1, <2>1, SumAtMost
<1>10. ASSUME \A n \in Indices : Matched(T, n, factors[n])
       PROVE  SumFunctionOnSet(c, Indices) = SumFunctionOnSet(h, Indices)
  <2>1. \A n \in Indices : c[n] = h[n]
    BY <1>4, <1>6, <1>10
  <2>2. QED
    BY <1>1, <2>1, SumSame
<1>11. SumFunctionOnSet(c, Indices) \in Int
  BY <1>1, <1>7, SumType
<1>12. SumFunctionOnSet(g, Indices) \in Int
  BY <1>1, <1>7, SumType
<1>13. QED
  BY <1>5, <1>8, <1>9, <1>10, <1>11, <1>12 DEF g

\* A Levenberg-Marquardt step never raises the objective, although it is
\* accepted for the error of the correspondences the last linearisation found.
THEOREM StepsDescend == Spec => Descends
<1> DEFINE A == optimizer # "GN" /\ Weight = 0 => Objective(result'.T) <= Objective(result.T)
<1>1. IInv /\ [Next]_vars => [A]_vars
  <2> SUFFICES ASSUME IInv, Next, optimizer # "GN", Weight = 0
               PROVE  Objective(result'.T) <= Objective(result.T)
    OBVIOUS
  <2>1. Types /\ Solving /\ result.T \in Poses
    BY DEF IInv, Types
  <2>2. CASE result'.T = result.T
    <3>1. Objective(result.T) \in Int
      BY <2>1, ObjectiveBound
    <3>2. QED
      BY <2>2, <3>1
  <2>3. CASE LevenbergMarquardtAccept
    <3>1. PICK new_T \in Solutions :
            /\ Decreases(new_T)
            /\ result' = Moved(new_T, ErrorAfter(new_T))
      BY <2>3 DEF LevenbergMarquardtAccept
    <3> DEFINE o == SumFunctionOnSet(OutsOf(factors), Indices)
    <3>2. new_T \in Poses
      BY <2>1, <3>1 DEF Solutions
    <3>3. result'.T = new_T
      BY <2>1, <3>1 DEF Moved, Types
    <3>4. sys.e = Frozen(result.T, factors) /\ \A n \in Indices : Matched(result.T, n, factors[n])
      BY <2>1, <2>3 DEF Solving, LevenbergMarquardtAccept
    <3>5. Frozen(new_T, factors) <= sys.e
      BY <2>1, <3>1, <3>2, FrozenSum, BoundIsError DEF Decreases
    <3>6. Objective(result.T) = Frozen(result.T, factors) + o /\ Objective(result.T) \in Int /\ o \in Int
      BY <2>1, <3>4, ObjectiveBound
    <3>7. Objective(new_T) <= Frozen(new_T, factors) + o /\ Objective(new_T) \in Int
      BY <2>1, <3>2, ObjectiveBound
    <3>8. Frozen(new_T, factors) \in Int /\ Frozen(result.T, factors) \in Int
      BY <2>1, <3>2, SumsOfFactors
    <3> HIDE DEF o
    <3>9. QED
      BY <3>3, <3>4, <3>5, <3>6, <3>7, <3>8
  <2>4. ASSUME ~LevenbergMarquardtAccept PROVE result'.T = result.T
    <3>1. result \in [T : Poses, converged : BOOLEAN, iterations : Nat, num_inliers : Nat, b : Int, error : Int]
      BY <2>1 DEF Types
    <3>2. CASE \E th \in Threads, n \in Indices : Linearize(th, n)
      BY <3>2 DEF Linearize
    <3>3. CASE Reduce
      BY <3>1, <3>3 DEF Reduce
    <3>4. CASE LevenbergMarquardtReject
      BY <3>4 DEF LevenbergMarquardtReject
    <3>5. CASE LevenbergMarquardtGiveUp
      BY <3>1, <3>5 DEF LevenbergMarquardtGiveUp
    <3>6. CASE CountInliers
      BY <3>1, <3>6 DEF CountInliers
    <3>7. ~GaussNewtonStep
      BY DEF GaussNewtonStep
    <3>8. QED
      BY <2>4, <3>2, <3>3, <3>4, <3>5, <3>6, <3>7 DEF Next
  <2>5. QED
    BY <2>2, <2>3, <2>4
<1>2. QED
  BY <1>1, Invariance, PTL DEF Descends, Spec

=============================================================================
