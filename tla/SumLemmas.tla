------------------------------ MODULE SumLemmas ------------------------------
(***************************************************************************)
(* What the proofs of the components use about finite sets: induction over *)
(* the subsets of a finite set, the least and the greatest element, and    *)
(* SumFunctionOnSet (of module Functions), by which the components add up  *)
(* quantities and amounts.                                                 *)
(*                                                                         *)
(* The library states induction for a predicate P(_), which the provers    *)
(* cannot instantiate; here P is the set of the subsets for which the      *)
(* predicate holds, so that every lemma is first order.                    *)
(***************************************************************************)
EXTENDS Integers, FiniteSets, Functions, Folds, FiniteSetTheorems,
        WellFoundedInduction, TLAPS

-----------------------------------------------------------------------------
(* Induction, minima and maxima.                                           *)

\* Induction over the subsets of a finite set: what holds of a subset when it
\* holds of the smaller ones holds of all.
LEMMA SetInduction ==
  ASSUME NEW S, IsFiniteSet(S), NEW P,
         \A T \in SUBSET S : (\A U \in SUBSET T : U # T => U \in P) => T \in P
  PROVE  \A T \in SUBSET S : T \in P
<1> DEFINE R == StrictSubsetOrdering(S)
           Left == {T \in SUBSET S : T \notin P}
<1>1. SUFFICES ASSUME Left # {} PROVE FALSE
  OBVIOUS
<1>2. IsWellFoundedOn(R, FiniteSubsetsOf(S))
  BY FS_StrictSubsetOrderingWellFounded
<1>3. Left \subseteq FiniteSubsetsOf(S)
  BY FS_Subset DEF FiniteSubsetsOf
<1>4. PICK T \in Left : \A U \in Left : ~(<<U, T>> \in R)
  <2> HIDE DEF Left, R
  <2> QED BY <1>1, <1>2, <1>3, WFMin
<1>5. ASSUME NEW U \in SUBSET T, U # T PROVE U \in P
  <2>1. <<U, T>> \in R
    BY <1>5 DEF StrictSubsetOrdering
  <2> QED BY <1>4, <2>1
<1> QED BY <1>4, <1>5

\* A set of naturals that is not empty has a least element.
LEMMA LeastNatural ==
  ASSUME NEW S, S \subseteq Nat, S # {}
  PROVE  \E m \in S : \A n \in S : m <= n
<1> DEFINE R == {ss \in Nat \X Nat : ss[1] < ss[2]}
<1>1. IsWellFoundedOn(R, Nat)
  BY NatLessThanWellFounded DEF OpToRel
<1> HIDE DEF R
<1>2. PICK m \in S : \A n \in S : ~(<<n, m>> \in R)
  BY <1>1, WFMin
<1>3. ASSUME NEW n \in S PROVE m <= n
  <2>1. n \in Nat /\ m \in Nat
    OBVIOUS
  <2>2. <<n, m>> \in R <=> n < m
    BY <2>1 DEF R
  <2> QED
    BY <1>2, <2>1, <2>2
<1> QED
  BY <1>3

\* What holds of 0, and of n + 1 when it holds of n, holds of every number up to
\* a bound.
LEMMA StepByStep ==
  ASSUME NEW N \in Nat, NEW P, 0 \in P, \A n \in 0..(N - 1) : n \in P => n + 1 \in P
  PROVE  \A n \in 0..N : n \in P
<1> DEFINE Left == {n \in 0..N : n \notin P}
<1>1. SUFFICES ASSUME Left # {} PROVE FALSE
  OBVIOUS
<1>2. PICK m \in Left : \A n \in Left : m <= n
  <2>1. Left \subseteq Nat
    OBVIOUS
  <2> HIDE DEF Left
  <2> QED
    BY <1>1, <2>1, LeastNatural
<1>3. m # 0 /\ m - 1 \in 0..(N - 1)
  OBVIOUS
<1>4. m - 1 \in P
  BY <1>2, <1>3
<1>5. (m - 1) + 1 = m
  OBVIOUS
<1> QED
  BY <1>3, <1>4, <1>5

\* A rank that is bounded is greatest somewhere.
LEMMA GreatestRank ==
  ASSUME NEW S, S # {}, NEW rank \in [S -> Nat], NEW bound \in Nat,
         \A x \in S : rank[x] <= bound
  PROVE  \E m \in S : \A x \in S : rank[x] <= rank[m]
<1> DEFINE Gap == {bound - rank[x] : x \in S}
<1>1. Gap \subseteq Nat /\ Gap # {}
  OBVIOUS
<1>2. PICK least \in Gap : \A n \in Gap : least <= n
  <2> HIDE DEF Gap
  <2> QED
    BY <1>1, LeastNatural
<1>3. PICK m \in S : least = bound - rank[m]
  OBVIOUS
<1>4. ASSUME NEW x \in S PROVE rank[x] <= rank[m]
  <2>1. least <= bound - rank[x]
    BY <1>2
  <2>2. rank[x] \in Nat /\ rank[m] \in Nat
    OBVIOUS
  <2> QED
    BY <1>3, <2>1, <2>2
<1> QED
  BY <1>4

\* A rank on a finite set is bounded.
LEMMA FiniteBound ==
  ASSUME NEW S, IsFiniteSet(S), NEW rank \in [S -> Nat]
  PROVE  \E bound \in Nat : \A x \in S : rank[x] <= bound
<1> DEFINE P == {T \in SUBSET S : \E bound \in Nat : \A x \in T : rank[x] <= bound}
<1>1. ASSUME NEW T \in SUBSET S, \A U \in SUBSET T : U # T => U \in P
      PROVE  T \in P
  <2>1. CASE T = {}
    <3>1. \A x \in T : rank[x] <= 0
      BY <2>1
    <3> QED
      BY <3>1
  <2>2. CASE T # {}
    <3>1. PICK x \in T : TRUE
      BY <2>2
    <3>2. PICK least \in Nat : \A y \in T \ {x} : rank[y] <= least
      <4>1. T \ {x} \in P
        BY <1>1, <3>1
      <4> QED
        BY <4>1
    <3>3. PICK bound \in Nat : least <= bound /\ rank[x] <= bound
      <4>1. rank[x] \in Nat
        OBVIOUS
      <4> QED
        BY <4>1
    <3>4. ASSUME NEW y \in T PROVE rank[y] <= bound
      <4>1. rank[y] \in Nat
        OBVIOUS
      <4>2. CASE y = x
        BY <3>3, <4>2
      <4>3. CASE y # x
        <5>1. rank[y] <= least
          BY <3>2, <4>3
        <5> QED
          BY <3>3, <4>1, <5>1
      <4> QED
        BY <4>2, <4>3
    <3> QED
      BY <3>4
  <2> QED
    BY <2>1, <2>2
<1>2. \A T \in SUBSET S : T \in P
  <2> HIDE DEF P
  <2> QED
    BY <1>1, SetInduction
<1> QED
  BY <1>2

-----------------------------------------------------------------------------
(* Sums.                                                                   *)

\* The element that a fold takes out of a set first.
SomeOf(s) == CHOOSE x \in s : TRUE

\* g maps every subset of S to the sum of f over it, as the fold defines it.
Sums(f, S, g) ==
  g = [s \in SUBSET S |->
         IF s = {} THEN 0 ELSE f[SomeOf(s)] + g[s \ {SomeOf(s)}]]

\* SumFunctionOnSet applies the function that its recursive definition chooses.
LEMMA SumIsFold ==
  ASSUME NEW f, NEW S
  PROVE  SumFunctionOnSet(f, S) = (CHOOSE g : Sums(f, S, g))[S]
BY DEF SumFunctionOnSet, FoldFunctionOnSet, MapThenFoldSet, Sums, SomeOf

\* Such functions agree wherever both are defined.
LEMMA SumsAgree ==
  ASSUME NEW f, NEW S, IsFiniteSet(S), NEW T \in SUBSET S, NEW g, NEW h, 
         Sums(f, S, g), Sums(f, T, h)
  PROVE  \A U \in SUBSET T : g[U] = h[U]
<1> DEFINE P == {U \in SUBSET T : g[U] = h[U]}
<1>1. IsFiniteSet(T)
  BY FS_Subset
<1>2. ASSUME NEW U \in SUBSET T, \A V \in SUBSET U : V # U => V \in P PROVE U \in P
  <2>1. CASE U = {}
    BY <2>1 DEF Sums
  <2>2. CASE U # {}
    <3>1. SomeOf(U) \in U
      BY <2>2 DEF SomeOf
    <3>2. U \ {SomeOf(U)} \in P
      BY <1>2, <3>1
    <3>3. g[U] = f[SomeOf(U)] + g[U \ {SomeOf(U)}]
      BY <2>2 DEF Sums
    <3>4. h[U] = f[SomeOf(U)] + h[U \ {SomeOf(U)}]
      BY <2>2 DEF Sums
    <3> QED BY <3>2, <3>3, <3>4
  <2> QED BY <2>1, <2>2
<1>3. \A U \in SUBSET T : U \in P
  <2> HIDE DEF P
  <2> QED BY <1>1, <1>2, SetInduction
<1> QED BY <1>3

\* There is such a function for every finite set.
LEMMA SumsExist ==
  ASSUME NEW f, NEW S, IsFiniteSet(S)
  PROVE  \E g : Sums(f, S, g)
<1> DEFINE P == {T \in SUBSET S : \E g : Sums(f, T, g)}
<1>1. ASSUME NEW T \in SUBSET S, \A U \in SUBSET T : U # T => U \in P PROVE T \in P
  <2> DEFINE of == [U \in SUBSET T |-> CHOOSE g : Sums(f, U, g)]
             g == [s \in SUBSET T |-> IF s = {} THEN 0
                     ELSE f[SomeOf(s)] + of[s \ {SomeOf(s)}][s \ {SomeOf(s)}]]
  <2>1. ASSUME NEW s \in SUBSET T, s # {}
        PROVE  g[s \ {SomeOf(s)}] = of[s \ {SomeOf(s)}][s \ {SomeOf(s)}]
    <3> DEFINE t == s \ {SomeOf(s)}
               u == t \ {SomeOf(t)}
    <3>1. SomeOf(s) \in s /\ t \in SUBSET T /\ t # T
      BY <2>1 DEF SomeOf
    <3>2. Sums(f, t, of[t])
      BY <1>1, <3>1
    <3>3. CASE t = {}
      BY <3>2, <3>3 DEF Sums
    <3>4. CASE t # {}
      <4>1. SomeOf(t) \in t /\ u \in SUBSET t /\ u \in SUBSET T /\ u # T
        BY <3>1, <3>4 DEF SomeOf
      <4>2. Sums(f, u, of[u])
        BY <1>1, <4>1
      <4>3. IsFiniteSet(t)
        BY FS_Subset, <3>1
      <4>4. of[t][u] = of[u][u]
        <5>1. PICK ft, fu : ft = of[t] /\ fu = of[u]
          OBVIOUS
        <5>2. Sums(f, t, ft) /\ Sums(f, u, fu)
          BY <3>2, <4>2, <5>1
        <5> HIDE DEF of, t, u, g
        <5>3. \A U \in SUBSET u : ft[U] = fu[U]
          BY <5>2, <4>1, <4>3, SumsAgree
        <5> QED BY <5>1, <5>3
      <4>5. of[t][t] = f[SomeOf(t)] + of[t][u]
        BY <3>2, <3>4 DEF Sums
      <4>6. g[t] = f[SomeOf(t)] + of[u][u]
        BY <3>1, <3>4
      <4> QED BY <4>4, <4>5, <4>6
    <3> QED BY <3>3, <3>4
  <2>2. Sums(f, T, g)
    <3>1. ASSUME NEW s \in SUBSET T
          PROVE  g[s] = IF s = {} THEN 0 ELSE f[SomeOf(s)] + g[s \ {SomeOf(s)}]
      <4>1. CASE s = {}
        BY <4>1
      <4>2. CASE s # {}
        <5>1. g[s] = f[SomeOf(s)] + of[s \ {SomeOf(s)}][s \ {SomeOf(s)}]
          BY <4>2
        <5> HIDE DEF g
        <5> QED BY <4>2, <5>1, <2>1
      <4> HIDE DEF g
      <4> QED BY <4>1, <4>2
    <3>2. g = [s \in SUBSET T |-> g[s]]
      OBVIOUS
    <3> HIDE DEF g
    <3> QED BY <3>1, <3>2 DEF Sums
  <2> QED BY <2>2
<1>2. \A T \in SUBSET S : T \in P
  <2> HIDE DEF P
  <2> QED BY <1>1, SetInduction
<1> QED BY <1>2

\* So the sum over a subset is a value of the function for the set.
LEMMA SumsChosen ==
  ASSUME NEW f, NEW S, IsFiniteSet(S), NEW g, Sums(f, S, g), NEW T \in SUBSET S
  PROVE  SumFunctionOnSet(f, T) = g[T]
<1>1. IsFiniteSet(T)
  BY FS_Subset
<1>2. PICK h : h = CHOOSE k : Sums(f, T, k)
  OBVIOUS
<1>3. Sums(f, T, h)
  BY <1>1, <1>2, SumsExist
<1>4. SumFunctionOnSet(f, T) = h[T]
  BY <1>2, SumIsFold
<1> QED BY <1>3, <1>4, SumsAgree

\* The sum of nothing is zero.
LEMMA SumEmpty ==
  ASSUME NEW f
  PROVE  SumFunctionOnSet(f, {}) = 0
<1>1. PICK g : Sums(f, {}, g)
  BY SumsExist, FS_EmptySet
<1>2. g[{}] = 0
  BY <1>1 DEF Sums
<1> QED BY <1>1, <1>2, SumsChosen, FS_EmptySet

\* A sum of integers is an integer, and any term can be taken out of it: the
\* order in which the definition adds the terms makes no difference.
LEMMA SumTakeOut ==
  ASSUME NEW f, NEW S, IsFiniteSet(S), \A y \in S : f[y] \in Int
  PROVE  /\ SumFunctionOnSet(f, S) \in Int
         /\ \A x \in S : SumFunctionOnSet(f, S) = f[x] + SumFunctionOnSet(f, S \ {x})
<1>1. PICK g : Sums(f, S, g)
  BY SumsExist
<1> DEFINE P == {s \in SUBSET S : g[s] \in Int /\ \A x \in s : g[s] = f[x] + g[s \ {x}]}
<1>2. ASSUME NEW s \in SUBSET S, \A U \in SUBSET s : U # s => U \in P PROVE s \in P
  <2>1. CASE s = {}
    BY <1>1, <2>1 DEF Sums
  <2>2. CASE s # {}
    <3> DEFINE y == SomeOf(s)
    <3>1. y \in s
      BY <2>2 DEF SomeOf
    <3>2. g[s] = f[y] + g[s \ {y}]
      BY <1>1, <2>2 DEF Sums
    <3>3. s \ {y} \in P
      BY <1>2, <3>1
    <3>4. g[s] \in Int
      BY <3>1, <3>2, <3>3
    <3>5. ASSUME NEW x \in s, x # y PROVE g[s] = f[x] + g[s \ {x}]
      <4>1. s \ {x} \in P
        BY <1>2
      <4>2. g[s \ {y}] = f[x] + g[(s \ {y}) \ {x}]
        BY <3>3, <3>5
      <4>3. g[s \ {x}] = f[y] + g[(s \ {x}) \ {y}]
        BY <4>1, <3>1, <3>5
      <4>4. (s \ {x}) \ {y} = (s \ {y}) \ {x} /\ (s \ {y}) \ {x} \in P
        BY <1>2, <3>1
      <4>5. f[x] \in Int /\ f[y] \in Int /\ g[(s \ {y}) \ {x}] \in Int
        BY <4>4, <3>1
      <4>6. PICK a \in Int, b \in Int, c \in Int :
              a = f[x] /\ b = f[y] /\ c = g[(s \ {y}) \ {x}]
        BY <4>5
      <4>7. g[s \ {y}] = a + c /\ g[s \ {x}] = b + c
        BY <4>2, <4>3, <4>4, <4>6
      <4>8. g[s] = b + (a + c)
        BY <3>2, <4>6, <4>7
      <4> QED BY <4>6, <4>7, <4>8
    <3> QED BY <3>2, <3>4, <3>5
  <2> QED BY <2>1, <2>2
<1>3. \A s \in SUBSET S : s \in P
  <2> HIDE DEF P
  <2> QED BY <1>2, SetInduction
<1>4. S \in P
  BY <1>3
<1>5. \A T \in SUBSET S : SumFunctionOnSet(f, T) = g[T]
  BY <1>1, SumsChosen
<1> QED BY <1>4, <1>5

\* Functions that agree on a set have the same sum over it.
LEMMA SumSame ==
  ASSUME NEW f, NEW g, NEW S, IsFiniteSet(S), \A x \in S : f[x] = g[x],
         \A x \in S : f[x] \in Int
  PROVE  SumFunctionOnSet(f, S) = SumFunctionOnSet(g, S)
<1> DEFINE P == {T \in SUBSET S : SumFunctionOnSet(f, T) = SumFunctionOnSet(g, T)}
<1>1. ASSUME NEW T \in SUBSET S, \A U \in SUBSET T : U # T => U \in P
      PROVE  T \in P
  <2>1. CASE T = {}
    BY <2>1, SumEmpty
  <2>2. CASE T # {}
    <3>1. PICK x \in T : TRUE
      BY <2>2
    <3>2. IsFiniteSet(T) /\ T \ {x} \in P
      BY <1>1, <3>1, FS_Subset
    <3>3. SumFunctionOnSet(f, T) = f[x] + SumFunctionOnSet(f, T \ {x})
      BY <3>2, SumTakeOut
    <3>4. SumFunctionOnSet(g, T) = g[x] + SumFunctionOnSet(g, T \ {x})
      BY <3>2, SumTakeOut
    <3> QED
      BY <3>2, <3>3, <3>4
  <2> QED
    BY <2>1, <2>2
<1>2. \A T \in SUBSET S : T \in P
  <2> HIDE DEF P
  <2> QED
    BY <1>1, SetInduction
<1> QED
  BY <1>2

\* A new term adds to the sum.
LEMMA SumAdd ==
  ASSUME NEW f, NEW S, IsFiniteSet(S), NEW x, x \notin S,
         \A y \in S \cup {x} : f[y] \in Int
  PROVE  SumFunctionOnSet(f, S \cup {x}) = SumFunctionOnSet(f, S) + f[x]
<1>1. IsFiniteSet(S \cup {x})
  BY FS_AddElement
<1>2. SumFunctionOnSet(f, S \cup {x})
        = f[x] + SumFunctionOnSet(f, (S \cup {x}) \ {x})
  BY <1>1, SumTakeOut
<1>3. (S \cup {x}) \ {x} = S
  OBVIOUS
<1>4. SumFunctionOnSet(f, S) \in Int
  BY SumTakeOut
<1>5. f[x] \in Int
  OBVIOUS
<1>6. SumFunctionOnSet(f, S \cup {x}) = f[x] + SumFunctionOnSet(f, S)
  BY <1>2, <1>3
<1> QED
  BY <1>4, <1>5, <1>6

\* A term after the last one adds to the sum of a sequence.
LEMMA SumAppend ==
  ASSUME NEW n \in Nat, NEW f, NEW g, \A i \in 1..n : f[i] \in Int /\ g[i] = f[i], g[n + 1] \in Int
  PROVE  /\ SumFunctionOnSet(f, 1..n) \in Int
         /\ SumFunctionOnSet(g, 1..(n + 1)) = SumFunctionOnSet(f, 1..n) + g[n + 1]
<1>1. n + 1 \notin 1..n /\ (1..n) \cup {n + 1} = 1..(n + 1)
  OBVIOUS
<1>2. IsFiniteSet(1..n)
  BY FS_Interval
<1>3. \A i \in (1..n) \cup {n + 1} : g[i] \in Int
  OBVIOUS
<1>4. SumFunctionOnSet(g, (1..n) \cup {n + 1}) = SumFunctionOnSet(g, 1..n) + g[n + 1]
  <2>1. PICK S, last : S = 1..n /\ last = n + 1
    OBVIOUS
  <2>2. IsFiniteSet(S) /\ last \notin S /\ \A i \in S \cup {last} : g[i] \in Int
    BY <1>1, <1>2, <1>3, <2>1
  <2>3. SumFunctionOnSet(g, S \cup {last}) = SumFunctionOnSet(g, S) + g[last]
    BY <2>2, SumAdd
  <2> QED
    BY <2>1, <2>3
<1>5. SumFunctionOnSet(f, 1..n) = SumFunctionOnSet(g, 1..n) /\ SumFunctionOnSet(f, 1..n) \in Int
  BY <1>2, SumSame, SumTakeOut
<1> QED
  BY <1>1, <1>4, <1>5

\* Changing one term changes the sum by the difference.
LEMMA SumChange ==
  ASSUME NEW f, NEW g, NEW S, IsFiniteSet(S), NEW x \in S,
         \A y \in S : f[y] \in Int, g[x] \in Int,
         \A y \in S : y # x => g[y] = f[y]
  PROVE  SumFunctionOnSet(g, S) = SumFunctionOnSet(f, S) - f[x] + g[x]
<1>1. \A y \in S : g[y] \in Int
  OBVIOUS
<1>2. IsFiniteSet(S \ {x})
  BY FS_RemoveElement
<1>3. SumFunctionOnSet(f, S) = f[x] + SumFunctionOnSet(f, S \ {x})
  BY SumTakeOut
<1>4. SumFunctionOnSet(g, S) = g[x] + SumFunctionOnSet(g, S \ {x})
  BY <1>1, SumTakeOut
<1>5. SumFunctionOnSet(f, S \ {x}) = SumFunctionOnSet(g, S \ {x})
  BY <1>2, SumSame
<1>6. SumFunctionOnSet(f, S \ {x}) \in Int /\ f[x] \in Int
  BY <1>2, SumTakeOut
<1> QED
  BY <1>3, <1>4, <1>5, <1>6

\* A sum of zeros is zero.
LEMMA SumZero ==
  ASSUME NEW f, NEW S, IsFiniteSet(S), \A x \in S : f[x] = 0
  PROVE  SumFunctionOnSet(f, S) = 0
<1> DEFINE P == {T \in SUBSET S : SumFunctionOnSet(f, T) = 0}
<1>1. ASSUME NEW T \in SUBSET S, \A U \in SUBSET T : U # T => U \in P
      PROVE  T \in P
  <2>1. CASE T = {}
    BY <2>1, SumEmpty
  <2>2. CASE T # {}
    <3>1. PICK x \in T : TRUE
      BY <2>2
    <3>2. IsFiniteSet(T) /\ T \ {x} \in P
      BY <1>1, <3>1, FS_Subset
    <3>3. SumFunctionOnSet(f, T) = f[x] + SumFunctionOnSet(f, T \ {x})
      BY <3>2, SumTakeOut
    <3> QED
      BY <3>2, <3>3
  <2> QED
    BY <2>1, <2>2
<1>2. \A T \in SUBSET S : T \in P
  <2> HIDE DEF P
  <2> QED
    BY <1>1, SetInduction
<1> QED
  BY <1>2

\* Term by term at most, at most in total.
LEMMA SumAtMost ==
  ASSUME NEW f, NEW g, NEW S, IsFiniteSet(S),
         \A x \in S : f[x] \in Int /\ g[x] \in Int /\ f[x] <= g[x]
  PROVE  SumFunctionOnSet(f, S) <= SumFunctionOnSet(g, S)
<1> DEFINE P == {T \in SUBSET S : SumFunctionOnSet(f, T) <= SumFunctionOnSet(g, T)}
<1>1. ASSUME NEW T \in SUBSET S, \A U \in SUBSET T : U # T => U \in P
      PROVE  T \in P
  <2>1. CASE T = {}
    BY <2>1, SumEmpty
  <2>2. CASE T # {}
    <3>1. PICK x \in T : TRUE
      BY <2>2
    <3>2. IsFiniteSet(T) /\ T \ {x} \in P /\ IsFiniteSet(T \ {x})
      BY <1>1, <3>1, FS_Subset, FS_RemoveElement
    <3>3. SumFunctionOnSet(f, T) = f[x] + SumFunctionOnSet(f, T \ {x})
      BY <3>2, SumTakeOut
    <3>4. SumFunctionOnSet(g, T) = g[x] + SumFunctionOnSet(g, T \ {x})
      BY <3>2, SumTakeOut
    <3>5. SumFunctionOnSet(f, T \ {x}) \in Int /\ SumFunctionOnSet(g, T \ {x}) \in Int
      BY <3>2, SumTakeOut
    <3>6. f[x] \in Int /\ g[x] \in Int /\ f[x] <= g[x]
      OBVIOUS
    <3>7. SumFunctionOnSet(f, T \ {x}) <= SumFunctionOnSet(g, T \ {x})
      BY <3>2
    <3> QED
      BY <3>3, <3>4, <3>5, <3>6, <3>7
  <2> QED
    BY <2>1, <2>2
<1>2. \A T \in SUBSET S : T \in P
  <2> HIDE DEF P
  <2> QED
    BY <1>1, SetInduction
<1> QED
  BY <1>2

\* A sum of naturals is a natural.
LEMMA SumNatural ==
  ASSUME NEW f, NEW S, IsFiniteSet(S), \A x \in S : f[x] \in Nat
  PROVE  SumFunctionOnSet(f, S) \in Nat
<1> DEFINE zero == [x \in S |-> 0]
<1>1. SumFunctionOnSet(zero, S) = 0
  BY SumZero
<1>2. SumFunctionOnSet(zero, S) <= SumFunctionOnSet(f, S)
  <2>1. \A x \in S : zero[x] \in Int /\ f[x] \in Int /\ zero[x] <= f[x]
    OBVIOUS
  <2> HIDE DEF zero
  <2> QED
    BY <2>1, SumAtMost
<1>3. SumFunctionOnSet(f, S) \in Int
  BY SumTakeOut
<1> HIDE DEF zero
<1> QED
  BY <1>1, <1>2, <1>3

\* Summing over a part of a set is summing over all of it with zeros elsewhere.
LEMMA SumPart ==
  ASSUME NEW f, NEW g, NEW S, IsFiniteSet(S), NEW A \in SUBSET S,
         \A x \in A : f[x] \in Int /\ g[x] = f[x],
         \A x \in S : x \notin A => g[x] = 0
  PROVE  SumFunctionOnSet(f, A) = SumFunctionOnSet(g, S)
<1> DEFINE P == {T \in SUBSET S : SumFunctionOnSet(f, T \cap A) = SumFunctionOnSet(g, T)}
<1>1. ASSUME NEW T \in SUBSET S, \A U \in SUBSET T : U # T => U \in P
      PROVE  T \in P
  <2>1. CASE T = {}
    <3>1. T \cap A = {}
      BY <2>1
    <3> QED
      BY <2>1, <3>1, SumEmpty
  <2>2. CASE T # {}
    <3>1. PICK x \in T : TRUE
      BY <2>2
    <3>2. IsFiniteSet(T) /\ T \ {x} \in P /\ IsFiniteSet(T \ {x}) /\ IsFiniteSet(T \cap A)
      BY <1>1, <3>1, FS_Subset, FS_RemoveElement
    <3>3. \A y \in T : g[y] \in Int
      OBVIOUS
    <3>4. SumFunctionOnSet(g, T) = g[x] + SumFunctionOnSet(g, T \ {x})
      BY <3>2, <3>3, SumTakeOut
    <3>5. SumFunctionOnSet(g, T \ {x}) \in Int
      BY <3>2, <3>3, SumTakeOut
    <3>6. SumFunctionOnSet(f, (T \ {x}) \cap A) = SumFunctionOnSet(g, T \ {x})
      BY <3>2
    <3>7. CASE x \in A
      <4>1. SumFunctionOnSet(f, T \cap A) = f[x] + SumFunctionOnSet(f, (T \cap A) \ {x})
        BY <3>2, <3>7, SumTakeOut
      <4>2. (T \cap A) \ {x} = (T \ {x}) \cap A
        OBVIOUS
      <4> QED
        BY <3>4, <3>6, <3>7, <4>1, <4>2
    <3>8. CASE x \notin A
      <4>1. T \cap A = (T \ {x}) \cap A
        BY <3>8
      <4>2. SumFunctionOnSet(f, T \cap A) = SumFunctionOnSet(g, T \ {x})
        BY <3>6, <4>1, Zenon
      <4>3. g[x] = 0
        BY <3>8
      <4>4. SumFunctionOnSet(g, T) = SumFunctionOnSet(g, T \ {x})
        BY <3>4, <3>5, <4>3
      <4> QED
        BY <4>2, <4>4
    <3> QED
      BY <3>7, <3>8
  <2> QED
    BY <2>1, <2>2
<1>2. \A T \in SUBSET S : T \in P
  <2> HIDE DEF P
  <2> QED
    BY <1>1, SetInduction
<1>3. S \cap A = A
  OBVIOUS
<1> QED
  BY <1>2, <1>3

=============================================================================
