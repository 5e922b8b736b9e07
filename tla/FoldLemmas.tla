----------------------------- MODULE FoldLemmas -----------------------------
(***************************************************************************)
(* What proofs about recursive definitions rest on: the least element of a *)
(* set of numbers, from which induction over data follows without an       *)
(* operator as parameter, and the existence of what the folds of the       *)
(* community modules choose.                                               *)
(***************************************************************************)
EXTENDS Integers, Functions, FiniteSetTheorems, WellFoundedInduction, TLAPS

\* A set of numbers that is not empty has a least one.
LEMMA LeastNatural ==
  ASSUME NEW T, T \subseteq Nat, T # {}
  PROVE  \E m \in T : \A k \in T : m <= k
<1> DEFINE R == OpToRel(<, Nat)
<1>1. IsWellFoundedOn(R, Nat)
  BY NatLessThanWellFounded
<1>2. \A x, y \in Nat : x < y => <<x, y>> \in R
  BY DEF OpToRel
<1> HIDE DEF R
<1>3. PICK x \in T : \A y \in T : ~ (<<y, x>> \in R)
  BY <1>1, WFMin
<1>4. \A y \in T : ~(y < x)
  BY <1>2, <1>3
<1>5. x \in Nat
  OBVIOUS
<1> QED
  BY <1>4, <1>5

\* Induction: what holds of 0 and of k + 1 if it holds of k, up to n, holds
\* of 0 to n; good is the set of the numbers it holds of.
LEMMA InductionUpTo ==
  ASSUME NEW n \in Nat, NEW good,
         0 \in good,
         \A k \in 0..(n - 1) : k \in good => k + 1 \in good
  PROVE  \A k \in 0..n : k \in good
<1> DEFINE bad == {k \in 0..n : k \notin good}
<1> SUFFICES ASSUME bad # {} PROVE FALSE
  OBVIOUS
<1>1. bad \subseteq Nat
  OBVIOUS
<1>2. PICK m \in bad : \A k \in bad : m <= k
  BY <1>1, LeastNatural
<1>3. m \in 0..n /\ m \notin good /\ m # 0
  BY <1>2
<1>4. m - 1 \in 0..(n - 1) /\ m - 1 \notin bad /\ m - 1 \in 0..n
  BY <1>2, <1>3
<1>5. m - 1 \in good /\ (m - 1) + 1 = m
  BY <1>3, <1>4
<1> QED
  BY <1>3, <1>4, <1>5

-----------------------------------------------------------------------------
(* Folds over sets *)

\* h is what MapThenFoldSet iterates: of a set, G combines the element c chooses
\* with h of the others.
IsFold(h, S, base, G, c) ==
  /\ h[{}] = base
  /\ \A s \in SUBSET S : s # {} => h[s] = G[<<c[s], h[s \ {c[s]}]>>]

\* A finite set less one of its elements has one element less.
LEMMA OneLess ==
  ASSUME NEW S, IsFiniteSet(S), NEW s \in SUBSET S, NEW x \in s
  PROVE  /\ IsFiniteSet(s) /\ Cardinality(s) \in Nat \ {0}
         /\ s \ {x} \in SUBSET S /\ Cardinality(s \ {x}) = Cardinality(s) - 1
<1>1. IsFiniteSet(s)
  BY FS_Subset
<1>2. Cardinality(s) \in Nat /\ Cardinality(s \ {x}) = Cardinality(s) - 1
  BY <1>1, FS_RemoveElement, FS_CardinalityType
<1>3. IsFiniteSet(s \ {x})
  BY <1>1, FS_Subset
<1>4. Cardinality(s \ {x}) \in Nat
  BY <1>3, FS_CardinalityType
<1> QED
  BY <1>1, <1>2, <1>4

\* There is a fold over every finite set.
LEMMA FoldExists ==
  ASSUME NEW S, IsFiniteSet(S), NEW V, NEW base \in V, NEW G \in [S \X V -> V],
         NEW c, \A s \in SUBSET S : s # {} => c[s] \in s
  PROVE  \E h \in [SUBSET S -> V] : IsFold(h, S, base, G, c)
<1> DEFINE Upto(h, k) ==
             /\ h[{}] = base
             /\ \A s \in SUBSET S : s # {} /\ Cardinality(s) <= k => h[s] = G[<<c[s], h[s \ {c[s]}]>>]
           good == {k \in Nat : \E h \in [SUBSET S -> V] : Upto(h, k)}
           n == Cardinality(S)
<1>1. n \in Nat /\ \A s \in SUBSET S : IsFiniteSet(s) /\ Cardinality(s) \in Nat /\ Cardinality(s) <= n
  BY FS_Subset, FS_CardinalityType
<1>2. 0 \in good
  <2> DEFINE h == [s \in SUBSET S |-> base]
  <2>1. \A s \in SUBSET S : s # {} => Cardinality(s) # 0
    BY OneLess
  <2>2. h \in [SUBSET S -> V] /\ Upto(h, 0)
    BY <1>1, <2>1
  <2> QED
    BY <2>2
<1>3. ASSUME NEW k \in Nat, k \in good
      PROVE  k + 1 \in good
  <2>1. PICK g \in [SUBSET S -> V] : Upto(g, k)
    BY <1>3
  <2> DEFINE h == [s \in SUBSET S |-> IF Cardinality(s) <= k \/ s = {} THEN g[s]
                                     ELSE G[<<c[s], g[s \ {c[s]}]>>]]
  <2>2. \A s \in SUBSET S : s # {} =>
          /\ c[s] \in S /\ s \ {c[s]} \in SUBSET S
          /\ Cardinality(s) \in Nat /\ Cardinality(s \ {c[s]}) = Cardinality(s) - 1
    BY OneLess
  <2>3. h \in [SUBSET S -> V]
    BY <2>1, <2>2
  <2>4. h[{}] = base
    BY <2>1
  <2>5. ASSUME NEW s \in SUBSET S, s # {}, Cardinality(s) <= k + 1
        PROVE  h[s] = G[<<c[s], h[s \ {c[s]}]>>]
    <3>1. h[s \ {c[s]}] = g[s \ {c[s]}]
      BY <2>2, <2>5
    <3>2. CASE Cardinality(s) <= k
      BY <2>1, <2>5, <3>1, <3>2
    <3>3. CASE ~(Cardinality(s) <= k)
      BY <2>5, <3>1, <3>3
    <3> QED
      BY <3>2, <3>3
  <2> HIDE DEF h
  <2>6. Upto(h, k + 1)
    BY <2>4, <2>5
  <2> HIDE DEF Upto
  <2> QED
    BY <2>3, <2>6
<1> HIDE DEF good, n
<1>4. n \in good
  BY <1>1, <1>2, <1>3, InductionUpTo
<1>5. PICK h \in [SUBSET S -> V] : Upto(h, n)
  BY <1>4 DEF good
<1> QED
  BY <1>1, <1>5 DEF IsFold

-----------------------------------------------------------------------------
(* Sums *)

\* The element that SumFunctionOnSet takes first, and the sums over the subsets
\* of S that it works out.
SumChoice(s) == CHOOSE x \in s : TRUE

SumSteps(S, f) ==
  CHOOSE h : h = [s \in SUBSET S |->
                    IF s = {} THEN 0 ELSE f[SumChoice(s)] + h[s \ {SumChoice(s)}]]

IsSum(h, S, f) ==
  /\ h[{}] = 0
  /\ \A s \in SUBSET S : s # {} => h[s] = f[SumChoice(s)] + h[s \ {SumChoice(s)}]

\* The sum over S is one of them.
LEMMA SumIsOfSteps ==
  ASSUME NEW S, NEW f
  PROVE  SumFunctionOnSet(f, S) = SumSteps(S, f)[S]
BY DEF SumFunctionOnSet, FoldFunctionOnSet, MapThenFoldSet, SumSteps, SumChoice

\* The sums over the subsets of a finite set exist.
LEMMA StepsAreSums ==
  ASSUME NEW S, IsFiniteSet(S), NEW f, \A x \in S : f[x] \in Nat
  PROVE  IsSum(SumSteps(S, f), S, f)
<1> DEFINE c    == [s \in SUBSET S |-> SumChoice(s)]
           G    == [p \in S \X Nat |-> f[p[1]] + p[2]]
           T(h) == [s \in SUBSET S |->
                      IF s = {} THEN 0 ELSE f[SumChoice(s)] + h[s \ {SumChoice(s)}]]
<1>1. \A s \in SUBSET S : s # {} => SumChoice(s) \in s
  BY DEF SumChoice
<1>2. \A s \in SUBSET S : s # {} => c[s] = SumChoice(s) /\ c[s] \in s
  BY <1>1
<1>3. G \in [S \X Nat -> Nat]
  OBVIOUS
<1>4. \A x \in S, m \in Nat : G[<<x, m>>] = f[x] + m
  OBVIOUS
<1> HIDE DEF c, G
<1>5. PICK h \in [SUBSET S -> Nat] : IsFold(h, S, 0, G, c)
  BY <1>2, <1>3, FoldExists
<1>6. h = T(h)
  <2>1. h[{}] = 0
    BY <1>5 DEF IsFold
  <2>2. ASSUME NEW s \in SUBSET S, s # {}
        PROVE  h[s] = f[SumChoice(s)] + h[s \ {SumChoice(s)}]
    <3>1. SumChoice(s) \in S /\ s \ {SumChoice(s)} \in SUBSET S
      BY <1>1, <2>2
    <3>2. h[s \ {SumChoice(s)}] \in Nat
      BY <1>5, <3>1
    <3> QED
      BY <1>2, <1>4, <1>5, <2>2, <3>1, <3>2 DEF IsFold
  <2> QED
    BY <1>5, <2>1, <2>2
<1>7. SumSteps(S, f) = T(SumSteps(S, f))
  <2> DEFINE Eq(g) == g = T(g)
  <2>1. SumSteps(S, f) = CHOOSE g : Eq(g)
    BY DEF SumSteps
  <2>2. Eq(h)
    BY <1>6
  <2> HIDE DEF Eq
  <2>3. Eq(CHOOSE g : Eq(g))
    BY <2>2
  <2> QED
    BY <2>1, <2>3 DEF Eq
<1> DEFINE g == SumSteps(S, f)
<1> HIDE DEF g
<1>8. g = T(g)
  BY <1>7 DEF g
<1>9. {} \in SUBSET S
  OBVIOUS
<1>10. IsSum(g, S, f)
  BY <1>8, <1>9 DEF IsSum
<1> QED
  BY <1>10 DEF g

\* Any element of a set may be added last, and the sums are numbers.
LEMMA SumAny ==
  ASSUME NEW S, IsFiniteSet(S), NEW f, \A x \in S : f[x] \in Nat, NEW h, IsSum(h, S, f)
  PROVE  \A s \in SUBSET S : h[s] \in Nat /\ \A x \in s : h[s] = f[x] + h[s \ {x}]
<1> DEFINE n       == Cardinality(S)
           Any(s)  == h[s] \in Nat /\ \A x \in s : h[s] = f[x] + h[s \ {x}]
           good    == {k \in Nat : \A s \in SUBSET S : Cardinality(s) <= k => Any(s)}
<1>1. n \in Nat /\ \A s \in SUBSET S : Cardinality(s) \in Nat /\ Cardinality(s) <= n
  BY FS_Subset, FS_CardinalityType
<1>2. \A s \in SUBSET S : s # {} => SumChoice(s) \in s
  BY DEF SumChoice
<1>3. Any({})
  BY DEF IsSum
<1>4. 0 \in good
  <2>1. \A s \in SUBSET S : s # {} => Cardinality(s) # 0
    BY OneLess
  <2> HIDE DEF Any
  <2> QED
    BY <1>1, <1>3, <2>1
<1>5. ASSUME NEW k \in Nat, k \in good
      PROVE  k + 1 \in good
  <2>1. ASSUME NEW s \in SUBSET S, Cardinality(s) <= k + 1
        PROVE  Any(s)
    <3>1. CASE s = {}
      BY <1>3, <3>1
    <3>2. CASE s # {}
      <4> DEFINE c == SumChoice(s)
      <4>1. c \in s /\ h[s] = f[c] + h[s \ {c}]
        BY <1>2, <3>2 DEF IsSum
      <4> HIDE DEF c
      <4>2. ASSUME NEW x \in s
            PROVE  s \ {x} \in SUBSET S /\ Any(s \ {x})
        <5>1. s \ {x} \in SUBSET S /\ Cardinality(s) \in Nat /\ Cardinality(s \ {x}) = Cardinality(s) - 1
          BY OneLess
        <5>2. Cardinality(s \ {x}) <= k
          BY <2>1, <5>1
        <5> HIDE DEF Any
        <5> QED
          BY <1>5, <5>1, <5>2
      <4>3. f[c] \in Nat /\ h[s \ {c}] \in Nat
        BY <4>1, <4>2
      <4>4. ASSUME NEW x \in s
            PROVE  h[s] = f[x] + h[s \ {x}]
        <5>1. CASE x = c
          BY <4>1, <5>1
        <5>2. CASE x # c
          <6>1. h[s \ {c}] = f[x] + h[(s \ {c}) \ {x}]
            BY <4>1, <4>2, <5>2
          <6>2. h[s \ {x}] = f[c] + h[(s \ {x}) \ {c}]
            BY <4>1, <4>2, <5>2
          <6>3. (s \ {c}) \ {x} = (s \ {x}) \ {c} /\ (s \ {x}) \ {c} \in SUBSET S
            OBVIOUS
          <6>4. h[(s \ {x}) \ {c}] \in Nat
            <7>1. c \in s \ {x}
              BY <4>1, <5>2
            <7>2. Cardinality(s \ {x}) = Cardinality(s) - 1 /\ Cardinality(s) \in Nat
              BY OneLess
            <7>3. Cardinality((s \ {x}) \ {c}) = Cardinality(s \ {x}) - 1
              BY <7>1, <4>2, OneLess
            <7>4. Cardinality((s \ {x}) \ {c}) <= k
              BY <2>1, <7>2, <7>3
            <7> QED
              BY <1>5, <6>3, <7>4
          <6>5. f[x] \in Nat
            OBVIOUS
          <6> QED
            BY <4>1, <4>3, <6>1, <6>2, <6>3, <6>4, <6>5
        <5> QED
          BY <5>1, <5>2
      <4> QED
        BY <4>1, <4>3, <4>4
    <3> QED
      BY <3>1, <3>2
  <2> HIDE DEF Any
  <2> QED
    BY <2>1
<1> HIDE DEF good, n
<1>6. n \in good
  BY <1>1, <1>4, <1>5, InductionUpTo
<1> QED
  BY <1>1, <1>6 DEF good

\* The sums over the subsets of a set are the same in a larger one.
LEMMA SumSame ==
  ASSUME NEW T, IsFiniteSet(T), NEW S \in SUBSET T, NEW f,
         NEW h, IsSum(h, S, f), NEW g, IsSum(g, T, f)
  PROVE  h[S] = g[S]
<1> DEFINE n    == Cardinality(S)
           good == {k \in Nat : \A s \in SUBSET S : Cardinality(s) <= k => h[s] = g[s]}
<1>1. IsFiniteSet(S)
  BY FS_Subset
<1>2. n \in Nat /\ \A s \in SUBSET S : Cardinality(s) \in Nat /\ Cardinality(s) <= n
  BY <1>1, FS_Subset, FS_CardinalityType
<1>3. h[{}] = g[{}]
  BY DEF IsSum
<1>4. 0 \in good
  <2>1. \A s \in SUBSET S : s # {} => Cardinality(s) # 0
    BY <1>1, OneLess
  <2> QED
    BY <1>2, <1>3, <2>1
<1>5. ASSUME NEW k \in Nat, k \in good
      PROVE  k + 1 \in good
  <2>1. ASSUME NEW s \in SUBSET S, Cardinality(s) <= k + 1
        PROVE  h[s] = g[s]
    <3>1. CASE s = {}
      BY <1>3, <3>1
    <3>2. CASE s # {}
      <4> DEFINE c == SumChoice(s)
      <4>1. /\ h[s] = f[c] + h[s \ {c}]
            /\ g[s] = f[c] + g[s \ {c}]
        BY <3>2 DEF IsSum
      <4>2. c \in s
        BY <3>2 DEF SumChoice
      <4> HIDE DEF c
      <4>3. s \ {c} \in SUBSET S /\ Cardinality(s) \in Nat /\ Cardinality(s \ {c}) = Cardinality(s) - 1
        BY <1>1, <4>2, OneLess
      <4>4. h[s \ {c}] = g[s \ {c}]
        BY <1>5, <2>1, <4>3
      <4> QED
        BY <4>1, <4>4
    <3> QED
      BY <3>1, <3>2
  <2> QED
    BY <2>1
<1> HIDE DEF good, n
<1>6. n \in good
  BY <1>2, <1>4, <1>5, InductionUpTo
<1> QED
  BY <1>2, <1>6 DEF good

\* The sum over no element.
LEMMA SumOfNothing ==
  ASSUME NEW f
  PROVE  SumFunctionOnSet(f, {}) = 0
<1>1. IsFiniteSet({})
  BY FS_EmptySet
<1>2. IsSum(SumSteps({}, f), {}, f)
  BY <1>1, StepsAreSums
<1> QED
  BY <1>2, SumIsOfSteps DEF IsSum

\* The sum over a set and an element that is not in it.
LEMMA SumOfOneMore ==
  ASSUME NEW S, IsFiniteSet(S), NEW x, x \notin S, NEW f, f[x] \in Nat, \A y \in S : f[y] \in Nat
  PROVE  /\ SumFunctionOnSet(f, S) \in Nat
         /\ SumFunctionOnSet(f, S \cup {x}) = f[x] + SumFunctionOnSet(f, S)
<1> DEFINE T == S \cup {x}
           h == SumSteps(S, f)
           g == SumSteps(T, f)
<1>1. IsFiniteSet(T) /\ S \in SUBSET T /\ T \ {x} = S /\ T \in SUBSET T /\ S \in SUBSET S
  BY FS_AddElement
<1>2. \A y \in T : f[y] \in Nat
  OBVIOUS
<1>3. SumFunctionOnSet(f, S) = h[S] /\ SumFunctionOnSet(f, T) = g[T]
  BY SumIsOfSteps
<1> HIDE DEF T
<1>4. IsSum(h, S, f) /\ IsSum(g, T, f)
  BY <1>1, <1>2, StepsAreSums
<1> HIDE DEF h, g
<1>5. h[S] = g[S]
  BY <1>1, <1>4, SumSame
<1>6. h[S] \in Nat
  BY <1>1, <1>4, SumAny
<1>7. x \in T
  BY DEF T
<1>8. g[T] = f[x] + g[T \ {x}]
  <2>1. \A s \in SUBSET T : g[s] \in Nat /\ \A y \in s : g[s] = f[y] + g[s \ {y}]
    BY <1>1, <1>2, <1>4, SumAny
  <2> QED
    BY <1>1, <1>7, <2>1
<1> QED
  BY <1>1, <1>3, <1>5, <1>6, <1>8 DEF T

=============================================================================
