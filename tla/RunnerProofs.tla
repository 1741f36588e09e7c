----------------------------- MODULE RunnerProofs -----------------------------
(***************************************************************************)
(* What Scheduler promises of when an execution starts, Conditions of how  *)
(* its answer is judged, and StatusTrend of how a board reads and judges   *)
(* its results, holds for any monitors, expressions, limits, rules,        *)
(* configurations and any length of time.  Several operators of these      *)
(* modules are folds: what they compute is proved by induction on sets of  *)
(* naturals.                                                               *)
(***************************************************************************)
EXTENDS Scheduler, StatusTrend, Conditions, TLAPS, FiniteSetTheorems,
        WellFoundedInduction, SequenceTheorems

-----------------------------------------------------------------------------
(* Induction *)

\* A set of naturals has a least element.
LEMMA LeastNatural ==
  ASSUME NEW T, T \subseteq Nat, T # {}
  PROVE  \E n \in T : \A k \in T : n <= k
<1>1. PICK n \in T : \A k \in T : ~ (<<k, n>> \in OpToRel(<, Nat))
  BY NatLessThanWellFounded, WFMin
<1>2. \A k \in T : <<k, n>> \in OpToRel(<, Nat) <=> k < n
  BY DEF OpToRel
<1>3. ASSUME NEW k \in T PROVE n <= k
  <2>1. ~(k < n)
    BY <1>1, <1>2
  <2>2. k \in Nat /\ n \in Nat
    OBVIOUS
  <2>. QED
    BY <2>1, <2>2
<1>. QED
  BY <1>3

\* A set of naturals that has 0, and with each number the next, has them all.
LEMMA InductiveSet ==
  ASSUME NEW T, T \subseteq Nat, 0 \in T, \A n \in T : n + 1 \in T
  PROVE  T = Nat
<1>. SUFFICES ASSUME Nat \ T # {} PROVE FALSE
  OBVIOUS
<1>1. PICK n \in Nat \ T : \A k \in Nat \ T : n <= k
  <2>. DEFINE U == Nat \ T
  <2>1. U \subseteq Nat /\ U # {}
    OBVIOUS
  <2>. HIDE DEF U
  <2>2. \E n \in U : \A k \in U : n <= k
    BY <2>1, LeastNatural
  <2>. QED
    BY <2>2 DEF U
<1>2. n \in Nat /\ n # 0 /\ n - 1 \in Nat /\ (n - 1) + 1 = n /\ ~(n <= n - 1)
  BY <1>1
<1>3. n - 1 \in T
  BY <1>1, <1>2
<1>. QED
  BY <1>1, <1>2, <1>3

-----------------------------------------------------------------------------
(* Folds over a finite set, which take its elements out in some order *)

\* Taking out an element makes a set smaller.
LEMMA OneLess ==
  ASSUME NEW S, IsFiniteSet(S), NEW s \in SUBSET S, NEW x \in s
  PROVE  /\ s \ {x} \in SUBSET S /\ Cardinality(s) \in Nat /\ Cardinality(s \ {x}) \in Nat
         /\ Cardinality(s \ {x}) = Cardinality(s) - 1
<1>1. IsFiniteSet(s)
  BY FS_Subset
<1>. QED
  BY <1>1, FS_RemoveElement, FS_CardinalityType, FS_Subset

\* c picks an element of each set that has one, and h is the fold over it.
Picks(c, S) == \A s \in SUBSET S : s # {} => c[s] \in s
IsFold(h, S, c, start, step) ==
  /\ h[{}] = start
  /\ \A s \in SUBSET S : s # {} => h[s] = step[<<c[s], h[s \ {c[s]}]>>]

\* What holds of the empty set, and of a set when it holds without the element
\* that is taken out, holds of every subset.
LEMMA SubsetsReached ==
  ASSUME NEW S, IsFiniteSet(S), NEW c, Picks(c, S),
         NEW U, {} \in U,
         \A s \in SUBSET S : s # {} /\ s \ {c[s]} \in U => s \in U
  PROVE  SUBSET S \subseteq U
<1>. USE DEF Picks
<1>. DEFINE T == {n \in Nat : \A s \in SUBSET S : Cardinality(s) = n => s \in U}
<1>1. 0 \in T
  <2>1. ASSUME NEW s \in SUBSET S, Cardinality(s) = 0 PROVE s \in U
    BY <2>1, FS_Subset, FS_EmptySet
  <2>. QED
    BY <2>1
<1>2. ASSUME NEW n \in T PROVE n + 1 \in T
  <2>1. ASSUME NEW s \in SUBSET S, Cardinality(s) = n + 1 PROVE s \in U
    <3>1. n \in Nat /\ \A r \in SUBSET S : Cardinality(r) = n => r \in U
      BY <1>2
    <3>2. s # {}
      <4>1. Cardinality({}) = 0 /\ n + 1 # 0
        BY <3>1, FS_EmptySet
      <4>. QED
        BY <2>1, <4>1
    <3>3. s \ {c[s]} \in U
      BY <2>1, <3>1, <3>2, OneLess
    <3>. QED
      BY <3>2, <3>3
  <2>2. n + 1 \in Nat
    BY <1>2
  <2>. QED
    BY <2>1, <2>2
<1>3. T = Nat
  <2>. HIDE DEF T
  <2>1. T \subseteq Nat
    BY DEF T
  <2>. QED
    BY <1>1, <1>2, <2>1, InductiveSet
<1>4. ASSUME NEW s \in SUBSET S PROVE s \in U
  <2>1. Cardinality(s) \in T
    BY <1>3, FS_Subset, FS_CardinalityType
  <2>. QED
    BY <2>1
<1>. QED
  BY <1>4

\* The function of a fold exists: it is defined for sets of n + 1 elements from
\* what it is for those of n.
LEMMA FoldExists ==
  ASSUME NEW S, IsFiniteSet(S), NEW c, Picks(c, S),
         NEW V, NEW start \in V, NEW step \in [S \X V -> V]
  PROVE  \E h \in [SUBSET S -> V] : IsFold(h, S, c, start, step)
<1>. USE DEF Picks
<1>. DEFINE Of(s, h) == IF s = {} THEN start ELSE step[<<c[s], h[s \ {c[s]}]>>]
            Level(n) == \E h \in [SUBSET S -> V] :
                          \A s \in SUBSET S : Cardinality(s) <= n => h[s] = Of(s, h)
            T == {n \in Nat : Level(n)}
<1>0. ASSUME NEW h \in [SUBSET S -> V], NEW s \in SUBSET S
      PROVE  Of(s, h) \in V
  <2>1. CASE s = {}
    BY <2>1
  <2>2. CASE s # {}
    <3>1. c[s] \in S /\ h[s \ {c[s]}] \in V
      BY <2>2
    <3>. QED
      BY <2>2, <3>1
  <2>. QED
    BY <2>1, <2>2
<1>1. 0 \in T
  <2>. DEFINE h == [s \in SUBSET S |-> start]
  <2>1. ASSUME NEW s \in SUBSET S, Cardinality(s) <= 0 PROVE h[s] = Of(s, h)
    <3>1. IsFiniteSet(s) /\ Cardinality(s) = 0
      BY <2>1, FS_Subset, FS_CardinalityType
    <3>2. s = {}
      BY <3>1, FS_EmptySet
    <3>. QED
      BY <3>2
  <2>2. h \in [SUBSET S -> V]
    OBVIOUS
  <2>. HIDE DEF h, Of
  <2>. QED
    BY <2>1, <2>2
<1>2. ASSUME NEW n \in T PROVE n + 1 \in T
  <2>1. n \in Nat /\ n + 1 \in Nat
    BY <1>2
  <2>2. PICK h \in [SUBSET S -> V] :
          \A s \in SUBSET S : Cardinality(s) <= n => h[s] = Of(s, h)
    BY <1>2
  <2>. DEFINE g == [s \in SUBSET S |-> Of(s, h)]
  <2>3. g \in [SUBSET S -> V]
    <3>. HIDE DEF Of
    <3>. QED
      BY <1>0
  <2>4. ASSUME NEW s \in SUBSET S, Cardinality(s) <= n + 1 PROVE g[s] = Of(s, g)
    <3>1. CASE s = {}
      BY <3>1
    <3>2. CASE s # {}
      <4>. DEFINE r == s \ {c[s]}
      <4>1. r \in SUBSET S /\ Cardinality(s) \in Nat /\ Cardinality(r) = Cardinality(s) - 1
        BY <3>2, OneLess
      <4>2. Cardinality(r) <= n
        BY <2>1, <2>4, <4>1
      <4>3. h[r] = Of(r, h) /\ g[r] = Of(r, h)
        <5>. HIDE DEF Of
        <5>. QED
          BY <2>2, <4>1, <4>2
      <4>4. g[s] = Of(s, h)
        <5>. HIDE DEF Of
        <5>. QED
          OBVIOUS
      <4>5. Of(s, h) = Of(s, g)
        <5>1. g[r] = h[r]
          BY <4>3
        <5>. HIDE DEF g
        <5>. QED
          BY <3>2, <5>1
      <4>. QED
        BY <4>4, <4>5
    <3>. QED
      BY <3>1, <3>2
  <2>. HIDE DEF g, Of
  <2>5. Level(n + 1)
    BY <2>3, <2>4
  <2>. HIDE DEF Level
  <2>. QED
    BY <2>1, <2>5
<1>3. T = Nat
  <2>. HIDE DEF T
  <2>1. T \subseteq Nat
    BY DEF T
  <2>. QED
    BY <1>1, <1>2, <2>1, InductiveSet
<1>4. Cardinality(S) \in T
  BY <1>3, FS_CardinalityType
<1>5. PICK h \in [SUBSET S -> V] :
        \A s \in SUBSET S : Cardinality(s) <= Cardinality(S) => h[s] = Of(s, h)
  BY <1>4
<1>6. \A s \in SUBSET S : Cardinality(s) <= Cardinality(S)
  BY FS_Subset
<1>. QED
  BY <1>5, <1>6 DEF IsFold

-----------------------------------------------------------------------------
(* The sum over the monitors *)

Some(s) == CHOOSE x \in s : TRUE
Total(f, S) == MapThenSumSet(LAMBDA m : f[m], S)

\* One step of the sum, and the function that is all of them.
TotalOf(f, s, h) == IF s = {} THEN 0 ELSE f[Some(s)] + h[s \ {Some(s)}]
TotalFunction(f, S) == CHOOSE h : h = [s \in SUBSET S |-> TotalOf(f, s, h)]

LEMMA TotalUnfolds ==
  ASSUME NEW S, NEW f
  PROVE  Total(f, S) = TotalFunction(f, S)[S]
BY DEF Total, MapThenSumSet, MapThenFoldSet, TotalFunction, TotalOf, Some

LEMMA TotalReached ==
  ASSUME NEW S, IsFiniteSet(S), NEW U, {} \in U,
         \A s \in SUBSET S : s # {} /\ s \ {Some(s)} \in U => s \in U
  PROVE  SUBSET S \subseteq U
<1>. DEFINE c == [s \in SUBSET S |-> Some(s)]
<1>1. \A s \in SUBSET S : c[s] = Some(s) /\ (s # {} => c[s] \in s)
  BY DEF Some
<1>2. Picks(c, S)
  BY <1>1 DEF Picks
<1>3. \A s \in SUBSET S : s # {} /\ s \ {c[s]} \in U => s \in U
  BY <1>1
<1>. HIDE DEF c
<1>. QED
  BY <1>2, <1>3, SubsetsReached

LEMMA TotalDefined ==
  ASSUME NEW S, IsFiniteSet(S), NEW f \in [S -> Int]
  PROVE  TotalFunction(f, S) = [s \in SUBSET S |-> TotalOf(f, s, TotalFunction(f, S))]
<1>. DEFINE c == [s \in SUBSET S |-> Some(s)]
            step == [p \in S \X Int |-> f[p[1]] + p[2]]
<1>1. \A s \in SUBSET S : c[s] = Some(s) /\ (s # {} => c[s] \in s)
  BY DEF Some
<1>2. /\ step \in [S \X Int -> Int]
      /\ \A x \in S, n \in Int : step[<<x, n>>] = f[x] + n
  OBVIOUS
<1>. HIDE DEF c, step
<1>3. PICK h \in [SUBSET S -> Int] : IsFold(h, S, c, 0, step)
  <2>1. Picks(c, S) /\ step \in [S \X Int -> Int] /\ 0 \in Int
    BY <1>1, <1>2 DEF Picks
  <2>. QED
    BY <2>1, FoldExists, Zenon
<1>4. ASSUME NEW s \in SUBSET S PROVE h[s] = TotalOf(f, s, h)
  <2>1. CASE s = {}
    BY <1>3, <2>1 DEF TotalOf, IsFold
  <2>2. CASE s # {}
    <3>1. Some(s) \in S /\ s \ {Some(s)} \in SUBSET S /\ h[s \ {Some(s)}] \in Int
      BY <1>1, <1>3, <2>2
    <3>2. h[s] = step[<<Some(s), h[s \ {Some(s)}]>>]
      BY <1>1, <1>3, <2>2 DEF IsFold
    <3>. QED
      BY <1>2, <2>2, <3>1, <3>2 DEF TotalOf
  <2>. QED
    BY <2>1, <2>2
<1>5. h = [s \in SUBSET S |-> TotalOf(f, s, h)]
  BY <1>4
<1>. QED
  BY <1>5 DEF TotalFunction

LEMMA TotalType ==
  ASSUME NEW S, IsFiniteSet(S), NEW V \in {Nat, Int}, NEW f \in [S -> V]
  PROVE  /\ TotalFunction(f, S) \in [SUBSET S -> V]
         /\ Total(f, S) \in V
<1>. DEFINE h == TotalFunction(f, S)
            U == {s \in SUBSET S : h[s] \in V}
<1>0. /\ V = Nat \/ V = Int
      /\ f \in [S -> Int]
  OBVIOUS
<1>1. h = [s \in SUBSET S |-> TotalOf(f, s, h)]
  BY <1>0, TotalDefined
<1>. HIDE DEF h
<1>2. {} \in U
  BY <1>0, <1>1 DEF TotalOf
<1>3. ASSUME NEW s \in SUBSET S, s # {}, s \ {Some(s)} \in U
      PROVE  s \in U
  <2>1. Some(s) \in S
    BY <1>3 DEF Some
  <2>2. h[s] = f[Some(s)] + h[s \ {Some(s)}]
    BY <1>1, <1>3 DEF TotalOf
  <2>. QED
    BY <1>0, <1>3, <2>1, <2>2
<1>4. SUBSET S \subseteq U
  <2>. HIDE DEF U
  <2>. QED
    BY <1>2, <1>3, TotalReached
<1>5. h \in [SUBSET S -> V]
  BY <1>1, <1>4
<1>. QED
  BY <1>5, TotalUnfolds DEF h

\* d more at one element are d more in all.
LEMMA TotalStep ==
  ASSUME NEW S, IsFiniteSet(S), NEW f \in [S -> Int], NEW g \in [S -> Int], NEW m \in S,
         NEW d \in Int, g[m] = f[m] + d, \A x \in S : x # m => g[x] = f[x]
  PROVE  Total(g, S) = Total(f, S) + d
<1>. DEFINE a == TotalFunction(f, S)
            b == TotalFunction(g, S)
            U == {s \in SUBSET S : b[s] = IF m \in s THEN a[s] + d ELSE a[s]}
<1>1. /\ a = [s \in SUBSET S |-> TotalOf(f, s, a)] /\ b = [s \in SUBSET S |-> TotalOf(g, s, b)]
      /\ a \in [SUBSET S -> Int] /\ b \in [SUBSET S -> Int]
  BY TotalDefined, TotalType
<1>. HIDE DEF a, b
<1>2. {} \in U
  BY <1>1 DEF TotalOf
<1>3. ASSUME NEW s \in SUBSET S, s # {}, s \ {Some(s)} \in U
      PROVE  s \in U
  <2>. DEFINE x == Some(s)
              r == s \ {x}
  <2>1. x \in s /\ r \in SUBSET S
    BY <1>3 DEF Some
  <2>2. a[s] = f[x] + a[r] /\ b[s] = g[x] + b[r]
    BY <1>1, <1>3 DEF TotalOf
  <2>3. b[r] = IF m \in r THEN a[r] + d ELSE a[r]
    BY <1>3
  <2>4. a[r] \in Int /\ f[x] \in Int /\ a[s] \in Int /\ b[s] \in Int /\ b[r] \in Int
    BY <1>1, <2>1
  <2>. HIDE DEF x
  <2>5. CASE x = m
    <3>1. m \notin r /\ m \in s
      BY <2>1, <2>5
    <3>2. b[s] = a[s] + d
      BY <2>2, <2>3, <2>4, <2>5, <3>1
    <3>. QED
      BY <3>1, <3>2
  <2>6. CASE x # m
    <3>1. m \in r <=> m \in s
      BY <2>6
    <3>2. g[x] = f[x]
      BY <2>1, <2>6
    <3>3. b[s] = IF m \in s THEN a[s] + d ELSE a[s]
      BY <2>2, <2>3, <2>4, <3>1, <3>2
    <3>. QED
      BY <3>3
  <2>. QED
    BY <2>5, <2>6
<1>4. SUBSET S \subseteq U
  <2>. HIDE DEF U
  <2>. QED
    BY <1>2, <1>3, TotalReached
<1>5. S \in U
  BY <1>4
<1>6. b[S] = a[S] + d
  BY <1>5
<1>. QED
  BY <1>6, TotalUnfolds DEF a, b

LEMMA Distributes ==
  ASSUME NEW i \in Int, NEW j \in Int, NEW a \in Int, NEW b \in Int,
         NEW c \in Int, NEW d \in Int
  PROVE  (i * c + j * d) + (i * a + j * b) = i * (c + a) + j * (d + b)
OBVIOUS

\* One more at one element is one more in all.
LEMMA OneMore ==
  ASSUME NEW S, IsFiniteSet(S), NEW f \in [S -> Nat], NEW g \in [S -> Nat], NEW m \in S,
         g[m] = f[m] + 1, \A x \in S : x # m => g[x] = f[x]
  PROVE  Total(g, S) = Total(f, S) + 1
<1>1. f \in [S -> Int] /\ g \in [S -> Int] /\ 1 \in Int
  OBVIOUS
<1>. QED
  BY <1>1, TotalStep

\* The sum is linear.
Combines(q, i, f, j, g, S) ==
  /\ IsFiniteSet(S) /\ i \in Int /\ j \in Int
  /\ q \in [S -> Int] /\ f \in [S -> Int] /\ g \in [S -> Int]
  /\ \A x \in S : q[x] = i * f[x] + j * g[x]

LEMMA TotalLinear ==
  ASSUME NEW S, NEW q, NEW i, NEW f, NEW j, NEW g, Combines(q, i, f, j, g, S)
  PROVE  Total(q, S) = i * Total(f, S) + j * Total(g, S)
<1>. DEFINE a == TotalFunction(f, S)
            b == TotalFunction(g, S)
            h == TotalFunction(q, S)
            U == {s \in SUBSET S : h[s] = i * a[s] + j * b[s]}
<1>0. /\ IsFiniteSet(S) /\ i \in Int /\ j \in Int
      /\ q \in [S -> Int] /\ f \in [S -> Int] /\ g \in [S -> Int]
      /\ \A x \in S : q[x] = i * f[x] + j * g[x]
  BY DEF Combines
<1>1. /\ a = [s \in SUBSET S |-> TotalOf(f, s, a)] /\ b = [s \in SUBSET S |-> TotalOf(g, s, b)]
      /\ h = [s \in SUBSET S |-> TotalOf(q, s, h)]
      /\ a \in [SUBSET S -> Int] /\ b \in [SUBSET S -> Int]
  BY <1>0, TotalDefined, TotalType
<1>. HIDE DEF a, b, h
<1>2. {} \in U
  <2>1. a[{}] = 0 /\ b[{}] = 0 /\ h[{}] = 0
    BY <1>1 DEF TotalOf
  <2>. QED
    BY <1>0, <2>1
<1>3. ASSUME NEW s \in SUBSET S, s # {}, s \ {Some(s)} \in U
      PROVE  s \in U
  <2>. DEFINE x == Some(s)
              r == s \ {x}
  <2>1. x \in S /\ r \in SUBSET S
    BY <1>3 DEF Some
  <2>2. a[s] = f[x] + a[r] /\ b[s] = g[x] + b[r] /\ h[s] = q[x] + h[r]
    BY <1>1, <1>3 DEF TotalOf
  <2>3. h[r] = i * a[r] + j * b[r]
    BY <1>3
  <2>. HIDE DEF x
  <2>4. PICK a1 \in Int, b1 \in Int, f1 \in Int, g1 \in Int :
          a1 = a[r] /\ b1 = b[r] /\ f1 = f[x] /\ g1 = g[x]
    BY <1>0, <1>1, <2>1
  <2>5. h[r] = i * a1 + j * b1 /\ q[x] = i * f1 + j * g1
    BY <1>0, <2>1, <2>3, <2>4
  <2>6. h[s] = (i * f1 + j * g1) + (i * a1 + j * b1)
        /\ a[s] = f1 + a1 /\ b[s] = g1 + b1
    BY <2>2, <2>4, <2>5, Zenon
  <2>7. (i * f1 + j * g1) + (i * a1 + j * b1) = i * (f1 + a1) + j * (g1 + b1)
    <3>1. i \in Int /\ j \in Int /\ a1 \in Int /\ b1 \in Int /\ f1 \in Int /\ g1 \in Int
      BY <1>0
    <3>. QED
      BY <3>1, Distributes
  <2>8. h[s] = i * a[s] + j * b[s]
    BY <2>6, <2>7
  <2>. QED
    BY <2>8
<1>4. SUBSET S \subseteq U
  <2>. HIDE DEF U
  <2>. QED
    BY <1>0, <1>2, <1>3, TotalReached
<1>5. h[S] = i * a[S] + j * b[S]
  BY <1>4
<1>. QED
  BY <1>5, TotalUnfolds DEF a, b, h

\* The sum of the same number everywhere.
LEMMA TotalConstant ==
  ASSUME NEW S, IsFiniteSet(S), NEW d \in Int
  PROVE  Total([m \in S |-> d], S) = d * Cardinality(S)
<1>. DEFINE f == [m \in S |-> d]
            h == TotalFunction(f, S)
            U == {s \in SUBSET S : h[s] = d * Cardinality(s)}
<1>1. h = [s \in SUBSET S |-> TotalOf(f, s, h)]
  BY TotalDefined
<1>. HIDE DEF h
<1>2. {} \in U
  <2>1. h[{}] = 0 /\ Cardinality({}) = 0
    BY <1>1, FS_EmptySet DEF TotalOf
  <2>. QED
    BY <2>1
<1>3. ASSUME NEW s \in SUBSET S, s # {}, s \ {Some(s)} \in U
      PROVE  s \in U
  <2>1. Some(s) \in s
    BY <1>3 DEF Some
  <2>2. h[s] = d + h[s \ {Some(s)}]
    BY <1>1, <1>3, <2>1 DEF TotalOf
  <2>3. PICK n \in Nat : n = Cardinality(s \ {Some(s)}) /\ Cardinality(s) = n + 1
    BY <2>1, OneLess
  <2>4. h[s] = d + d * n
    BY <1>3, <2>2, <2>3
  <2>5. d + d * n = d * (n + 1)
    BY <2>3
  <2>6. h[s] = d * Cardinality(s)
    BY <2>3, <2>4, <2>5
  <2>. QED
    BY <2>6
<1>4. SUBSET S \subseteq U
  <2>. HIDE DEF U
  <2>. QED
    BY <1>2, <1>3, TotalReached
<1>5. h[S] = d * Cardinality(S)
  BY <1>4
<1>. QED
  BY <1>5, TotalUnfolds DEF h

LEMMA TotalZero ==
  ASSUME NEW S, IsFiniteSet(S)
  PROVE  Total([m \in S |-> 0], S) = 0
<1>1. 0 \in Int
  OBVIOUS
<1>2. Total([m \in S |-> 0], S) = 0 * Cardinality(S)
  BY <1>1, TotalConstant, Zenon
<1>3. Cardinality(S) \in Nat
  BY FS_CardinalityType
<1>. QED
  BY <1>2, <1>3

-----------------------------------------------------------------------------
(* The next occurrence of a list of expressions *)

\* Every expression occurs again after every poll.  The code does not require
\* it of the expressions it accepts: "0 0 30 2 *" never occurs.
Recurring ==
  \A e \in Expressions, z \in Zones, t \in 1..MaxTime : \E o \in Occurs[e][z] : o > t

\* n is the first instant after t of the expressions of a list in a zone.
IsNext(n, schedules, z, t) ==
  /\ n \in Nat /\ n > t
  /\ \E k \in DOMAIN schedules : n \in Occurs[schedules[k]][z]
  /\ \A k \in DOMAIN schedules : \A o \in Occurs[schedules[k]][z] : o > t => n <= o

LEMMA Next1Is ==
  ASSUME Recurring, NEW e \in Expressions, NEW z \in Zones, NEW t \in 1..MaxTime
  PROVE  /\ Next1(e, z, t) \in Occurs[e][z] /\ Next1(e, z, t) \in Nat
         /\ Next1(e, z, t) > t /\ Next1(e, z, t) # Never
         /\ \A o \in Occurs[e][z] : o > t => Next1(e, z, t) <= o
<1>. DEFINE later == {o \in Occurs[e][z] : o > t}
<1>1. Occurs[e][z] \subseteq Nat \ {0} /\ t \in Nat
  BY ScheduleAssumption
<1>2. later # {} /\ later \subseteq Nat
  BY <1>1 DEF Recurring
<1>3. Next1(e, z, t) = Earliest(later)
  BY <1>2 DEF Next1
<1>4. \E n \in later : \A u \in later : n <= u
  <2>. HIDE DEF later
  <2>. QED
    BY <1>2, LeastNatural
<1>5. Earliest(later) \in later /\ \A u \in later : Earliest(later) <= u
  <2>. HIDE DEF later
  <2>. QED
    BY <1>4 DEF Earliest
<1>. QED
  BY <1>1, <1>3, <1>5 DEF Never

\* Next of a schedule is an instant, or the zero time.
LEMMA Next1Type ==
  ASSUME NEW e \in Expressions, NEW z \in Zones, NEW t \in Nat
  PROVE  Next1(e, z, t) \in Nat
<1>. DEFINE later == {o \in Occurs[e][z] : o > t}
<1>1. later \subseteq Nat
  BY ScheduleAssumption
<1>2. CASE later = {}
  BY <1>2 DEF Next1, Never
<1>3. CASE later # {}
  <2>1. Next1(e, z, t) = Earliest(later)
    BY <1>3 DEF Next1
  <2>. HIDE DEF later
  <2>2. \E n \in later : \A u \in later : n <= u
    BY <1>1, <1>3, LeastNatural
  <2>3. Earliest(later) \in later
    BY <2>2 DEF Earliest
  <2>. QED
    BY <1>1, <2>1, <2>3
<1>. QED
  BY <1>2, <1>3

\* One step of nextScheduleTime, and the function that is all of them.
NextOf(p, z, t, s, h) ==
  IF s = {} THEN Never
  ELSE IF h[s \ {Max(s)}] = Never \/ Next1(p[Max(s)], z, t) < h[s \ {Max(s)}]
       THEN Next1(p[Max(s)], z, t)
       ELSE h[s \ {Max(s)}]
NextFunction(p, z, t) ==
  CHOOSE h : h = [s \in SUBSET DOMAIN p |-> NextOf(p, z, t, s, h)]

LEMMA NextUnfolds ==
  ASSUME NEW p, NEW z, NEW t
  PROVE  NextScheduleTime(p, z, t) = NextFunction(p, z, t)[DOMAIN p]
BY DEF NextScheduleTime, FoldLeft, MapThenFoldSet, NextFunction, NextOf

\* A finite set of naturals has a greatest element.
LEMMA MaxIn ==
  ASSUME NEW n \in Nat, NEW s \in SUBSET (1..n), s # {}
  PROVE  Max(s) \in s
<1>. DEFINE T == {k \in Nat : \A x \in s : x <= k}
<1>1. n \in T
  OBVIOUS
<1>2. PICK k \in T : \A j \in T : k <= j
  <2>1. T \subseteq Nat /\ T # {}
    BY <1>1
  <2>. HIDE DEF T
  <2>. QED
    BY <2>1, LeastNatural
<1>3. k \in Nat /\ \A x \in s : x <= k /\ x \in 1..n
  BY <1>2
<1>4. k \in s
  <2>. SUFFICES ASSUME k \notin s PROVE FALSE
    OBVIOUS
  <2>1. PICK y \in s : TRUE
    OBVIOUS
  <2>2. k - 1 \in Nat /\ \A x \in s : x <= k - 1
    BY <1>3, <2>1
  <2>3. k - 1 \in T /\ ~(k <= k - 1)
    BY <1>3, <2>2
  <2>. QED
    BY <1>2, <2>3
<1>5. \A x \in s : k >= x
  BY <1>3
<1>. QED
  BY <1>4, <1>5 DEF Max

LEMMA MaxReached ==
  ASSUME NEW n \in Nat, NEW U, {} \in U,
         \A s \in SUBSET (1..n) : s # {} /\ s \ {Max(s)} \in U => s \in U
  PROVE  SUBSET (1..n) \subseteq U
<1>. DEFINE S == 1..n
            c == [s \in SUBSET S |-> Max(s)]
<1>1. \A s \in SUBSET S : c[s] = Max(s) /\ (s # {} => c[s] \in s)
  BY MaxIn
<1>2. IsFiniteSet(S)
  BY FS_Interval
<1>3. \A s \in SUBSET S : s # {} /\ s \ {c[s]} \in U => s \in U
  BY <1>1
<1>. HIDE DEF c, S
<1>4. Picks(c, S)
  BY <1>1 DEF Picks
<1>5. SUBSET S \subseteq U
  BY <1>2, <1>3, <1>4, SubsetsReached
<1>. QED
  BY <1>5 DEF S

\* A list of expressions is one to some number of them.
LEMMA PlanIs ==
  ASSUME NEW p \in Plans
  PROVE  /\ p \in Seq(Expressions) /\ DOMAIN p # {} /\ IsFiniteSet(DOMAIN p)
         /\ \A k \in DOMAIN p : p[k] \in Expressions
         /\ \E n \in Nat : DOMAIN p = 1..n
<1>. DEFINE D == DOMAIN p
<1>1. p \in Seq(Expressions) /\ p # <<>>
  BY ScheduleAssumption
<1>2. Len(p) \in Nat /\ D = 1..Len(p) /\ \A k \in 1..Len(p) : p[k] \in Expressions
  BY <1>1
<1>3. Len(p) # 0
  BY <1>1
<1>4. IsFiniteSet(1..Len(p))
  BY <1>2, FS_Interval
<1>5. 1 \in 1..Len(p)
  BY <1>2, <1>3
<1>. HIDE DEF D
<1>6. D # {} /\ IsFiniteSet(D) /\ \A k \in D : p[k] \in Expressions
  BY <1>2, <1>4, <1>5
<1>7. \E n \in Nat : D = 1..n
  BY <1>2
<1>. QED
  BY <1>1, <1>6, <1>7 DEF D

LEMMA NextDefined ==
  ASSUME NEW p \in Plans, NEW z \in Zones, NEW t \in Nat
  PROVE  NextFunction(p, z, t) =
           [s \in SUBSET DOMAIN p |-> NextOf(p, z, t, s, NextFunction(p, z, t))]
<1>. DEFINE D == DOMAIN p
            c == [s \in SUBSET D |-> Max(s)]
            step == [x \in D \X Nat |->
                       IF x[2] = Never \/ Next1(p[x[1]], z, t) < x[2]
                       THEN Next1(p[x[1]], z, t) ELSE x[2]]
<1>1. /\ IsFiniteSet(D) /\ \A k \in D : p[k] \in Expressions
      /\ \E n \in Nat : D = 1..n
  BY PlanIs
<1>2. \A s \in SUBSET D : c[s] = Max(s) /\ (s # {} => Max(s) \in s)
  BY <1>1, MaxIn
<1>3. \A k \in D : Next1(p[k], z, t) \in Nat
  BY <1>1, Next1Type
<1>4. /\ step \in [D \X Nat -> Nat]
      /\ \A k \in D, n \in Nat :
           step[<<k, n>>] = IF n = Never \/ Next1(p[k], z, t) < n
                            THEN Next1(p[k], z, t) ELSE n
  BY <1>3
<1>. HIDE DEF c, step, D
<1>5. PICK g \in [SUBSET D -> Nat] : IsFold(g, D, c, 0, step)
  <2>1. Picks(c, D) /\ 0 \in Nat
    BY <1>2 DEF Picks
  <2>. QED
    BY <1>1, <1>4, <2>1, FoldExists, Zenon
<1>6. ASSUME NEW s \in SUBSET D PROVE g[s] = NextOf(p, z, t, s, g)
  <2>1. CASE s = {}
    BY <1>5, <2>1 DEF IsFold, NextOf, Never
  <2>2. CASE s # {}
    <3>1. Max(s) \in D /\ s \ {Max(s)} \in SUBSET D /\ g[s \ {Max(s)}] \in Nat
      BY <1>2, <1>5, <2>2
    <3>2. g[s] = step[<<Max(s), g[s \ {Max(s)}]>>]
      BY <1>2, <1>5, <2>2 DEF IsFold
    <3>. QED
      BY <1>4, <2>2, <3>1, <3>2 DEF NextOf
  <2>. QED
    BY <2>1, <2>2
<1>7. g = [s \in SUBSET D |-> NextOf(p, z, t, s, g)]
  BY <1>6
<1>. QED
  BY <1>7 DEF NextFunction, D

LEMMA NextType ==
  ASSUME NEW p \in Plans, NEW z \in Zones, NEW t \in Nat
  PROVE  NextScheduleTime(p, z, t) \in Nat
<1>. DEFINE D == DOMAIN p
            h == NextFunction(p, z, t)
            U == {s \in SUBSET D : h[s] \in Nat}
<1>1. h = [s \in SUBSET D |-> NextOf(p, z, t, s, h)]
  BY NextDefined
<1>2. /\ \A k \in D : Next1(p[k], z, t) \in Nat
      /\ \E n \in Nat : D = 1..n
  BY PlanIs, Next1Type
<1>. HIDE DEF h, D
<1>3. {} \in U
  BY <1>1 DEF NextOf, Never
<1>4. ASSUME NEW s \in SUBSET D, s # {}, s \ {Max(s)} \in U
      PROVE  s \in U
  <2>1. Max(s) \in D
    BY <1>2, <1>4, MaxIn
  <2>. QED
    BY <1>1, <1>2, <1>4, <2>1 DEF NextOf
<1>5. SUBSET D \subseteq U
  <2>. HIDE DEF U
  <2>. QED
    BY <1>2, <1>3, <1>4, MaxReached
<1>6. h[D] \in Nat
  BY <1>5
<1>. QED
  BY <1>6, NextUnfolds DEF h, D

\* What nextScheduleTime computes.
LEMMA NextIs ==
  ASSUME Recurring, NEW p \in Plans, NEW z \in Zones, NEW t \in 1..MaxTime
  PROVE  IsNext(NextScheduleTime(p, z, t), p, z, t)
<1>. DEFINE D == DOMAIN p
            c == [s \in SUBSET D |-> Max(s)]
            h == NextFunction(p, z, t)
<1>1. /\ D # {} /\ \A k \in D : p[k] \in Expressions
      /\ \E n \in Nat : D = 1..n
  BY PlanIs
<1>2. \A s \in SUBSET D : c[s] = Max(s) /\ (s # {} => Max(s) \in s)
  BY <1>1, MaxIn
<1>3. \A k \in D : /\ Next1(p[k], z, t) \in Occurs[p[k]][z] /\ Next1(p[k], z, t) \in Nat
                   /\ Next1(p[k], z, t) > t /\ Next1(p[k], z, t) # Never
                   /\ \A o \in Occurs[p[k]][z] : o > t => Next1(p[k], z, t) <= o
  BY <1>1, Next1Is
<1>4. t \in Nat
  BY ScheduleAssumption
<1>5. h = [s \in SUBSET D |-> NextOf(p, z, t, s, h)]
  BY <1>4, NextDefined
<1>. HIDE DEF c, D, h
<1>. DEFINE U == {s \in SUBSET D :
                    IF s = {} THEN h[s] = 0
                    ELSE /\ h[s] \in Nat /\ h[s] > t
                         /\ \E k \in s : h[s] \in Occurs[p[k]][z]
                         /\ \A k \in s : \A o \in Occurs[p[k]][z] : o > t => h[s] <= o}
<1>6. {} \in U
  BY <1>5 DEF NextOf, Never
<1>7. ASSUME NEW s \in SUBSET D, s # {}, s \ {c[s]} \in U
      PROVE  s \in U
  <2>. DEFINE k == Max(s)
              r == s \ {k}
              new == Next1(p[k], z, t)
              before == h[r]
  <2>1. k \in s /\ k \in D /\ r \in U /\ r \in SUBSET D /\ t \in Nat
    <3>1. c[s] = k /\ k \in s
      BY <1>2, <1>7
    <3>. HIDE DEF U
    <3>2. r \in U
      BY <1>7, <3>1
    <3>. QED
      BY <1>7, <3>1, <3>2, ScheduleAssumption
  <2>2. /\ new \in Occurs[p[k]][z] /\ new \in Nat /\ new > t /\ new # Never
        /\ \A o \in Occurs[p[k]][z] : o > t => new <= o
    BY <1>3, <2>1
  <2>3. h[s] = IF before = Never \/ new < before THEN new ELSE before
    BY <1>5, <1>7 DEF NextOf
  <2>4. \A j \in D : Occurs[p[j]][z] \subseteq Nat
    BY <1>1, ScheduleAssumption
  <2>5. CASE r = {}
    <3>1. h[s] = new /\ s = {k}
      BY <2>1, <2>3, <2>5 DEF Never
    <3>. QED
      BY <2>2, <3>1, <1>7
  <2>6. CASE r # {}
    <3>1. /\ before \in Nat /\ before > t
          /\ \E j \in r : before \in Occurs[p[j]][z]
          /\ \A j \in r : \A o \in Occurs[p[j]][z] : o > t => before <= o
      BY <2>1, <2>6
    <3>. HIDE DEF before, new, k
    <3>2. before # Never
      BY <2>1, <3>1 DEF Never
    <3>3. /\ h[s] \in Nat /\ h[s] > t /\ h[s] <= new /\ h[s] <= before
          /\ h[s] = new \/ h[s] = before
      BY <2>2, <2>3, <3>1, <3>2
    <3>4. \E j \in s : h[s] \in Occurs[p[j]][z]
      BY <2>1, <2>2, <3>1, <3>3
    <3>5. ASSUME NEW j \in s, NEW o \in Occurs[p[j]][z], o > t PROVE h[s] <= o
      <4>1. o \in Nat
        BY <2>4, <3>5
      <4>2. new <= o \/ before <= o
        BY <2>2, <3>1, <3>5
      <4>. QED
        BY <2>2, <3>1, <3>3, <4>1, <4>2
    <3>. QED
      BY <1>7, <3>3, <3>4, <3>5
  <2>. QED
    BY <2>5, <2>6
<1>8. SUBSET D \subseteq U
  <2>. HIDE DEF U
  <2>1. \A s \in SUBSET D : s # {} /\ s \ {Max(s)} \in U => s \in U
    BY <1>2, <1>7
  <2>. QED
    BY <1>1, <1>6, <2>1, MaxReached
<1>9. D \in U
  BY <1>8
<1>. QED
  BY <1>1, <1>9, NextUnfolds DEF IsNext, h, D

-----------------------------------------------------------------------------
(* The invariant of the loop *)

\* Time stays within its bound, no monitor was considered later than now, and
\* a loop works on what syncAndRun loaded, in the timezone of the tasks.
PollFits ==
  /\ now \in 1..MaxTime
  /\ \A m \in Monitors : upto[m] <= now
  /\ poll.pc = "loop" =>
       /\ poll.zone = lastZone
       /\ poll.list \in [Monitors -> Stored]
       /\ poll.at \in 1..now
       /\ \A m \in Monitors : upto[m] <= poll.at

PollsIInv == TypeOK /\ SlotsAreCounted /\ PollFits

\* A task holds the first occurrence of its expressions after the instant up to
\* which they were considered.
TasksAreNext ==
  \A m \in Monitors :
    tasks[m] # NoTask =>
      /\ tasks[m].schedules \in Plans
      /\ IsNext(tasks[m].next, tasks[m].schedules, lastZone, upto[m])

-----------------------------------------------------------------------------
(* The slots *)

\* The goroutines of this state and of the next, as sums over functions.
LEMMA GoroutinesAre ==
  /\ Goroutines = Total(queued, Monitors) + Cardinality(Executing)
  /\ Goroutines' = Total(queued', Monitors) + Cardinality(Executing')
<1>1. Goroutines = Total(queued, Monitors) + Cardinality(Executing)
  BY DEF Goroutines, Total
<1>2. Goroutines' = Total(queued', Monitors) + Cardinality(Executing')
  BY DEF Goroutines, Total, MapThenSumSet, MapThenFoldSet
<1>. QED
  BY <1>1, <1>2

LEMMA SlotsFinite ==
  ASSUME TypeOK
  PROVE  /\ IsFiniteSet(Executing) /\ Cardinality(Executing) \in Nat
         /\ Total(queued, Monitors) \in Nat
<1>1. IsFiniteSet(Executing)
  BY ScheduleAssumption, FS_Subset DEF Executing
<1>2. queued \in [Monitors -> Nat] /\ IsFiniteSet(Monitors)
  BY ScheduleAssumption DEF TypeOK
<1>3. Total(queued, Monitors) \in Nat
  <2>1. Nat \in {Nat, Int}
    OBVIOUS
  <2>. QED
    BY <1>2, <2>1, TotalType, Zenon
<1>. QED
  BY <1>1, <1>3, FS_CardinalityType

\* A step that leaves the goroutines alone.
LEMMA SlotsKept ==
  ASSUME SlotsAreCounted, UNCHANGED <<queued, activeRuns>>, Executing' = Executing
  PROVE  SlotsAreCounted'
BY GoroutinesAre DEF SlotsAreCounted

\* launch starts a goroutine and takes a slot for it.
LEMMA SlotTaken ==
  ASSUME TypeOK, SlotsAreCounted, NEW m \in Monitors,
         queued' = [queued EXCEPT ![m] = @ + 1], activeRuns' = activeRuns + 1,
         UNCHANGED lock
  PROVE  SlotsAreCounted'
<1>1. queued \in [Monitors -> Nat] /\ IsFiniteSet(Monitors)
  BY ScheduleAssumption DEF TypeOK
<1>2. /\ queued' \in [Monitors -> Nat] /\ queued'[m] = queued[m] + 1
      /\ \A x \in Monitors : x # m => queued'[x] = queued[x]
  BY <1>1
<1>3. Total(queued', Monitors) = Total(queued, Monitors) + 1
  BY <1>1, <1>2, OneMore
<1>4. Executing' = Executing
  BY DEF Executing
<1>. QED
  BY <1>3, <1>4, GoroutinesAre, SlotsFinite DEF SlotsAreCounted

\* A goroutine less in the queue.
LEMMA QueueShrinks ==
  ASSUME TypeOK, NEW m \in Monitors, queued[m] > 0, queued' = [queued EXCEPT ![m] = @ - 1]
  PROVE  /\ queued' \in [Monitors -> Nat]
         /\ Total(queued', Monitors) \in Nat
         /\ Total(queued, Monitors) = Total(queued', Monitors) + 1
<1>1. queued \in [Monitors -> Nat] /\ IsFiniteSet(Monitors)
  BY ScheduleAssumption DEF TypeOK
<1>2. /\ queued' \in [Monitors -> Nat] /\ queued[m] = queued'[m] + 1
      /\ \A x \in Monitors : x # m => queued[x] = queued'[x]
  BY <1>1
<1>3. Total(queued', Monitors) \in Nat
  <2>1. Nat \in {Nat, Int}
    OBVIOUS
  <2>. QED
    BY <1>1, <1>2, <2>1, TotalType, Zenon
<1>4. Total(queued, Monitors) = Total(queued', Monitors) + 1
  BY <1>1, <1>2, OneMore
<1>. QED
  BY <1>2, <1>3, <1>4

\* A goroutine that does not run ends and gives its slot back.
LEMMA SlotGiven ==
  ASSUME TypeOK, SlotsAreCounted, NEW m \in Monitors, Skip(m)
  PROVE  SlotsAreCounted' /\ activeRuns' \in Nat
<1>1. Executing' = Executing
  BY DEF Skip, Executing
<1>2. /\ Total(queued', Monitors) \in Nat
      /\ Total(queued, Monitors) = Total(queued', Monitors) + 1
  BY QueueShrinks DEF Skip
<1>. QED
  BY <1>1, <1>2, GoroutinesAre, SlotsFinite DEF SlotsAreCounted, Skip

\* A goroutine that runs keeps its slot: it leaves the queue and executes.
LEMMA SlotUsed ==
  ASSUME TypeOK, SlotsAreCounted, NEW m \in Monitors, Run(m)
  PROVE  SlotsAreCounted'
<1>1. lock \in [Monitors -> {"free", "scheduled", "manual"}] /\ m \notin Executing
  BY DEF TypeOK, Run, Executing
<1>2. Executing' = Executing \cup {m}
  BY <1>1 DEF Run, Executing
<1>3. Cardinality(Executing') = Cardinality(Executing) + 1
  BY <1>1, <1>2, SlotsFinite, FS_AddElement
<1>4. /\ Total(queued', Monitors) \in Nat
      /\ Total(queued, Monitors) = Total(queued', Monitors) + 1
  BY QueueShrinks DEF Run
<1>. QED
  BY <1>3, <1>4, GoroutinesAre, SlotsFinite DEF SlotsAreCounted, Run

\* The end of an execution gives the slot back.
LEMMA SlotFreed ==
  ASSUME TypeOK, SlotsAreCounted, NEW m \in Monitors, Finish(m)
  PROVE  SlotsAreCounted' /\ activeRuns' \in Nat
<1>1. lock \in [Monitors -> {"free", "scheduled", "manual"}] /\ m \in Executing
  BY DEF TypeOK, Finish, Executing
<1>2. Executing' = Executing \ {m}
  BY <1>1 DEF Finish, Executing
<1>3. Cardinality(Executing') = Cardinality(Executing) - 1 /\ Cardinality(Executing') \in Nat
  BY <1>1, <1>2, SlotsFinite, FS_RemoveElement, FS_CardinalityType
<1>4. queued' = queued /\ activeRuns' = activeRuns - 1
  BY DEF Finish
<1>. QED
  BY <1>3, <1>4, GoroutinesAre, SlotsFinite DEF SlotsAreCounted

-----------------------------------------------------------------------------
(* Types and bounds *)

ListType == [Monitors -> [enabled : BOOLEAN, schedules : Plans \cup {<<>>}]]
TaskType == [schedules : Plans \cup {<<>>}, next : Nat]
PollType == [pc : {"idle", "loop"}, at : Nat, zone : Zones, list : ListType,
             left : SUBSET Monitors, present : SUBSET Monitors]

LEMMA ConstantsFit ==
  ASSUME zone \in Zones
  PROVE  /\ NoTask \in TaskType /\ NoTasks \in [Monitors -> TaskType]
         /\ Idle \in PollType /\ Idle.pc = "idle"
         /\ [Monitors -> Stored] \subseteq ListType
<1>1. SomeZone \in Zones
  BY DEF SomeZone
<1>2. NoList \in ListType
  BY DEF NoList, ListType
<1>3. Idle \in PollType /\ Idle.pc = "idle"
  BY <1>1, <1>2 DEF Idle, PollType
<1>4. NoTask \in TaskType /\ NoTasks \in [Monitors -> TaskType]
  BY DEF NoTask, NoTasks, TaskType
<1>5. [Monitors -> Stored] \subseteq ListType
  BY DEF Stored, ListType
<1>. QED
  BY <1>3, <1>4, <1>5

\* The plan that the loop reads, and the task of it.
LEMMA TaskFits ==
  ASSUME PollsIInv, NEW m \in Monitors, poll.pc = "loop"
  PROVE  /\ poll.list[m].schedules \in Plans /\ poll.zone \in Zones
         /\ poll.at \in Nat /\ poll.at \in 1..MaxTime
         /\ TaskOf(m) \in TaskType /\ TaskOf(m).schedules = poll.list[m].schedules
         /\ TaskOf(m).next \in Nat
         /\ NextScheduleTime(TaskOf(m).schedules, poll.zone, poll.at) \in Nat
<1>. DEFINE plan == poll.list[m].schedules
            fresh == NextScheduleTime(plan, poll.zone, poll.at)
<1>1. poll.zone \in Zones /\ poll.at \in 1..now /\ now \in 1..MaxTime
  BY DEF PollsIInv, TypeOK, PollFits
<1>2. plan \in Plans
  BY DEF PollsIInv, PollFits, Stored
<1>3. poll.at \in Nat /\ poll.at \in 1..MaxTime
  BY <1>1, ScheduleAssumption
<1>4. fresh \in Nat
  BY <1>1, <1>2, <1>3, NextType
<1>. HIDE DEF fresh
<1>5. tasks[m] \in TaskType
  BY DEF PollsIInv, TypeOK, TaskType
<1>6. TaskOf(m) = IF tasks[m].schedules = plan THEN tasks[m]
                  ELSE [schedules |-> plan, next |-> fresh]
  BY DEF TaskOf, fresh
<1>7. TaskOf(m) \in TaskType /\ TaskOf(m).schedules = plan
  BY <1>2, <1>4, <1>5, <1>6 DEF TaskType
<1>. QED
  BY <1>1, <1>2, <1>3, <1>4, <1>7 DEF TaskType, fresh

\* What Consider makes of the task: as it was, or moved to its next occurrence.
LEMMA ConsiderFits ==
  ASSUME PollsIInv, NEW m \in Monitors, Consider(m)
  PROVE  \E task \in TaskType :
           /\ tasks' = [tasks EXCEPT ![m] = task]
           /\ task.schedules = poll.list[m].schedules
           /\ \/ /\ poll.at < TaskOf(m).next /\ task = TaskOf(m)
                 /\ UNCHANGED <<queued, activeRuns>>
              \/ /\ ~(poll.at < TaskOf(m).next) /\ Launch(m)
                 /\ task.next = NextScheduleTime(task.schedules, poll.zone, poll.at)
<1>. DEFINE new == NextScheduleTime(TaskOf(m).schedules, poll.zone, poll.at)
<1>1. poll.pc = "loop"
  BY DEF Consider
<1>2. /\ TaskOf(m) \in TaskType /\ TaskOf(m).schedules = poll.list[m].schedules
      /\ new \in Nat
  BY <1>1, TaskFits
<1>. DEFINE moved == [TaskOf(m) EXCEPT !.next = new]
<1>3. moved \in TaskType /\ moved.schedules = TaskOf(m).schedules /\ moved.next = new
  <2>. HIDE DEF new
  <2>. QED
    BY <1>2 DEF TaskType
<1>4. CASE poll.at < TaskOf(m).next
  <2>1. tasks' = [tasks EXCEPT ![m] = TaskOf(m)] /\ UNCHANGED <<queued, activeRuns>>
    BY <1>4 DEF Consider
  <2>. HIDE DEF new, moved
  <2>. QED
    BY <1>2, <1>4, <2>1
<1>5. CASE ~(poll.at < TaskOf(m).next)
  <2>1. tasks' = [tasks EXCEPT ![m] = moved] /\ Launch(m)
    BY <1>5 DEF Consider
  <2>2. moved.next = NextScheduleTime(moved.schedules, poll.zone, poll.at)
    BY <1>3
  <2>. HIDE DEF new, moved
  <2>. QED
    BY <1>2, <1>3, <1>5, <2>1, <2>2
<1>. QED
  BY <1>4, <1>5

LEMMA PollsInit == Init => PollsIInv
<1>. SUFFICES ASSUME Init PROVE PollsIInv
  OBVIOUS
<1>1. zone \in Zones /\ 1 \in 1..MaxTime
  BY ScheduleAssumption DEF Init
<1>2. TypeOK
  BY <1>1, ConstantsFit DEF Init, TypeOK, ListType, TaskType, PollType
<1>3. SlotsAreCounted
  <2>1. Executing = {}
    BY DEF Init, Executing
  <2>2. Total(queued, Monitors) = 0
    BY ScheduleAssumption, TotalZero DEF Init
  <2>3. Cardinality({}) = 0
    BY FS_EmptySet
  <2>. QED
    BY <2>1, <2>2, <2>3, GoroutinesAre DEF Init, SlotsAreCounted
<1>4. PollFits
  BY <1>1, ConstantsFit DEF Init, PollFits
<1>. QED
  BY <1>2, <1>3, <1>4 DEF PollsIInv

\* A step of what is around the loop.
LEMMA QuietStep ==
  ASSUME PollsIInv, UNCHANGED <<tasks, lastZone, poll, queued, activeRuns, upto>>,
         stored' \in [Monitors -> Stored], available' \in [Monitors -> BOOLEAN],
         zone' \in Zones, limit' \in Limits, now' \in now..MaxTime,
         lock' \in [Monitors -> {"free", "scheduled", "manual"}], Executing' = Executing
  PROVE  PollsIInv'
<1>1. now \in 1..MaxTime /\ now' \in 1..MaxTime /\ now' \in Nat /\ now <= now'
  BY ScheduleAssumption DEF PollsIInv, PollFits
<1>2. TypeOK'
  BY <1>1 DEF PollsIInv, TypeOK
<1>3. SlotsAreCounted'
  BY SlotsKept DEF PollsIInv
<1>4. PollFits'
  <2>1. \A m \in Monitors : upto[m] \in Nat /\ upto[m] <= now
    BY DEF PollsIInv, TypeOK, PollFits
  <2>2. poll.pc = "loop" => poll.at \in 1..now'
    BY <1>1 DEF PollsIInv, PollFits
  <2>. QED
    BY <1>1, <2>1, <2>2 DEF PollsIInv, PollFits
<1>. QED
  BY <1>2, <1>3, <1>4 DEF PollsIInv

\* A step of the runs: the queue, the locks and the slots.
LEMMA RunStep ==
  ASSUME PollsIInv, SlotsAreCounted', activeRuns' \in Nat,
         UNCHANGED <<stored, available, zone, limit, now, tasks, lastZone, poll, upto>>,
         queued' \in [Monitors -> Nat],
         lock' \in [Monitors -> {"free", "scheduled", "manual"}]
  PROVE  PollsIInv'
<1>1. TypeOK'
  BY DEF PollsIInv, TypeOK
<1>2. PollFits'
  BY DEF PollsIInv, PollFits
<1>. QED
  BY <1>1, <1>2 DEF PollsIInv

LEMMA SyncKeeps ==
  ASSUME PollsIInv, Sync
  PROVE  PollsIInv'
<1>1. TypeOK /\ PollFits
  BY DEF PollsIInv
<1>2. /\ poll'.pc = "loop" /\ poll'.at = now /\ poll'.zone = zone /\ poll'.list = stored
      /\ poll'.left = Monitors /\ poll'.present = {} /\ poll' \in PollType
  <2>1. stored \in ListType /\ now \in Nat /\ zone \in Zones
    BY <1>1, ConstantsFit DEF TypeOK
  <2>. QED
    BY <2>1 DEF Sync, PollType
<1>3. tasks' \in [Monitors -> TaskType]
  BY <1>1, ConstantsFit DEF Sync, TypeOK, TaskType
<1>4. TypeOK'
  BY <1>1, <1>2, <1>3 DEF Sync, TypeOK, PollType, ListType, TaskType
<1>5. SlotsAreCounted'
  <2>1. Executing' = Executing
    BY DEF Sync, Executing
  <2>. QED
    BY <2>1, SlotsKept DEF PollsIInv, Sync
<1>6. PollFits'
  <2>1. now \in 1..now /\ \A m \in Monitors : upto[m] <= now
    BY <1>1, ScheduleAssumption DEF PollFits
  <2>2. stored \in [Monitors -> Stored]
    BY <1>1 DEF TypeOK
  <2>. QED
    BY <1>1, <1>2, <2>1, <2>2 DEF Sync, PollFits
<1>. QED
  BY <1>4, <1>5, <1>6 DEF PollsIInv

LEMMA PassKeeps ==
  ASSUME PollsIInv, NEW m \in Monitors, Pass(m)
  PROVE  PollsIInv'
<1>1. TypeOK /\ PollFits
  BY DEF PollsIInv
<1>2. PICK p : p = [poll EXCEPT !.left = @ \ {m}]
  OBVIOUS
<1>3. /\ p \in PollType /\ p.pc = poll.pc /\ p.at = poll.at /\ p.zone = poll.zone
      /\ p.list = poll.list
  BY <1>1, <1>2 DEF TypeOK, PollType, ListType
<1>4. poll' = p
  BY <1>2 DEF Pass
<1>5. TypeOK'
  BY <1>1, <1>3, <1>4 DEF Pass, TypeOK, PollType, ListType
<1>6. SlotsAreCounted'
  <2>1. Executing' = Executing
    BY DEF Pass, Executing
  <2>. QED
    BY <2>1, SlotsKept DEF PollsIInv, Pass
<1>7. PollFits'
  BY <1>1, <1>3, <1>4 DEF Pass, PollFits
<1>. QED
  BY <1>5, <1>6, <1>7 DEF PollsIInv

LEMMA ConsiderKeeps ==
  ASSUME PollsIInv, NEW m \in Monitors, Consider(m)
  PROVE  PollsIInv'
<1>1. TypeOK /\ PollFits /\ SlotsAreCounted
  BY DEF PollsIInv
<1>2. PICK p : p = [poll EXCEPT !.left = @ \ {m}, !.present = @ \cup {m}]
  OBVIOUS
<1>3. /\ p \in PollType /\ p.pc = poll.pc /\ p.at = poll.at /\ p.zone = poll.zone
      /\ p.list = poll.list
  BY <1>1, <1>2 DEF TypeOK, PollType, ListType
<1>4. poll' = p
  BY <1>2 DEF Consider
<1>5. PICK task \in TaskType :
        /\ tasks' = [tasks EXCEPT ![m] = task]
        /\ UNCHANGED <<queued, activeRuns>> \/ Launch(m)
  BY ConsiderFits
<1>6. tasks' \in [Monitors -> TaskType]
  BY <1>1, <1>5 DEF TypeOK, TaskType
<1>7. UNCHANGED lock /\ Executing' = Executing
  BY DEF Consider, Executing
<1>8. \/ UNCHANGED <<queued, activeRuns>>
      \/ queued' = [queued EXCEPT ![m] = @ + 1] /\ activeRuns' = activeRuns + 1
  BY <1>5 DEF Launch
<1>9. queued' \in [Monitors -> Nat] /\ activeRuns' \in Nat /\ SlotsAreCounted'
  <2>1. CASE UNCHANGED <<queued, activeRuns>>
    <3>1. SlotsAreCounted'
      BY <1>1, <1>7, <2>1, SlotsKept
    <3>. QED
      BY <1>1, <2>1, <3>1 DEF TypeOK
  <2>2. CASE queued' = [queued EXCEPT ![m] = @ + 1] /\ activeRuns' = activeRuns + 1
    <3>1. SlotsAreCounted'
      BY <1>1, <1>7, <2>2, SlotTaken
    <3>. QED
      BY <1>1, <2>2, <3>1 DEF TypeOK
  <2>. QED
    BY <1>8, <2>1, <2>2
<1>10. poll.at \in Nat /\ poll.at \in 1..now /\ poll.pc = "loop"
  BY <1>1 DEF TypeOK, PollFits, Consider
<1>11. /\ upto' \in [Monitors -> Nat] /\ upto'[m] = poll.at
       /\ \A x \in Monitors : x # m => upto'[x] = upto[x]
  BY <1>1, <1>10 DEF Consider, TypeOK
<1>12. TypeOK'
  BY <1>1, <1>3, <1>4, <1>6, <1>9, <1>11
  DEF Consider, TypeOK, PollType, ListType, TaskType
<1>13. PollFits'
  <2>1. \A x \in Monitors : upto'[x] <= poll.at /\ upto'[x] <= now
    <3>1. poll.at <= poll.at /\ poll.at <= now
      BY <1>1, <1>10 DEF TypeOK
    <3>. QED
      BY <1>1, <1>10, <1>11, <3>1 DEF PollFits
  <2>2. now' = now /\ lastZone' = lastZone
    BY DEF Consider
  <2>. QED
    BY <1>1, <1>3, <1>4, <2>1, <2>2 DEF PollFits
<1>. QED
  BY <1>9, <1>12, <1>13 DEF PollsIInv

LEMMA EndSyncKeeps ==
  ASSUME PollsIInv, EndSync
  PROVE  PollsIInv'
<1>1. TypeOK /\ PollFits
  BY DEF PollsIInv
<1>2. poll' = Idle /\ Idle \in PollType /\ Idle.pc = "idle" /\ NoTask \in TaskType
  BY <1>1, ConstantsFit DEF EndSync, TypeOK
<1>3. tasks' \in [Monitors -> TaskType]
  BY <1>1, <1>2 DEF EndSync, TypeOK, TaskType
<1>4. TypeOK'
  BY <1>1, <1>2, <1>3 DEF EndSync, TypeOK, PollType, ListType, TaskType
<1>5. SlotsAreCounted'
  <2>1. Executing' = Executing
    BY DEF EndSync, Executing
  <2>. QED
    BY <2>1, SlotsKept DEF PollsIInv, EndSync
<1>6. PollFits'
  BY <1>1, <1>2 DEF EndSync, PollFits
<1>. QED
  BY <1>4, <1>5, <1>6 DEF PollsIInv

\* Skip, Run and Finish.
LEMMA RunsKeep ==
  ASSUME PollsIInv, NEW m \in Monitors, Skip(m) \/ Run(m) \/ Finish(m)
  PROVE  PollsIInv'
<1>1. TypeOK /\ SlotsAreCounted
  BY DEF PollsIInv
<1>2. CASE Skip(m)
  <2>1. SlotsAreCounted' /\ activeRuns' \in Nat
    BY <1>1, <1>2, SlotGiven
  <2>2. queued' \in [Monitors -> Nat]
    BY <1>1, <1>2, QueueShrinks DEF Skip
  <2>. QED
    BY <1>1, <1>2, <2>1, <2>2, RunStep DEF Skip, TypeOK
<1>3. CASE Run(m)
  <2>1. SlotsAreCounted'
    BY <1>1, <1>3, SlotUsed
  <2>2. queued' \in [Monitors -> Nat]
    BY <1>1, <1>3, QueueShrinks DEF Run
  <2>3. /\ lock' \in [Monitors -> {"free", "scheduled", "manual"}]
        /\ activeRuns' \in Nat
    BY <1>1, <1>3 DEF Run, TypeOK
  <2>. QED
    BY <1>3, <2>1, <2>2, <2>3, RunStep DEF Run
<1>4. CASE Finish(m)
  <2>1. SlotsAreCounted' /\ activeRuns' \in Nat
    BY <1>1, <1>4, SlotFreed
  <2>2. /\ lock' \in [Monitors -> {"free", "scheduled", "manual"}]
        /\ queued' \in [Monitors -> Nat]
    BY <1>1, <1>4 DEF Finish, TypeOK
  <2>. QED
    BY <1>4, <2>1, <2>2, RunStep DEF Finish
<1>. QED
  BY <1>2, <1>3, <1>4

\* Tick, the edits and the runs by hand.
LEMMA SurroundingsKeep ==
  ASSUME PollsIInv,
         \/ Tick \/ SetZone \/ SetLimit
         \/ \E m \in Touched : Manual(m) \/ Edit(m) \/ SwitchModule(m)
  PROVE  PollsIInv'
<1>1. /\ TypeOK /\ now \in 1..MaxTime /\ now \in now..MaxTime
      /\ Touched \subseteq Monitors
  BY ScheduleAssumption DEF PollsIInv, PollFits
<1>2. UNCHANGED lock => Executing' = Executing
  BY DEF Executing
<1>3. CASE Tick
  <2>1. now' \in now..MaxTime
    BY <1>1, <1>3, ScheduleAssumption DEF Tick
  <2>. QED
    BY <1>1, <1>2, <1>3, <2>1, QuietStep DEF Tick, TypeOK
<1>4. CASE SetZone
  BY <1>1, <1>2, <1>4, QuietStep DEF SetZone, TypeOK
<1>5. CASE SetLimit
  BY <1>1, <1>2, <1>5, QuietStep DEF SetLimit, TypeOK
<1>6. ASSUME NEW m \in Touched, Manual(m) PROVE PollsIInv'
  <2>1. lock' \in [Monitors -> {"free", "scheduled", "manual"}]
    <3>1. \E state \in {"free", "manual"} : lock' = [lock EXCEPT ![m] = state]
      BY <1>6 DEF Manual
    <3>. QED
      BY <1>1, <3>1 DEF TypeOK
  <2>2. Executing' = Executing
    BY <1>1, <1>6 DEF Manual, TypeOK, Executing
  <2>. QED
    BY <1>1, <1>6, <2>1, <2>2, QuietStep DEF Manual, TypeOK
<1>7. ASSUME NEW m \in Touched, Edit(m) PROVE PollsIInv'
  <2>1. stored' \in [Monitors -> Stored]
    BY <1>1, <1>7 DEF Edit, TypeOK
  <2>. QED
    BY <1>1, <1>2, <1>7, <2>1, QuietStep DEF Edit, TypeOK
<1>8. ASSUME NEW m \in Touched, SwitchModule(m) PROVE PollsIInv'
  <2>1. available' \in [Monitors -> BOOLEAN]
    BY <1>1, <1>8 DEF SwitchModule, TypeOK
  <2>. QED
    BY <1>1, <1>2, <1>8, <2>1, QuietStep DEF SwitchModule, TypeOK
<1>. QED
  BY <1>3, <1>4, <1>5, <1>6, <1>7, <1>8

LEMMA PollsStep ==
  ASSUME PollsIInv, [Next]_vars
  PROVE  PollsIInv'
<1>1. CASE UNCHANGED vars
  <2>1. Executing' = Executing
    BY <1>1 DEF vars, Executing
  <2>2. SlotsAreCounted'
    BY <1>1, <2>1, SlotsKept DEF PollsIInv, vars
  <2>3. TypeOK' /\ PollFits'
    BY <1>1 DEF vars, PollsIInv, TypeOK, PollFits
  <2>. QED
    BY <2>2, <2>3 DEF PollsIInv
<1>2. CASE Sync
  BY <1>2, SyncKeeps
<1>3. CASE EndSync
  BY <1>3, EndSyncKeeps
<1>4. ASSUME NEW m \in Monitors, Pass(m) PROVE PollsIInv'
  BY <1>4, PassKeeps
<1>5. ASSUME NEW m \in Monitors, Consider(m) PROVE PollsIInv'
  BY <1>5, ConsiderKeeps
<1>6. ASSUME NEW m \in Monitors, Skip(m) \/ Run(m) \/ Finish(m) PROVE PollsIInv'
  BY <1>6, RunsKeep
<1>7. CASE \/ Tick \/ SetZone \/ SetLimit
           \/ \E m \in Touched : Manual(m) \/ Edit(m) \/ SwitchModule(m)
  BY <1>7, SurroundingsKeep
<1>. QED
  BY <1>1, <1>2, <1>3, <1>4, <1>5, <1>6, <1>7 DEF Next

\* Every state keeps its types, counts its slots, and polls within its bounds.
THEOREM PollsInvariance == Spec => []PollsIInv
<1>. QED
  BY PollsInit, PollsStep, PTL DEF Spec

\* However many monitors there are, and whatever the limit becomes, activeRuns
\* is the number of goroutines that launch started and that have not ended
\* (launch, runtime.go:531-557).
THEOREM PollsHold == Spec => []PollsInv
<1>1. PollsIInv => PollsInv
  BY DEF PollsIInv, PollsInv
<1>. QED
  BY <1>1, PollsInvariance, PTL

-----------------------------------------------------------------------------
(* The occurrences that tasks hold *)

\* A task of the monitor's expressions: it is one, and holds their next instant.
LEMMA KeptIsNext ==
  ASSUME PollsIInv, TasksAreNext, NEW m \in Monitors, poll.pc = "loop",
         tasks[m].schedules = poll.list[m].schedules
  PROVE  /\ tasks[m] # NoTask /\ TaskOf(m) = tasks[m]
         /\ IsNext(tasks[m].next, tasks[m].schedules, poll.zone, upto[m])
<1>1. poll.list[m].schedules \in Plans /\ poll.zone = lastZone
  BY TaskFits DEF PollsIInv, PollFits
<1>2. tasks[m] # NoTask
  <2>1. poll.list[m].schedules # <<>> /\ NoTask.schedules = <<>>
    BY <1>1, ScheduleAssumption DEF NoTask
  <2>. QED
    BY <2>1
<1>. QED
  BY <1>1, <1>2 DEF TasksAreNext, TaskOf

\* The first instant after t is also the first after any later one before it.
LEMMA NextLater ==
  ASSUME NEW n, NEW p \in Plans, NEW z \in Zones, NEW t \in Nat, NEW u \in Nat,
         IsNext(n, p, z, t), t <= u, u < n
  PROVE  IsNext(n, p, z, u)
<1>1. \A k \in DOMAIN p : Occurs[p[k]][z] \subseteq Nat
  BY PlanIs, ScheduleAssumption
<1>2. ASSUME NEW k \in DOMAIN p, NEW o \in Occurs[p[k]][z], o > u PROVE n <= o
  <2>1. o \in Nat
    BY <1>1
  <2>2. o > t
    BY <1>2, <2>1
  <2>. QED
    BY <2>2 DEF IsNext
<1>. QED
  BY <1>2 DEF IsNext

LEMMA ConsiderIsNext ==
  ASSUME Recurring, PollsIInv, TasksAreNext, NEW m \in Monitors, Consider(m)
  PROVE  TasksAreNext'
<1>1. /\ poll.pc = "loop" /\ poll.zone = lastZone /\ upto[m] \in Nat /\ upto[m] <= poll.at
      /\ tasks \in [Monitors -> TaskType] /\ upto \in [Monitors -> Nat]
  BY DEF Consider, PollsIInv, PollFits, TypeOK, TaskType
<1>2. /\ poll.list[m].schedules \in Plans /\ poll.zone \in Zones
      /\ poll.at \in Nat /\ poll.at \in 1..MaxTime
  BY <1>1, TaskFits
<1>3. PICK task \in TaskType :
        /\ tasks' = [tasks EXCEPT ![m] = task]
        /\ task.schedules = poll.list[m].schedules
        /\ \/ poll.at < TaskOf(m).next /\ task = TaskOf(m)
           \/ task.next = NextScheduleTime(task.schedules, poll.zone, poll.at)
  BY ConsiderFits
<1>4. IsNext(task.next, task.schedules, poll.zone, poll.at)
  <2>1. CASE task.next = NextScheduleTime(task.schedules, poll.zone, poll.at)
    BY <1>2, <1>3, <2>1, NextIs
  <2>2. CASE poll.at < TaskOf(m).next /\ task = TaskOf(m)
    <3>1. CASE tasks[m].schedules = poll.list[m].schedules
      <4>1. TaskOf(m) = tasks[m] /\ IsNext(tasks[m].next, tasks[m].schedules, poll.zone, upto[m])
        BY <1>1, <3>1, KeptIsNext
      <4>. QED
        BY <1>1, <1>2, <2>2, <3>1, <4>1, NextLater
    <3>2. CASE tasks[m].schedules # poll.list[m].schedules
      <4>1. task = [schedules |-> poll.list[m].schedules,
                    next |-> NextScheduleTime(poll.list[m].schedules, poll.zone, poll.at)]
        BY <2>2, <3>2 DEF TaskOf
      <4>2. task.next = NextScheduleTime(task.schedules, poll.zone, poll.at)
        BY <4>1
      <4>. QED
        BY <1>2, <1>3, <4>2, NextIs
    <3>. QED
      BY <3>1, <3>2
  <2>. QED
    BY <1>3, <2>1, <2>2
<1>5. /\ tasks'[m] = task /\ upto'[m] = poll.at /\ lastZone' = lastZone
      /\ \A x \in Monitors : x # m => tasks'[x] = tasks[x] /\ upto'[x] = upto[x]
  BY <1>1, <1>3 DEF Consider
<1>. QED
  BY <1>1, <1>2, <1>3, <1>4, <1>5 DEF TasksAreNext

LEMMA TasksStep ==
  ASSUME Recurring, PollsIInv, TasksAreNext, [Next]_vars
  PROVE  TasksAreNext'
<1>1. CASE UNCHANGED <<tasks, lastZone, upto>>
  BY <1>1 DEF TasksAreNext
<1>2. CASE Sync
  <2>1. CASE zone # lastZone
    <3>1. tasks' = NoTasks
      BY <1>2, <2>1 DEF Sync
    <3>. QED
      BY <3>1 DEF TasksAreNext, NoTasks
  <2>2. CASE zone = lastZone
    BY <1>1, <1>2, <2>2 DEF Sync
  <2>. QED
    BY <2>1, <2>2
<1>3. CASE EndSync
  <2>1. /\ \A m \in Monitors : tasks'[m] # NoTask => tasks'[m] = tasks[m]
        /\ UNCHANGED <<lastZone, upto>>
    BY <1>3 DEF EndSync
  <2>. QED
    BY <2>1 DEF TasksAreNext
<1>4. ASSUME NEW m \in Monitors, Consider(m) PROVE TasksAreNext'
  BY <1>4, ConsiderIsNext
<1>5. ASSUME NEW m \in Monitors, Pass(m) \/ Skip(m) \/ Run(m) \/ Finish(m)
      PROVE  UNCHANGED <<tasks, lastZone, upto>>
  BY <1>5 DEF Pass, Skip, Run, Finish
<1>6. ASSUME NEW m \in Touched, Manual(m) \/ Edit(m) \/ SwitchModule(m)
      PROVE  UNCHANGED <<tasks, lastZone, upto>>
  BY <1>6 DEF Manual, Edit, SwitchModule
<1>7. Tick \/ SetZone \/ SetLimit \/ UNCHANGED vars => UNCHANGED <<tasks, lastZone, upto>>
  BY DEF Tick, SetZone, SetLimit, vars
<1>. QED
  BY <1>1, <1>2, <1>3, <1>4, <1>5, <1>6, <1>7 DEF Next

\* As long as expressions recur, every task holds the first instant of its
\* expressions after the one up to which they were considered
\* (advanceScheduleTask, runtime.go:519-529).
THEOREM TasksHoldTheNext ==
  ASSUME Recurring
  PROVE  Spec => []TasksAreNext
<1>1. Init => TasksAreNext
  BY DEF Init, TasksAreNext, NoTasks
<1>2. PollsIInv /\ TasksAreNext /\ [Next]_vars => TasksAreNext'
  BY TasksStep
<1>. QED
  BY <1>1, <1>2, PollsInvariance, PTL DEF Spec

\* Only Consider launches, and only what is due.
LEMMA OnlyConsiderLaunches ==
  ASSUME PollsIInv, [Next]_vars, NEW m \in Monitors, Launched(m)
  PROVE  Consider(m)
<1>1. queued \in [Monitors -> Nat]
  BY DEF PollsIInv, TypeOK
<1>2. queued' # queued
  <2>1. queued[m] \in Nat /\ queued'[m] > queued[m]
    BY <1>1 DEF Launched
  <2>. QED
    BY <2>1
<1>3. ~(Sync \/ EndSync \/ Tick \/ SetZone \/ SetLimit \/ UNCHANGED vars)
  BY <1>2 DEF Sync, EndSync, Tick, SetZone, SetLimit, vars
<1>4. \A x \in Monitors : ~(Pass(x) \/ Finish(x))
  BY <1>2 DEF Pass, Finish
<1>5. \A x \in Touched : ~(Manual(x) \/ Edit(x) \/ SwitchModule(x))
  BY <1>2 DEF Manual, Edit, SwitchModule
<1>6. ASSUME NEW x \in Monitors, Skip(x) \/ Run(x) PROVE FALSE
  <2>1. queued' = [queued EXCEPT ![x] = @ - 1]
    BY <1>6 DEF Skip, Run
  <2>2. queued[m] \in Nat /\ queued'[m] > queued[m]
    BY <1>1 DEF Launched
  <2>3. queued'[m] = queued[m] \/ queued'[m] = queued[m] - 1
    BY <1>1, <2>1
  <2>. QED
    BY <2>2, <2>3
<1>7. PICK x \in Monitors : Consider(x)
  BY <1>3, <1>4, <1>5, <1>6 DEF Next
<1>8. UNCHANGED queued \/ queued' = [queued EXCEPT ![x] = @ + 1]
  BY <1>7 DEF Consider, Launch
<1>9. x = m
  <2>. SUFFICES ASSUME x # m PROVE FALSE
    OBVIOUS
  <2>1. queued'[m] = queued[m] /\ queued[m] \in Nat
    BY <1>1, <1>8
  <2>. QED
    BY <2>1 DEF Launched
<1>. QED
  BY <1>7, <1>9

\* Nobody is launched early, twice for an occurrence, or for what passed on
\* another schedule; and activeRuns keeps the goroutines within the limit
\* (syncAndRun, runtime.go:466-499; launch, runtime.go:531-557).
THEOREM LaunchesAreDue ==
  ASSUME Recurring
  PROVE  Spec => LaunchedWhenDue
<1>1. ASSUME PollsIInv, PollsIInv', TasksAreNext, [Next]_vars, NEW m \in Monitors, Launched(m)
      PROVE  Kept(m) /\ Due(m) /\ Goroutines' <= limit
  <2>1. Consider(m)
    BY <1>1, OnlyConsiderLaunches
  <2>2. poll.pc = "loop"
    BY <2>1 DEF Consider
  <2>3. queued' # queued
    BY <1>1 DEF PollsIInv, TypeOK, Launched
  <2>4. ~(poll.at < TaskOf(m).next) /\ Launch(m)
    BY <1>1, <2>1, <2>3, ConsiderFits
  <2>5. /\ poll.list[m].schedules \in Plans /\ poll.zone \in Zones
        /\ poll.at \in Nat /\ poll.at \in 1..MaxTime
    BY <1>1, <2>2, TaskFits
  <2>6. tasks[m].schedules = poll.list[m].schedules
    <3>. SUFFICES ASSUME tasks[m].schedules # poll.list[m].schedules PROVE FALSE
      OBVIOUS
    <3>1. TaskOf(m).next = NextScheduleTime(poll.list[m].schedules, poll.zone, poll.at)
      BY DEF TaskOf
    <3>2. TaskOf(m).next \in Nat /\ TaskOf(m).next > poll.at
      BY <2>5, <3>1, NextIs DEF IsNext
    <3>. QED
      BY <2>4, <2>5, <3>2
  <2>7. /\ tasks[m] # NoTask /\ TaskOf(m) = tasks[m]
        /\ IsNext(tasks[m].next, tasks[m].schedules, poll.zone, upto[m])
    BY <1>1, <2>2, <2>6, KeptIsNext
  <2>8. Due(m)
    <3>1. tasks[m].next \in Nat /\ upto[m] \in Nat /\ upto[m] < tasks[m].next
      BY <1>1, <2>7 DEF IsNext, PollsIInv, TypeOK
    <3>2. tasks[m].next <= poll.at
      BY <2>4, <2>5, <2>7, <3>1
    <3>. QED
      BY <2>7, <3>1, <3>2 DEF IsNext, Due
  <2>9. Goroutines' <= limit
    <3>1. ~(activeRuns >= limit) /\ activeRuns' = activeRuns + 1
      BY <2>3, <2>4 DEF Launch
    <3>2. activeRuns \in Nat /\ limit \in Nat
      BY <1>1, ScheduleAssumption DEF PollsIInv, TypeOK
    <3>3. Goroutines' = activeRuns'
      BY <1>1 DEF PollsIInv, SlotsAreCounted
    <3>. QED
      BY <3>1, <3>2, <3>3
  <2>. QED
    BY <2>6, <2>7, <2>8, <2>9 DEF Kept
<1>2. PollsIInv /\ PollsIInv' /\ TasksAreNext /\ [Next]_vars
        => [\A m \in Monitors : Launched(m) => Kept(m) /\ Due(m) /\ Goroutines' <= limit]_vars
  BY <1>1
<1>. QED
  BY <1>2, PollsInvariance, TasksHoldTheNext, PTL DEF Spec, LaunchedWhenDue

\* A poll launches what became due since the last one, once, unless the limit is
\* reached (advanceScheduleTask, runtime.go:519-529).
THEOREM DueAreLaunched ==
  ASSUME Recurring
  PROVE  Spec => DueIsLaunched
<1>1. ASSUME PollsIInv, TasksAreNext, NEW m \in Monitors, Consider(m), Kept(m), Due(m)
      PROVE  activeRuns >= limit \/ queued'[m] = queued[m] + 1
  <2>1. poll.pc = "loop" /\ tasks[m].schedules = poll.list[m].schedules
    BY <1>1 DEF Consider, Kept
  <2>2. TaskOf(m) = tasks[m] /\ IsNext(tasks[m].next, tasks[m].schedules, poll.zone, upto[m])
    BY <1>1, <2>1, KeptIsNext
  <2>3. poll.list[m].schedules \in Plans /\ poll.zone \in Zones /\ poll.at \in Nat
    BY <1>1, <2>1, TaskFits
  <2>4. PICK k \in DOMAIN tasks[m].schedules :
          \E o \in Occurs[tasks[m].schedules[k]][poll.zone] : upto[m] < o /\ o <= poll.at
    BY <1>1 DEF Due
  <2>5. PICK o \in Occurs[tasks[m].schedules[k]][poll.zone] : upto[m] < o /\ o <= poll.at
    BY <2>4
  <2>6. o \in Nat /\ upto[m] \in Nat
    BY <1>1, <2>1, <2>3, PlanIs, ScheduleAssumption DEF PollsIInv, TypeOK
  <2>7. tasks[m].next \in Nat /\ tasks[m].next <= o
    BY <2>2, <2>5, <2>6 DEF IsNext
  <2>8. ~(poll.at < TaskOf(m).next)
    BY <2>2, <2>3, <2>5, <2>6, <2>7
  <2>9. Launch(m)
    BY <1>1, <2>8, ConsiderFits
  <2>. QED
    BY <1>1, <2>9 DEF Launch, PollsIInv, TypeOK
<1>2. PollsIInv /\ TasksAreNext /\ [Next]_vars
        => [\A m \in Monitors :
              Consider(m) /\ Kept(m) /\ Due(m) =>
                activeRuns >= limit \/ queued'[m] = queued[m] + 1]_vars
  BY <1>1
<1>. QED
  BY <1>2, PollsInvariance, TasksHoldTheNext, PTL DEF Spec, DueIsLaunched


-----------------------------------------------------------------------------
(* Items of the status board *)

\* A normalized configuration is the one it came from, but for two fields.
Rewritten(n, c, M, T) == n = [c EXCEPT !.mappings = M, !.thresholds = T]

LEMMA RewrittenIs ==
  ASSUME NEW c \in Configuration, NEW M \in Seq(Mapping), NEW T \in Seq(Threshold),
         NEW n, Rewritten(n, c, M, T)
  PROVE  /\ n \in Configuration
         /\ n.type = c.type /\ n.invert = c.invert /\ n.default = c.default
         /\ n.limit = c.limit /\ n.rule = c.rule
         /\ n.mappings = M /\ n.thresholds = T
<1>1. PICK Q : Q = Seq(Mapping)
  OBVIOUS
<1>2. PICK S : S = Seq(Threshold)
  OBVIOUS
<1>3. PICK L : L = Levels
  OBVIOUS
<1>4. PICK R : R = Rule
  OBVIOUS
<1>5. c \in [type : {"boolean", "number", "text"}, invert : BOOLEAN, mappings : Q,
             default : L, thresholds : S, limit : Int, rule : R]
  BY <1>1, <1>2, <1>3, <1>4, Zenon DEF Configuration
<1>6. PICK u : u = [c EXCEPT !.mappings = M]
  OBVIOUS
<1>7. u \in [type : {"boolean", "number", "text"}, invert : BOOLEAN, mappings : Q,
             default : L, thresholds : S, limit : Int, rule : R]
      /\ u.type = c.type /\ u.invert = c.invert /\ u.default = c.default
      /\ u.limit = c.limit /\ u.rule = c.rule /\ u.mappings = M
      /\ u.thresholds = c.thresholds
  BY <1>1, <1>5, <1>6, SMT
<1>8. n = [u EXCEPT !.thresholds = T]
  BY <1>6, Zenon DEF Rewritten
<1>9. n \in [type : {"boolean", "number", "text"}, invert : BOOLEAN, mappings : Q,
             default : L, thresholds : S, limit : Int, rule : R]
      /\ n.type = u.type /\ n.invert = u.invert /\ n.default = u.default
      /\ n.limit = u.limit /\ n.rule = u.rule /\ n.mappings = u.mappings
      /\ n.thresholds = T
  BY <1>2, <1>7, <1>8, SMT
<1>10. n \in Configuration
  BY <1>1, <1>2, <1>3, <1>4, <1>9, Zenon DEF Configuration
<1>. QED
  BY <1>7, <1>9, <1>10, Zenon

LEMMA RewrittenSame ==
  ASSUME NEW c \in Configuration, NEW n, Rewritten(n, c, c.mappings, c.thresholds)
  PROVE  n = c
<1>1. c \in [type : {"boolean", "number", "text"}, invert : BOOLEAN, mappings : Seq(Mapping),
             default : Levels, thresholds : Seq(Threshold), limit : Int, rule : Rule]
  BY Zenon DEF Configuration
<1>2. PICK u : u = [c EXCEPT !.mappings = c.mappings]
  OBVIOUS
<1>3. u = c
  BY <1>1, <1>2, SMT
<1>4. n = [u EXCEPT !.thresholds = u.thresholds]
  BY <1>2, <1>3, Zenon DEF Rewritten
<1>5. n = u
  BY <1>1, <1>3, <1>4, SMT
<1>. QED
  BY <1>3, <1>5, Zenon


NewMappings(c) == IF c.type = "boolean" THEN <<>> ELSE c.mappings
Catch == <<[max |-> Unbounded, level |-> "success"]>>
NewThresholds(c) ==
  IF c.type # "number" THEN <<>> ELSE IF c.thresholds = <<>> THEN Catch ELSE c.thresholds

LEMMA CatchAccepted ==
  Catch \in Seq(Threshold) /\ Catch # <<>> /\ ThresholdsAccepted(Catch)
<1>1. PICK t : t = [max |-> Unbounded, level |-> "success"]
  OBVIOUS
<1>2. t \in Threshold /\ t.max = Unbounded
  BY <1>1, SMT DEF Threshold, Levels
<1>3. Catch = <<t>>
  BY <1>1, Zenon DEF Catch
<1>4. PICK s : s = Catch
  OBVIOUS
<1>5. s \in Seq(Threshold) /\ s # <<>> /\ Len(s) = 1 /\ s[1] = t /\ DOMAIN s = {1}
  BY <1>2, <1>3, <1>4, SMT
<1>6. ThresholdsAccepted(s)
  BY <1>2, <1>5, Zenon DEF ThresholdsAccepted
<1>. QED
  BY <1>4, <1>5, <1>6, Zenon

LEMMA NormalizedIs ==
  ASSUME NEW c \in Configuration
  PROVE  /\ NewMappings(c) \in Seq(Mapping) /\ NewThresholds(c) \in Seq(Threshold)
         /\ Rewritten(Normalized(c), c, NewMappings(c), NewThresholds(c))
<1>1. c.mappings \in Seq(Mapping) /\ c.thresholds \in Seq(Threshold)
  BY Zenon DEF Configuration
<1>2. NewMappings(c) \in Seq(Mapping)
  <2>1. <<>> \in Seq(Mapping)
    BY SMT
  <2>. QED
    BY <1>1, <2>1, Zenon DEF NewMappings
<1>3. NewThresholds(c) \in Seq(Threshold)
  <2>1. <<>> \in Seq(Threshold)
    BY SMT
  <2>. QED
    BY <1>1, <2>1, CatchAccepted, Zenon DEF NewThresholds
<1>4. PICK T : T = CASE c.type # "number" -> <<>>
                     [] c.type = "number" /\ c.thresholds = <<>> ->
                          <<[max |-> Unbounded, level |-> "success"]>>
                     [] OTHER -> c.thresholds
  OBVIOUS
<1>5. T = NewThresholds(c)
  <2>1. CASE c.type # "number"
    BY <1>4, <2>1 DEF NewThresholds
  <2>2. CASE c.type = "number" /\ c.thresholds = <<>>
    BY <1>4, <2>2 DEF NewThresholds, Catch
  <2>3. CASE c.type = "number" /\ c.thresholds # <<>>
    BY <1>4, <2>3 DEF NewThresholds
  <2>. QED
    BY <2>1, <2>2, <2>3
<1>6. Normalized(c) = [c EXCEPT !.mappings = NewMappings(c), !.thresholds = T]
  BY <1>4, Zenon DEF Normalized, NewMappings
<1>. QED
  BY <1>2, <1>3, <1>5, <1>6, Zenon DEF Rewritten


\* What is stored of an accepted configuration.
Storable(c) ==
  /\ c \in Configuration /\ Accepted(c) /\ Normalized(c) = c
  /\ c.type = "number" => c.thresholds # <<>>
  /\ \A k \in DOMAIN c.mappings : IsFiniteSet(c.mappings[k].values)

\* A configuration that is accepted is accepted as it is normalized, which
\* normalizing again does not change (NormalizeAndValidate, service.go:92-193).
LEMMA NormalizedStorable ==
  ASSUME NEW c \in Configs, Accepted(c)
  PROVE  Storable(Normalized(c))
<1>1. c \in Configuration /\ \A k \in DOMAIN c.mappings : IsFiniteSet(c.mappings[k].values)
  BY BoardAssumption, Zenon
<1>2. PICK n : n = Normalized(c)
  OBVIOUS
<1>3. PICK M : M = NewMappings(c)
  OBVIOUS
<1>4. PICK T : T = NewThresholds(c)
  OBVIOUS
<1>5. M \in Seq(Mapping) /\ T \in Seq(Threshold) /\ Rewritten(n, c, M, T)
  BY <1>1, <1>2, <1>3, <1>4, NormalizedIs, Zenon
<1>6. /\ n \in Configuration
      /\ n.type = c.type /\ n.limit = c.limit /\ n.rule = c.rule
      /\ n.mappings = M /\ n.thresholds = T
  BY <1>1, <1>5, RewrittenIs
<1>7. n.type = "number" => n.thresholds # <<>> /\ ThresholdsAccepted(n.thresholds)
  <2>. SUFFICES ASSUME n.type = "number"
                PROVE  T # <<>> /\ ThresholdsAccepted(T)
    BY <1>6, Zenon
  <2>1. CASE c.thresholds = <<>>
    BY <1>4, <1>6, <2>1, CatchAccepted, Zenon DEF NewThresholds
  <2>2. CASE c.thresholds # <<>>
    BY <1>4, <1>6, <2>2, Zenon DEF NewThresholds, Accepted
  <2>. QED
    BY <2>1, <2>2
<1>8. n.type # "boolean" => n.mappings = c.mappings
  BY <1>3, <1>6, Zenon DEF NewMappings
<1>9. n.type # "boolean" => MappingsAccepted(n)
  <2>. SUFFICES ASSUME n.type # "boolean"
                PROVE  MappingsAccepted(n)
    OBVIOUS
  <2>1. MappingsAccepted(c)
    BY <1>6, Zenon DEF Accepted
  <2>2. n.mappings = c.mappings /\ n.type = c.type
    BY <1>6, <1>8, Zenon
  <2>. QED
    BY <2>1, <2>2 DEF MappingsAccepted
<1>10. Accepted(n)
  <2>1. n.limit \in MinShown..MaxShown /\ RuleAccepted(n.rule, n.type)
    BY <1>6, Zenon DEF Accepted
  <2>. QED
    BY <1>7, <1>9, <2>1, Zenon DEF Accepted
<1>11. \A k \in DOMAIN n.mappings : IsFiniteSet(n.mappings[k].values)
  <2>1. CASE n.type # "boolean"
    BY <1>1, <1>8, <2>1, Zenon
  <2>2. CASE n.type = "boolean"
    <3>1. n.mappings = <<>>
      BY <1>3, <1>6, <2>2, Zenon DEF NewMappings
    <3>2. DOMAIN n.mappings = {}
      BY <3>1, SMT
    <3>. QED
      BY <3>2, Zenon
  <2>. QED
    BY <2>1, <2>2
<1>12. Normalized(n) = n
  <2>1. NewMappings(n) = n.mappings
    <3>1. n.type = "boolean" => n.mappings = <<>>
      BY <1>3, <1>6, Zenon DEF NewMappings
    <3>. QED
      BY <3>1, Zenon DEF NewMappings
  <2>2. NewThresholds(n) = n.thresholds
    <3>1. n.type # "number" => n.thresholds = <<>>
      BY <1>4, <1>6, Zenon DEF NewThresholds
    <3>. QED
      BY <1>7, <3>1, Zenon DEF NewThresholds
  <2>3. Rewritten(Normalized(n), n, n.mappings, n.thresholds)
    BY <1>6, <2>1, <2>2, NormalizedIs, Zenon
  <2>. QED
    BY <1>6, <2>3, RewrittenSame, Zenon
<1>13. Storable(n)
  BY <1>6, <1>7, <1>10, <1>11, <1>12, Zenon DEF Storable
<1>. QED
  BY <1>2, <1>13, Zenon


-----------------------------------------------------------------------------
(* What every state of the board keeps *)

BoardIInv == BoardTypeOK /\ Storable(item.config)

LEMMA SeqGrows ==
  ASSUME NEW S, NEW T, S \subseteq T, NEW s \in Seq(S)
  PROVE  s \in Seq(T)
BY SMT

LEMMA NewestType ==
  ASSUME NEW S, NEW s \in Seq(S), NEW n \in Nat
  PROVE  Newest(n, s) \in Seq(S)
BY SMT DEF Newest

ItemRow(configs, last) ==
  [config : configs, enabled : BOOLEAN, active : BOOLEAN, startedAt : 1..last]
ItemConfigs == {Normalized(c) : c \in Configs}

\* A row of the table is one after a change of some of its fields.
LEMMA ItemChanged ==
  ASSUME NEW C, NEW last \in Nat, NEW i \in ItemRow(C, last), NEW c \in C,
         NEW e \in BOOLEAN, NEW a \in BOOLEAN, NEW t \in 1..last
  PROVE  /\ [i EXCEPT !.config = c] \in ItemRow(C, last)
         /\ [i EXCEPT !.enabled = e] \in ItemRow(C, last)
         /\ [i EXCEPT !.active = a] \in ItemRow(C, last)
         /\ [i EXCEPT !.startedAt = t] \in ItemRow(C, last)
         /\ [i EXCEPT !.config = c].config = c
         /\ [i EXCEPT !.enabled = e].config = i.config
         /\ [i EXCEPT !.active = a].config = i.config
         /\ [i EXCEPT !.startedAt = t].config = i.config
BY SMT DEF ItemRow

LEMMA ItemLater ==
  ASSUME NEW C, NEW last \in Nat, NEW i \in ItemRow(C, last)
  PROVE  i \in ItemRow(C, last + 1)
<1>1. 1..last \subseteq 1..(last + 1)
  BY SMT
<1>. QED
  BY <1>1, Zenon DEF ItemRow

LEMMA ActiveIsBoolean ==
  ASSUME NEW e, NEW a \in BOOLEAN
  PROVE  ActiveAfter(e, a) \in BOOLEAN
<1>1. CASE e = "true"
  BY <1>1 DEF ActiveAfter
<1>2. CASE e = "false"
  BY <1>2 DEF ActiveAfter
<1>3. CASE e # "true" /\ e # "false"
  BY <1>3 DEF ActiveAfter
<1>. QED
  BY <1>1, <1>2, <1>3


RecordOf(last) == [at : 1..(last - 1), outcome : Outcomes]

\* The invariant, part by part.
LEMMA BoardParts ==
  BoardIInv <=>
    /\ item \in ItemRow(ItemConfigs, clock) /\ Storable(item.config)
    /\ records \in Seq(RecordOf(clock))
    /\ running \in 0..(clock - 1) /\ clock \in 1..(MaxExecutions + 1)
    /\ since \in Seq(Outcomes)
BY Zenon DEF BoardIInv, BoardTypeOK, ItemRow, ItemConfigs, Storable, RecordOf

LEMMA BoardStart == BoardInit => BoardIInv
<1>. SUFFICES ASSUME BoardInit
              PROVE  BoardIInv
  OBVIOUS
<1>1. PICK c \in Configs : Accepted(c) /\ item = [config |-> Normalized(c), enabled |-> TRUE,
                                                  active |-> FALSE, startedAt |-> 1]
  BY Zenon DEF BoardInit
<1>2. Storable(Normalized(c)) /\ Normalized(c) \in ItemConfigs
  BY <1>1, NormalizedStorable, Zenon DEF ItemConfigs
<1>3. records = <<>> /\ since = <<>> /\ running = 0 /\ clock = 1
  BY Zenon DEF BoardInit
<1>4. item \in ItemRow(ItemConfigs, clock) /\ item.config = Normalized(c)
  BY <1>1, <1>2, <1>3, SMT DEF ItemRow
<1>5. records \in Seq(RecordOf(clock)) /\ since \in Seq(Outcomes)
  BY <1>3, SMT
<1>6. running \in 0..(clock - 1) /\ clock \in 1..(MaxExecutions + 1)
  BY <1>3, BoardAssumption, SMT
<1>. QED
  BY <1>2, <1>4, <1>5, <1>6, BoardParts, Zenon

LEMMA BeginKeepsBoard ==
  ASSUME BoardIInv, Begin
  PROVE  BoardIInv'
<1>1. /\ item \in ItemRow(ItemConfigs, clock) /\ Storable(item.config)
      /\ records \in Seq(RecordOf(clock)) /\ since \in Seq(Outcomes)
      /\ clock \in 1..(MaxExecutions + 1)
  BY BoardParts, Zenon
<1>2. /\ running' = clock /\ clock' = clock + 1 /\ clock <= MaxExecutions
      /\ item' = item /\ records' = records /\ since' = since
  BY Zenon DEF Begin
<1>3. clock \in Nat /\ clock' \in 1..(MaxExecutions + 1) /\ running' \in 0..(clock' - 1)
  BY <1>1, <1>2, BoardAssumption, SMT
<1>4. item' \in ItemRow(ItemConfigs, clock')
  BY <1>1, <1>2, <1>3, ItemLater, Zenon
<1>5. RecordOf(clock) \subseteq RecordOf(clock')
  <2>1. 1..(clock - 1) \subseteq 1..(clock' - 1)
    BY <1>2, <1>3, SMT
  <2>. QED
    BY <2>1, Zenon DEF RecordOf
<1>6. records' \in Seq(RecordOf(clock'))
  BY <1>1, <1>2, <1>5, SeqGrows, Zenon
<1>7. item'.config = item.config
  BY <1>2, Zenon
<1>. QED
  BY <1>1, <1>2, <1>3, <1>4, <1>6, <1>7, BoardParts, Zenon
     DEF BoardIInv, BoardTypeOK, ItemRow, ItemConfigs, Storable, RecordOf


\* A step that leaves the clock where it is.
LEMMA ClockStands ==
  ASSUME BoardIInv, clock' = clock, running' \in {0, running},
         item' \in ItemRow(ItemConfigs, clock), Storable(item'.config),
         records' \in Seq(RecordOf(clock)), since' \in Seq(Outcomes)
  PROVE  BoardIInv'
<1>1. running \in 0..(clock - 1) /\ clock \in 1..(MaxExecutions + 1)
  BY BoardParts, Zenon
<1>2. running' \in 0..(clock' - 1) /\ clock' \in 1..(MaxExecutions + 1)
  BY <1>1, SMT
<1>. QED
  BY <1>2, Zenon DEF BoardIInv, BoardTypeOK, ItemRow, ItemConfigs, Storable, RecordOf

LEMMA FinishKeepsBoard ==
  ASSUME BoardIInv, FinishExecution
  PROVE  BoardIInv'
<1>1. /\ item \in ItemRow(ItemConfigs, clock) /\ Storable(item.config)
      /\ records \in Seq(RecordOf(clock)) /\ since \in Seq(Outcomes)
      /\ running \in 0..(clock - 1) /\ clock \in 1..(MaxExecutions + 1)
  BY BoardParts, Zenon
<1>2. PICK outcome \in Outcomes :
        /\ item' = EvaluateExecution([at |-> running, outcome |-> outcome])
        /\ records' = Append(records, [at |-> running, outcome |-> outcome])
        /\ since' = IF running < item.startedAt THEN since ELSE Append(since, outcome)
  BY Zenon DEF FinishExecution
<1>3. running # 0 /\ running' = 0 /\ clock' = clock
  BY Zenon DEF FinishExecution
<1>4. PICK record : record = [at |-> running, outcome |-> outcome]
  OBVIOUS
<1>5. record \in RecordOf(clock)
  BY <1>1, <1>3, <1>4, BoardAssumption, SMT DEF RecordOf
<1>6. records' \in Seq(RecordOf(clock))
  BY <1>1, <1>2, <1>4, <1>5, SMT
<1>7. since' \in Seq(Outcomes)
  <2>1. Append(since, outcome) \in Seq(Outcomes)
    BY <1>1, SMT
  <2>. QED
    BY <1>1, <1>2, <2>1, Zenon
<1>8. \/ item' = item
      \/ \E a \in BOOLEAN : item' = [item EXCEPT !.active = a]
  <2>1. item' = EvaluateExecution(record)
    BY <1>2, <1>4, Zenon
  <2>2. CASE ~item.enabled \/ item.config.rule = NoRule
    BY <2>1, <2>2, Zenon DEF EvaluateExecution
  <2>3. CASE ~(~item.enabled \/ item.config.rule = NoRule)
    <3>1. PICK e : e = EvaluateTrend(item.config.rule,
                                     TrendSamples(record, item.config.rule.window))
      OBVIOUS
    <3>2. item' = [item EXCEPT !.active = ActiveAfter(e, @)]
      BY <2>1, <2>3, <3>1, Zenon DEF EvaluateExecution
    <3>3. item.active \in BOOLEAN
      BY <1>1, SMT DEF ItemRow
    <3>4. ActiveAfter(e, item.active) \in BOOLEAN
      BY <3>3, ActiveIsBoolean, Zenon
    <3>. QED
      BY <3>2, <3>4, Zenon
  <2>. QED
    BY <2>2, <2>3
<1>9. item' \in ItemRow(ItemConfigs, clock) /\ item'.config = item.config
  <2>1. clock \in Nat
    BY <1>1, BoardAssumption, SMT
  <2>2. ASSUME NEW a \in BOOLEAN, item' = [item EXCEPT !.active = a]
        PROVE  item' \in ItemRow(ItemConfigs, clock) /\ item'.config = item.config
    <3>1. PICK i \in ItemRow(ItemConfigs, clock) : i = item
      BY <1>1
    <3>2. PICK j : j = [i EXCEPT !.active = a]
      OBVIOUS
    <3>3. j \in ItemRow(ItemConfigs, clock) /\ j.config = i.config
      BY <3>2, SMT DEF ItemRow
    <3>4. item' = j
      BY <2>2, <3>1, <3>2
    <3>. QED
      BY <3>1, <3>3, <3>4
  <2>. QED
    BY <1>1, <1>8, <2>2, Zenon
<1>10. running' \in {0, running}
  BY <1>3, Zenon
<1>11. Storable(item'.config)
  BY <1>1, <1>9, Zenon
<1>. QED
  BY <1>3, <1>6, <1>7, <1>9, <1>10, <1>11, ClockStands, Zenon

LEMMA SwitchKeepsBoard ==
  ASSUME BoardIInv, Switch
  PROVE  BoardIInv'
<1>1. /\ item \in ItemRow(ItemConfigs, clock) /\ Storable(item.config)
      /\ records \in Seq(RecordOf(clock)) /\ since \in Seq(Outcomes)
  BY BoardParts, Zenon
<1>2. item' = [item EXCEPT !.enabled = ~@]
      /\ records' = records /\ running' = running /\ clock' = clock /\ since' = since
  BY Zenon DEF Switch
<1>3. item' \in ItemRow(ItemConfigs, clock) /\ item'.config = item.config
  <2>1. PICK e \in BOOLEAN : e = ~item.enabled
    BY Zenon
  <2>2. item' = [item EXCEPT !.enabled = e]
    BY <1>2, <2>1, Zenon
  <2>. QED
    BY <1>1, <2>2, SMT DEF ItemRow
<1>4. running' \in {0, running}
  BY <1>2, Zenon
<1>5. Storable(item'.config) /\ records' \in Seq(RecordOf(clock)) /\ since' \in Seq(Outcomes)
  BY <1>1, <1>2, <1>3, Zenon
<1>. QED
  BY <1>2, <1>3, <1>4, <1>5, ClockStands, Zenon


LEMMA EditKeepsBoard ==
  ASSUME BoardIInv, EditItem
  PROVE  BoardIInv'
<1>1. /\ item \in ItemRow(ItemConfigs, clock)
      /\ records \in Seq(RecordOf(clock)) /\ since \in Seq(Outcomes)
      /\ clock \in 1..(MaxExecutions + 1)
  BY BoardParts, Zenon
<1>2. PICK c \in Configs :
        /\ Accepted(c)
        /\ IF Restarts(item.config, c)
           THEN /\ item' = [item EXCEPT !.config = Normalized(c),
                                        !.active = FALSE, !.startedAt = clock]
                /\ since' = <<>>
           ELSE item' = [item EXCEPT !.config = Normalized(c)] /\ since' = since
  BY Zenon DEF EditItem
<1>3. records' = records /\ running' = running /\ clock' = clock
  BY Zenon DEF EditItem
<1>4. PICK n : n = Normalized(c)
  OBVIOUS
<1>5. n \in ItemConfigs /\ Storable(n)
  BY <1>2, <1>4, NormalizedStorable, Zenon DEF ItemConfigs
<1>6. PICK u : u = [item EXCEPT !.config = n]
  OBVIOUS
<1>7. u \in ItemRow(ItemConfigs, clock) /\ u.config = n
  BY <1>1, <1>5, <1>6, SMT DEF ItemRow
<1>8. item' \in ItemRow(ItemConfigs, clock) /\ item'.config = n
  <2>1. CASE Restarts(item.config, c)
    <3>1. item' = [item EXCEPT !.config = n, !.active = FALSE, !.startedAt = clock]
      BY <1>2, <1>4, <2>1, Zenon
    <3>0. PICK a \in BOOLEAN : a = FALSE
      OBVIOUS
    <3>2. PICK v : v = [u EXCEPT !.active = a]
      OBVIOUS
    <3>3. item' = [v EXCEPT !.startedAt = clock]
      BY <1>6, <3>0, <3>1, <3>2, Zenon
    <3>4. v \in ItemRow(ItemConfigs, clock) /\ v.config = n
      BY <1>7, <3>2, SMT DEF ItemRow
    <3>5. clock \in 1..clock
      BY <1>1, BoardAssumption, SMT
    <3>. QED
      BY <3>3, <3>4, <3>5, SMT DEF ItemRow
  <2>2. CASE ~Restarts(item.config, c)
    BY <1>2, <1>4, <1>6, <1>7, <2>2, Zenon
  <2>. QED
    BY <2>1, <2>2
<1>9. since' \in Seq(Outcomes)
  <2>1. <<>> \in Seq(Outcomes)
    BY SMT
  <2>. QED
    BY <1>1, <1>2, <2>1, Zenon
<1>10. running' \in {0, running} /\ records' \in Seq(RecordOf(clock))
  BY <1>1, <1>3, Zenon
<1>11. Storable(item'.config)
  BY <1>5, <1>8, Zenon
<1>. QED
  BY <1>3, <1>8, <1>9, <1>10, <1>11, ClockStands, Zenon

LEMMA ClearKeepsBoard ==
  ASSUME BoardIInv, ClearRecords
  PROVE  BoardIInv'
<1>1. /\ item \in ItemRow(ItemConfigs, clock) /\ Storable(item.config)
      /\ clock \in 1..(MaxExecutions + 1)
  BY BoardParts, Zenon
<1>2. /\ item' = [item EXCEPT !.active = FALSE, !.startedAt = clock]
      /\ records' = <<>> /\ since' = <<>> /\ running' = running /\ clock' = clock
  BY Zenon DEF ClearRecords
<1>0. PICK a \in BOOLEAN : a = FALSE
  OBVIOUS
<1>3. PICK u : u = [item EXCEPT !.active = a]
  OBVIOUS
<1>4. u \in ItemRow(ItemConfigs, clock) /\ u.config = item.config
  BY <1>1, <1>3, SMT DEF ItemRow
<1>5. item' = [u EXCEPT !.startedAt = clock] /\ clock \in 1..clock
  <2>1. item' = [u EXCEPT !.startedAt = clock]
    BY <1>0, <1>2, <1>3, Zenon
  <2>2. clock \in 1..clock
    BY <1>1, BoardAssumption, SMT
  <2>. QED
    BY <2>1, <2>2
<1>6. item' \in ItemRow(ItemConfigs, clock) /\ item'.config = item.config
  BY <1>4, <1>5, SMT DEF ItemRow
<1>7. records' \in Seq(RecordOf(clock)) /\ since' \in Seq(Outcomes)
  BY <1>2, SMT
<1>8. running' \in {0, running} /\ Storable(item'.config)
  BY <1>1, <1>2, <1>6, Zenon
<1>. QED
  BY <1>2, <1>6, <1>7, <1>8, ClockStands, Zenon

LEMMA PruneKeepsBoard ==
  ASSUME BoardIInv, Prune
  PROVE  BoardIInv'
<1>1. /\ item \in ItemRow(ItemConfigs, clock) /\ Storable(item.config)
      /\ records \in Seq(RecordOf(clock)) /\ since \in Seq(Outcomes)
  BY BoardParts, Zenon
<1>2. /\ records # <<>> /\ records' = Tail(records)
      /\ since' = Newest(Len(records) - 1, since)
      /\ item' = item /\ running' = running /\ clock' = clock
  BY Zenon DEF Prune
<1>3. records' \in Seq(RecordOf(clock)) /\ Len(records) - 1 \in Nat
  BY <1>1, <1>2, SMT
<1>4. since' \in Seq(Outcomes)
  BY <1>1, <1>2, <1>3, NewestType, Zenon
<1>5. running' \in {0, running} /\ Storable(item'.config)
      /\ item' \in ItemRow(ItemConfigs, clock)
  BY <1>1, <1>2, Zenon
<1>. QED
  BY <1>2, <1>3, <1>4, <1>5, ClockStands, Zenon

LEMMA BoardStep ==
  BoardIInv /\ [BoardNext]_boardVars => BoardIInv'
<1>. SUFFICES ASSUME BoardIInv, [BoardNext]_boardVars
              PROVE  BoardIInv'
  OBVIOUS
<1>1. CASE UNCHANGED boardVars
  BY <1>1, Zenon DEF boardVars, BoardIInv, BoardTypeOK, Storable
<1>2. CASE BoardNext
  BY <1>2, BeginKeepsBoard, FinishKeepsBoard, EditKeepsBoard, SwitchKeepsBoard,
     ClearKeepsBoard, PruneKeepsBoard, Zenon DEF BoardNext
<1>. QED
  BY <1>1, <1>2

\* The invariant of the board: what is stored of an item is what the validation
\* accepts and leaves as it is, whatever sequence of edits, executions, clearings
\* and prunings led there.
THEOREM BoardInvariance == BoardSpec => []BoardIInv
<1>. QED
  BY BoardStart, BoardStep, PTL DEF BoardSpec


-----------------------------------------------------------------------------
(* Numbers find their threshold *)

LEMMA SmallestIs ==
  ASSUME NEW S, S \subseteq Nat, S # {}
  PROVE  Smallest(S) \in S /\ \A y \in S : Smallest(S) <= y
<1>1. \E x \in S : \A y \in S : x <= y
  BY LeastNatural, Zenon
<1>. QED
  BY <1>1, Zenon DEF Smallest

LEMMA InToSet ==
  ASSUME NEW s, NEW x
  PROVE  x \in ToSet(s) <=> \E k \in DOMAIN s : x = s[k]
BY Zenon DEF ToSet

\* All but the last threshold have a maximum, and the maxima increase.
LEMMA MaximaIncrease ==
  ASSUME NEW T \in Seq(Threshold), ThresholdsAccepted(T), NEW j \in 1..Len(T)
  PROVE  /\ T[j].max = Unbounded <=> j = Len(T)
         /\ j < Len(T) => T[j].max \in Int
         /\ \A k \in 1..Len(T) : j < k /\ k < Len(T) => T[j].max < T[k].max
<1>1. \A k \in 1..Len(T) :
        IF k = Len(T) THEN T[k].max = Unbounded
        ELSE T[k].max # Unbounded /\ (k > 1 => T[k].max > T[k - 1].max)
  <2>1. DOMAIN T = 1..Len(T)
    BY SMT
  <2>. QED
    BY <2>1, Zenon DEF ThresholdsAccepted
<1>2. \A k \in 1..Len(T) : T[k].max \in Int \cup {Unbounded}
  <2>1. \A k \in 1..Len(T) : T[k] \in Threshold
    BY SMT
  <2>2. \A t \in Threshold : t.max \in Int \cup {Unbounded}
    BY Zenon DEF Threshold
  <2>. QED
    BY <2>1, <2>2, Zenon
<1>3. \A k \in 1..Len(T) : k < Len(T) => T[k].max \in Int
  BY <1>1, <1>2, SMT
<1>4. T[j].max = Unbounded <=> j = Len(T)
  BY <1>1, Zenon
<1>. DEFINE Bad == {k \in Nat : j < k /\ k < Len(T) /\ ~(T[j].max < T[k].max)}
<1>5. Bad = {}
  <2>. SUFFICES ASSUME Bad # {}
                PROVE  FALSE
    OBVIOUS
  <2>1. PICK k \in Bad : \A m \in Bad : k <= m
    <3>1. Bad \subseteq Nat
      BY Zenon
    <3>. HIDE DEF Bad
    <3>. QED
      BY <3>1, LeastNatural, Zenon
  <2>2. k \in Nat /\ j < k /\ k < Len(T) /\ ~(T[j].max < T[k].max)
    BY <2>1
  <2>3. k - 1 \in Nat /\ k - 1 \in 1..Len(T) /\ k \in 1..Len(T) /\ k > 1
        /\ k - 1 < Len(T) /\ j < Len(T) /\ Len(T) \in Nat
    BY <2>2, SMT
  <2>4. /\ T[k].max > T[k - 1].max
        /\ T[k].max \in Int /\ T[k - 1].max \in Int /\ T[j].max \in Int
    BY <1>1, <1>3, <2>2, <2>3, SMT
  <2>5. CASE j = k - 1
    BY <2>2, <2>4, <2>5, SMT
  <2>6. CASE j # k - 1
    <3>1. j < k - 1 /\ ~(k <= k - 1)
      BY <2>2, <2>3, <2>6, SMT
    <3>2. k - 1 \notin Bad
      BY <2>1, <3>1, Zenon
    <3>3. T[j].max < T[k - 1].max
      BY <2>3, <3>1, <3>2
    <3>. QED
      BY <2>2, <2>4, <3>3, SMT
  <2>. QED
    BY <2>5, <2>6
<1>6. \A k \in 1..Len(T) : j < k /\ k < Len(T) => T[j].max < T[k].max
  <2>. SUFFICES ASSUME NEW k \in 1..Len(T), j < k, k < Len(T)
                PROVE  T[j].max < T[k].max
    OBVIOUS
  <2>1. k \in Nat /\ k \notin Bad
    BY <1>5, SMT
  <2>. QED
    BY <2>1
<1>. QED
  BY <1>3, <1>4, <1>6


\* The first threshold that a number stays below is the tightest.
Stays(T, v) == {k \in DOMAIN T : T[k].max = Unbounded \/ v <= T[k].max}
Above(T, v) == {t \in ToSet(T) : t.max # Unbounded /\ v <= t.max}
Tightest(T, v) == {t \in Above(T, v) : \A s \in Above(T, v) : t.max <= s.max}
CatchAll(T) == {t \in ToSet(T) : t.max = Unbounded}

LEMMA FirstIsTightest ==
  ASSUME NEW T \in Seq(Threshold), T # <<>>, ThresholdsAccepted(T), NEW v \in Int
  PROVE  \E k \in DOMAIN T :
           /\ Stays(T, v) # {} /\ k = Smallest(Stays(T, v))
           /\ Above(T, v) # {} => Tightest(T, v) = {T[k]}
           /\ Above(T, v) = {} => CatchAll(T) = {T[k]}
<1>1. DOMAIN T = 1..Len(T) /\ Len(T) \in Nat /\ Len(T) \in 1..Len(T)
  BY SMT
<1>2. Len(T) \in Stays(T, v)
  BY <1>1, MaximaIncrease, Zenon DEF Stays
<1>3. Stays(T, v) \subseteq 1..Len(T) /\ Stays(T, v) \subseteq Nat
  BY <1>1, SMT DEF Stays
<1>4. PICK k \in Stays(T, v) : k = Smallest(Stays(T, v)) /\ \A j \in Stays(T, v) : k <= j
  BY <1>2, <1>3, SmallestIs, Zenon
<1>5. k \in 1..Len(T) /\ k \in DOMAIN T
  BY <1>1, <1>3, <1>4, Zenon
<1>6. ASSUME NEW j \in 1..Len(T), T[j].max # Unbounded, v <= T[j].max
      PROVE  k <= j /\ j < Len(T) /\ k < Len(T) /\ T[k] \in Above(T, v)
  <2>1. j \in Stays(T, v)
    BY <1>1, <1>6, Zenon DEF Stays
  <2>2. k <= j
    BY <1>4, <2>1, Zenon
  <2>3. j < Len(T)
    <3>1. j # Len(T)
      BY <1>6, MaximaIncrease, Zenon
    <3>2. PICK n \in Nat : n = Len(T)
      BY <1>1, Zenon
    <3>3. j \in 1..n /\ j # n
      BY <1>6, <3>1, <3>2, Zenon
    <3>4. j < n
      BY <3>3, SMT
    <3>. QED
      BY <3>2, <3>4, Zenon
  <2>4. k < Len(T)
    BY <1>1, <1>5, <2>2, <2>3, SMT
  <2>5. T[k].max # Unbounded
    <3>1. k # Len(T)
      BY <1>1, <2>4, SMT
    <3>. QED
      BY <3>1, <1>5, MaximaIncrease, Zenon
  <2>6. v <= T[k].max
    BY <1>4, <2>5, Zenon DEF Stays
  <2>7. T[k] \in ToSet(T)
    BY <1>5, InToSet, Zenon
  <2>. QED
    BY <2>2, <2>3, <2>4, <2>5, <2>6, <2>7, Zenon DEF Above
<1>7. ASSUME NEW t \in Above(T, v)
      PROVE  \E j \in 1..Len(T) : t = T[j] /\ T[j].max # Unbounded /\ v <= T[j].max
  <2>1. t \in ToSet(T) /\ t.max # Unbounded /\ v <= t.max
    BY <1>7, Zenon DEF Above
  <2>2. PICK j \in DOMAIN T : t = T[j]
    BY <2>1, InToSet, Zenon
  <2>. QED
    BY <1>1, <2>1, <2>2, Zenon
<1>8. ASSUME Above(T, v) # {}
      PROVE  Tightest(T, v) = {T[k]}
  <2>1. PICK t0 \in Above(T, v) : TRUE
    BY <1>8, Zenon
  <2>2. T[k] \in Above(T, v)
    BY <1>6, <1>7, <2>1, Zenon
  <2>3. ASSUME NEW t \in Above(T, v)
        PROVE  \E j \in 1..Len(T) : t = T[j] /\ T[k].max \in Int /\ T[j].max \in Int
                                    /\ k <= j /\ (k # j => T[k].max < T[j].max)
    <3>1. PICK j \in 1..Len(T) : t = T[j] /\ T[j].max # Unbounded /\ v <= T[j].max
      BY <1>7, <2>3, Zenon
    <3>2. k <= j /\ j < Len(T) /\ k < Len(T)
      BY <1>6, <3>1, Zenon
    <3>3. T[k].max \in Int /\ T[j].max \in Int
      BY <1>5, <3>2, MaximaIncrease, Zenon
    <3>4. k # j => k < j
      BY <1>5, <3>2, SMT
    <3>5. k # j => T[k].max < T[j].max
      BY <1>5, <3>2, <3>4, MaximaIncrease, Zenon
    <3>. QED
      BY <3>1, <3>2, <3>3, <3>5, Zenon
  <2>4. ASSUME NEW t \in Above(T, v)
        PROVE  T[k].max <= t.max /\ (t.max <= T[k].max => t = T[k])
    <3>1. PICK j \in 1..Len(T) : t = T[j] /\ T[k].max \in Int /\ T[j].max \in Int
                                 /\ k <= j /\ (k # j => T[k].max < T[j].max)
      BY <2>3, <2>4, Zenon
    <3>2. CASE k = j
      BY <3>1, <3>2, SMT
    <3>3. CASE k # j
      BY <3>1, <3>3, SMT
    <3>. QED
      BY <3>2, <3>3
  <2>5. T[k] \in Tightest(T, v)
    BY <2>2, <2>4, Zenon DEF Tightest
  <2>6. \A t \in Tightest(T, v) : t = T[k]
    BY <2>2, <2>4, Zenon DEF Tightest
  <2>. QED
    BY <2>5, <2>6, Zenon
<1>9. ASSUME Above(T, v) = {}
      PROVE  CatchAll(T) = {T[k]}
  <2>1. k = Len(T)
    <3>. SUFFICES ASSUME k # Len(T)
                  PROVE  FALSE
      OBVIOUS
    <3>1. T[k].max # Unbounded
      BY <1>5, MaximaIncrease, Zenon
    <3>2. v <= T[k].max
      BY <1>4, <3>1, Zenon DEF Stays
    <3>. QED
      BY <1>5, <1>6, <1>9, <3>1, <3>2, Zenon
  <2>2. T[k].max = Unbounded /\ T[k] \in ToSet(T)
    BY <1>5, <2>1, MaximaIncrease, InToSet, Zenon
  <2>3. \A t \in CatchAll(T) : t = T[k]
    <3>. SUFFICES ASSUME NEW t \in CatchAll(T)
                  PROVE  t = T[k]
      OBVIOUS
    <3>1. t \in ToSet(T) /\ t.max = Unbounded
      BY Zenon DEF CatchAll
    <3>2. PICK j \in DOMAIN T : t = T[j]
      BY <3>1, InToSet, Zenon
    <3>3. j = Len(T)
      BY <1>1, <3>1, <3>2, MaximaIncrease, Zenon
    <3>. QED
      BY <2>1, <3>2, <3>3, Zenon
  <2>. QED
    BY <2>2, <2>3, Zenon DEF CatchAll
<1>. QED
  BY <1>2, <1>4, <1>5, <1>8, <1>9


\* An exact mapping is the only one of its number.
Exact(M, v) == {m \in ToSet(M) : m.values = {v}}

LEMMA MappedIsExact ==
  ASSUME NEW c, Storable(c), c.type = "number", NEW v \in Int
  PROVE  /\ Mapped(c, v) = {} => Exact(c.mappings, v) = {}
         /\ Mapped(c, v) # {} =>
              Exact(c.mappings, v) = {c.mappings[Smallest(Mapped(c, v))]}
<1>1. PICK M : M = c.mappings
  OBVIOUS
<1>2. M \in Seq(Mapping) /\ MappingsAccepted(c)
      /\ \A k \in DOMAIN M : IsFiniteSet(M[k].values)
  BY <1>1, Zenon DEF Storable, Configuration, Accepted
<1>3. \A k \in DOMAIN M : Cardinality(M[k].values) = 1
  BY <1>1, <1>2, Zenon DEF MappingsAccepted
<1>4. \A j, k \in DOMAIN M : j # k => M[j].values # M[k].values
  BY <1>1, <1>2, <1>3, Zenon DEF MappingsAccepted
<1>5. ASSUME NEW k \in DOMAIN M, v \in M[k].values
      PROVE  M[k].values = {v}
  <2>1. PICK x : M[k].values = {x}
    BY <1>2, <1>3, <1>5, FS_Singleton
  <2>. QED
    BY <1>5, <2>1, Zenon
<1>6. ASSUME NEW m \in Exact(M, v)
      PROVE  \E k \in DOMAIN M : m = M[k] /\ M[k].values = {v} /\ k \in Mapped(c, v)
  <2>1. m \in ToSet(M) /\ m.values = {v}
    BY <1>6, Zenon DEF Exact
  <2>2. PICK k \in DOMAIN M : m = M[k]
    BY <2>1, InToSet, Zenon
  <2>. QED
    BY <1>1, <2>1, <2>2, Zenon DEF Mapped
<1>7. ASSUME Mapped(c, v) # {}
      PROVE  Exact(M, v) = {M[Smallest(Mapped(c, v))]}
  <2>1. Mapped(c, v) \subseteq Nat
    <3>1. DOMAIN M \subseteq Nat
      BY <1>2, SMT
    <3>. QED
      BY <1>1, <3>1, Zenon DEF Mapped
  <2>2. PICK k \in Mapped(c, v) : k = Smallest(Mapped(c, v))
    BY <1>7, <2>1, SmallestIs, Zenon
  <2>3. k \in DOMAIN M /\ v \in M[k].values
    BY <1>1, Zenon DEF Mapped
  <2>4. M[k].values = {v}
    BY <1>5, <2>3, Zenon
  <2>5. M[k] \in Exact(M, v)
    BY <2>3, <2>4, InToSet, Zenon DEF Exact
  <2>6. \A m \in Exact(M, v) : m = M[k]
    <3>. SUFFICES ASSUME NEW m \in Exact(M, v)
                  PROVE  m = M[k]
      OBVIOUS
    <3>1. PICK j \in DOMAIN M : m = M[j] /\ M[j].values = {v}
      BY <1>6, Zenon
    <3>2. j = k
      BY <1>4, <2>3, <2>4, <3>1, Zenon
    <3>. QED
      BY <3>1, <3>2, Zenon
  <2>. QED
    BY <2>2, <2>5, <2>6, Zenon
<1>8. Mapped(c, v) = {} => Exact(M, v) = {}
  BY <1>6, Zenon
<1>. QED
  BY <1>1, <1>7, <1>8, Zenon

\* A number of an accepted configuration has the level of its mapping, or else
\* of the tightest threshold, or of the last one.
Classes(c, v) ==
  IF Exact(c.mappings, v) # {} THEN Exact(c.mappings, v)
  ELSE IF Above(c.thresholds, v) # {} THEN Tightest(c.thresholds, v)
  ELSE CatchAll(c.thresholds)

LEMMA NumberIsClassified ==
  ASSUME NEW c, Storable(c), c.type = "number", NEW v \in Int
  PROVE  {NumberSample(c, v).level} = {t.level : t \in Classes(c, v)}
<1>1. v # Missing
  BY BoardAssumption, Zenon
<1>2. \A level, numeric : Leveled(level, numeric).level = level
  BY SMT DEF Leveled
<1>3. CASE Mapped(c, v) # {}
  <2>1. PICK m : m = c.mappings[Smallest(Mapped(c, v))]
    OBVIOUS
  <2>2. Exact(c.mappings, v) = {m}
    BY <1>3, <2>1, MappedIsExact, Zenon
  <2>3. Classes(c, v) = {m}
    BY <2>2, Zenon DEF Classes
  <2>4. NumberSample(c, v).level = m.level
    BY <1>1, <1>2, <1>3, <2>1, Zenon DEF NumberSample
  <2>. QED
    BY <2>3, <2>4, Zenon
<1>4. CASE Mapped(c, v) = {}
  <2>1. PICK T : T = c.thresholds
    OBVIOUS
  <2>2. T \in Seq(Threshold) /\ T # <<>> /\ ThresholdsAccepted(T)
    BY <2>1, Zenon DEF Storable, Configuration, Accepted
  <2>3. PICK k \in DOMAIN T :
          /\ Stays(T, v) # {} /\ k = Smallest(Stays(T, v))
          /\ Above(T, v) # {} => Tightest(T, v) = {T[k]}
          /\ Above(T, v) = {} => CatchAll(T) = {T[k]}
    BY <2>2, FirstIsTightest, Zenon
  <2>4. Stays(T, v) = Below(c, v)
    BY <2>1, Zenon DEF Stays, Below
  <2>5. NumberSample(c, v).level = T[k].level
    BY <1>1, <1>2, <1>4, <2>1, <2>3, <2>4, Zenon DEF NumberSample
  <2>6. Exact(c.mappings, v) = {}
    BY <1>4, MappedIsExact, Zenon
  <2>7. Classes(c, v) = {T[k]}
    BY <2>1, <2>3, <2>6, Zenon DEF Classes
  <2>. QED
    BY <2>5, <2>7, Zenon
<1>. QED
  BY <1>3, <1>4


LEMMA NumbersHaveClasses ==
  ASSUME BoardIInv
  PROVE  NumbersAreClassified
<1>. PICK c : c = item.config
  OBVIOUS
<1>1. Storable(c)
  BY Zenon DEF BoardIInv
<1>2. ASSUME c.type = "number", NEW o \in Outcomes, o.value # Missing
      PROVE  /\ Sample(c, o) = NumberSample(c, o.value)
             /\ {NumberSample(c, o.value).level} = {t.level : t \in Classes(c, o.value)}
  <2>1. o.value \in Int
    BY <1>2, BoardAssumption, SMT
  <2>2. {NumberSample(c, o.value).level} = {t.level : t \in Classes(c, o.value)}
    BY <1>1, <1>2, <2>1, NumberIsClassified, Zenon
  <2>3. Sample(c, o) = NumberSample(c, o.value)
    BY <1>2, SMT DEF Sample
  <2>. QED
    BY <2>2, <2>3, Zenon
<1>. SUFFICES ASSUME item.config.type = "number",
                     NEW o \in {p \in Outcomes : p.value # Missing}
              PROVE  LET exact == {m \in ToSet(item.config.mappings) : m.values = {o.value}}
                         above == {t \in ToSet(item.config.thresholds) :
                                     t.max # Unbounded /\ o.value <= t.max}
                         tightest == {t \in above : \A s \in above : t.max <= s.max}
                     IN  {Sample(item.config, o).level} =
                           {t.level : t \in CASE exact # {} -> exact
                                              [] exact = {} /\ above # {} -> tightest
                                              [] OTHER -> {t \in ToSet(item.config.thresholds) :
                                                             t.max = Unbounded}}
  BY Zenon DEF NumbersAreClassified
<1>3. PICK v : v = o.value
  OBVIOUS
<1>4. {Sample(c, o).level} = {t.level : t \in Classes(c, v)}
  BY <1>2, <1>3, Zenon
<1>5. /\ {m \in ToSet(c.mappings) : m.values = {v}} = Exact(c.mappings, v)
      /\ {t \in ToSet(c.thresholds) : t.max # Unbounded /\ v <= t.max} = Above(c.thresholds, v)
      /\ {t \in ToSet(c.thresholds) : t.max = Unbounded} = CatchAll(c.thresholds)
  BY Zenon DEF Exact, Above, CatchAll
<1>6. {t \in Above(c.thresholds, v) : \A s \in Above(c.thresholds, v) : t.max <= s.max}
        = Tightest(c.thresholds, v)
  BY Zenon DEF Tightest
<1>7. Classes(c, v) =
        CASE Exact(c.mappings, v) # {} -> Exact(c.mappings, v)
          [] Exact(c.mappings, v) = {} /\ Above(c.thresholds, v) # {} ->
               Tightest(c.thresholds, v)
          [] OTHER -> CatchAll(c.thresholds)
  <2>1. PICK E : E = Exact(c.mappings, v)
    OBVIOUS
  <2>2. PICK A : A = Above(c.thresholds, v)
    OBVIOUS
  <2>3. CASE E # {}
    BY <2>1, <2>3 DEF Classes
  <2>4. CASE E = {} /\ A # {}
    BY <2>1, <2>2, <2>4 DEF Classes
  <2>5. CASE E = {} /\ A = {}
    BY <2>1, <2>2, <2>5 DEF Classes
  <2>. QED
    BY <2>3, <2>4, <2>5
<1>. QED
  BY <1>3, <1>4, <1>5, <1>6, <1>7

\* The board keeps its types, a stored configuration is one the validation
\* accepts and would not change, and a number always finds its threshold
\* (NormalizeAndValidate, matchThreshold), for any configurations and histories.
THEOREM BoardHolds == BoardSpec => []BoardInv
<1>1. BoardIInv => BoardInv
  BY NumbersHaveClasses, Zenon DEF BoardInv, BoardIInv
<1>. QED
  BY <1>1, BoardInvariance, PTL

\* The page of history that is asked for is a page that is given.
LimitsFitPages == \A c \in Configs : c.limit <= MaxPage

\* The last e elements of a sequence.
LastOf(r, s, e) ==
  Len(r) = e /\ \A k \in 1..e : r[k] = s[Len(s) - e + k]

LEMMA SuffixIs ==
  ASSUME NEW S, NEW s \in Seq(S), NEW e \in 0..Len(s), NEW r,
         r = SubSeq(s, Len(s) - e + 1, Len(s))
  PROVE  r \in Seq(S) /\ LastOf(r, s, e)
<1>1. PICK m \in Nat : m = Len(s)
  BY SMT
<1>2. PICK a : a = m - e + 1
  OBVIOUS
<1>3. a \in Int /\ e \in Nat /\ 1 <= a /\ m - a + 1 = e /\ \A k \in 1..e : a + k - 1 = m - e + k
  BY <1>1, <1>2, SMT
<1>4. r = SubSeq(s, a, m)
  BY <1>1, <1>2, Zenon
<1>5. r \in Seq(S) /\ Len(r) = e /\ \A k \in 1..e : r[k] = s[a + k - 1]
  <2>1. \A i \in a..m : s[i] \in S
    BY <1>1, <1>3, SMT
  <2>2. /\ SubSeq(s, a, m) \in Seq(S)
        /\ Len(SubSeq(s, a, m)) = IF a <= m THEN m - a + 1 ELSE 0
        /\ \A i \in 1..m - a + 1 : SubSeq(s, a, m)[i] = s[a + i - 1]
    <3>1. m \in Int /\ a \in Int
      BY <1>3, SMT
    <3>. QED
      BY <2>1, <3>1, SubSeqProperties
  <2>3. (IF a <= m THEN m - a + 1 ELSE 0) = e
    BY <1>3, SMT
  <2>. QED
    BY <1>3, <1>4, <2>2, <2>3, Zenon
<1>. QED
  <2>1. \A k \in 1..e : r[k] = s[m - e + k]
    BY <1>3, <1>5, Zenon
  <2>. QED
    BY <1>1, <1>5, <2>1, Zenon DEF LastOf

LEMMA NewestIs ==
  ASSUME NEW S, NEW s \in Seq(S), NEW n \in Nat,
         NEW e, e = IF Len(s) < n THEN Len(s) ELSE n
  PROVE  Newest(n, s) \in Seq(S) /\ e \in Nat /\ LastOf(Newest(n, s), s, e)
<1>1. e \in 0..Len(s)
  BY SMT
<1>2. Newest(n, s) = SubSeq(s, Len(s) - e + 1, Len(s))
  <2>1. CASE n < Len(s)
    <3>1. e = n
      BY <2>1, SMT
    <3>. QED
      BY <2>1, <3>1, Zenon DEF Newest
  <2>2. CASE ~(n < Len(s))
    <3>1. Len(s) - e + 1 = 1
      BY <2>2, SMT
    <3>. QED
      BY <2>2, <3>1, Zenon DEF Newest
  <2>. QED
    BY <2>1, <2>2
<1>3. e \in Nat
  BY <1>1, SMT
<1>. QED
  BY <1>1, <1>2, <1>3, SuffixIs, Zenon

\* The board shows the newest executions, as many as the item asks for, when it
\* does not ask for more than a page (Snapshot, ListRecords, normalizePage).
THEOREM BoardShowsHistory ==
  ASSUME LimitsFitPages
  PROVE  BoardSpec => []HistoryIsShown
<1>1. ASSUME BoardIInv
      PROVE  HistoryIsShown
  <2>1. PICK c \in Configs : item.config = Normalized(c)
    BY <1>1, BoardParts, SMT DEF ItemRow, ItemConfigs
  <2>2. item.config.limit = c.limit /\ Accepted(item.config)
    <3>1. c \in Configuration
      BY BoardAssumption, Zenon
    <3>2. Rewritten(Normalized(c), c, NewMappings(c), NewThresholds(c))
          /\ NewMappings(c) \in Seq(Mapping) /\ NewThresholds(c) \in Seq(Threshold)
      BY <3>1, NormalizedIs, Zenon
    <3>3. Normalized(c).limit = c.limit
      BY <3>1, <3>2, RewrittenIs
    <3>. QED
      BY <1>1, <2>1, <3>3, Zenon DEF BoardIInv, Storable
  <2>3. PICK n : n = item.config.limit
    OBVIOUS
  <2>4. n \in MinShown..MaxShown /\ n <= MaxPage
    BY <2>1, <2>2, <2>3, Zenon DEF Accepted, LimitsFitPages
  <2>5. n \in 1..MaxPage /\ n \in Nat \ {0}
    BY <2>4, BoardAssumption, SMT
  <2>6. ListRecords(n) = Newest(n, records)
    BY <2>5, Zenon DEF ListRecords, PageSize
  <2>7. PICK e : e = IF Len(records) < n THEN Len(records) ELSE n
    OBVIOUS
  <2>8. PICK R : R = Newest(n, records)
    OBVIOUS
  <2>9. R \in Seq(RecordOf(clock)) /\ Len(R) = e /\ e \in Nat
        /\ \A k \in 1..e : R[k] = records[Len(records) - e + k]
    <3>1. records \in Seq(RecordOf(clock))
      BY <1>1, BoardParts, Zenon
    <3>2. R \in Seq(RecordOf(clock)) /\ e \in Nat /\ LastOf(R, records, e)
      BY <2>5, <2>7, <2>8, <3>1, NewestIs
    <3>. QED
      BY <3>2, Zenon DEF LastOf
  <2>10. DOMAIN R = 1..e
    BY <2>9, SMT
  <2>11. Shown = [k \in DOMAIN R |-> Sample(item.config, R[k].outcome)]
    BY <2>3, <2>6, <2>8, Zenon DEF Shown
  <2>12. Shown = [k \in 1..e |-> Sample(item.config, R[k].outcome)]
    BY <2>10, <2>11, Zenon
  <2>13. Shown = [k \in 1..e |-> Sample(item.config, records[Len(records) - e + k].outcome)]
    BY <2>9, <2>12, Zenon
  <2>. QED
    BY <2>3, <2>7, <2>13, Zenon DEF HistoryIsShown
<1>. QED
  BY <1>1, BoardInvariance, PTL

-----------------------------------------------------------------------------
(* Conditions: the values that are found in a result *)

Found == Values \cup {Absent}

\* Some sequence's indices.
Listed(names) == \E n \in Nat : DOMAIN names = 1..n

LEMMA AbsentIsNoValue == Absent \notin Values /\ DOMAIN Absent = {"missing"}
<1>1. DOMAIN Absent = {"missing"}
  BY DEF Absent
<1>. QED
  BY <1>1, ConstantsAreValues DEF ConditionsAssumption, Kinds

LEMMA MemberFound ==
  ASSUME NEW v \in Found, NEW name
  PROVE  Member(v, name) \in Found
<1>1. CASE v \in Values
  BY <1>1, ConstantsAreValues DEF ConditionsAssumption, Member, Found
<1>2. CASE v = Absent
  BY <1>2, AbsentIsNoValue DEF Member, Found, Kind
<1>. QED
  BY <1>1, <1>2 DEF Found

\* One step down, and the function that is all of them.
DescentOf(v, names, s, h) ==
  IF s = {} THEN v ELSE Member(h[s \ {Max(s)}], names[Max(s)])
DescentFunction(v, names) ==
  CHOOSE h : h = [s \in SUBSET DOMAIN names |-> DescentOf(v, names, s, h)]

LEMMA DescendUnfolds ==
  ASSUME NEW v, NEW names
  PROVE  Descend(v, names) = DescentFunction(v, names)[DOMAIN names]
BY DEF Descend, FoldLeft, MapThenFoldSet, DescentFunction, DescentOf

LEMMA DescentDefined ==
  ASSUME NEW v \in Found, NEW names, Listed(names)
  PROVE  DescentFunction(v, names) =
           [s \in SUBSET DOMAIN names |->
              DescentOf(v, names, s, DescentFunction(v, names))]
<1>. DEFINE D == DOMAIN names
            c == [s \in SUBSET D |-> Max(s)]
            step == [x \in D \X Found |-> Member(x[2], names[x[1]])]
<1>1. IsFiniteSet(D) /\ \E n \in Nat : D = 1..n
  <2>1. PICK n \in Nat : D = 1..n
    BY DEF Listed
  <2>2. IsFiniteSet(1..n)
    BY FS_Interval
  <2>. HIDE DEF D
  <2>. QED
    BY <2>1, <2>2
<1>2. \A s \in SUBSET D : c[s] = Max(s) /\ (s # {} => Max(s) \in s)
  BY <1>1, MaxIn
<1>3. /\ step \in [D \X Found -> Found]
      /\ \A k \in D, w \in Found : step[<<k, w>>] = Member(w, names[k])
  BY MemberFound
<1>. HIDE DEF c, step, D
<1>4. PICK g \in [SUBSET D -> Found] : IsFold(g, D, c, v, step)
  <2>1. Picks(c, D)
    BY <1>2 DEF Picks
  <2>. QED
    BY <1>1, <1>3, <2>1, FoldExists, Zenon
<1>5. ASSUME NEW s \in SUBSET D PROVE g[s] = DescentOf(v, names, s, g)
  <2>1. CASE s = {}
    BY <1>4, <2>1 DEF IsFold, DescentOf
  <2>2. CASE s # {}
    <3>1. Max(s) \in D /\ s \ {Max(s)} \in SUBSET D /\ g[s \ {Max(s)}] \in Found
      BY <1>2, <1>4, <2>2
    <3>2. g[s] = step[<<Max(s), g[s \ {Max(s)}]>>]
      BY <1>2, <1>4, <2>2 DEF IsFold
    <3>. QED
      BY <1>3, <2>2, <3>1, <3>2 DEF DescentOf
  <2>. QED
    BY <2>1, <2>2
<1>6. g = [s \in SUBSET D |-> DescentOf(v, names, s, g)]
  BY <1>5
<1>. QED
  BY <1>6 DEF DescentFunction, D

\* A way down from a value ends at a value, or where nothing is.
LEMMA DescendFound ==
  ASSUME NEW v \in Found, NEW names, Listed(names)
  PROVE  Descend(v, names) \in Found
<1>. DEFINE D == DOMAIN names
            h == DescentFunction(v, names)
            U == {s \in SUBSET D : h[s] \in Found}
<1>1. h = [s \in SUBSET D |-> DescentOf(v, names, s, h)]
  BY DescentDefined
<1>2. PICK n \in Nat : D = 1..n
  BY DEF Listed
<1>. HIDE DEF h, D
<1>3. {} \in U
  BY <1>1 DEF DescentOf
<1>4. ASSUME NEW s \in SUBSET D, s # {}, s \ {Max(s)} \in U
      PROVE  s \in U
  <2>1. h[s] = Member(h[s \ {Max(s)}], names[Max(s)])
    BY <1>1, <1>4 DEF DescentOf
  <2>. QED
    BY <1>4, <2>1, MemberFound
<1>5. SUBSET D \subseteq U
  <2>. HIDE DEF U
  <2>. QED
    BY <1>2, <1>3, <1>4, MaxReached
<1>6. h[D] \in Found
  BY <1>5
<1>. QED
  BY <1>6, DescendUnfolds DEF h, D

\* A way of no steps goes nowhere.
LEMMA DescendStays ==
  ASSUME NEW v \in Found
  PROVE  Descend(v, <<>>) = v
<1>1. DOMAIN <<>> = {} /\ Listed(<<>>)
  <2>1. DOMAIN <<>> = 1..0
    OBVIOUS
  <2>2. 0 \in Nat /\ 1..0 = {}
    OBVIOUS
  <2>. QED
    BY <2>1, <2>2 DEF Listed
<1>2. DescentFunction(v, <<>>)[{}] = DescentOf(v, <<>>, {}, DescentFunction(v, <<>>))
  <2>. DEFINE h == DescentFunction(v, <<>>)
  <2>1. h = [s \in SUBSET DOMAIN <<>> |-> DescentOf(v, <<>>, s, h)]
    BY <1>1, DescentDefined
  <2>. HIDE DEF h
  <2>2. {} \in SUBSET DOMAIN <<>>
    OBVIOUS
  <2>3. h[{}] = DescentOf(v, <<>>, {}, h)
    BY <2>1, <2>2
  <2>. QED
    BY <2>3 DEF h
<1>. QED
  BY <1>1, <1>2, DescendUnfolds DEF DescentOf

LEMMA LookupFound ==
  ASSUME NEW root \in Found, NEW field, NEW path, Listed(path)
  PROVE  LookupValue(root, field, path) \in Found
<1>1. Member(root, field) \in Found
  BY MemberFound
<1>2. field \in DOMAIN Parts => Descend(root, Parts[field]) \in Found
  <2>1. field \in DOMAIN Parts => Listed(Parts[field])
    BY ConstantsAreValues DEF ConditionsAssumption, Listed
  <2>. QED
    BY <2>1, DescendFound
<1>. QED
  BY <1>1, <1>2, DescendFound DEF LookupValue

LEMMA SourceFound ==
  ASSUME NEW source, NEW current \in Found, NEW previous \in Found, NEW field,
         NEW path, Listed(path)
  PROVE  LookupSourceValue(source, current, previous, field, path) \in Found
BY LookupFound DEF LookupSourceValue


-----------------------------------------------------------------------------
(* Conditions: the laws of the operators *)

Comparisons ==
  {"equals", "not_equals", "contains", "not_contains", "regex", "gt", "gte",
   "lt", "lte", "between", "length_gt", "length_eq", "is_true", "is_false"}

\* The verdict of an operator that compares, on its operands.
Judged(operator, v, w) ==
  IF Absent \in {v, w} \/ ~Applies(operator, v, w) THEN "unknown"
  ELSE BoolState(OperatorMatches(operator, v, w))

LeftOf(rule, current, previous) ==
  LookupSourceValue(rule.source, current, previous, rule.field, rule.path)
RightOf(rule, current, previous) ==
  IF rule.valueSource = "literal" THEN rule.value
  ELSE LookupSourceValue(rule.valueSource, current, previous, rule.valueField,
                         <<>>)

\* A rule with another operator has the same operands.
LEMMA RuleJudged ==
  ASSUME NEW rule, IsRule(rule), NEW current, NEW previous,
         NEW operator \in Comparisons
  PROVE  EvaluateRule([rule EXCEPT !.operator = operator], current, previous)
           = Judged(operator, LeftOf(rule, current, previous),
                    RightOf(rule, current, previous))
<1>. DEFINE r == [rule EXCEPT !.operator = operator]
<1>1. /\ r.operator = operator /\ r.source = rule.source /\ r.field = rule.field
      /\ r.path = rule.path /\ r.valueSource = rule.valueSource
      /\ r.value = rule.value /\ r.valueField = rule.valueField
  BY DEF IsRule
<1>2. operator \notin {"exists", "not_exists", "changed"}
  BY DEF Comparisons
<1>. HIDE DEF r
<1>3. EvaluateRule(r, current, previous)
        = Judged(operator, LeftOf(rule, current, previous),
                 RightOf(rule, current, previous))
  BY <1>1, <1>2 DEF EvaluateRule, Judged, LeftOf, RightOf
<1>. QED
  BY <1>3 DEF r

LEMMA PresenceJudged ==
  ASSUME NEW rule, IsRule(rule), NEW current, NEW previous
  PROVE  /\ EvaluateRule([rule EXCEPT !.operator = "exists"], current, previous)
              = BoolState(LeftOf(rule, current, previous) # Absent)
         /\ EvaluateRule([rule EXCEPT !.operator = "not_exists"], current, previous)
              = BoolState(LeftOf(rule, current, previous) = Absent)
<1>1. ASSUME NEW operator \in {"exists", "not_exists"}
      PROVE  LET r == [rule EXCEPT !.operator = operator]
             IN  /\ r.operator = operator /\ r.source = rule.source
                 /\ r.field = rule.field /\ r.path = rule.path
  BY DEF IsRule
<1>. QED
  BY <1>1 DEF EvaluateRule, LeftOf

LEMMA OperandsFound ==
  ASSUME NEW rule, IsRule(rule), NEW current \in Found, NEW previous \in Found
  PROVE  /\ LeftOf(rule, current, previous) \in Found
         /\ RightOf(rule, current, previous) \in Found
         /\ rule.value \in Values
<1>1. Listed(rule.path) /\ rule.value \in Values
  BY DEF IsRule, Listed
<1>2. Listed(<<>>)
  <2>1. DOMAIN <<>> = 1..0
    OBVIOUS
  <2>. QED
    BY <2>1 DEF Listed
<1>. QED
  BY <1>1, <1>2, SourceFound DEF LeftOf, RightOf, Found

LEMMA NumbersAreIntegers ==
  ASSUME NEW v \in Values, IsNumber(v)
  PROVE  NumberValue(v) \in Int
BY ConstantsAreValues DEF ConditionsAssumption

LEMMA OppositesJudged ==
  ASSUME NEW v \in Found, NEW w \in Found
  PROVE  /\ Judged("not_equals", v, w) = Negated[Judged("equals", v, w)]
         /\ Judged("not_contains", v, w) = Negated[Judged("contains", v, w)]
         /\ Judged("is_false", v, w) = Negated[Judged("is_true", v, w)]
         /\ Judged("lte", v, w) = Negated[Judged("gt", v, w)]
         /\ Judged("gte", v, w) = Negated[Judged("lt", v, w)]
<1>1. Judged("not_equals", v, w) = Negated[Judged("equals", v, w)]
  BY DEF Judged, Applies, OperatorMatches, BoolState, Negated
<1>2. Judged("not_contains", v, w) = Negated[Judged("contains", v, w)]
  BY DEF Judged, Applies, OperatorMatches, BoolState, Negated
<1>3. Judged("is_false", v, w) = Negated[Judged("is_true", v, w)]
  BY DEF Judged, Applies, OperatorMatches, BoolState, Negated
<1>4. /\ Judged("lte", v, w) = Negated[Judged("gt", v, w)]
      /\ Judged("gte", v, w) = Negated[Judged("lt", v, w)]
  <2>1. CASE Absent \in {v, w} \/ ~(IsNumber(v) /\ IsNumber(w))
    BY <2>1 DEF Judged, Applies, Negated
  <2>2. CASE Absent \notin {v, w} /\ IsNumber(v) /\ IsNumber(w)
    <3>1. NumberValue(v) \in Int /\ NumberValue(w) \in Int
      BY <2>2, NumbersAreIntegers DEF Found
    <3>. QED
      BY <2>2, <3>1 DEF Judged, Applies, OperatorMatches, BoolState, Negated
  <2>. QED
    BY <2>1, <2>2
<1>. QED
  BY <1>1, <1>2, <1>3, <1>4

LEMMA NumbersOrdered ==
  ASSUME NEW v \in Found, NEW w \in Found
  PROVE  /\ Judged("gt", v, w) # "unknown" =>
              Cardinality({o \in {"lt", "equals", "gt"} :
                             Judged(o, v, w) = "true"}) = 1
         /\ Judged("length_eq", v, w) = "true" => Judged("length_gt", v, w) = "false"
         /\ Judged("gt", v, w) = Judged("lt", w, v)
         /\ Judged("equals", v, w) = Judged("equals", w, v)
<1>1. ASSUME Judged("gt", v, w) # "unknown"
      PROVE  Cardinality({o \in {"lt", "equals", "gt"} :
                            Judged(o, v, w) = "true"}) = 1
  <2>1. Absent \notin {v, w} /\ IsNumber(v) /\ IsNumber(w)
    BY <1>1 DEF Judged, Applies
  <2>2. NumberValue(v) \in Int /\ NumberValue(w) \in Int
    BY <2>1, NumbersAreIntegers DEF Found
  <2>3. /\ Judged("lt", v, w) = BoolState(NumberValue(v) < NumberValue(w))
        /\ Judged("equals", v, w) = BoolState(NumberValue(v) = NumberValue(w))
        /\ Judged("gt", v, w) = BoolState(NumberValue(v) > NumberValue(w))
    BY <2>1 DEF Judged, Applies, OperatorMatches, ValuesEqual
  <2>4. \E o : {q \in {"lt", "equals", "gt"} : Judged(q, v, w) = "true"} = {o}
    <3>1. CASE NumberValue(v) < NumberValue(w)
      <4>1. {q \in {"lt", "equals", "gt"} : Judged(q, v, w) = "true"} = {"lt"}
        BY <2>2, <2>3, <3>1 DEF BoolState
      <4>. QED
        BY <4>1
    <3>2. CASE NumberValue(v) = NumberValue(w)
      <4>1. {q \in {"lt", "equals", "gt"} : Judged(q, v, w) = "true"} = {"equals"}
        BY <2>2, <2>3, <3>2 DEF BoolState
      <4>. QED
        BY <4>1
    <3>3. CASE NumberValue(v) > NumberValue(w)
      <4>1. {q \in {"lt", "equals", "gt"} : Judged(q, v, w) = "true"} = {"gt"}
        BY <2>2, <2>3, <3>3 DEF BoolState
      <4>. QED
        BY <4>1
    <3>4. \/ NumberValue(v) < NumberValue(w) \/ NumberValue(v) = NumberValue(w)
          \/ NumberValue(v) > NumberValue(w)
      BY <2>2
    <3>. QED
      BY <3>1, <3>2, <3>3, <3>4, Zenon
  <2>. QED
    BY <2>4, FS_Singleton
<1>2. ASSUME Judged("length_eq", v, w) = "true"
      PROVE  Judged("length_gt", v, w) = "false"
  <2>1. /\ Absent \notin {v, w} /\ HasLength(v) /\ IsNumber(w)
        /\ ValueLength(v) = NumberValue(w)
    BY <1>2 DEF Judged, Applies, OperatorMatches, BoolState
  <2>2. NumberValue(w) \in Int
    BY <2>1, NumbersAreIntegers DEF Found
  <2>3. ~(ValueLength(v) > NumberValue(w))
    BY <2>1, <2>2
  <2>. QED
    BY <2>1, <2>3 DEF Judged, Applies, OperatorMatches, BoolState
<1>3. Judged("gt", v, w) = Judged("lt", w, v)
  <2>1. CASE Absent \in {v, w} \/ ~(IsNumber(v) /\ IsNumber(w))
    BY <2>1 DEF Judged, Applies
  <2>2. CASE Absent \notin {v, w} /\ IsNumber(v) /\ IsNumber(w)
    <3>1. NumberValue(v) \in Int /\ NumberValue(w) \in Int
      BY <2>2, NumbersAreIntegers DEF Found
    <3>. QED
      BY <2>2, <3>1 DEF Judged, Applies, OperatorMatches, BoolState
  <2>. QED
    BY <2>1, <2>2
<1>4. Judged("equals", v, w) = Judged("equals", w, v)
  <2>1. ValuesEqual(v, w) <=> ValuesEqual(w, v)
    BY DEF ValuesEqual
  <2>2. ASSUME NEW x, NEW y
        PROVE  Judged("equals", x, y) = IF Absent \in {x, y} THEN "unknown"
                                        ELSE BoolState(ValuesEqual(x, y))
    BY DEF Judged, Applies, OperatorMatches
  <2>. QED
    BY <2>1, <2>2 DEF BoolState
<1>. QED
  BY <1>1, <1>2, <1>3, <1>4


LEMMA BoundsAreValues ==
  ASSUME NEW w \in Values, Len(Bounds(w)) = 2
  PROVE  Bounds(w)[1] \in Values /\ Bounds(w)[2] \in Values
<1>1. PICK kind \in Kinds : DOMAIN w = {kind}
  BY ConstantsAreValues DEF ConditionsAssumption
<1>2. CASE Kind(w, "list")
  <2>1. Bounds(w) = w.list /\ w.list \in Seq(Values)
    BY <1>1, <1>2, ConstantsAreValues DEF ConditionsAssumption, Bounds, Kind
  <2>2. PICK q \in Seq(Values) : Bounds(w) = q
    BY <2>1
  <2>3. Len(q) = 2
    BY <2>2
  <2>4. q[1] \in Values /\ q[2] \in Values
    BY <2>3
  <2>. QED
    BY <2>2, <2>4
<1>3. CASE Kind(w, "text") /\ w.text \in DOMAIN BoundsOf
  <2>1. Bounds(w) = [i \in 1 .. 2 |-> [text |-> BoundsOf[w.text][i]]]
    BY <1>1, <1>3 DEF Bounds, Kind
  <2>. QED
    BY <1>3, <2>1, ConstantsAreValues DEF ConditionsAssumption
<1>4. CASE ~Kind(w, "list") /\ ~(Kind(w, "text") /\ w.text \in DOMAIN BoundsOf)
  BY <1>4 DEF Bounds
<1>. QED
  BY <1>2, <1>3, <1>4

\* between is what its two bounds say.
LEMMA BetweenJudged ==
  ASSUME NEW v \in Found, NEW w \in Values, Len(Bounds(w)) = 2
  PROVE  Judged("between", v, w) = "true" <=>
           /\ Judged("gte", v, Bounds(w)[1]) = "true"
           /\ Judged("lte", v, Bounds(w)[2]) = "true"
<1>. DEFINE low == Bounds(w)[1]
            high == Bounds(w)[2]
<1>1. low # Absent /\ high # Absent /\ w # Absent
  BY BoundsAreValues, AbsentIsNoValue
<1>2. Judged("between", v, w) = "true" <=>
        /\ v # Absent /\ IsNumber(v) /\ IsNumber(low) /\ IsNumber(high)
        /\ NumberValue(v) >= NumberValue(low) /\ NumberValue(v) <= NumberValue(high)
  BY <1>1 DEF Judged, Applies, OperatorMatches, BoolState
<1>3. Judged("gte", v, low) = "true" <=>
        /\ v # Absent /\ IsNumber(v) /\ IsNumber(low)
        /\ NumberValue(v) >= NumberValue(low)
  BY <1>1 DEF Judged, Applies, OperatorMatches, BoolState
<1>4. Judged("lte", v, high) = "true" <=>
        /\ v # Absent /\ IsNumber(v) /\ IsNumber(high)
        /\ NumberValue(v) <= NumberValue(high)
  BY <1>1 DEF Judged, Applies, OperatorMatches, BoolState
<1>. QED
  BY <1>2, <1>3, <1>4, Zenon

\* A rule that compares with a literal value instead.
LiteralOf(rule, v) == [rule EXCEPT !.valueSource = "literal", !.value = v]

\* The record of a rule with these fields.
RuleOf(a, b, c, d, e, f, g) ==
  [operator |-> a, source |-> b, field |-> c, path |-> d, valueSource |-> e,
   value |-> f, valueField |-> g]

LEMMA RuleHas ==
  ASSUME NEW rule, IsRule(rule)
  PROVE  rule = RuleOf(rule.operator, rule.source, rule.field, rule.path,
                       rule.valueSource, rule.value, rule.valueField)
BY DEF IsRule, RuleOf

LEMMA LiteralJudged ==
  ASSUME NEW rule, IsRule(rule), NEW v \in Values, NEW current, NEW previous
  PROVE  /\ IsRule(LiteralOf(rule, v))
         /\ LeftOf(LiteralOf(rule, v), current, previous) = LeftOf(rule, current, previous)
         /\ RightOf(LiteralOf(rule, v), current, previous) = v
<1>. DEFINE r == LiteralOf(rule, v)
<1>1. r = RuleOf(rule.operator, rule.source, rule.field, rule.path, "literal", v,
                 rule.valueField)
  <2>. DEFINE A == rule.operator
              B == rule.source
              C == rule.field
              D == rule.path
              E == rule.valueSource
              F == rule.value
              G == rule.valueField
  <2>0. rule = RuleOf(A, B, C, D, E, F, G)
    BY RuleHas
  <2>1. r = [[rule EXCEPT !.valueSource = "literal"] EXCEPT !.value = v]
    BY DEF LiteralOf
  <2>. HIDE DEF A, B, C, D, E, F, G
  <2>2. PICK u : u = [rule EXCEPT !.valueSource = "literal"]
    OBVIOUS
  <2>3. u = RuleOf(A, B, C, D, "literal", F, G)
    BY <2>0, <2>2 DEF RuleOf
  <2>4. r = [u EXCEPT !.value = v]
    BY <2>1, <2>2
  <2>5. r = RuleOf(A, B, C, D, "literal", v, G)
    BY <2>3, <2>4 DEF RuleOf
  <2>. QED
    BY <2>5 DEF A, B, C, D, E, F, G
<1>2. rule.source \in {"current", "previous"} /\ rule.path \in Seq(ToSet(rule.path))
  BY DEF IsRule
<1>. HIDE DEF r
<1>3. IsRule(r)
  BY <1>1, <1>2 DEF IsRule, RuleOf
<1>4. /\ LeftOf(r, current, previous) = LeftOf(rule, current, previous)
      /\ RightOf(r, current, previous) = v
  BY <1>1 DEF LeftOf, RightOf, RuleOf
<1>. QED
  BY <1>3, <1>4 DEF r

\* A rule with its sides exchanged has its operands exchanged.
LEMMA SwappedJudged ==
  ASSUME NEW rule, IsRule(rule), rule.valueSource # "literal", rule.path = <<>>,
         NEW current, NEW previous
  PROVE  /\ IsRule(Swapped(rule))
         /\ LeftOf(Swapped(rule), current, previous) = RightOf(rule, current, previous)
         /\ RightOf(Swapped(rule), current, previous) = LeftOf(rule, current, previous)
<1>. DEFINE r == Swapped(rule)
<1>1. r = RuleOf(rule.operator, rule.valueSource, rule.valueField, rule.path,
                 rule.source, rule.value, rule.field)
  <2>. DEFINE A == rule.operator
              B == rule.source
              C == rule.field
              D == rule.path
              E == rule.valueSource
              F == rule.value
              G == rule.valueField
  <2>0. rule = RuleOf(A, B, C, D, E, F, G)
    BY RuleHas
  <2>1. r = [[[[rule EXCEPT !.source = rule.valueSource]
                     EXCEPT !.field = rule.valueField]
                     EXCEPT !.valueSource = rule.source]
                     EXCEPT !.valueField = rule.field]
    BY DEF Swapped
  <2>. HIDE DEF A, B, C, D, E, F, G
  <2>2. PICK u : u = [rule EXCEPT !.source = E]
    OBVIOUS
  <2>3. PICK w : w = [u EXCEPT !.field = G]
    OBVIOUS
  <2>4. PICK x : x = [w EXCEPT !.valueSource = B]
    OBVIOUS
  <2>5. r = [x EXCEPT !.valueField = C]
    BY <2>1, <2>2, <2>3, <2>4 DEF E, G, B, C
  <2>6. u = RuleOf(A, E, C, D, E, F, G)
    BY <2>0, <2>2 DEF RuleOf
  <2>7. w = RuleOf(A, E, G, D, E, F, G)
    BY <2>3, <2>6 DEF RuleOf
  <2>8. x = RuleOf(A, E, G, D, B, F, G)
    BY <2>4, <2>7 DEF RuleOf
  <2>9. r = RuleOf(A, E, G, D, B, F, C)
    BY <2>5, <2>8 DEF RuleOf
  <2>. QED
    BY <2>9 DEF A, B, C, D, E, F, G
<1>2. /\ rule.source \in {"current", "previous"}
      /\ rule.valueSource \in {"current", "previous"}
      /\ rule.path \in Seq(ToSet(rule.path)) /\ rule.value \in Values
  BY DEF IsRule
<1>. HIDE DEF r
<1>3. IsRule(r)
  BY <1>1, <1>2 DEF IsRule, RuleOf
<1>4. /\ LeftOf(r, current, previous) = RightOf(rule, current, previous)
      /\ RightOf(r, current, previous) = LeftOf(rule, current, previous)
  BY <1>1, <1>2 DEF LeftOf, RightOf, RuleOf
<1>. QED
  BY <1>3, <1>4 DEF r

\* The laws of OperatorsAgree for one rule.
Agrees(rule, current, previous) ==
  LET State(r, operator) ==
        EvaluateRule([r EXCEPT !.operator = operator], current, previous)
      Is(operator) == State(rule, operator)
      Literal(v) == [rule EXCEPT !.valueSource = "literal", !.value = v]
  IN  /\ \A operator \in DOMAIN Opposite :
           Is(Opposite[operator]) = Negated[Is(operator)]
      /\ Is("gt") # "unknown" =>
           Cardinality({o \in {"lt", "equals", "gt"} : Is(o) = "true"}) = 1
      /\ Is("length_eq") = "true" => Is("length_gt") = "false"
      /\ Is("exists") = "false" =>
           \A o \in {"equals", "contains", "regex", "gt", "between",
                     "length_gt", "is_true"} : Is(o) = "unknown"
      /\ rule.valueSource = "literal" /\ Len(Bounds(rule.value)) = 2 =>
           (Is("between") = "true" <=>
              /\ State(Literal(Bounds(rule.value)[1]), "gte") = "true"
              /\ State(Literal(Bounds(rule.value)[2]), "lte") = "true")
      /\ rule.valueSource # "literal" /\ rule.path = <<>> =>
           /\ Is("gt") = State(Swapped(rule), "lt")
           /\ Is("equals") = State(Swapped(rule), "equals")

LEMMA RulesAgree ==
  ASSUME NEW rule, IsRule(rule), NEW current \in Found, NEW previous \in Found
  PROVE  Agrees(rule, current, previous)
<1>. DEFINE State(r, operator) ==
              EvaluateRule([r EXCEPT !.operator = operator], current, previous)
            Is(operator) == State(rule, operator)
            Literal(x) == [rule EXCEPT !.valueSource = "literal", !.value = x]
            v == LeftOf(rule, current, previous)
            w == RightOf(rule, current, previous)
<1>1. v \in Found /\ w \in Found /\ rule.value \in Values
  BY OperandsFound
<1>2. ASSUME NEW operator \in Comparisons
      PROVE  Is(operator) = Judged(operator, v, w)
  BY RuleJudged
<1>3. Is("exists") = BoolState(v # Absent) /\ Is("not_exists") = BoolState(v = Absent)
  BY PresenceJudged
<1>4. ASSUME NEW r, IsRule(r), NEW operator \in Comparisons
      PROVE  State(r, operator) = Judged(operator, LeftOf(r, current, previous),
                                         RightOf(r, current, previous))
  BY <1>4, RuleJudged
<1>5. ASSUME rule.valueSource = "literal", Len(Bounds(rule.value)) = 2
      PROVE  Is("between") = "true" <=>
               /\ State(Literal(Bounds(rule.value)[1]), "gte") = "true"
               /\ State(Literal(Bounds(rule.value)[2]), "lte") = "true"
  <2>1. w = rule.value
    BY <1>5 DEF RightOf
  <2>2. ASSUME NEW x \in Values
        PROVE  /\ State(Literal(x), "gte") = Judged("gte", v, x)
               /\ State(Literal(x), "lte") = Judged("lte", v, x)
    <3>1. /\ IsRule(LiteralOf(rule, x))
          /\ LeftOf(LiteralOf(rule, x), current, previous) = v
          /\ RightOf(LiteralOf(rule, x), current, previous) = x
      BY LiteralJudged
    <3>2. "gte" \in Comparisons /\ "lte" \in Comparisons
      BY DEF Comparisons
    <3>3. Literal(x) = LiteralOf(rule, x)
      BY DEF LiteralOf
    <3>. HIDE DEF State, Literal, v
    <3>. QED
      BY <1>4, <3>1, <3>2, <3>3
  <2>3. Bounds(rule.value)[1] \in Values /\ Bounds(rule.value)[2] \in Values
    BY <1>1, <1>5, BoundsAreValues
  <2>4. Is("between") = Judged("between", v, rule.value)
    <3>. HIDE DEF Is, v, w
    <3>. QED
      BY <1>2, <2>1 DEF Comparisons
  <2>. HIDE DEF Is, State, Literal, v, w
  <2>. QED
    BY <1>1, <1>5, <2>2, <2>3, <2>4, BetweenJudged
<1>6. ASSUME rule.valueSource # "literal", rule.path = <<>>
      PROVE  /\ Is("gt") = State(Swapped(rule), "lt")
             /\ Is("equals") = State(Swapped(rule), "equals")
  <2>1. /\ IsRule(Swapped(rule))
        /\ LeftOf(Swapped(rule), current, previous) = w
        /\ RightOf(Swapped(rule), current, previous) = v
    BY <1>6, SwappedJudged
  <2>2. {"gt", "lt", "equals"} \subseteq Comparisons
    BY DEF Comparisons
  <2>. HIDE DEF Is, State, v, w
  <2>3. /\ State(Swapped(rule), "lt") = Judged("lt", w, v)
        /\ State(Swapped(rule), "equals") = Judged("equals", w, v)
    BY <1>4, <2>1, <2>2
  <2>. QED
    BY <1>1, <1>2, <2>2, <2>3, NumbersOrdered
<1>. HIDE DEF Is, v, w
<1>7. ASSUME NEW operator \in DOMAIN Opposite
      PROVE  Is(Opposite[operator]) = Negated[Is(operator)]
  <2>1. operator \in {"equals", "contains", "exists", "is_true", "gt", "lt"}
    BY DEF Opposite
  <2>2. /\ Opposite["equals"] = "not_equals" /\ Opposite["contains"] = "not_contains"
        /\ Opposite["exists"] = "not_exists" /\ Opposite["is_true"] = "is_false"
        /\ Opposite["gt"] = "lte" /\ Opposite["lt"] = "gte"
    BY DEF Opposite
  <2>3. Is("not_exists") = Negated[Is("exists")]
    BY <1>3 DEF BoolState, Negated
  <2>4. {"equals", "contains", "is_true", "gt", "lt", "not_equals", "not_contains",
         "is_false", "lte", "gte"} \subseteq Comparisons
    BY DEF Comparisons
  <2>5. /\ Is("not_equals") = Negated[Is("equals")]
        /\ Is("not_contains") = Negated[Is("contains")]
        /\ Is("is_false") = Negated[Is("is_true")]
        /\ Is("lte") = Negated[Is("gt")] /\ Is("gte") = Negated[Is("lt")]
    BY <1>1, <1>2, <2>4, OppositesJudged
  <2>. QED
    BY <2>1, <2>2, <2>3, <2>5
<1>8. /\ Is("gt") # "unknown" =>
           Cardinality({o \in {"lt", "equals", "gt"} : Is(o) = "true"}) = 1
      /\ Is("length_eq") = "true" => Is("length_gt") = "false"
  <2>1. {"gt", "lt", "equals", "length_eq", "length_gt"} \subseteq Comparisons
    BY DEF Comparisons
  <2>2. {o \in {"lt", "equals", "gt"} : Is(o) = "true"}
          = {o \in {"lt", "equals", "gt"} : Judged(o, v, w) = "true"}
    BY <1>2, <2>1
  <2>3. /\ Is("gt") = Judged("gt", v, w) /\ Is("length_eq") = Judged("length_eq", v, w)
        /\ Is("length_gt") = Judged("length_gt", v, w)
    BY <1>2, <2>1
  <2>. QED
    BY <1>1, <2>2, <2>3, NumbersOrdered
<1>9. Is("exists") = "false" =>
        \A o \in {"equals", "contains", "regex", "gt", "between", "length_gt", "is_true"} :
          Is(o) = "unknown"
  <2>1. {"equals", "contains", "regex", "gt", "between", "length_gt", "is_true"}
          \subseteq Comparisons
    BY DEF Comparisons
  <2>2. Is("exists") = "false" => v = Absent
    BY <1>3 DEF BoolState
  <2>. QED
    BY <1>2, <2>1, <2>2 DEF Judged
<1>. USE DEF Is
<1>. QED
  BY <1>5, <1>6, <1>7, <1>8, <1>9 DEF Agrees


-----------------------------------------------------------------------------
(* Conditions: what every state keeps *)

LEMMA StatesTrivalent ==
  ASSUME NEW rule, NEW current, NEW previous
  PROVE  EvaluateRule(rule, current, previous) \in Trivalent
<1>1. ASSUME NEW b PROVE BoolState(b) \in Trivalent
  BY DEF BoolState, Trivalent
<1>2. Changed(rule, current, previous) \in Trivalent
  BY <1>1 DEF Changed, Trivalent
<1>. QED
  BY <1>1, <1>2 DEF EvaluateRule, Trivalent

LEMMA CombinedTrivalent ==
  ASSUME NEW conditions, NEW states
  PROVE  EvaluateConditions(conditions, states) \in Trivalent
BY DEF EvaluateConditions, Trivalent

\* What the combination of the rules' verdicts is.
Combined(conditions, states, state) ==
  CASE conditions.rules = <<>> -> state = "false"
    [] conditions.rules # <<>> /\ conditions.logic = "ANY" ->
         /\ state = "true" <=> "true" \in ToSet(states)
         /\ state = "unknown" <=> ToSet(states) = {"unknown"}
    [] OTHER ->
         /\ state = "false" <=> "false" \in ToSet(states)
         /\ state = "true" <=> ToSet(states) = {"true"}

LEMMA CombinedIs ==
  ASSUME NEW c \in Created \cup Edited, NEW states \in [DOMAIN c.rules -> Trivalent]
  PROVE  Combined(c, states, EvaluateConditions(c, states))
<1>1. c.rules \in Seq(ToSet(c.rules))
  BY ConstantsAreValues DEF ConditionsAssumption
<1>2. PICK n \in Nat : n = Len(c.rules)
  BY <1>1
<1>3. DOMAIN c.rules = 1..n /\ (c.rules = <<>> <=> n = 0)
  BY <1>1, <1>2
<1>4. states \in [1..n -> Trivalent]
  BY <1>3
<1>5. ToSet(states) = {states[i] : i \in 1..n}
  BY <1>4 DEF ToSet
<1>6. states \in Seq(Trivalent) /\ Len(states) = n /\ (states = <<>> <=> n = 0)
  BY <1>2, <1>4
<1>7. CASE n = 0
  BY <1>3, <1>6, <1>7 DEF Combined, EvaluateConditions
<1>8. CASE n # 0
  <2>. DEFINE T == ToSet(states)
  <2>1. T \subseteq Trivalent /\ T # {}
    <3>1. 1 \in 1..n
      BY <1>2, <1>8
    <3>. QED
      BY <1>4, <1>5, <3>1
  <2>. HIDE DEF T
  <2>2. /\ T \subseteq {"true", "false", "unknown"} /\ T # {}
        /\ c.rules # <<>> /\ states # <<>>
    BY <1>3, <1>6, <1>8, <2>1 DEF Trivalent
  <2>3. CASE c.logic = "ANY"
    <3>1. EvaluateConditions(c, states)
            = IF "true" \in T THEN "true"
              ELSE IF T = {"unknown"} THEN "unknown" ELSE "false"
      BY <2>2, <2>3 DEF EvaluateConditions, T
    <3>. QED
      BY <2>2, <2>3, <3>1 DEF Combined, T
  <2>4. CASE c.logic # "ANY"
    <3>1. EvaluateConditions(c, states)
            = IF "false" \in T THEN "false"
              ELSE IF "unknown" \in T THEN "unknown" ELSE "true"
      BY <2>2, <2>4 DEF EvaluateConditions, T
    <3>2. Combined(c, states, EvaluateConditions(c, states)) <=>
            /\ EvaluateConditions(c, states) = "false" <=> "false" \in T
            /\ EvaluateConditions(c, states) = "true" <=> T = {"true"}
      BY <2>2, <2>4 DEF Combined, T
    <3>3. "false" \notin T /\ "unknown" \notin T <=> T = {"true"}
      BY <2>2
    <3>. QED
      BY <3>1, <3>2, <3>3
  <2>. QED
    BY <2>3, <2>4
<1>. QED
  BY <1>7, <1>8

\* The verdicts of an execution are those of its rules on what it answered and
\* on the baseline it read.
Verdicts ==
  run.pc = "evaluated" =>
    /\ run.states = [i \in DOMAIN run.config.rules |->
                       EvaluateRule(run.config.rules[i],
                                    Current(run.answer, run.ms), run.previous)]
    /\ run.state = EvaluateConditions(run.config, run.states)

ConditionsIInv == ConditionsTypeOK /\ Verdicts

Results == [success : BOOLEAN, result : Values]

LEMMA LatestFound ==
  ASSUME NEW q \in Seq(Results)
  PROVE  LET good == {k \in DOMAIN q : q[k].success}
         IN  (IF good = {} THEN Absent ELSE q[Max(good)].result) \in Found
<1>. DEFINE good == {k \in DOMAIN q : q[k].success}
<1>1. PICK n \in Nat : DOMAIN q = 1..n
  BY DEF Results
<1>2. good # {} => Max(good) \in DOMAIN q
  BY <1>1, MaxIn
<1>3. \A k \in DOMAIN q : q[k].result \in Values
  <2>1. \A k \in DOMAIN q : q[k] \in Results
    OBVIOUS
  <2>2. \A r \in Results : r.result \in Values
    BY DEF Results
  <2>. QED
    BY <2>1, <2>2
<1>. HIDE DEF good
<1>4. (IF good = {} THEN Absent ELSE q[Max(good)].result) \in Found
  BY <1>2, <1>3 DEF Found
<1>. QED
  BY <1>4 DEF good

LEMMA AnswersAreValues ==
  ASSUME NEW o \in Observations, NEW ms \in Durations
  PROVE  Current(o, ms) \in Values /\ Recorded(o, ms) \in Values /\ o.success \in BOOLEAN
BY ConstantsAreValues DEF ConditionsAssumption

LEMMA ConditionsStart == ConditionsInit => ConditionsIInv
<1>1. ConditionsInit => ConditionsTypeOK
  BY DEF ConditionsInit, ConditionsTypeOK, NoRun
<1>2. ConditionsInit => Verdicts
  BY DEF ConditionsInit, Verdicts, NoRun
<1>. QED
  BY <1>1, <1>2 DEF ConditionsIInv

\* The rest of a step that ends or drops the execution.
LEMMA RunEnds ==
  ASSUME run' = NoRun, config' \in Created \cup Edited,
         results' \in Seq(Results), base' \in Values \cup {Absent}
  PROVE  ConditionsIInv'
BY DEF ConditionsIInv, ConditionsTypeOK, Verdicts, NoRun, Results

\* And of one that leaves it alone.
LEMMA RunStays ==
  ASSUME ConditionsIInv, run' = run, config' \in Created \cup Edited,
         results' \in Seq(Results), base' \in Values \cup {Absent}
  PROVE  ConditionsIInv'
BY DEF ConditionsIInv, ConditionsTypeOK, Verdicts, Results

LEMMA ConditionsStep == ConditionsIInv /\ [ConditionsNext]_conditionVars => ConditionsIInv'
<1>. SUFFICES ASSUME ConditionsIInv, [ConditionsNext]_conditionVars PROVE ConditionsIInv'
  OBVIOUS
<1>1. /\ config \in Created \cup Edited
      /\ results \in Seq(Results)
      /\ base \in Values \cup {Absent}
  BY DEF ConditionsIInv, ConditionsTypeOK, Results
<1>2. CASE UNCHANGED conditionVars
  BY <1>1, <1>2, RunStays DEF conditionVars
<1>3. CASE Load
  <2>1. LatestSuccessfulRecord \in Found
    BY <1>1, LatestFound DEF LatestSuccessfulRecord
  <2>2. run' = [pc |-> "loaded", config |-> config,
                previous |-> LatestSuccessfulRecord, base |-> base]
        /\ UNCHANGED <<config, results, base>>
    BY <1>3 DEF Load
  <2>. HIDE DEF Found
  <2>3. ConditionsTypeOK'
    BY <1>1, <2>1, <2>2 DEF ConditionsTypeOK, Found, Results
  <2>4. Verdicts'
    BY <2>2 DEF Verdicts
  <2>. QED
    BY <2>3, <2>4 DEF ConditionsIInv
<1>4. ASSUME NEW o \in Observations, NEW ms \in Durations, Execute(o, ms)
      PROVE  ConditionsIInv'
  <2>. DEFINE states == [i \in DOMAIN run.config.rules |->
                           EvaluateRule(run.config.rules[i], Current(o, ms),
                                        run.previous)]
  <2>1. /\ run.pc = "loaded"
        /\ run' = [pc |-> "evaluated", config |-> run.config,
                   previous |-> run.previous, base |-> run.base, answer |-> o,
                   ms |-> ms, states |-> states,
                   state |-> EvaluateConditions(run.config, states)]
        /\ UNCHANGED <<config, results, base>>
    BY <1>4 DEF Execute
  <2>2. states \in [DOMAIN run.config.rules -> Trivalent]
    BY StatesTrivalent
  <2>3. EvaluateConditions(run.config, states) \in Trivalent
    BY CombinedTrivalent
  <2>4. /\ run.config \in Created \cup Edited
        /\ {run.previous, run.base} \subseteq Values \cup {Absent}
    BY <2>1 DEF ConditionsIInv, ConditionsTypeOK, NoRun
  <2>5. /\ run'.pc = "evaluated" /\ run'.config = run.config
        /\ run'.previous = run.previous /\ run'.base = run.base
        /\ run'.answer = o /\ run'.ms = ms /\ run'.states = states
        /\ run'.state = EvaluateConditions(run.config, states)
    <3>. HIDE DEF states
    <3>. QED
      BY <2>1
  <2>6. Verdicts'
    BY <2>5 DEF Verdicts
  <2>. HIDE DEF states
  <2>7. ConditionsTypeOK'
    BY <1>1, <1>4, <2>1, <2>2, <2>3, <2>4, <2>5 DEF ConditionsTypeOK, Results
  <2>. QED
    BY <2>6, <2>7 DEF ConditionsIInv
<1>5. CASE Commit
  <2>1. run.pc = "evaluated" /\ run' = NoRun /\ config' = config
    BY <1>5 DEF Commit
  <2>2. run.answer \in Observations /\ run.ms \in Durations
    BY <2>1 DEF ConditionsIInv, ConditionsTypeOK
  <2>3. /\ Current(run.answer, run.ms) \in Values /\ Recorded(run.answer, run.ms) \in Values
        /\ run.answer.success \in BOOLEAN
    BY <2>2, AnswersAreValues
  <2>4. results' \in Seq(Results)
    <3>1. [success |-> run.answer.success, result |-> Recorded(run.answer, run.ms)] \in Results
      BY <2>3 DEF Results
    <3>. QED
      BY <1>1, <1>5, <3>1 DEF Commit
  <2>5. base' \in Values \cup {Absent}
    BY <1>1, <1>5, <2>3 DEF Commit
  <2>. QED
    BY <1>1, <2>1, <2>4, <2>5, RunEnds
<1>6. CASE Fails
  BY <1>1, <1>6, RunEnds DEF Fails
<1>7. ASSUME NEW c \in Edited, SetConditions(c)
      PROVE  ConditionsIInv'
  BY <1>1, <1>7, RunStays DEF SetConditions
<1>8. CASE ForgetResults
  <2>1. results' \in Seq(Results)
    BY <1>8 DEF ForgetResults
  <2>. QED
    BY <1>1, <1>8, <2>1, RunStays DEF ForgetResults
<1>9. CASE PruneResults
  <2>1. results' \in Seq(Results)
    BY <1>1, <1>9 DEF PruneResults
  <2>2. base' \in Values \cup {Absent}
    BY <1>1, <1>9 DEF PruneResults
  <2>. QED
    BY <1>1, <1>9, <2>1, <2>2, RunStays DEF PruneResults
<1>. QED
  BY <1>2, <1>3, <1>4, <1>5, <1>6, <1>7, <1>8, <1>9 DEF ConditionsNext

\* The state of the rules, of the results and of an execution is what the code
\* means it to be, and an execution's verdicts are those of its own rules on its
\* own answer (EvaluateConditions, condition.go:61-101).
THEOREM ConditionsInvariance == ConditionsSpec => []ConditionsIInv
<1>1. ConditionsInit => ConditionsIInv
  BY ConditionsStart
<1>2. ConditionsIInv /\ [ConditionsNext]_conditionVars => ConditionsIInv'
  BY ConditionsStep
<1>. QED
  BY <1>1, <1>2, PTL DEF ConditionsSpec

LEMMA ConditionsMean == ConditionsIInv => ConditionsInv
<1>. SUFFICES ASSUME ConditionsIInv PROVE ConditionsInv
  OBVIOUS
<1>1. ASSUME run.pc = "evaluated"
      PROVE  /\ run.config \in Created \cup Edited /\ run.previous \in Found
             /\ Current(run.answer, run.ms) \in Found
             /\ run.states \in [DOMAIN run.config.rules -> Trivalent]
             /\ run.state = EvaluateConditions(run.config, run.states)
  <2>1. run.answer \in Observations /\ run.ms \in Durations
    BY <1>1 DEF ConditionsIInv, ConditionsTypeOK
  <2>2. Current(run.answer, run.ms) \in Found
    BY <2>1, AnswersAreValues DEF Found
  <2>. QED
    BY <1>1, <2>2 DEF ConditionsIInv, ConditionsTypeOK, Verdicts, NoRun, Found
<1>2. OperatorsAgree
  <2>1. ASSUME run.pc = "evaluated", NEW rule \in ToSet(run.config.rules)
        PROVE  Agrees(rule, Current(run.answer, run.ms), run.previous)
    <3>1. IsRule(rule)
      BY <1>1, <2>1, ConstantsAreValues DEF ConditionsAssumption
    <3>. QED
      BY <1>1, <2>1, <3>1, RulesAgree
  <2>. QED
    BY <2>1 DEF OperatorsAgree, Agrees
<1>3. CombinedAsDocumented
  <2>1. run.pc = "evaluated" => Combined(run.config, run.states, run.state)
    BY <1>1, CombinedIs
  <2>. QED
    BY <2>1 DEF CombinedAsDocumented, Combined
<1>. QED
  BY <1>2, <1>3 DEF ConditionsInv, ConditionsIInv

\* The operators keep the laws of docs/guide/monitoring.md on the same operands,
\* and ALL and ANY combine as it says, for any rules, answers and values
\* (evaluateRule, condition.go:103-254).
THEOREM ConditionsHold == ConditionsSpec => []ConditionsInv
BY ConditionsInvariance, ConditionsMean, PTL


-----------------------------------------------------------------------------
(* Conditions: the baseline of "changed" *)

\* The last good result of a list of them.
LatestOf(q) ==
  LET good == {k \in DOMAIN q : q[k].success}
  IN  IF good = {} THEN Absent ELSE q[Max(good)].result

LEMMA MaxIs ==
  ASSUME NEW n \in Nat, NEW s \in SUBSET (1..n), NEW m \in s, \A x \in s : x <= m
  PROVE  Max(s) = m
<1>1. Max(s) \in s /\ \A x \in s : Max(s) >= x
  <2>1. m \in s /\ \A x \in s : m >= x
    OBVIOUS
  <2>. QED
    BY <2>1 DEF Max
<1>2. PICK x \in s : x = Max(s) /\ x >= m /\ x <= m
  BY <1>1
<1>3. m \in 1..n /\ x \in 1..n
  BY <1>2
<1>4. x = m
  BY <1>2, <1>3
<1>. QED
  BY <1>2, <1>4

LEMMA LatestIs ==
  ASSUME NEW q \in Seq(Results), NEW m \in DOMAIN q, q[m].success,
         \A k \in DOMAIN q : q[k].success => k <= m
  PROVE  LatestOf(q) = q[m].result
<1>. DEFINE good == {k \in DOMAIN q : q[k].success}
<1>1. PICK n \in Nat : DOMAIN q = 1..n
  OBVIOUS
<1>2. Max(good) = m
  BY <1>1, MaxIs
<1>. HIDE DEF good
<1>3. (IF good = {} THEN Absent ELSE q[Max(good)].result) = q[m].result
  BY <1>2 DEF good
<1>. QED
  BY <1>3 DEF LatestOf, good

LEMMA LatestNone ==
  ASSUME NEW q, \A k \in DOMAIN q : ~q[k].success
  PROVE  LatestOf(q) = Absent
BY DEF LatestOf

\* A list has a last good result or no good one.
LEMMA LatestOrNone ==
  ASSUME NEW q \in Seq(Results)
  PROVE  \/ \A k \in DOMAIN q : ~q[k].success
         \/ \E m \in DOMAIN q : q[m].success /\ \A k \in DOMAIN q : q[k].success => k <= m
<1>. DEFINE good == {k \in DOMAIN q : q[k].success}
<1>1. PICK n \in Nat : DOMAIN q = 1..n
  OBVIOUS
<1>2. CASE good = {}
  BY <1>2
<1>3. CASE good # {}
  <2>1. Max(good) \in good
    BY <1>1, <1>3, MaxIn
  <2>2. \A k \in good : k <= Max(good)
    <3>1. PICK m \in good : \A k \in good : k <= m
      <4>. DEFINE T == {n - k : k \in good}
      <4>1. T \subseteq Nat /\ T # {}
        BY <1>1, <1>3
      <4>. HIDE DEF T
      <4>2. PICK t \in T : \A u \in T : t <= u
        BY <4>1, LeastNatural
      <4>3. PICK m \in good : t = n - m
        BY <4>2 DEF T
      <4>4. ASSUME NEW k \in good PROVE k <= m
        <5>1. n - m <= n - k
          BY <4>2, <4>3 DEF T
        <5>2. k \in Nat /\ m \in Nat
          BY <1>1
        <5>. QED
          BY <5>1, <5>2
      <4>. QED
        BY <4>4
    <3>2. Max(good) = m
      BY <1>1, <3>1, MaxIs
    <3>. QED
      BY <3>1, <3>2
  <2>. QED
    BY <2>1, <2>2
<1>. QED
  BY <1>2, <1>3

LEMMA LatestAppended ==
  ASSUME NEW q \in Seq(Results), NEW r \in Results
  PROVE  LatestOf(Append(q, r)) = IF r.success THEN r.result ELSE LatestOf(q)
<1>. DEFINE p == Append(q, r)
<1>1. PICK n \in Nat : n = Len(q) /\ DOMAIN q = 1..n
  OBVIOUS
<1>2. p \in Seq(Results) /\ DOMAIN p = 1..(n + 1)
  BY <1>1
<1>3. p[n + 1] = r /\ \A k \in 1..n : p[k] = q[k]
  BY <1>1
<1>4. \A k \in 1..(n + 1) : k <= n + 1 /\ (k \in 1..n \/ k = n + 1)
  OBVIOUS
<1>5. n + 1 \in 1..(n + 1) /\ \A k \in 1..n : k \in 1..(n + 1)
  OBVIOUS
<1>. HIDE DEF p
<1>. SUFFICES LatestOf(p) = IF r.success THEN r.result ELSE LatestOf(q)
  BY DEF p
<1>6. CASE r.success
  BY <1>2, <1>3, <1>4, <1>5, <1>6, LatestIs
<1>7. CASE ~r.success
  <2>1. CASE \A k \in DOMAIN q : ~q[k].success
    <3>1. \A k \in DOMAIN p : ~p[k].success
      BY <1>1, <1>2, <1>3, <1>4, <1>7, <2>1
    <3>. QED
      BY <1>7, <2>1, <3>1, LatestNone
  <2>2. CASE \E m \in DOMAIN q : q[m].success /\ \A k \in DOMAIN q : q[k].success => k <= m
    <3>1. PICK m \in DOMAIN q :
            q[m].success /\ \A k \in DOMAIN q : q[k].success => k <= m
      BY <2>2
    <3>2. LatestOf(q) = q[m].result
      BY <3>1, LatestIs
    <3>3. m \in DOMAIN p /\ p[m] = q[m] /\ \A k \in DOMAIN p : p[k].success => k <= m
      BY <1>1, <1>2, <1>3, <1>4, <1>5, <1>7, <3>1
    <3>4. LatestOf(p) = p[m].result
      BY <1>2, <3>1, <3>3, LatestIs
    <3>. QED
      BY <1>7, <3>2, <3>3, <3>4
  <2>. QED
    BY <2>1, <2>2, LatestOrNone
<1>. QED
  BY <1>6, <1>7

LEMMA LatestPruned ==
  ASSUME NEW q \in Seq(Results), q # <<>>
  PROVE  LatestOf(Tail(q)) = IF \E r \in ToSet(Tail(q)) : r.success THEN LatestOf(q)
                                                                ELSE Absent
<1>. DEFINE p == Tail(q)
<1>1. PICK n \in Nat : n = Len(q) /\ DOMAIN q = 1..n /\ n # 0
  OBVIOUS
<1>2. p \in Seq(Results) /\ DOMAIN p = 1..(n - 1) /\ n - 1 \in Nat
  BY <1>1
<1>3. \A k \in 1..(n - 1) : p[k] = q[k + 1] /\ k \in Nat
  BY <1>1
<1>4. /\ \A k \in 1..(n - 1) : k + 1 \in 1..n
      /\ \A k \in 1..n : k = 1 \/ (k - 1 \in 1..(n - 1) /\ k = (k - 1) + 1)
  BY <1>1
<1>. HIDE DEF p
<1>5. ToSet(p) = {p[k] : k \in DOMAIN p}
  BY DEF ToSet
<1>6. CASE \A k \in DOMAIN p : ~p[k].success
  BY <1>5, <1>6, LatestNone DEF p
<1>7. CASE \E m \in DOMAIN p : p[m].success /\ \A k \in DOMAIN p : p[k].success => k <= m
  <2>1. PICK m \in DOMAIN p : p[m].success /\ \A k \in DOMAIN p : p[k].success => k <= m
    BY <1>7
  <2>2. LatestOf(p) = p[m].result
    BY <1>2, <2>1, LatestIs
  <2>3. m + 1 \in DOMAIN q /\ q[m + 1] = p[m] /\ m \in Nat
    BY <1>1, <1>2, <1>3, <1>4, <2>1
  <2>4. ASSUME NEW k \in DOMAIN q, q[k].success PROVE k <= m + 1
    <3>1. k = 1 \/ (k - 1 \in 1..(n - 1) /\ q[k] = p[k - 1])
      BY <1>1, <1>3, <1>4
    <3>2. k = 1 \/ k - 1 <= m
      BY <1>2, <2>1, <2>4, <3>1
    <3>3. k \in Nat
      BY <1>1
    <3>. QED
      BY <2>3, <3>2, <3>3
  <2>5. LatestOf(q) = q[m + 1].result
    BY <2>1, <2>3, <2>4, LatestIs
  <2>6. \E r \in ToSet(p) : r.success
    BY <1>5, <2>1
  <2>. QED
    BY <2>2, <2>3, <2>5, <2>6 DEF p
<1>. QED
  BY <1>2, <1>6, <1>7, LatestOrNone

\* A stored result and the answer it is of, or nothing and nothing.
SameResult(read, answered) ==
  \/ read = Absent /\ answered = Absent
  \/ \E o \in Observations, ms \in Durations :
       read = Recorded(o, ms) /\ answered = Current(o, ms)

\* The last good record, and the baseline an execution read, are of the answer
\* the history remembers.
BaselineIsBase ==
  /\ SameResult(LatestSuccessfulRecord, base)
  /\ run.pc # "idle" => SameResult(run.previous, run.base)

BaselineIInv == ConditionsIInv /\ BaselineIsBase

LEMMA LatestIsLatestOf == LatestSuccessfulRecord = LatestOf(results)
BY DEF LatestSuccessfulRecord, LatestOf

LEMMA BaselineStart == ConditionsInit => BaselineIsBase
<1>. SUFFICES ASSUME ConditionsInit PROVE BaselineIsBase
  OBVIOUS
<1>1. results = <<>> /\ base = Absent /\ run.pc = "idle"
  BY DEF ConditionsInit, NoRun
<1>2. DOMAIN results = {}
  BY <1>1
<1>3. LatestSuccessfulRecord = Absent
  BY <1>2, LatestNone, LatestIsLatestOf
<1>. QED
  BY <1>1, <1>3 DEF BaselineIsBase, SameResult

LEMMA BaselineStep ==
  BaselineIInv /\ [ConditionsNext]_conditionVars => BaselineIsBase'
<1>. SUFFICES ASSUME BaselineIInv, [ConditionsNext]_conditionVars PROVE BaselineIsBase'
  OBVIOUS
<1>1. /\ results \in Seq(Results)
      /\ SameResult(LatestOf(results), base)
      /\ run.pc # "idle" => SameResult(run.previous, run.base)
  BY LatestIsLatestOf DEF BaselineIInv, BaselineIsBase, ConditionsIInv, ConditionsTypeOK, Results
<1>2. LatestSuccessfulRecord' = LatestOf(results')
  BY DEF LatestSuccessfulRecord, LatestOf
<1>3. SUFFICES /\ SameResult(LatestOf(results'), base')
               /\ run'.pc # "idle" => SameResult(run'.previous, run'.base)
  BY <1>2 DEF BaselineIsBase, SameResult
<1>4. CASE UNCHANGED conditionVars
  BY <1>1, <1>4 DEF conditionVars
<1>5. CASE Load
  <2>1. LatestSuccessfulRecord = LatestOf(results)
    BY LatestIsLatestOf
  <2>. QED
    BY <1>1, <1>5, <2>1 DEF Load
<1>6. ASSUME NEW o \in Observations, NEW ms \in Durations, Execute(o, ms)
      PROVE  /\ SameResult(LatestOf(results'), base')
             /\ run'.pc # "idle" => SameResult(run'.previous, run'.base)
  <2>1. /\ run.pc = "loaded" /\ run'.previous = run.previous /\ run'.base = run.base
        /\ UNCHANGED <<results, base>>
    BY <1>6 DEF Execute
  <2>. QED
    BY <1>1, <2>1
<1>7. CASE Commit
  <2>. DEFINE o == run.answer
              ms == run.ms
              r == [success |-> o.success, result |-> Recorded(o, ms)]
  <2>1. run.pc = "evaluated" /\ run' = NoRun /\ results' = Append(results, r)
        /\ base' = IF o.success THEN Current(o, ms) ELSE base
    BY <1>7 DEF Commit
  <2>2. o \in Observations /\ ms \in Durations
    BY <2>1 DEF BaselineIInv, ConditionsIInv, ConditionsTypeOK
  <2>3. r \in Results /\ r.success = o.success /\ r.result = Recorded(o, ms)
    BY <2>2, AnswersAreValues DEF Results
  <2>. HIDE DEF o, ms, r
  <2>4. LatestOf(results') = IF o.success THEN Recorded(o, ms) ELSE LatestOf(results)
    BY <1>1, <2>1, <2>3, LatestAppended
  <2>5. SameResult(LatestOf(results'), base')
    <3>1. CASE o.success
      BY <2>1, <2>2, <2>4, <3>1 DEF SameResult
    <3>2. CASE ~o.success
      BY <1>1, <2>1, <2>4, <3>2
    <3>. QED
      BY <3>1, <3>2
  <2>. QED
    BY <2>1, <2>5 DEF NoRun
<1>8. CASE Fails
  BY <1>1, <1>8 DEF Fails, NoRun
<1>9. ASSUME NEW c \in Edited, SetConditions(c)
      PROVE  /\ SameResult(LatestOf(results'), base')
             /\ run'.pc # "idle" => SameResult(run'.previous, run'.base)
  BY <1>1, <1>9 DEF SetConditions
<1>10. CASE ForgetResults
  <2>1. results' = <<>> /\ base' = Absent /\ run' = run
    BY <1>10 DEF ForgetResults
  <2>2. LatestOf(results') = Absent
    <3>1. DOMAIN results' = {}
      BY <2>1
    <3>. QED
      BY <3>1, LatestNone
  <2>. QED
    BY <1>1, <2>1, <2>2 DEF SameResult
<1>11. CASE PruneResults
  <2>1. /\ results # <<>> /\ results' = Tail(results) /\ run' = run
        /\ base' = IF \E r \in ToSet(Tail(results)) : r.success THEN base ELSE Absent
    BY <1>11 DEF PruneResults
  <2>2. LatestOf(results') = IF \E r \in ToSet(Tail(results)) : r.success
                             THEN LatestOf(results) ELSE Absent
    BY <1>1, <2>1, LatestPruned
  <2>3. SameResult(LatestOf(results'), base')
    <3>1. CASE \E r \in ToSet(Tail(results)) : r.success
      BY <1>1, <2>1, <2>2, <3>1
    <3>2. CASE ~\E r \in ToSet(Tail(results)) : r.success
      BY <2>1, <2>2, <3>2 DEF SameResult
    <3>. QED
      BY <3>1, <3>2
  <2>. QED
    BY <1>1, <2>1, <2>3
<1>. QED
  BY <1>4, <1>5, <1>6, <1>7, <1>8, <1>9, <1>10, <1>11 DEF ConditionsNext

\* What the rules with "changed" look at reads the same in an answer and in the
\* record of it: not so the duration, whose type changes, nor the summary text
\* of the common result set.
ReadsAlike ==
  \A c \in Created \cup Edited : \A rule \in ToSet(c.rules) :
    rule.operator = "changed" =>
      \A o \in Observations, ms \in Durations :
        LookupValue(Recorded(o, ms), NormalizeField(rule.field), rule.path)
          = LookupValue(Current(o, ms), NormalizeField(rule.field), rule.path)

LEMMA ChangedFollows ==
  ASSUME ReadsAlike, BaselineIInv
  PROVE  ChangedMeansChanged
<1>. SUFFICES ASSUME run.pc = "evaluated", NEW i \in DOMAIN run.config.rules,
                     run.config.rules[i].operator = "changed"
              PROVE  LET rule == run.config.rules[i]
                         field == NormalizeField(rule.field)
                         newer == LookupValue(Current(run.answer, run.ms), field, rule.path)
                         older == LookupValue(run.base, field, rule.path)
                     IN  run.states[i] = CASE run.base = Absent -> "false"
                                           [] run.base # Absent
                                                /\ Absent \in {newer, older} -> "unknown"
                                           [] OTHER -> BoolState(newer # older)
  BY DEF ChangedMeansChanged
<1>. DEFINE rule == run.config.rules[i]
            field == NormalizeField(rule.field)
            Read(v) == LookupValue(v, field, rule.path)
            current == Current(run.answer, run.ms)
            previous == run.previous
<1>1. /\ run.config \in Created \cup Edited
      /\ run.states[i] = EvaluateRule(rule, current, previous)
      /\ SameResult(previous, run.base)
  BY DEF BaselineIInv, BaselineIsBase, ConditionsIInv, ConditionsTypeOK, Verdicts, NoRun
<1>2. rule \in ToSet(run.config.rules)
  BY DEF ToSet
<1>3. (previous = Absent <=> run.base = Absent)
      /\ (previous # Absent => Read(previous) = Read(run.base))
  <2>1. CASE previous = Absent /\ run.base = Absent
    BY <2>1
  <2>2. CASE \E o \in Observations, ms \in Durations :
               previous = Recorded(o, ms) /\ run.base = Current(o, ms)
    <3>1. PICK o \in Observations, ms \in Durations :
            previous = Recorded(o, ms) /\ run.base = Current(o, ms)
      BY <2>2
    <3>2. previous # Absent /\ run.base # Absent
      BY <3>1, AnswersAreValues, AbsentIsNoValue
    <3>3. LookupValue(Recorded(o, ms), field, rule.path)
            = LookupValue(Current(o, ms), field, rule.path)
      BY <1>1, <1>2 DEF ReadsAlike
    <3>. QED
      BY <3>1, <3>2, <3>3
  <2>. QED
    BY <1>1, <2>1, <2>2 DEF SameResult
<1>4. EvaluateRule(rule, current, previous)
        = CASE previous = Absent -> "false"
            [] previous # Absent /\ Absent \in {Read(current), Read(previous)} -> "unknown"
            [] OTHER -> BoolState(Read(current) # Read(previous))
  BY DEF EvaluateRule, Changed
<1>. HIDE DEF rule, field, Read, current, previous
<1>5. run.states[i] = CASE run.base = Absent -> "false"
                        [] run.base # Absent /\ Absent \in {Read(current), Read(run.base)}
                             -> "unknown"
                        [] OTHER -> BoolState(Read(current) # Read(run.base))
  <2>1. CASE run.base = Absent
    BY <1>1, <1>3, <1>4, <2>1
  <2>2. CASE run.base # Absent
    BY <1>1, <1>3, <1>4, <2>2
  <2>. QED
    BY <2>1, <2>2
<1>. QED
  BY <1>5 DEF rule, field, Read, current

\* changed compares with the last result answered with success: failures, edits
\* of the rules, cleared and pruned records in between do not move its baseline
\* elsewhere (LatestSuccessfulRecord, store.go; evaluateRule, condition.go:120-139).
THEOREM ChangedHolds ==
  ASSUME ReadsAlike
  PROVE  ConditionsSpec => []ChangedMeansChanged
<1>1. ConditionsInit => BaselineIsBase
  BY BaselineStart
<1>2. BaselineIInv /\ [ConditionsNext]_conditionVars => BaselineIsBase'
  BY BaselineStep
<1>3. BaselineIInv => ChangedMeansChanged
  BY ChangedFollows
<1>4. ConditionsSpec => []ConditionsIInv
  BY ConditionsInvariance
<1>5. BaselineIInv <=> ConditionsIInv /\ BaselineIsBase
  BY DEF BaselineIInv
<1>. QED
  BY <1>1, <1>2, <1>3, <1>4, <1>5, PTL DEF ConditionsSpec



-----------------------------------------------------------------------------
(* Sums over a window *)

LEMMA SumIs ==
  ASSUME NEW s
  PROVE  SumOf(s) = Total(s, DOMAIN s)
BY DEF SumOf, FoldSeq, FoldFunction, FoldFunctionOnSet, MapThenFoldSet, Total, MapThenSumSet

LEMMA NextPlace ==
  ASSUME NEW j \in Nat, NEW a \in Int, 2 * a = j * (j - 1)
  PROVE  2 * (a + j) = (j + 1) * ((j + 1) - 1)
<1>1. j * (j - 1) = j * j - j /\ (j + 1) * ((j + 1) - 1) = j * j + j
  OBVIOUS
<1>. QED
  BY <1>1

\* The places of a window, counted from 0, add up to half of n * (n - 1).
LEMMA PlacesAdd ==
  ASSUME NEW n \in Nat
  PROVE  2 * Total([k \in 1..n |-> k - 1], 1..n) = n * (n - 1)
<1>. DEFINE S == 1..n
            F(j) == [k \in S |-> IF k <= j THEN k - 1 ELSE 0]
            T == {j \in Nat : j <= n => 2 * Total(F(j), S) = j * (j - 1)}
<1>1. IsFiniteSet(S)
  BY FS_Interval
<1>2. 0 \in T
  <2>1. F(0) = [k \in S |-> 0]
    OBVIOUS
  <2>2. Total(F(0), S) = 0
    BY <1>1, <2>1, TotalZero
  <2>3. 2 * Total(F(0), S) = 0 * (0 - 1)
    BY <2>2
  <2>. HIDE DEF F, S
  <2>. QED
    BY <2>3
<1>3. ASSUME NEW j \in T PROVE j + 1 \in T
  <2>1. ASSUME j + 1 <= n
        PROVE  2 * Total(F(j + 1), S) = (j + 1) * ((j + 1) - 1)
    <3>1. j \in Nat /\ j <= n /\ 2 * Total(F(j), S) = j * (j - 1)
      BY <1>3, <2>1
    <3>2. F(j) \in [S -> Int] /\ F(j + 1) \in [S -> Int]
      BY <3>1
    <3>3. j + 1 \in S /\ F(j + 1)[j + 1] = F(j)[j + 1] + j
      BY <2>1, <3>1
    <3>4. \A x \in S : x # j + 1 => F(j + 1)[x] = F(j)[x]
      BY <3>1
    <3>5. PICK a \in Int : a = Total(F(j), S)
      <4>1. Int \in {Nat, Int}
        OBVIOUS
      <4>. QED
        BY <1>1, <3>2, <4>1, TotalType, Zenon
    <3>6. Total(F(j + 1), S) = a + j
      <4>. HIDE DEF F, S
      <4>. QED
        BY <1>1, <3>1, <3>2, <3>3, <3>4, <3>5, TotalStep
    <3>7. 2 * a = j * (j - 1)
      BY <3>1, <3>5
    <3>8. 2 * (a + j) = (j + 1) * ((j + 1) - 1)
      BY <3>1, <3>5, <3>7, NextPlace
    <3>. QED
      BY <3>6, <3>8
  <2>2. j + 1 \in Nat
    OBVIOUS
  <2>. QED
    BY <2>1, <2>2
<1>4. T = Nat
  <2>. HIDE DEF T
  <2>1. T \subseteq Nat
    BY DEF T
  <2>. QED
    BY <1>2, <1>3, <2>1, InductiveSet
<1>5. 2 * Total(F(n), S) = n * (n - 1)
  <2>1. n \in T
    BY <1>4
  <2>. HIDE DEF F, S
  <2>. QED
    BY <2>1
<1>6. F(n) = [k \in S |-> k - 1]
  OBVIOUS
<1>. QED
  BY <1>5, <1>6

\* A sum of integers is one.
LEMMA SumType ==
  ASSUME NEW n \in Nat, NEW f \in [1..n -> Int]
  PROVE  Total(f, 1..n) \in Int
<1>1. IsFiniteSet(1..n) /\ Int \in {Nat, Int}
  BY FS_Interval
<1>. QED
  BY <1>1, TotalType, Zenon


\* The slope of a line is the same about the centre of the window: the two forms
\* of its numerator and of its denominator differ by a factor.
LEMMA CentredForms ==
  ASSUME NEW n \in Int, NEW X \in Int, NEW XX \in Int, NEW XY \in Int, NEW Y \in Int,
         2 * X = n * (n - 1)
  PROVE  /\ 2 * (n * XY - X * Y) = n * (2 * XY + (1 - n) * Y)
         /\ 4 * (n * XX - X * X) = n * (4 * XX + (1 - n) * (4 * X + (1 - n) * n))
<1>1. n * ((1 - n) * Y) = -((2 * X) * Y)
  <2>1. n * ((1 - n) * Y) = -((n * (n - 1)) * Y)
    OBVIOUS
  <2>. QED
    BY <2>1
<1>2. n * (2 * XY + (1 - n) * Y) = 2 * (n * XY) + n * ((1 - n) * Y)
  OBVIOUS
<1>3. 2 * (n * XY - X * Y) = 2 * (n * XY) - (2 * X) * Y
  OBVIOUS
<1>4. 2 * (n * XY - X * Y) = n * (2 * XY + (1 - n) * Y)
  BY <1>1, <1>2, <1>3
<1>5. n * ((1 - n) * (4 * X + (1 - n) * n)) = -((2 * X) * (2 * X))
  <2>1. (1 - n) * n = -(2 * X)
    <3>1. (1 - n) * n = -(n * (n - 1))
      OBVIOUS
    <3>. QED
      BY <3>1
  <2>2. 4 * X + (1 - n) * n = 2 * X
    BY <2>1
  <2>3. n * ((1 - n) * (2 * X)) = ((1 - n) * n) * (2 * X)
    OBVIOUS
  <2>4. (-(2 * X)) * (2 * X) = -((2 * X) * (2 * X))
    OBVIOUS
  <2>. QED
    BY <2>1, <2>2, <2>3, <2>4
<1>6. n * (4 * XX + (1 - n) * (4 * X + (1 - n) * n))
        = 4 * (n * XX) + n * ((1 - n) * (4 * X + (1 - n) * n))
  OBVIOUS
<1>7. 4 * (n * XX - X * X) = 4 * (n * XX) - (2 * X) * (2 * X)
  OBVIOUS
<1>8. 4 * (n * XX - X * X) = n * (4 * XX + (1 - n) * (4 * X + (1 - n) * n))
  BY <1>5, <1>6, <1>7
<1>. QED
  BY <1>4, <1>8

\* A positive factor does not change a comparison.
Scaled(i, a, n, c) ==
  i \in Nat \ {0} /\ n \in Nat \ {0} /\ a \in Int /\ c \in Int /\ i * a = n * c

LEMMA FactorCompares ==
  ASSUME NEW i, NEW n, NEW a, NEW b, NEW c, NEW d, NEW op \in Comparison,
         Scaled(i, a, n, c), Scaled(i, b, n, d)
  PROVE  CompareNumber(a, op, b) <=> CompareNumber(c, op, d)
<1>. USE DEF Scaled
<1>1. (i * a > i * b <=> a > b) /\ (n * c > n * d <=> c > d)
  OBVIOUS
<1>2. (i * a < i * b <=> a < b) /\ (n * c < n * d <=> c < d)
  OBVIOUS
<1>3. (a > b <=> c > d) /\ (a < b <=> c < d)
  BY <1>1, <1>2
<1>4. (a >= b <=> c >= d) /\ (a <= b <=> c <= d)
  BY <1>3
<1>5. op \in {"gt", "gte", "lt", "lte"}
  BY DEF Comparison
<1>. QED
  BY <1>3, <1>4, <1>5 DEF CompareNumber


\* The two ways to weigh the values of a window by their places.
Product(n, f, g) == [k \in 1..n |-> f[k] * g[k]]
Places(n) == [k \in 1..n |-> k - 1]
Centred(n) == [k \in 1..n |-> 2 * k - n - 1]

LEMMA PlacesType ==
  ASSUME NEW n \in Nat
  PROVE  /\ Places(n) \in [1..n -> Int] /\ Centred(n) \in [1..n -> Int]
         /\ \A f, g \in [1..n -> Int] : Product(n, f, g) \in [1..n -> Int]
         /\ \A k \in 1..n : Centred(n)[k] = 2 * Places(n)[k] + (1 - n)
BY DEF Places, Centred, Product

LEMMA WeighedCentred ==
  ASSUME NEW n \in Nat, NEW y \in [1..n -> Int]
  PROVE  Total(Product(n, Centred(n), y), 1..n)
           = 2 * Total(Product(n, Places(n), y), 1..n) + (1 - n) * Total(y, 1..n)
<1>. DEFINE q == Product(n, Centred(n), y)
            f == Product(n, Places(n), y)
<1>1. q \in [1..n -> Int] /\ f \in [1..n -> Int] /\ IsFiniteSet(1..n)
  <2>1. IsFiniteSet(1..n)
    BY FS_Interval
  <2>. QED
    BY <2>1, PlacesType, Zenon
<1>2. ASSUME NEW k \in 1..n
      PROVE  q[k] = 2 * f[k] + (1 - n) * y[k]
  <2>1. q[k] = Centred(n)[k] * y[k] /\ f[k] = Places(n)[k] * y[k]
    BY DEF Product
  <2>2. PICK p \in Int, v \in Int : p = Places(n)[k] /\ v = y[k]
    BY PlacesType
  <2>3. Centred(n)[k] = 2 * p + (1 - n)
    BY <2>2, PlacesType
  <2>4. (2 * p + (1 - n)) * v = 2 * (p * v) + (1 - n) * v
    OBVIOUS
  <2>. QED
    BY <2>1, <2>2, <2>3, <2>4
<1>3. 2 \in Int /\ 1 - n \in Int
  OBVIOUS
<1>. HIDE DEF q, f
<1>4. Total(q, 1..n) = 2 * Total(f, 1..n) + (1 - n) * Total(y, 1..n)
  <2>1. PICK D, u, v : D = 1..n /\ u = 2 /\ v = 1 - n
    OBVIOUS
  <2>2. /\ IsFiniteSet(D) /\ q \in [D -> Int] /\ f \in [D -> Int]
        /\ y \in [D -> Int] /\ u \in Int /\ v \in Int
    BY <1>1, <1>3, <2>1
  <2>3. Combines(q, u, f, v, y, D)
    BY <2>1, <2>2, <1>2 DEF Combines
  <2>4. Total(q, D) = u * Total(f, D) + v * Total(y, D)
    BY <2>3, TotalLinear
  <2>. QED
    BY <2>1, <2>4
<1>. QED
  BY <1>4 DEF q, f

LEMMA SquaredCentred ==
  ASSUME NEW n \in Nat
  PROVE  Total(Product(n, Centred(n), Centred(n)), 1..n)
           = 4 * Total(Product(n, Places(n), Places(n)), 1..n)
             + (1 - n) * (4 * Total(Places(n), 1..n) + (1 - n) * n)
<1>. DEFINE q == Product(n, Centred(n), Centred(n))
            f == Product(n, Places(n), Places(n))
            one == [k \in 1..n |-> 1]
            g == [k \in 1..n |-> 4 * Places(n)[k] + (1 - n) * one[k]]
<1>1. /\ q \in [1..n -> Int] /\ f \in [1..n -> Int] /\ IsFiniteSet(1..n)
      /\ Places(n) \in [1..n -> Int]
  <2>1. IsFiniteSet(1..n)
    BY FS_Interval
  <2>. QED
    BY <2>1, PlacesType, Zenon
<1>2. one \in [1..n -> Int] /\ g \in [1..n -> Int]
  BY <1>1
<1>3. ASSUME NEW k \in 1..n
      PROVE  q[k] = 4 * f[k] + (1 - n) * g[k]
  <2>1. q[k] = Centred(n)[k] * Centred(n)[k] /\ f[k] = Places(n)[k] * Places(n)[k]
    BY DEF Product
  <2>2. PICK p \in Int : p = Places(n)[k]
    BY PlacesType
  <2>3. Centred(n)[k] = 2 * p + (1 - n)
    BY <2>2, PlacesType
  <2>4. g[k] = 4 * p + (1 - n)
    BY <2>2
  <2>5. (2 * p + (1 - n)) * (2 * p + (1 - n)) = 4 * (p * p) + (1 - n) * (4 * p + (1 - n))
    OBVIOUS
  <2>. QED
    BY <2>1, <2>2, <2>3, <2>4, <2>5
<1>4. \A k \in 1..n : g[k] = 4 * Places(n)[k] + (1 - n) * one[k]
  OBVIOUS
<1>5. 4 \in Int /\ 1 - n \in Int
  OBVIOUS
<1>6. Total(one, 1..n) = n
  <2>1. Cardinality(1..n) = n
    BY FS_Interval
  <2>2. 1 \in Int
    OBVIOUS
  <2>3. Total(one, 1..n) = 1 * Cardinality(1..n)
    BY <1>1, <2>2, TotalConstant
  <2>. QED
    BY <2>1, <2>3
<1>. HIDE DEF q, f, g, one
<1>7. Total(q, 1..n) = 4 * Total(f, 1..n) + (1 - n) * Total(g, 1..n)
  <2>1. PICK D, u, v : D = 1..n /\ u = 4 /\ v = 1 - n
    OBVIOUS
  <2>2. /\ IsFiniteSet(D) /\ q \in [D -> Int] /\ f \in [D -> Int]
        /\ g \in [D -> Int] /\ u \in Int /\ v \in Int
    BY <1>1, <1>2, <1>5, <2>1
  <2>3. Combines(q, u, f, v, g, D)
    BY <2>1, <2>2, <1>3 DEF Combines
  <2>4. Total(q, D) = u * Total(f, D) + v * Total(g, D)
    BY <2>3, TotalLinear
  <2>. QED
    BY <2>1, <2>4
<1>8. Total(g, 1..n) = 4 * Total(Places(n), 1..n) + (1 - n) * Total(one, 1..n)
  <2>1. PICK D, u, v : D = 1..n /\ u = 4 /\ v = 1 - n
    OBVIOUS
  <2>2. /\ IsFiniteSet(D) /\ g \in [D -> Int] /\ Places(n) \in [D -> Int]
        /\ one \in [D -> Int] /\ u \in Int /\ v \in Int
    BY <1>1, <1>2, <1>5, <2>1
  <2>3. Combines(g, u, Places(n), v, one, D)
    BY <2>1, <2>2, <1>4 DEF Combines
  <2>4. Total(g, D) = u * Total(Places(n), D) + v * Total(one, D)
    BY <2>3, TotalLinear
  <2>. QED
    BY <2>1, <2>4
<1>. QED
  BY <1>6, <1>7, <1>8 DEF q, f


\* The slope through a window, about its beginning as the code computes it or
\* about its centre, compares in the same way with a threshold.
LEMMA SlopesCompare ==
  ASSUME NEW n \in Nat \ {0}, NEW y \in [1..n -> Int], NEW t \in Int, NEW op \in Comparison
  PROVE  LET X == Total(Places(n), 1..n)
             XX == Total(Product(n, Places(n), Places(n)), 1..n)
             XY == Total(Product(n, Places(n), y), 1..n)
             U == Total(Product(n, Centred(n), y), 1..n)
             Q == Total(Product(n, Centred(n), Centred(n)), 1..n)
         IN  CompareNumber(n * XY - X * Total(y, 1..n), op, t * (n * XX - X * X))
               <=> CompareNumber(2 * U, op, t * Q)
<1>1. PICK X, XX, XY, Y, U, Q :
        /\ X = Total(Places(n), 1..n) /\ Y = Total(y, 1..n)
        /\ XX = Total(Product(n, Places(n), Places(n)), 1..n)
        /\ XY = Total(Product(n, Places(n), y), 1..n)
        /\ U = Total(Product(n, Centred(n), y), 1..n)
        /\ Q = Total(Product(n, Centred(n), Centred(n)), 1..n)
  OBVIOUS
<1>2. n \in Nat /\ n \in Int
  OBVIOUS
<1>3. X \in Int /\ XX \in Int /\ XY \in Int /\ Y \in Int /\ U \in Int /\ Q \in Int
  <2>1. /\ Places(n) \in [1..n -> Int] /\ Product(n, Places(n), Places(n)) \in [1..n -> Int]
        /\ Product(n, Places(n), y) \in [1..n -> Int]
        /\ Product(n, Centred(n), y) \in [1..n -> Int]
        /\ Product(n, Centred(n), Centred(n)) \in [1..n -> Int]
    BY <1>2, PlacesType, Zenon
  <2>. QED
    BY <1>1, <1>2, <2>1, SumType, Zenon
<1>4. 2 * X = n * (n - 1)
  <2>1. 2 * Total([k \in 1..n |-> k - 1], 1..n) = n * (n - 1)
    BY <1>2, PlacesAdd, Zenon
  <2>. QED
    BY <1>1, <2>1, Zenon DEF Places
<1>5. U = 2 * XY + (1 - n) * Y
  BY <1>1, <1>2, WeighedCentred, Zenon
<1>6. Q = 4 * XX + (1 - n) * (4 * X + (1 - n) * n)
  BY <1>1, <1>2, SquaredCentred, Zenon
<1>7. 2 * (n * XY - X * Y) = n * U /\ 4 * (n * XX - X * X) = n * Q
  BY <1>2, <1>3, <1>4, <1>5, <1>6, CentredForms
<1>8. PICK A \in Int, B \in Int : A = n * XY - X * Y /\ B = n * XX - X * X
  BY <1>2, <1>3
<1>9. 4 * A = n * (2 * U) /\ 4 * (t * B) = n * (t * Q)
  <2>1. 2 * A = n * U /\ 4 * B = n * Q
    BY <1>7, <1>8
  <2>2. 4 * A = 2 * (n * U) /\ 2 * (n * U) = n * (2 * U)
    BY <1>2, <1>3, <2>1
  <2>3. 4 * (t * B) = t * (4 * B) /\ t * (n * Q) = n * (t * Q)
    BY <1>2, <1>3
  <2>4. t * (4 * B) = t * (n * Q)
    BY <2>1, Zenon
  <2>. QED
    BY <2>2, <2>3, <2>4, Zenon
<1>10. CompareNumber(A, op, t * B) <=> CompareNumber(2 * U, op, t * Q)
  <2>1. PICK b, c, d : b = t * B /\ c = 2 * U /\ d = t * Q
    OBVIOUS
  <2>2. b \in Int /\ c \in Int /\ d \in Int /\ 4 \in Nat \ {0}
    BY <1>3, <2>1
  <2>3. 4 * A = n * c /\ 4 * b = n * d
    BY <1>9, <2>1
  <2>4. CompareNumber(A, op, b) <=> CompareNumber(c, op, d)
    <3>1. Scaled(4, A, n, c) /\ Scaled(4, b, n, d)
      BY <2>2, <2>3 DEF Scaled
    <3>. QED
      BY <3>1, FactorCompares
  <2>. QED
    BY <2>1, <2>4, Zenon
<1>. QED
  BY <1>1, <1>8, <1>10, Zenon


-----------------------------------------------------------------------------
(* What each type of trend rule means *)

\* A finite set has subsets of each size up to its own.
LEMMA SubsetOfSize ==
  ASSUME NEW S, IsFiniteSet(S)
  PROVE  \A m \in Nat : Cardinality(S) >= m <=> \E T \in SUBSET S : Cardinality(T) = m
<1>. DEFINE Sized(m) == \E T \in SUBSET S : Cardinality(T) = m
            P == {m \in Nat : m <= Cardinality(S) => Sized(m)}
<1>1. Cardinality(S) \in Nat
  BY FS_CardinalityType
<1>2. 0 \in P
  <2>1. {} \in SUBSET S /\ Cardinality({}) = 0
    BY FS_EmptySet
  <2>. QED
    BY <2>1
<1>3. ASSUME NEW m \in P PROVE m + 1 \in P
  <2>1. ASSUME m + 1 <= Cardinality(S) PROVE Sized(m + 1)
    <3>1. m \in Nat /\ m <= Cardinality(S) /\ m # Cardinality(S)
      BY <1>1, <1>3, <2>1
    <3>2. PICK T \in SUBSET S : Cardinality(T) = m
      BY <1>3, <3>1
    <3>3. PICK x \in S : x \notin T
      BY <3>1, <3>2
    <3>4. IsFiniteSet(T)
      BY FS_Subset
    <3>5. Cardinality(T \cup {x}) = m + 1
      BY <3>2, <3>3, <3>4, FS_AddElement
    <3>. QED
      BY <3>3, <3>5
  <2>2. m + 1 \in Nat
    BY <1>3
  <2>. HIDE DEF Sized
  <2>. QED
    BY <2>1, <2>2
<1>4. P = Nat
  <2>. HIDE DEF P
  <2>1. P \subseteq Nat
    BY DEF P
  <2>. QED
    BY <1>2, <1>3, <2>1, InductiveSet
<1>5. ASSUME NEW T \in SUBSET S
      PROVE  Cardinality(T) <= Cardinality(S)
  BY FS_Subset
<1>6. ASSUME NEW m \in Nat
      PROVE  Cardinality(S) >= m <=> Sized(m)
  <2>1. ASSUME Cardinality(S) >= m PROVE Sized(m)
    <3>1. m \in P /\ m <= Cardinality(S)
      BY <1>1, <1>4, <2>1
    <3>. HIDE DEF Sized
    <3>. QED
      BY <3>1
  <2>2. ASSUME Sized(m) PROVE Cardinality(S) >= m
    BY <1>1, <1>5, <2>2
  <2>. QED
    BY <2>1, <2>2
<1>. QED
  BY <1>6

\* A window of n samples that can be judged.
WindowOf(e, n) ==
  /\ n \in Nat \ {0} /\ DOMAIN e = 1..n /\ Len(e) = n
  /\ \A k \in 1..n : e[k].state \in {"success", "failure"}

LEMMA AbnormalCounted ==
  ASSUME NEW e, NEW n, WindowOf(e, n)
  PROVE  /\ CountAbnormal(e) = Len(e) <=> \A k \in 1..n : e[k].state # "success"
         /\ \A m \in Nat :
              CountAbnormal(e) >= m <=>
                \E T \in SUBSET (1..n) : /\ Cardinality(T) = m
                                         /\ \A k \in T : e[k].state = "failure"
<1>. DEFINE A == {k \in DOMAIN e : e[k].state = "failure"}
<1>1. /\ n \in Nat /\ DOMAIN e = 1..n /\ Len(e) = n
      /\ \A k \in 1..n : e[k].state \in {"success", "failure"}
  BY DEF WindowOf
<1>2. IsFiniteSet(1..n) /\ Cardinality(1..n) = n
  BY <1>1, FS_Interval
<1>3. A \subseteq 1..n
  BY <1>1
<1>4. IsFiniteSet(A)
  BY <1>2, <1>3, FS_Subset
<1>5. CountAbnormal(e) = Cardinality(A)
  BY DEF CountAbnormal
<1>6. Cardinality(A) = n <=> A = 1..n
  <2>. HIDE DEF A
  <2>. QED
    BY <1>2, <1>3, FS_Subset
<1>7. A = 1..n <=> \A k \in 1..n : e[k].state # "success"
  BY <1>1
<1>8. ASSUME NEW m \in Nat
      PROVE  Cardinality(A) >= m <=> \E T \in SUBSET (1..n) :
                                        /\ Cardinality(T) = m
                                        /\ \A k \in T : e[k].state = "failure"
  <2>1. Cardinality(A) >= m <=> \E T \in SUBSET A : Cardinality(T) = m
    <3>. HIDE DEF A
    <3>. QED
      BY <1>4, SubsetOfSize
  <2>2. \A T : T \in SUBSET A <=>
                 T \in SUBSET (1..n) /\ \A k \in T : e[k].state = "failure"
    BY <1>1
  <2>. HIDE DEF A
  <2>. QED
    BY <2>1, <2>2
<1>. QED
  BY <1>1, <1>5, <1>6, <1>7, <1>8


\* Such a window of numbers.
NumbersOf(e, n) == WindowOf(e, n) /\ \A k \in 1..n : e[k].numeric \in Int

LEMMA ShiftCompares ==
  ASSUME NEW a \in Int, NEW b \in Int, NEW c \in Int, NEW d \in Int, NEW op \in Comparison,
         a - b = c - d
  PROVE  CompareNumber(a, op, b) <=> CompareNumber(c, op, d)
<1>1. op \in {"gt", "gte", "lt", "lte"}
  BY DEF Comparison
<1>2. (a > b <=> c > d) /\ (a >= b <=> c >= d) /\ (a < b <=> c < d) /\ (a <= b <=> c <= d)
  OBVIOUS
<1>. QED
  BY <1>1, <1>2 DEF CompareNumber

LEMMA MeasuredIs ==
  ASSUME NEW e, NEW n, NumbersOf(e, n)
  PROVE  /\ n \in Nat \ {0} /\ Len(e) = n /\ DOMAIN Measured(e) = 1..n
         /\ Measured(e) = [k \in 1..n |-> e[k].numeric] /\ Measured(e) \in [1..n -> Int]
         /\ SumOf(Measured(e)) = Total(Measured(e), 1..n)
         /\ Len(Measured(e)) = n
<1>1. n \in Nat \ {0} /\ DOMAIN e = 1..n /\ Len(e) = n /\ \A k \in 1..n : e[k].numeric \in Int
  BY DEF NumbersOf, WindowOf
<1>2. Measured(e) = [k \in 1..n |-> e[k].numeric]
  BY <1>1 DEF Measured
<1>3. Measured(e) \in [1..n -> Int] /\ DOMAIN Measured(e) = 1..n
  BY <1>1, <1>2
<1>4. Len(Measured(e)) = n
  BY <1>1, <1>3, LenProperties
<1>. QED
  BY <1>1, <1>2, <1>3, <1>4, SumIs

\* An average above a threshold is a surplus.
LEMMA AveragesAgree ==
  ASSUME NEW e, NEW n, NumbersOf(e, n), NEW t \in Int, NEW op \in Comparison
  PROVE  CompareNumber(SumOf(Measured(e)), op, t * Len(e))
           <=> CompareNumber(SumOf([k \in 1..n |-> e[k].numeric - t]), op, 0)
<1>. DEFINE y == Measured(e)
            one == [k \in 1..n |-> 1]
            q == [k \in 1..n |-> e[k].numeric - t]
<1>1. /\ n \in Nat \ {0} /\ Len(e) = n /\ y = [k \in 1..n |-> e[k].numeric]
      /\ y \in [1..n -> Int] /\ SumOf(y) = Total(y, 1..n)
  BY MeasuredIs
<1>2. IsFiniteSet(1..n) /\ Cardinality(1..n) = n
  BY <1>1, FS_Interval
<1>3. one \in [1..n -> Int] /\ q \in [1..n -> Int] /\ DOMAIN q = 1..n
  BY DEF NumbersOf
<1>4. SumOf(q) = Total(q, 1..n)
  <2>. HIDE DEF q
  <2>. QED
    BY <1>3, SumIs
<1>5. PICK u, v : u = 1 /\ v = -t
  OBVIOUS
<1>6. u \in Int /\ v \in Int
  BY <1>5
<1>7. Combines(q, u, y, v, one, 1..n)
  <2>1. ASSUME NEW k \in 1..n PROVE q[k] = u * y[k] + v * one[k]
    <3>1. y[k] = e[k].numeric /\ e[k].numeric \in Int /\ q[k] = e[k].numeric - t /\ one[k] = 1
      BY <1>1 DEF NumbersOf
    <3>2. \A z \in Int : z - t = 1 * z + (-t) * 1
      OBVIOUS
    <3>. QED
      BY <1>5, <3>1, <3>2
  <2>. HIDE DEF q, y, one
  <2>. QED
    BY <1>1, <1>2, <1>3, <1>6, <2>1 DEF Combines
<1>8. Total(q, 1..n) = u * Total(y, 1..n) + v * Total(one, 1..n)
  <2>. HIDE DEF q, y, one
  <2>. QED
    BY <1>7, TotalLinear
<1>9. Total(one, 1..n) = n
  <2>1. 1 \in Int
    OBVIOUS
  <2>2. Total(one, 1..n) = 1 * Cardinality(1..n)
    BY <1>2, <2>1, TotalConstant
  <2>. QED
    BY <1>1, <1>2, <2>2
<1>10. PICK s \in Int : s = Total(y, 1..n)
  BY <1>1, SumType
<1>11. Total(q, 1..n) = s - t * n
  <2>1. 1 * s + (-t) * n = s - t * n
    BY <1>1
  <2>. HIDE DEF q, y, one
  <2>. QED
    BY <1>5, <1>8, <1>9, <1>10, <2>1
<1>. HIDE DEF q, y, one
<1>12. CompareNumber(s, op, t * n) <=> CompareNumber(s - t * n, op, 0)
  <2>1. PICK b \in Int : b = t * n
    BY <1>1
  <2>2. s - b \in Int /\ s - b = (s - b) - 0 /\ 0 \in Int
    OBVIOUS
  <2>3. CompareNumber(s, op, b) <=> CompareNumber(s - b, op, 0)
    BY <2>2, ShiftCompares
  <2>. QED
    BY <2>1, <2>3
<1>. QED
  BY <1>1, <1>4, <1>10, <1>11, <1>12 DEF q, y


LEMMA ProductSum ==
  ASSUME NEW n, NEW f, NEW g
  PROVE  /\ SumOf(Product(n, f, g)) = Total(Product(n, f, g), 1..n)
         /\ SumOf(Places(n)) = Total(Places(n), 1..n)
<1>1. DOMAIN Product(n, f, g) = 1..n /\ DOMAIN Places(n) = 1..n
  BY DEF Product, Places
<1>. QED
  BY <1>1, SumIs

LEMMA SlopesAgree ==
  ASSUME NEW e, NEW n, NumbersOf(e, n), NEW t \in Int, NEW op \in Comparison
  PROVE  SlopeCompares(Measured(e), op, t)
           <=> CompareNumber(
                 2 * SumOf([k \in 1..n |-> (2 * k - n - 1) * e[k].numeric]), op,
                 t * SumOf([k \in 1..n |-> (2 * k - n - 1) * (2 * k - n - 1)]))
<1>1. PICK y : y = Measured(e)
  OBVIOUS
<1>2. /\ n \in Nat \ {0} /\ y \in [1..n -> Int] /\ Len(y) = n /\ SumOf(y) = Total(y, 1..n)
      /\ y = [k \in 1..n |-> e[k].numeric]
  BY <1>1, MeasuredIs
<1>3. PICK X, XX, XY, Y :
        /\ X = Total(Places(n), 1..n) /\ Y = Total(y, 1..n)
        /\ XX = Total(Product(n, Places(n), Places(n)), 1..n)
        /\ XY = Total(Product(n, Places(n), y), 1..n)
  OBVIOUS
<1>4. SlopeCompares(y, op, t) <=> CompareNumber(n * XY - X * Y, op, t * (n * XX - X * X))
  <2>1. SumOf([k \in 1..n |-> Places(n)[k] * y[k]]) = XY
        /\ SumOf([k \in 1..n |-> Places(n)[k] * Places(n)[k]]) = XX
    BY <1>3, ProductSum, Zenon DEF Product
  <2>2. SumOf(Places(n)) = X /\ SumOf(y) = Y
    BY <1>2, <1>3, ProductSum, Zenon
  <2>3. SlopeCompares(y, op, t)
          <=> CompareNumber(n * SumOf([k \in 1..n |-> Places(n)[k] * y[k]])
                              - SumOf(Places(n)) * SumOf(y), op,
                            t * (n * SumOf([k \in 1..n |-> Places(n)[k] * Places(n)[k]])
                                   - SumOf(Places(n)) * SumOf(Places(n))))
    BY <1>2, Zenon DEF SlopeCompares, Places
  <2>. QED
    BY <2>1, <2>2, <2>3, Zenon
<1>5. PICK U, Q : /\ U = Total(Product(n, Centred(n), y), 1..n)
                  /\ Q = Total(Product(n, Centred(n), Centred(n)), 1..n)
  OBVIOUS
<1>6. CompareNumber(n * XY - X * Y, op, t * (n * XX - X * X))
        <=> CompareNumber(2 * U, op, t * Q)
  BY <1>2, <1>3, <1>5, SlopesCompare
<1>7. /\ SumOf([k \in 1..n |-> (2 * k - n - 1) * e[k].numeric]) = U
      /\ SumOf([k \in 1..n |-> (2 * k - n - 1) * (2 * k - n - 1)]) = Q
  <2>1. Product(n, Centred(n), y) = [k \in 1..n |-> (2 * k - n - 1) * e[k].numeric]
    BY <1>2 DEF Product, Centred
  <2>2. Product(n, Centred(n), Centred(n)) = [k \in 1..n |-> (2 * k - n - 1) * (2 * k - n - 1)]
    BY <1>2 DEF Product, Centred
  <2>3. SumOf(Product(n, Centred(n), y)) = U /\ SumOf(Product(n, Centred(n), Centred(n))) = Q
    BY <1>5, ProductSum
  <2>. QED
    BY <2>1, <2>2, <2>3, Zenon
<1>. QED
  BY <1>1, <1>4, <1>6, <1>7, Zenon

\* A difference, in absolute terms and as a part of where it began.
LEMMA DeltasAgree ==
  ASSUME NEW f \in Int, NEW l \in Int, NEW t \in Int, NEW op \in Comparison
  PROVE  /\ CompareNumber(l - f, op, t) <=> CompareNumber(l, op, f + t)
         /\ CompareNumber((l - f) * 100, op, t * (IF f < 0 THEN -f ELSE f))
              <=> CompareNumber(100 * l, op,
                    100 * f + t * (IF f < 0 THEN -1 ELSE 1) * f)
<1>1. CompareNumber(l - f, op, t) <=> CompareNumber(l, op, f + t)
  <2>1. /\ l - f \in Int /\ f + t \in Int /\ (l - f) - t = l - (f + t)
    OBVIOUS
  <2>. QED
    BY <2>1, ShiftCompares
<1>2. PICK g \in Int : g = IF f < 0 THEN -f ELSE f
  OBVIOUS
<1>3. t * (IF f < 0 THEN -1 ELSE 1) * f = t * g
  <2>1. CASE f < 0
    <3>1. (t * (-1)) * f = t * (-f)
      OBVIOUS
    <3>. QED
      BY <1>2, <2>1, <3>1
  <2>2. CASE ~(f < 0)
    BY <1>2, <2>2
  <2>. QED
    BY <2>1, <2>2
<1>4. CompareNumber((l - f) * 100, op, t * g) <=> CompareNumber(100 * l, op, 100 * f + t * g)
  <2>1. PICK b \in Int : b = t * g
    OBVIOUS
  <2>2. /\ (l - f) * 100 \in Int /\ 100 * l \in Int /\ 100 * f + b \in Int
        /\ (l - f) * 100 - b = 100 * l - (100 * f + b)
    OBVIOUS
  <2>3. CompareNumber((l - f) * 100, op, b) <=> CompareNumber(100 * l, op, 100 * f + b)
    BY <2>2, ShiftCompares
  <2>. QED
    BY <2>1, <2>3
<1>. QED
  BY <1>1, <1>2, <1>3, <1>4, Zenon


\* The fields of a rule that is accepted.
LEMMA RuleFields ==
  ASSUME NEW r \in Rule, r # NoRule, NEW type, RuleAccepted(r, type)
  PROVE  /\ r.window \in Nat \ {0}
         /\ r.type \in {"consecutive", "count"} \cup Numeric
         /\ r.type = "count" => r.minimum \in Nat
         /\ r.type \in Numeric => /\ type = "number"
                                  /\ r.threshold \in Int /\ r.op \in Comparison
         /\ r.type = "delta" => r.mode \in {"absolute", "percent"}
<1>1. r.window \in 1..MaxWindow
  BY DEF RuleAccepted
<1>2. r.window \in Nat \ {0}
  BY <1>1, BoardAssumption
<1>3. r.type = "count" => r.minimum \in Nat
  BY <1>1, <1>2 DEF RuleAccepted
<1>4. r.type \in Numeric => type = "number" /\ r.op \in Comparison
  BY DEF RuleAccepted
<1>5. r.type = "delta" => r.mode \in {"absolute", "percent"}
  BY DEF RuleAccepted
<1>6. r.type \in {"consecutive", "count"} \cup Numeric /\ (r.type \in Numeric => r.threshold \in Int)
  BY DEF Rule, Numeric
<1>. QED
  BY <1>2, <1>3, <1>4, <1>5, <1>6

LEMMA RuleMeans ==
  ASSUME NEW r \in Rule, r # NoRule, NEW type, RuleAccepted(r, type),
         NEW e, WindowOf(e, r.window), r.type \in Numeric => NumbersOf(e, r.window)
  PROVE  Matches(r, e) <=> Means(r, e)
<1>1. PICK n : n = r.window
  OBVIOUS
<1>2. n \in Nat \ {0} /\ Len(e) = n /\ WindowOf(e, n)
  BY <1>1 DEF WindowOf
<1>3. CASE r.type = "consecutive"
  <2>1. CountAbnormal(e) = Len(e) <=> \A k \in 1..n : e[k].state # "success"
    BY <1>2, AbnormalCounted, Zenon
  <2>2. Matches(r, e) <=> CountAbnormal(e) = Len(e)
    BY <1>3, Zenon DEF Matches
  <2>3. Means(r, e) <=> \A k \in 1..Len(e) : e[k].state # "success"
    BY <1>3, Zenon DEF Means
  <2>. QED
    BY <1>2, <2>1, <2>2, <2>3, Zenon
<1>4. CASE r.type = "count"
  <2>1. r.minimum \in Nat
    BY <1>4, RuleFields
  <2>2. CountAbnormal(e) >= r.minimum <=>
          \E T \in SUBSET (1..n) : /\ Cardinality(T) = r.minimum
                                   /\ \A k \in T : e[k].state = "failure"
    BY <1>2, <2>1, AbnormalCounted, Zenon
  <2>3. Matches(r, e) <=> CountAbnormal(e) >= r.minimum
    BY <1>4, Zenon DEF Matches
  <2>4. Means(r, e) <=> \E T \in SUBSET (1..Len(e)) :
                          /\ Cardinality(T) = r.minimum
                          /\ \A k \in T : e[k].state = "failure"
    BY <1>4, Zenon DEF Means
  <2>. QED
    BY <1>2, <2>2, <2>3, <2>4, Zenon
<1>5. CASE r.type \in Numeric
  <2>1. /\ NumbersOf(e, n) /\ r.threshold \in Int /\ r.op \in Comparison
        /\ r.type = "delta" => r.mode \in {"absolute", "percent"}
    BY <1>1, <1>5, RuleFields, Zenon
  <2>2. CASE r.type = "average"
    <3>1. Matches(r, e) <=> CompareNumber(SumOf(Measured(e)), r.op, r.threshold * Len(e))
      BY <2>2, Zenon DEF Matches
    <3>2. Means(r, e) <=>
            CompareNumber(SumOf([k \in 1..Len(e) |-> e[k].numeric - r.threshold]), r.op, 0)
      BY <2>2, Zenon DEF Means
    <3>3. CompareNumber(SumOf(Measured(e)), r.op, r.threshold * Len(e))
            <=> CompareNumber(SumOf([k \in 1..n |-> e[k].numeric - r.threshold]), r.op, 0)
      BY <2>1, AveragesAgree, Zenon
    <3>. QED
      BY <1>2, <3>1, <3>2, <3>3, Zenon
  <2>3. CASE r.type = "slope"
    <3>1. Matches(r, e) <=> SlopeCompares(Measured(e), r.op, r.threshold)
      BY <2>3, Zenon DEF Matches
    <3>2. Means(r, e) <=>
            CompareNumber(
              2 * SumOf([k \in 1..Len(e) |-> (2 * k - Len(e) - 1) * e[k].numeric]), r.op,
              r.threshold * SumOf([k \in 1..Len(e) |->
                                     (2 * k - Len(e) - 1) * (2 * k - Len(e) - 1)]))
      BY <2>3, Zenon DEF Means
    <3>3. SlopeCompares(Measured(e), r.op, r.threshold) <=>
            CompareNumber(
              2 * SumOf([k \in 1..n |-> (2 * k - n - 1) * e[k].numeric]), r.op,
              r.threshold * SumOf([k \in 1..n |-> (2 * k - n - 1) * (2 * k - n - 1)]))
      BY <2>1, SlopesAgree, Zenon
    <3>. QED
      BY <1>2, <3>1, <3>2, <3>3, Zenon
  <2>4. CASE r.type = "delta"
    <3>1. e[1].numeric \in Int /\ e[n].numeric \in Int
      <4>1. 1 \in 1..n /\ n \in 1..n
        BY <1>2
      <4>. QED
        BY <2>1, <4>1 DEF NumbersOf
    <3>2. Matches(r, e) <=> DeltaCompares(r, e[1].numeric, e[n].numeric)
      BY <1>2, <2>4, Zenon DEF Matches
    <3>3. PICK f \in Int, l \in Int : f = e[1].numeric /\ l = e[n].numeric
      BY <3>1
    <3>4. CASE r.mode = "absolute"
      <4>1. Matches(r, e) <=> CompareNumber(l - f, r.op, r.threshold)
        BY <3>2, <3>3, <3>4, Zenon DEF DeltaCompares
      <4>2. Means(r, e) <=> CompareNumber(l, r.op, f + r.threshold)
        BY <1>2, <2>4, <3>3, <3>4, Zenon DEF Means
      <4>. QED
        BY <2>1, <4>1, <4>2, DeltasAgree, Zenon
    <3>5. CASE r.mode = "percent"
      <4>1. Matches(r, e) <=> CompareNumber((l - f) * 100, r.op,
                                            r.threshold * (IF f < 0 THEN -f ELSE f))
        BY <3>2, <3>3, <3>5, Zenon DEF DeltaCompares
      <4>2. Means(r, e) <=> CompareNumber(100 * l, r.op,
                              100 * f + r.threshold * (IF f < 0 THEN -1 ELSE 1) * f)
        BY <1>2, <2>4, <3>3, <3>5, Zenon DEF Means
      <4>. QED
        BY <2>1, <4>1, <4>2, DeltasAgree, Zenon
    <3>. QED
      BY <2>1, <2>4, <3>4, <3>5
  <2>. QED
    BY <1>5, <2>2, <2>3, <2>4 DEF Numeric
<1>. QED
  BY <1>3, <1>4, <1>5, RuleFields


\* What buildSample makes of an outcome.
SampledFrom(c, x) == \E o \in Outcomes : x = Sample(c, o)

LEMMA SampleIs ==
  ASSUME NEW c \in Configuration, NEW x, SampledFrom(c, x)
  PROVE  /\ x.state \in {"success", "failure", "unknown"}
         /\ c.type = "number" /\ x.state # "unknown" => x.numeric \in Int /\ x.numeric # Missing
<1>1. PICK o \in Outcomes : x = Sample(c, o)
  BY DEF SampledFrom
<1>2. o.value \in Int \cup {Missing} /\ Missing \notin Int
  BY BoardAssumption
<1>3. ASSUME NEW level, NEW v
      PROVE  /\ Leveled(level, v).state \in {"success", "failure"}
             /\ Leveled(level, v).numeric = v
  BY DEF Leveled
<1>4. Unknown.state = "unknown"
  BY DEF Unknown
<1>5. CASE c.type = "boolean"
  <2>1. x = BooleanSample(c, o.cond)
    BY <1>1, <1>5, Zenon DEF Sample
  <2>2. x = Unknown \/ \E level : x = Leveled(level, Missing)
    BY <2>1, Zenon DEF BooleanSample
  <2>. QED
    BY <1>3, <1>4, <1>5, <2>2
<1>6. CASE c.type = "text"
  <2>1. x = TextSample(c, o.value)
    BY <1>1, <1>6, Zenon DEF Sample
  <2>2. x = Unknown \/ \E level : x = Leveled(level, Missing)
    BY <2>1, Zenon DEF TextSample
  <2>. QED
    BY <1>3, <1>4, <1>6, <2>2
<1>7. CASE c.type = "number"
  <2>1. x = NumberSample(c, o.value)
    BY <1>1, <1>7, Zenon DEF Sample
  <2>2. CASE o.value = Missing
    BY <1>4, <2>1, <2>2 DEF NumberSample
  <2>3. CASE o.value # Missing
    <3>1. (\E level : x = Leveled(level, o.value)) \/ x = [Unknown EXCEPT !.numeric = o.value]
      BY <2>1, <2>3, Zenon DEF NumberSample
    <3>2. [Unknown EXCEPT !.numeric = o.value].state = "unknown"
      BY DEF Unknown
    <3>3. CASE \E level : x = Leveled(level, o.value)
      BY <1>2, <1>3, <2>3, <3>3
    <3>4. CASE x = [Unknown EXCEPT !.numeric = o.value]
      BY <3>2, <3>4, Zenon
    <3>. QED
      BY <3>1, <3>3, <3>4
  <2>. QED
    BY <2>2, <2>3
<1>. QED
  BY <1>5, <1>6, <1>7 DEF Configuration

\* The verdict of a rule on a window that is complete.
LEMMA VerdictMeans ==
  ASSUME NEW c \in Configuration, c.rule # NoRule, RuleAccepted(c.rule, c.type),
         NEW samples, Len(samples) \in Nat, Len(samples) >= c.rule.window,
         NEW e, e = Newest(c.rule.window, samples),
         DOMAIN e = 1..c.rule.window, Len(e) = c.rule.window,
         \A k \in DOMAIN e : SampledFrom(c, e[k])
  PROVE  EvaluateTrend(c.rule, samples) =
           IF ~Decidable(c.rule, e) THEN "unknown"
           ELSE IF Means(c.rule, e) THEN "true" ELSE "false"
<1>1. PICK r \in Rule : r = c.rule
  BY DEF Configuration
<1>2. PICK n : n = r.window
  OBVIOUS
<1>3. n \in Nat \ {0} /\ (r.type \in Numeric => c.type = "number")
  BY <1>1, <1>2, RuleFields
<1>4. DOMAIN e = 1..n /\ Len(e) = n /\ 1 \in DOMAIN e
  BY <1>1, <1>2, <1>3
<1>5. ~(Len(samples) < n)
  BY <1>1, <1>2, <1>3
<1>6. \A k \in DOMAIN e : e[k].state \in {"success", "failure", "unknown"}
  BY SampleIs, Zenon
<1>7. r.type \in Numeric => \A k \in DOMAIN e : e[k].state # "unknown" =>
                              e[k].numeric \in Int /\ e[k].numeric # Missing
  BY <1>3, SampleIs, Zenon
<1>8. e # <<>>
  BY <1>4
<1>9. Undecided(r, samples) <=>
        \/ \E k \in DOMAIN e : e[k].state = "unknown"
        \/ r.type \in Numeric /\ \E k \in DOMAIN e : e[k].numeric = Missing
        \/ (r.type = "delta" /\ r.mode = "percent") /\ e[1].numeric = 0
  BY <1>1, <1>2, <1>5, Zenon DEF Undecided
<1>10. Decidable(r, e) <=>
         /\ \A k \in DOMAIN e : e[k].state # "unknown"
         /\ (r.type = "delta" /\ r.mode = "percent") => e[1].numeric # 0
  BY <1>8, Zenon DEF Decidable
<1>11. Undecided(r, samples) <=> ~Decidable(r, e)
  BY <1>7, <1>9, <1>10, Zenon
<1>12. ASSUME Decidable(r, e)
       PROVE  Matches(r, e) <=> Means(r, e)
  <2>1. \A k \in DOMAIN e : e[k].state # "unknown"
    BY <1>10, <1>12, Zenon
  <2>2. \A k \in 1..n : e[k].state \in {"success", "failure"}
    BY <1>4, <1>6, <2>1
  <2>3. WindowOf(e, n)
    BY <1>3, <1>4, <2>2 DEF WindowOf
  <2>4. r.type \in Numeric => NumbersOf(e, n)
    BY <1>4, <1>7, <2>1, <2>3 DEF NumbersOf
  <2>. QED
    BY <1>1, <1>2, <2>3, <2>4, RuleMeans
<1>13. EvaluateTrend(r, samples) = IF Undecided(r, samples) THEN "unknown"
                                   ELSE IF Matches(r, e) THEN "true" ELSE "false"
  BY <1>1, Zenon DEF EvaluateTrend
<1>. QED
  BY <1>1, <1>11, <1>12, <1>13, Zenon


-----------------------------------------------------------------------------
(* The records a trend rule is judged on *)

\* One step of Started, and the function that is all of them.
Kept1(t, kept, r) == IF r.at >= t THEN Append(kept, r) ELSE kept
KeptOf(t, q, s, h) ==
  IF s = {} THEN <<>> ELSE Kept1(t, h[s \ {Max(s)}], q[Max(s)])
KeptFunction(t, q) ==
  CHOOSE h : h = [s \in SUBSET DOMAIN q |-> KeptOf(t, q, s, h)]

LEMMA StartedUnfolds ==
  ASSUME NEW q
  PROVE  Started(q) = KeptFunction(item.startedAt, q)[DOMAIN q]
BY DEF Started, FoldLeft, MapThenFoldSet, KeptFunction, KeptOf, Kept1

ListOf(q, n, R) == n \in Nat /\ q \in [1..n -> R]

LEMMA KeptDefined ==
  ASSUME NEW R, NEW n, NEW q, ListOf(q, n, R), NEW t
  PROVE  \A s \in SUBSET (1..n) : KeptFunction(t, q)[s] = KeptOf(t, q, s, KeptFunction(t, q))
<1>. DEFINE D == 1..n
            c == [s \in SUBSET D |-> Max(s)]
            step == [x \in D \X Seq(R) |-> Kept1(t, x[2], q[x[1]])]
<1>1. IsFiniteSet(D) /\ DOMAIN q = D
  BY FS_Interval DEF ListOf
<1>2. \A s \in SUBSET D : c[s] = Max(s) /\ (s # {} => Max(s) \in s)
  BY MaxIn DEF ListOf
<1>3. /\ step \in [D \X Seq(R) -> Seq(R)]
      /\ \A k \in D, w \in Seq(R) : step[<<k, w>>] = Kept1(t, w, q[k])
  BY DEF Kept1, ListOf
<1>4. <<>> \in Seq(R)
  OBVIOUS
<1>. HIDE DEF c, step, D
<1>5. PICK g \in [SUBSET D -> Seq(R)] : IsFold(g, D, c, <<>>, step)
  <2>1. Picks(c, D)
    BY <1>2 DEF Picks
  <2>. QED
    BY <1>1, <1>3, <1>4, <2>1, FoldExists, Zenon
<1>6. ASSUME NEW s \in SUBSET D PROVE g[s] = KeptOf(t, q, s, g)
  <2>1. CASE s = {}
    BY <1>5, <2>1 DEF IsFold, KeptOf
  <2>2. CASE s # {}
    <3>1. Max(s) \in D /\ s \ {Max(s)} \in SUBSET D /\ g[s \ {Max(s)}] \in Seq(R)
      BY <1>2, <1>5, <2>2
    <3>2. g[s] = step[<<Max(s), g[s \ {Max(s)}]>>]
      BY <1>2, <1>5, <2>2 DEF IsFold
    <3>3. g[s] = Kept1(t, g[s \ {Max(s)}], q[Max(s)])
      BY <1>3, <3>1, <3>2
    <3>. QED
      BY <2>2, <3>3 DEF KeptOf
  <2>. QED
    BY <2>1, <2>2
<1>7. g = [s \in SUBSET D |-> KeptOf(t, q, s, g)]
  BY <1>6
<1>8. KeptFunction(t, q) = [s \in SUBSET D |-> KeptOf(t, q, s, KeptFunction(t, q))]
  BY <1>1, <1>7 DEF KeptFunction
<1>. QED
  BY <1>8 DEF D

\* The elements of q from a time on are those after the m-th.
LateFrom(q, n, t, m) == \A i \in 1..n : q[i].at >= t <=> i > m

\* What is kept of a list, when that is all after the m-th.
KeptAfter(R, n, q, m) ==
  /\ Started(q) \in Seq(R) /\ Len(Started(q)) = n - m
  /\ \A j \in 1..(n - m) : Started(q)[j] = q[m + j]

\* Of a list whose records from place m + 1 on are recent enough, these are kept,
\* in their order.
LEMMA StartedIs ==
  ASSUME NEW R, NEW n \in Nat, NEW q \in [1..n -> R], NEW m \in 0..n,
         NEW t, t = item.startedAt, LateFrom(q, n, t, m)
  PROVE  KeptAfter(R, n, q, m)
<1>. DEFINE h == KeptFunction(t, q)
            Size(k) == IF k <= m THEN 0 ELSE k - m
            Good(g, k) == /\ g \in Seq(R) /\ Len(g) = Size(k)
                          /\ \A j \in 1..Size(k) : g[j] = q[m + j]
            T == {k \in Nat : k <= n => Good(h[1..k], k)}
<1>1. \A s \in SUBSET (1..n) : h[s] = KeptOf(t, q, s, h)
  <2>1. ListOf(q, n, R)
    BY DEF ListOf
  <2>2. \A u : \A s \in SUBSET (1..n) : KeptFunction(u, q)[s] = KeptOf(u, q, s, KeptFunction(u, q))
    BY <2>1, KeptDefined
  <2>3. PICK u : u = t
    OBVIOUS
  <2>4. PICK y : y = KeptFunction(u, q)
    OBVIOUS
  <2>5. \A s \in SUBSET (1..n) : y[s] = KeptOf(u, q, s, y)
    BY <2>2, <2>4, Zenon
  <2>6. y = h /\ u = t
    BY <2>3, <2>4
  <2>. HIDE DEF h
  <2>. QED
    BY <2>5, <2>6
<1>2. \A i \in 1..n : q[i].at >= t <=> i > m
  BY DEF LateFrom
<1>. HIDE DEF h
<1>3. 0 \in T
  <2>1. 1..0 = {} /\ Size(0) = 0
    OBVIOUS
  <2>2. h[{}] = <<>>
    BY <1>1 DEF KeptOf
  <2>3. Good(<<>>, 0)
    BY <2>1
  <2>. HIDE DEF Good, Size
  <2>. QED
    BY <2>1, <2>2, <2>3
<1>4. ASSUME NEW k \in T PROVE k + 1 \in T
  <2>1. ASSUME k + 1 <= n PROVE Good(h[1..(k + 1)], k + 1)
    <3>1. k \in Nat /\ k <= n /\ Good(h[1..k], k)
      <4>. HIDE DEF Good
      <4>1. k \in Nat /\ (k <= n => Good(h[1..k], k))
        BY <1>4
      <4>. QED
        BY <2>1, <4>1
    <3>2. PICK s : s = 1..(k + 1)
      OBVIOUS
    <3>3. s \in SUBSET (1..n) /\ s # {} /\ k + 1 \in s /\ \A x \in s : x <= k + 1
      <4>1. k + 1 \in 1..(k + 1) /\ \A x \in 1..(k + 1) : x <= k + 1
        BY <3>1
      <4>2. \A x \in 1..(k + 1) : x \in 1..n
        BY <2>1, <3>1
      <4>. QED
        BY <3>2, <4>1, <4>2, Zenon
    <3>4. Max(s) = k + 1
      BY <3>3, MaxIs
    <3>5. s \ {k + 1} = 1..k
      BY <3>1, <3>2
    <3>6. h[s] = Kept1(t, h[1..k], q[k + 1])
      <4>1. h[s] = KeptOf(t, q, s, h)
        BY <1>1, <3>3
      <4>. QED
        BY <3>3, <3>4, <3>5, <4>1 DEF KeptOf
    <3>7. PICK g \in Seq(R) : g = h[1..k] /\ Good(g, k)
      BY <3>1
    <3>8. k + 1 \in 1..n /\ q[k + 1] \in R
      BY <2>1, <3>1
    <3>9. CASE k + 1 > m
      <4>1. h[s] = Append(g, q[k + 1])
        BY <1>2, <3>6, <3>7, <3>8, <3>9 DEF Kept1
      <4>2. Len(g) = k - m /\ k - m \in Nat /\ Size(k + 1) = (k - m) + 1
            /\ \A j \in 1..(k - m) : g[j] = q[m + j]
        <5>1. Size(k) = k - m /\ k - m \in Nat /\ Size(k + 1) = (k - m) + 1
          BY <3>1, <3>9
        <5>. HIDE DEF Size
        <5>. QED
          BY <3>7, <5>1
      <4>3. /\ Append(g, q[k + 1]) \in Seq(R) /\ Len(Append(g, q[k + 1])) = (k - m) + 1
            /\ \A j \in 1..(k - m) : Append(g, q[k + 1])[j] = g[j]
            /\ Append(g, q[k + 1])[(k - m) + 1] = q[k + 1]
        <5>1. PICK a : a = Append(g, q[k + 1])
          OBVIOUS
        <5>2. /\ a \in Seq(R) /\ Len(a) = Len(g) + 1 /\ a[Len(g) + 1] = q[k + 1]
              /\ \A j \in 1..Len(g) : a[j] = g[j]
          BY <3>7, <3>8, <5>1, AppendProperties
        <5>. QED
          BY <4>2, <5>1, <5>2, Zenon
      <4>4. ASSUME NEW j \in 1..((k - m) + 1)
            PROVE  Append(g, q[k + 1])[j] = q[m + j]
        <5>1. CASE j \in 1..(k - m)
          BY <4>2, <4>3, <5>1
        <5>2. CASE j = (k - m) + 1
          <6>1. m + j = k + 1
            BY <3>1, <5>2
          <6>. QED
            BY <4>3, <5>2, <6>1
        <5>. QED
          BY <4>2, <5>1, <5>2
      <4>5. Good(Append(g, q[k + 1]), k + 1)
        BY <4>2, <4>3, <4>4
      <4>. HIDE DEF Good
      <4>. QED
        BY <3>2, <4>1, <4>5
    <3>10. CASE ~(k + 1 > m)
      <4>1. h[s] = g
        BY <1>2, <3>6, <3>7, <3>8, <3>10 DEF Kept1
      <4>2. Size(k) = 0 /\ Size(k + 1) = 0
        BY <3>1, <3>10
      <4>3. Good(g, k + 1)
        BY <3>7, <4>2
      <4>. HIDE DEF Good
      <4>. QED
        BY <3>2, <4>1, <4>3
    <3>. QED
      BY <3>9, <3>10
  <2>2. k + 1 \in Nat
    BY <1>4
  <2>. HIDE DEF Good
  <2>. QED
    BY <2>1, <2>2
<1>5. T = Nat
  <2>. HIDE DEF T
  <2>1. T \subseteq Nat
    BY DEF T
  <2>. QED
    BY <1>3, <1>4, <2>1, InductiveSet
<1>6. Good(h[1..n], n)
  <2>1. n \in T
    BY <1>5
  <2>. HIDE DEF Good
  <2>. QED
    BY <2>1
<1>7. Started(q) = h[1..n]
  <2>1. DOMAIN q = 1..n
    OBVIOUS
  <2>. QED
    BY <2>1, StartedUnfolds DEF h
<1>8. Size(n) = n - m
  OBVIOUS
<1>. HIDE DEF Size
<1>. QED
  BY <1>6, <1>7, <1>8 DEF KeptAfter


\* What the history remembers is what is kept of the executions that began since
\* the evaluation last started: they are the last of the records, and whatever is
\* in flight is later than all of them.
Tracks(rs, ss, start, last) ==
  /\ last # 0 => \A k \in 1..Len(rs) : rs[k].at < last
  /\ Len(ss) <= Len(rs)
  /\ \A k \in 1..Len(rs) : rs[k].at >= start <=> k > Len(rs) - Len(ss)
  /\ \A k \in 1..Len(ss) : ss[k] = rs[Len(rs) - Len(ss) + k].outcome

HistoryKept == Tracks(records, since, item.startedAt, running)

LEMMA TracksAnew ==
  ASSUME NEW last \in Nat, NEW rs \in Seq(RecordOf(last)), NEW ss, NEW start, NEW r,
         Tracks(rs, ss, start, r)
  PROVE  /\ Tracks(rs, ss, start, last)
         /\ Tracks(rs, <<>>, last, r)
         /\ \A u : Tracks(<<>>, <<>>, u, r)
<1>1. PICK n \in Nat : n = Len(rs)
  BY SMT
<1>2. ASSUME NEW k \in 1..n PROVE rs[k].at \in Int /\ rs[k].at < last
  <2>1. rs[k] \in RecordOf(last)
    BY <1>1, <1>2, SMT
  <2>. QED
    BY <2>1, SMT DEF RecordOf
<1>3. Len(<<>>) = 0
  BY SMT
<1>4. Tracks(rs, ss, start, last)
  BY <1>1, <1>2, Zenon DEF Tracks
<1>5. Tracks(rs, <<>>, last, r)
  <2>1. r # 0 => \A k \in 1..n : rs[k].at < r
    BY <1>1, Zenon DEF Tracks
  <2>2. \A k \in 1..n : rs[k].at >= last <=> k > n - 0
    BY <1>1, <1>2, SMT
  <2>3. 0 <= n /\ 1..0 = {}
    BY <1>1, SMT
  <2>. QED
    BY <1>1, <1>3, <2>1, <2>2, <2>3, Zenon DEF Tracks
<1>6. ASSUME NEW u PROVE Tracks(<<>>, <<>>, u, r)
  <2>1. 1..0 = {} /\ 0 <= 0
    BY SMT
  <2>. QED
    BY <1>3, <2>1, Zenon DEF Tracks
<1>. QED
  BY <1>4, <1>5, <1>6

LEMMA TracksFinished ==
  ASSUME NEW last \in Nat, NEW rs \in Seq(RecordOf(last)), NEW ss \in Seq(Outcomes),
         NEW start \in Nat, NEW r \in Nat, r # 0, NEW o \in Outcomes, NEW x,
         x.at = r, x.outcome = o, Tracks(rs, ss, start, r)
  PROVE  /\ r < start => Tracks(Append(rs, x), ss, start, 0) /\ Len(ss) = 0
         /\ ~(r < start) => Tracks(Append(rs, x), Append(ss, o), start, 0)
<1>1. PICK n \in Nat, f \in Nat : n = Len(rs) /\ f = Len(ss)
  BY SMT
<1>2. PICK q, p : q = Append(rs, x) /\ p = Append(ss, o)
  OBVIOUS
<1>3. /\ Len(q) = n + 1 /\ q[n + 1] = x
      /\ \A k \in 1..n : q[k] = rs[k]
  <2>1. rs \in Seq(RecordOf(last) \cup {x})
    BY SeqGrows
  <2>. QED
    BY <1>1, <1>2, <2>1, AppendProperties
<1>4. Len(p) = f + 1 /\ p[f + 1] = o /\ \A k \in 1..f : p[k] = ss[k]
  BY <1>1, <1>2, AppendProperties
<1>5. /\ f <= n
      /\ \A k \in 1..n : rs[k].at < r
      /\ \A k \in 1..n : rs[k].at >= start <=> k > n - f
      /\ \A k \in 1..f : ss[k] = rs[n - f + k].outcome
  BY <1>1, Zenon DEF Tracks
<1>6. ASSUME NEW k \in 1..n PROVE rs[k].at \in Int
  <2>1. rs[k] \in RecordOf(last)
    BY <1>1, SMT
  <2>. QED
    BY <2>1, SMT DEF RecordOf
<1>7. ASSUME NEW k \in 1..(n + 1) PROVE k \in 1..n \/ k = n + 1
  BY SMT
<1>8. ASSUME r < start
      PROVE  Tracks(q, ss, start, 0) /\ f = 0
  <2>1. f = 0
    <3>1. SUFFICES ASSUME f # 0 PROVE FALSE
      OBVIOUS
    <3>2. n \in 1..n /\ n > n - f
      BY <1>5, <3>1, SMT
    <3>3. rs[n].at >= start /\ rs[n].at < r /\ rs[n].at \in Int
      BY <1>5, <1>6, <3>2
    <3>. QED
      BY <1>8, <3>3, SMT
  <2>2. ASSUME NEW k \in 1..(n + 1) PROVE q[k].at >= start <=> k > (n + 1) - 0
    <3>1. CASE k = n + 1
      BY <1>3, <1>8, <3>1, SMT
    <3>2. CASE k \in 1..n
      <4>1. rs[k].at >= start <=> k > n - 0
        BY <1>5, <2>1, <3>2
      <4>2. q[k].at >= start <=> k > n
        BY <1>3, <3>2, <4>1
      <4>. QED
        BY <3>2, <4>2, SMT
    <3>. QED
      BY <1>7, <3>1, <3>2
  <2>3. 0 <= n + 1 /\ 1..0 = {}
    BY SMT
  <2>. QED
    BY <1>1, <1>3, <2>1, <2>2, <2>3, Zenon DEF Tracks
<1>9. ASSUME ~(r < start)
      PROVE  Tracks(q, p, start, 0)
  <2>1. (n + 1) - (f + 1) = n - f /\ f + 1 <= n + 1
    BY <1>5, SMT
  <2>2. ASSUME NEW k \in 1..(n + 1) PROVE q[k].at >= start <=> k > n - f
    <3>1. CASE k = n + 1
      BY <1>3, <1>9, <3>1, SMT
    <3>2. CASE k \in 1..n
      BY <1>3, <1>5, <3>2
    <3>. QED
      BY <1>7, <3>1, <3>2
  <2>3. ASSUME NEW k \in 1..(f + 1) PROVE p[k] = q[n - f + k].outcome
    <3>1. CASE k = f + 1
      <4>1. n - f + k = n + 1
        BY <3>1, SMT
      <4>. QED
        BY <1>3, <1>4, <3>1, <4>1
    <3>2. CASE k \in 1..f
      <4>1. n - f + k \in 1..n
        BY <1>5, <3>2, SMT
      <4>. QED
        BY <1>3, <1>4, <1>5, <3>2, <4>1
    <3>. QED
      BY <3>1, <3>2, SMT
  <2>. QED
    BY <1>3, <1>4, <2>1, <2>2, <2>3, Zenon DEF Tracks
<1>. QED
  BY <1>1, <1>2, <1>8, <1>9, Zenon


LEMMA TracksPruned ==
  ASSUME NEW last \in Nat, NEW rs \in Seq(RecordOf(last)), NEW ss \in Seq(Outcomes),
         NEW start, NEW r, Tracks(rs, ss, start, r), rs # <<>>
  PROVE  Tracks(Tail(rs), Newest(Len(rs) - 1, ss), start, r)
<1>1. PICK n \in Nat, f \in Nat : n = Len(rs) /\ f = Len(ss)
  BY SMT
<1>2. n # 0
  BY <1>1, EmptySeq
<1>3. PICK m \in Nat : m = n - 1
  BY <1>2, SMT
<1>4. PICK q, p, e : q = Tail(rs) /\ p = Newest(m, ss) /\ e = IF f < m THEN f ELSE m
  OBVIOUS
<1>5. Len(q) = m /\ \A k \in 1..m : q[k] = rs[k + 1]
  <2>1. Len(q) = Len(rs) - 1 /\ \A k \in 1..(Len(rs) - 1) : q[k] = rs[k + 1]
    BY <1>4, HeadTailProperties
  <2>. QED
    BY <1>1, <1>3, <2>1
<1>6. e \in Nat /\ Len(p) = e /\ \A k \in 1..e : p[k] = ss[f - e + k]
  <2>1. e \in Nat /\ LastOf(p, ss, e)
    BY <1>1, <1>4, NewestIs, Zenon
  <2>. QED
    BY <1>1, <2>1, Zenon DEF LastOf
<1>7. /\ r # 0 => \A k \in 1..n : rs[k].at < r
      /\ f <= n
      /\ \A k \in 1..n : rs[k].at >= start <=> k > n - f
      /\ \A k \in 1..f : ss[k] = rs[n - f + k].outcome
  BY <1>1, Zenon DEF Tracks
<1>8. e <= m /\ e <= f
  BY <1>4, SMT
<1>9. ASSUME NEW k \in 1..m PROVE k + 1 \in 1..n /\ (k + 1 > n - f <=> k > m - e)
  <2>1. k + 1 \in 1..n
    BY <1>3, SMT
  <2>2. CASE f < m
    BY <1>3, <1>4, <2>2, SMT
  <2>3. CASE ~(f < m)
    BY <1>3, <1>4, <1>7, <2>3, SMT
  <2>. QED
    BY <2>1, <2>2, <2>3
<1>10. ASSUME NEW k \in 1..m PROVE q[k].at >= start <=> k > m - e
  BY <1>5, <1>7, <1>9, <1>10
<1>11. r # 0 => \A k \in 1..m : q[k].at < r
  BY <1>5, <1>7, <1>9
<1>12. ASSUME NEW k \in 1..e PROVE p[k] = q[m - e + k].outcome
  <2>1. f - e + k \in 1..f /\ m - e + k \in 1..m
        /\ n - f + (f - e + k) = (m - e + k) + 1
    BY <1>3, <1>6, <1>8, SMT
  <2>2. p[k] = ss[f - e + k] /\ ss[f - e + k] = rs[n - f + (f - e + k)].outcome
    BY <1>6, <1>7, <2>1
  <2>3. q[m - e + k] = rs[(m - e + k) + 1]
    BY <1>5, <2>1
  <2>. QED
    BY <2>1, <2>2, <2>3
<1>13. Tracks(q, p, start, r)
  BY <1>5, <1>6, <1>8, <1>10, <1>11, <1>12, Zenon DEF Tracks
<1>. QED
  BY <1>1, <1>3, <1>4, <1>13, Zenon


HistoryIInv == BoardIInv /\ HistoryKept

LEMMA HistoryNext ==
  HistoryKept' <=> Tracks(records', since', item'.startedAt, running')
BY Zenon DEF HistoryKept, Tracks

LEMMA HistoryStart == BoardInit => HistoryKept
<1>. SUFFICES ASSUME BoardInit PROVE HistoryKept
  OBVIOUS
<1>1. records = <<>> /\ since = <<>> /\ running = 0
  BY Zenon DEF BoardInit
<1>2. Len(<<>>) = 0 /\ 1..0 = {} /\ 0 <= 0
  BY SMT
<1>. QED
  BY <1>1, <1>2, Zenon DEF HistoryKept, Tracks

\* An evaluation leaves the row but for its activity.
LEMMA StartedAtStays ==
  ASSUME BoardIInv, NEW record
  PROVE  /\ EvaluateExecution(record).startedAt = item.startedAt
         /\ EvaluateExecution(record).config = item.config
<1>1. item \in ItemRow(ItemConfigs, clock)
  BY BoardParts, Zenon
<1>2. \A a : [item EXCEPT !.active = a].startedAt = item.startedAt
             /\ [item EXCEPT !.active = a].config = item.config
  BY <1>1, SMT DEF ItemRow
<1>3. CASE ~item.enabled \/ item.config.rule = NoRule
  BY <1>3, Zenon DEF EvaluateExecution
<1>4. CASE ~(~item.enabled \/ item.config.rule = NoRule)
  <2>1. \E a : EvaluateExecution(record) = [item EXCEPT !.active = a]
    BY <1>4, Zenon DEF EvaluateExecution
  <2>. QED
    BY <1>2, <2>1, Zenon
<1>. QED
  BY <1>3, <1>4

LEMMA HistoryStep ==
  HistoryIInv /\ [BoardNext]_boardVars => HistoryKept'
<1>. SUFFICES ASSUME HistoryIInv, [BoardNext]_boardVars PROVE HistoryKept'
  OBVIOUS
<1>1. /\ BoardIInv /\ item \in ItemRow(ItemConfigs, clock)
      /\ records \in Seq(RecordOf(clock)) /\ since \in Seq(Outcomes)
      /\ running \in 0..(clock - 1) /\ clock \in 1..(MaxExecutions + 1)
  BY BoardParts, Zenon DEF HistoryIInv
<1>2. clock \in Nat /\ clock # 0 /\ running \in Nat
  BY <1>1, BoardAssumption, SMT
<1>3. item.startedAt \in Nat
  BY <1>1, <1>2, SMT DEF ItemRow
<1>4. Tracks(records, since, item.startedAt, running)
  BY Zenon DEF HistoryIInv, HistoryKept
<1>5. CASE Begin
  <2>1. records' = records /\ since' = since /\ item' = item /\ running' = clock
    BY <1>5, Zenon DEF Begin
  <2>2. Tracks(records, since, item.startedAt, clock)
    BY <1>1, <1>2, <1>4, TracksAnew, Zenon
  <2>. QED
    BY <2>1, <2>2, HistoryNext, Zenon
<1>6. CASE FinishExecution
  <2>0. PICK outcome \in Outcomes :
          /\ item' = EvaluateExecution([at |-> running, outcome |-> outcome])
          /\ records' = Append(records, [at |-> running, outcome |-> outcome])
          /\ since' = IF running < item.startedAt THEN since ELSE Append(since, outcome)
    BY <1>6, Zenon DEF FinishExecution
  <2>1. PICK record : /\ record = [at |-> running, outcome |-> outcome]
                      /\ item' = EvaluateExecution(record)
                      /\ records' = Append(records, record)
    BY <2>0
  <2>2. running # 0 /\ running' = 0 /\ item'.startedAt = item.startedAt
    BY <1>1, <1>6, <2>1, StartedAtStays, Zenon DEF FinishExecution
  <2>3. record.at = running /\ record.outcome = outcome
    BY <2>1
  <2>4. /\ running < item.startedAt => Tracks(Append(records, record), since, item.startedAt, 0)
        /\ ~(running < item.startedAt) =>
             Tracks(Append(records, record), Append(since, outcome), item.startedAt, 0)
    BY <1>1, <1>2, <1>3, <1>4, <2>2, <2>3, TracksFinished
  <2>. QED
    BY <2>0, <2>1, <2>2, <2>4, HistoryNext, Zenon
<1>7. CASE EditItem
  <2>1. records' = records /\ running' = running
    BY <1>7, Zenon DEF EditItem
  <2>2. \/ since' = since /\ item'.startedAt = item.startedAt
        \/ since' = <<>> /\ item'.startedAt = clock
    <3>1. PICK c \in Configs :
            IF Restarts(item.config, c)
            THEN /\ item' = [item EXCEPT !.config = Normalized(c),
                                         !.active = FALSE, !.startedAt = clock]
                 /\ since' = <<>>
            ELSE /\ item' = [item EXCEPT !.config = Normalized(c)]
                 /\ UNCHANGED since
      BY <1>7, Zenon DEF EditItem
    <3>2. PICK n : n = Normalized(c)
      OBVIOUS
    <3>3. CASE Restarts(item.config, c)
      <4>1. item' = [item EXCEPT !.config = n, !.active = FALSE, !.startedAt = clock]
            /\ since' = <<>>
        BY <3>1, <3>2, <3>3, Zenon
      <4>2. item'.startedAt = clock
        BY <1>1, <4>1, SMT DEF ItemRow
      <4>. QED
        BY <4>1, <4>2
    <3>4. CASE ~Restarts(item.config, c)
      <4>1. item' = [item EXCEPT !.config = n] /\ since' = since
        BY <3>1, <3>2, <3>4, Zenon
      <4>2. item'.startedAt = item.startedAt
        BY <1>1, <4>1, SMT DEF ItemRow
      <4>. QED
        BY <4>1, <4>2
    <3>. QED
      BY <3>3, <3>4
  <2>3. Tracks(records, <<>>, clock, running)
    BY <1>1, <1>2, <1>4, TracksAnew, Zenon
  <2>. QED
    BY <1>4, <2>1, <2>2, <2>3, HistoryNext, Zenon
<1>8. CASE Switch
  <2>1. records' = records /\ since' = since /\ running' = running
        /\ item' = [item EXCEPT !.enabled = ~@]
    BY <1>8, Zenon DEF Switch
  <2>2. item'.startedAt = item.startedAt
    BY <1>1, <2>1, SMT DEF ItemRow
  <2>. QED
    BY <1>4, <2>1, <2>2, HistoryNext, Zenon
<1>9. CASE ClearRecords
  <2>1. records' = <<>> /\ since' = <<>> /\ running' = running
    BY <1>9, Zenon DEF ClearRecords
  <2>2. \A u : Tracks(<<>>, <<>>, u, running)
    BY <1>1, <1>2, <1>4, TracksAnew, Zenon
  <2>. QED
    BY <2>1, <2>2, HistoryNext, Zenon
<1>10. CASE Prune
  <2>1. records # <<>> /\ records' = Tail(records) /\ since' = Newest(Len(records) - 1, since)
        /\ running' = running /\ item' = item
    BY <1>10, Zenon DEF Prune
  <2>2. Tracks(Tail(records), Newest(Len(records) - 1, since), item.startedAt, running)
    BY <1>1, <1>2, <1>4, <2>1, TracksPruned, Zenon
  <2>. QED
    BY <2>1, <2>2, HistoryNext, Zenon
<1>11. CASE UNCHANGED boardVars
  <2>1. records' = records /\ since' = since /\ running' = running /\ item' = item
    BY <1>11, Zenon DEF boardVars
  <2>. QED
    BY <1>4, <2>1, HistoryNext, Zenon
<1>. QED
  BY <1>5, <1>6, <1>7, <1>8, <1>9, <1>10, <1>11, Zenon DEF BoardNext

-----------------------------------------------------------------------------
(* Trend rules follow their meaning *)

\* A rule needs no more than a page of records beside the new one: a larger page
\* would be replaced by the default one (normalizePage).
WindowsFitPages ==
  \A c \in Configs :
    RuleAccepted(c.rule, c.type) /\ c.rule # NoRule => c.rule.window - 1 <= MaxPage

LEMMA PageHolds ==
  ASSUME NEW w \in Nat \ {0}, w - 1 <= MaxPage
  PROVE  PageSize(w - 1) \in Nat \ {0} /\ PageSize(w - 1) >= w - 1
<1>1. DefaultPage \in 1..MaxPage /\ MaxPage \in Nat
  BY BoardAssumption
<1>2. CASE w - 1 \in 1..MaxPage
  BY <1>1, <1>2, SMT DEF PageSize
<1>3. CASE w - 1 \notin 1..MaxPage
  BY <1>1, <1>3, SMT DEF PageSize
<1>. QED
  BY <1>2, <1>3

\* What EvaluateExecution lists: the last records and the new one.
LEMMA ListedIs ==
  ASSUME HistoryIInv, NEW w \in Nat \ {0}, w - 1 <= MaxPage, NEW x \in RecordOf(clock)
  PROVE  \E e \in Nat : \E q \in [1..(e + 1) -> RecordOf(clock)] :
           /\ q = Append(ListRecords(w - 1), x)
           /\ e <= Len(records) /\ (e < Len(records) => e >= w - 1)
           /\ q[e + 1] = x
           /\ \A k \in 1..e : q[k] = records[Len(records) - e + k]
<1>1. records \in Seq(RecordOf(clock))
  BY BoardParts, Zenon DEF HistoryIInv
<1>2. PICK p : p = PageSize(w - 1)
  OBVIOUS
<1>3. p \in Nat \ {0} /\ p >= w - 1
  BY <1>2, PageHolds
<1>4. PICK n \in Nat : n = Len(records)
  BY <1>1, SMT
<1>5. PICK e : e = IF n < p THEN n ELSE p
  OBVIOUS
<1>6. PICK r : r = ListRecords(w - 1)
  OBVIOUS
<1>7. r \in Seq(RecordOf(clock)) /\ e \in Nat /\ LastOf(r, records, e)
  <2>1. r = Newest(p, records)
    BY <1>2, <1>6, Zenon DEF ListRecords
  <2>2. p \in Nat
    BY <1>3
  <2>. QED
    BY <1>1, <1>4, <1>5, <2>1, <2>2, NewestIs, Zenon
<1>8. Len(r) = e /\ \A k \in 1..e : r[k] = records[n - e + k]
  BY <1>4, <1>7, Zenon DEF LastOf
<1>9. PICK q : q = Append(r, x)
  OBVIOUS
<1>10. /\ q \in Seq(RecordOf(clock)) /\ Len(q) = e + 1 /\ q[e + 1] = x
       /\ \A k \in 1..e : q[k] = r[k]
  BY <1>7, <1>8, <1>9, AppendProperties
<1>11. q \in [1..(e + 1) -> RecordOf(clock)]
  BY <1>10, LenProperties
<1>12. e <= n /\ (e < n => e >= w - 1)
  BY <1>3, <1>5, SMT
<1>13. /\ q = Append(ListRecords(w - 1), x)
       /\ e <= Len(records) /\ (e < Len(records) => e >= w - 1)
       /\ q[e + 1] = x
       /\ \A k \in 1..e : q[k] = records[Len(records) - e + k]
  BY <1>4, <1>6, <1>8, <1>9, <1>10, <1>12, Zenon
<1>. QED
  BY <1>7, <1>11, <1>13, Zenon

\* A list that is recent from one place on.
RecentFrom(R, n, q, m) ==
  n \in Nat /\ q \in [1..n -> R] /\ m \in 0..n /\ LateFrom(q, n, item.startedAt, m)

LEMMA StartedFrom ==
  ASSUME NEW R, NEW n, NEW q, NEW m, RecentFrom(R, n, q, m)
  PROVE  KeptAfter(R, n, q, m)
<1>1. n \in Nat /\ q \in [1..n -> R] /\ m \in 0..n /\ LateFrom(q, n, item.startedAt, m)
  BY DEF RecentFrom
<1>2. PICK t : t = item.startedAt
  OBVIOUS
<1>3. LateFrom(q, n, t, m)
  BY <1>1, <1>2
<1>. QED
  BY <1>1, <1>2, <1>3, StartedIs

\* Those of them that are evidence: as many of the executions since the evaluation
\* started as there are, up to the window.
Fresh(s, ss, f, g, w) ==
  /\ s \in Seq(RecordOf(clock)) /\ Len(s) = g
  /\ ss \in Seq(Outcomes) /\ Len(ss) = f
  /\ g <= f /\ (g < f => g >= w)
  /\ \A k \in 1..g : s[k].outcome = ss[f - g + k]

LEMMA FreshIs ==
  ASSUME HistoryIInv, NEW w \in Nat \ {0}, w - 1 <= MaxPage,
         running # 0, NEW o \in Outcomes, NEW x \in RecordOf(clock), x.at = running, x.outcome = o,
         NEW ss, running < item.startedAt => ss = since,
         ~(running < item.startedAt) => ss = Append(since, o)
  PROVE  \E f, g \in Nat : Fresh(Started(Append(ListRecords(w - 1), x)), ss, f, g, w)
<1>1. /\ records \in Seq(RecordOf(clock)) /\ since \in Seq(Outcomes)
      /\ item \in ItemRow(ItemConfigs, clock) /\ clock \in Nat /\ running \in Nat
  <2>1. /\ item \in ItemRow(ItemConfigs, clock)
        /\ records \in Seq(RecordOf(clock)) /\ since \in Seq(Outcomes)
        /\ running \in 0..(clock - 1) /\ clock \in 1..(MaxExecutions + 1)
    BY BoardParts, Zenon DEF HistoryIInv
  <2>. QED
    BY <2>1, BoardAssumption, SMT
<1>2. PICK t \in Nat : t = item.startedAt
  BY <1>1, SMT DEF ItemRow
<1>3. PICK n \in Nat, f \in Nat : n = Len(records) /\ f = Len(since)
  BY <1>1, SMT
<1>4. /\ \A k \in 1..n : records[k].at < running
      /\ f <= n
      /\ \A k \in 1..n : records[k].at >= t <=> k > n - f
      /\ \A k \in 1..f : since[k] = records[n - f + k].outcome
  BY <1>2, <1>3, Zenon DEF HistoryIInv, HistoryKept, Tracks
<1>5. PICK e \in Nat : \E q \in [1..(e + 1) -> RecordOf(clock)] :
        /\ q = Append(ListRecords(w - 1), x)
        /\ e <= n /\ (e < n => e >= w - 1)
        /\ q[e + 1] = x
        /\ \A k \in 1..e : q[k] = records[n - e + k]
  <2>1. \E e \in Nat : \E q \in [1..(e + 1) -> RecordOf(clock)] :
          /\ q = Append(ListRecords(w - 1), x)
          /\ e <= Len(records) /\ (e < Len(records) => e >= w - 1)
          /\ q[e + 1] = x
          /\ \A k \in 1..e : q[k] = records[Len(records) - e + k]
    BY ListedIs
  <2>. QED
    BY <1>3, <2>1, Zenon
<1>5a. PICK q \in [1..(e + 1) -> RecordOf(clock)] :
        /\ q = Append(ListRecords(w - 1), x)
        /\ e <= n /\ (e < n => e >= w - 1)
        /\ q[e + 1] = x
        /\ \A k \in 1..e : q[k] = records[n - e + k]
  BY <1>5
<1>6. ASSUME NEW k \in 1..e
      PROVE  q[k].at >= t <=> k > e - f
  <2>1. n - e + k \in 1..n /\ (n - e + k > n - f <=> k > e - f)
    BY <1>5a, SMT
  <2>. QED
    BY <1>4, <1>5a, <2>1
<1>7. ASSUME NEW m \in 0..(e + 1), \A k \in 1..(e + 1) : q[k].at >= t <=> k > m
      PROVE  /\ Started(q) \in Seq(RecordOf(clock)) /\ Len(Started(q)) = (e + 1) - m
             /\ \A j \in 1..((e + 1) - m) : Started(q)[j] = q[m + j]
  <2>1. PICK u \in Nat : u = e + 1
    BY SMT
  <2>2. /\ q \in [1..u -> RecordOf(clock)] /\ m \in 0..u
        /\ \A k \in 1..u : q[k].at >= t <=> k > m
    BY <1>5a, <1>7, <2>1, Zenon
  <2>3. /\ Started(q) \in Seq(RecordOf(clock)) /\ Len(Started(q)) = u - m
        /\ \A k \in 1..(u - m) : Started(q)[k] = q[m + k]
    <3>1. LateFrom(q, u, item.startedAt, m)
      BY <1>2, <2>2, Zenon DEF LateFrom
    <3>2. RecentFrom(RecordOf(clock), u, q, m)
      BY <2>1, <2>2, <3>1 DEF RecentFrom
    <3>3. KeptAfter(RecordOf(clock), u, q, m)
      BY <3>2, StartedFrom
    <3>. QED
      BY <3>3, Zenon DEF KeptAfter
  <2>. QED
    BY <2>1, <2>3, Zenon
<1>8. ASSUME NEW k \in 1..(e + 1) PROVE k \in 1..e \/ k = e + 1
  BY SMT
<1>9. PICK s : s = Started(q)
  OBVIOUS
<1>10. CASE running < t
  <2>1. f = 0 /\ ss = since
    <3>1. ss = since
      BY <1>2, <1>10, Zenon
    <3>2. /\ running # 0 /\ Tracks(records, since, t, running)
      BY <1>2, Zenon DEF HistoryIInv, HistoryKept
    <3>3. Len(since) = 0
      BY <1>1, <1>10, <3>2, TracksFinished
    <3>. QED
      BY <1>3, <3>1, <3>3
  <2>2. ASSUME NEW k \in 1..(e + 1) PROVE q[k].at >= t <=> k > e + 1
    <3>1. CASE k = e + 1
      BY <1>1, <1>2, <1>5a, <1>10, <3>1, SMT
    <3>2. CASE k \in 1..e
      <4>1. ~(k > e - f) /\ ~(k > e + 1)
        BY <2>1, <3>2, SMT
      <4>. QED
        BY <1>6, <3>2, <4>1
    <3>. QED
      BY <1>8, <3>1, <3>2
  <2>3. e + 1 \in 0..(e + 1) /\ (e + 1) - (e + 1) = 0 /\ 1..0 = {} /\ 0 \in Nat /\ 0 <= 0 /\ ~(0 < 0)
    BY SMT
  <2>4. s \in Seq(RecordOf(clock)) /\ Len(s) = 0
    BY <1>7, <1>9, <2>2, <2>3, Zenon
  <2>5. ss \in Seq(Outcomes) /\ Len(ss) = 0
    BY <1>1, <1>3, <2>1
  <2>6. Fresh(s, ss, 0, 0, w)
    BY <2>3, <2>4, <2>5, Zenon DEF Fresh
  <2>. QED
    BY <1>5a, <1>9, <2>3, <2>6, Zenon
<1>11. CASE ~(running < t)
  <2>1. ss = Append(since, o)
    BY <1>2, <1>11, Zenon
  <2>2. /\ ss \in Seq(Outcomes) /\ Len(ss) = f + 1 /\ ss[f + 1] = o
        /\ \A k \in 1..f : ss[k] = since[k]
    BY <1>1, <1>3, <2>1, AppendProperties
  <2>3. PICK m : m = IF e > f THEN e - f ELSE 0
    OBVIOUS
  <2>4. PICK g : g = (e + 1) - m
    OBVIOUS
  <2>5. /\ m \in 0..(e + 1) /\ g \in Nat /\ g >= 1 /\ g <= f + 1 /\ (g < f + 1 => g >= w)
        /\ \A k \in 1..e : k > m <=> k > e - f
        /\ e + 1 > m /\ m + g = e + 1
    <3>1. CASE e > f
      BY <1>5a, <2>3, <2>4, <3>1, SMT
    <3>2. CASE ~(e > f)
      BY <1>4, <1>5a, <2>3, <2>4, <3>2, SMT
    <3>. QED
      BY <3>1, <3>2
  <2>6. ASSUME NEW k \in 1..(e + 1) PROVE q[k].at >= t <=> k > m
    <3>1. CASE k = e + 1
      BY <1>1, <1>5a, <1>11, <2>5, <3>1, SMT
    <3>2. CASE k \in 1..e
      BY <1>6, <2>5, <3>2
    <3>. QED
      BY <1>8, <3>1, <3>2
  <2>7. s \in Seq(RecordOf(clock)) /\ Len(s) = g /\ \A j \in 1..g : s[j] = q[m + j]
    BY <1>7, <1>9, <2>4, <2>5, <2>6, Zenon
  <2>8. ASSUME NEW k \in 1..g PROVE s[k].outcome = ss[(f + 1) - g + k]
    <3>1. s[k] = q[m + k]
      BY <2>7
    <3>2. CASE k = g
      <4>1. m + k = e + 1 /\ (f + 1) - g + k = f + 1
        BY <2>5, <3>2, SMT
      <4>. QED
        BY <1>5a, <2>2, <3>1, <4>1
    <3>3. CASE k # g
      <4>1. m + k \in 1..e /\ (f + 1) - g + k \in 1..f
            /\ n - e + (m + k) = n - f + ((f + 1) - g + k)
        BY <2>5, <3>3, SMT
      <4>2. q[m + k] = records[n - e + (m + k)]
        BY <1>5a, <4>1
      <4>3. ss[(f + 1) - g + k] = since[(f + 1) - g + k]
            /\ since[(f + 1) - g + k] = records[n - f + ((f + 1) - g + k)].outcome
        BY <1>4, <2>2, <4>1
      <4>. QED
        BY <3>1, <4>1, <4>2, <4>3
    <3>. QED
      BY <3>2, <3>3
  <2>. QED
    <3>1. Fresh(s, ss, f + 1, g, w)
      BY <2>2, <2>5, <2>7, <2>8, Zenon DEF Fresh
    <3>2. f + 1 \in Nat /\ g \in Nat
      BY <2>5
    <3>. QED
      BY <1>5a, <1>9, <3>1, <3>2, Zenon
<1>. QED
  BY <1>10, <1>11

\* The evidence for a rule, in what the history remembers.
EvidenceOf(c, ss) ==
  IF Len(ss) < c.rule.window THEN <<>>
  ELSE [k \in 1..c.rule.window |-> Sample(c, ss[Len(ss) - c.rule.window + k])]

\* The samples that are handed to EvaluateTrend end with that evidence, and are
\* too few when it is incomplete.
TooFewOrNewest(c, ss, f, g, w, samples) ==
  /\ Len(samples) = g
  /\ g < w => f < w
  /\ ~(g < w) => /\ ~(f < w)
                 /\ Newest(w, samples) = [k \in 1..w |-> Sample(c, ss[f - w + k])]

LEMMA SamplesAre ==
  ASSUME NEW c, NEW s, NEW ss, NEW f \in Nat, NEW g \in Nat, NEW w \in Nat \ {0},
         Fresh(s, ss, f, g, w),
         NEW samples, samples = [k \in DOMAIN s |-> Sample(c, s[k].outcome)]
  PROVE  TooFewOrNewest(c, ss, f, g, w, samples)
<1>1. /\ s \in Seq(RecordOf(clock)) /\ Len(s) = g
      /\ ss \in Seq(Outcomes) /\ Len(ss) = f
      /\ g <= f /\ (g < f => g >= w)
      /\ \A k \in 1..g : s[k].outcome = ss[f - g + k]
  BY Zenon DEF Fresh
<1>2. DOMAIN s = 1..g
  BY <1>1, LenProperties
<1>3. PICK h : h = [k \in 1..g |-> Sample(c, ss[f - g + k])]
  OBVIOUS
<1>4. samples = h
  <2>1. samples = [k \in 1..g |-> Sample(c, s[k].outcome)]
    BY <1>2, Zenon
  <2>. QED
    BY <1>1, <1>3, <2>1, Zenon
<1>5. PICK S : S = {Sample(c, o) : o \in Outcomes}
  OBVIOUS
<1>6. h \in Seq(S) /\ Len(h) = g
  <2>1. ASSUME NEW k \in 1..g PROVE Sample(c, ss[f - g + k]) \in S
    <3>1. f - g + k \in 1..f
      BY <1>1, SMT
    <3>2. ss[f - g + k] \in Outcomes
      BY <1>1, <3>1
    <3>. QED
      BY <1>5, <3>2, Zenon
  <2>2. h \in [1..g -> S]
    BY <1>3, <2>1, Zenon
  <2>. QED
    BY <2>2
<1>7. g < w => f < w
  BY <1>1, SMT
<1>8. ASSUME ~(g < w)
      PROVE  ~(f < w) /\ Newest(w, h) = [k \in 1..w |-> Sample(c, ss[f - w + k])]
  <2>1. ~(f < w)
    BY <1>1, <1>8, SMT
  <2>2. PICK e : e = IF Len(h) < w THEN Len(h) ELSE w
    OBVIOUS
  <2>3. e = w
    BY <1>6, <1>8, <2>2, SMT
  <2>4. PICK z : z = Newest(w, h)
    OBVIOUS
  <2>5. z \in Seq(S) /\ LastOf(z, h, w)
    BY <1>6, <2>2, <2>3, <2>4, NewestIs
  <2>6. Len(z) = w /\ \A k \in 1..w : z[k] = h[g - w + k]
    BY <1>6, <2>5, Zenon DEF LastOf
  <2>7. ASSUME NEW k \in 1..w PROVE z[k] = Sample(c, ss[f - w + k])
    <3>1. g - w + k \in 1..g /\ f - g + (g - w + k) = f - w + k
      BY <1>8, SMT
    <3>2. h[g - w + k] = Sample(c, ss[f - g + (g - w + k)])
      BY <1>3, <3>1, Zenon
    <3>. QED
      BY <2>6, <3>1, <3>2, Zenon
  <2>8. z = [k \in 1..w |-> z[k]]
    BY <2>5, <2>6
  <2>9. z = [k \in 1..w |-> Sample(c, ss[f - w + k])]
    BY <2>7, <2>8, Zenon
  <2>. QED
    BY <2>1, <2>4, <2>9, Zenon
<1>. QED
  BY <1>4, <1>6, <1>7, <1>8, Zenon DEF TooFewOrNewest

\* The verdict on the samples is the meaning of the rule on the evidence.
LEMMA VerdictOf ==
  ASSUME NEW c \in Configuration, c.rule # NoRule, RuleAccepted(c.rule, c.type),
         NEW s, NEW ss, NEW f \in Nat, NEW g \in Nat,
         Fresh(s, ss, f, g, c.rule.window),
         NEW samples, samples = [k \in DOMAIN s |-> Sample(c, s[k].outcome)]
  PROVE  EvaluateTrend(c.rule, samples) =
           IF ~Decidable(c.rule, EvidenceOf(c, ss)) THEN "unknown"
           ELSE IF Means(c.rule, EvidenceOf(c, ss)) THEN "true" ELSE "false"
<1>1. PICK r \in Rule : r = c.rule
  BY DEF Configuration
<1>2. PICK w \in Nat \ {0} : w = c.rule.window
  BY <1>1, RuleFields
<1>3. PICK e : e = EvidenceOf(c, ss)
  OBVIOUS
<1>4. /\ Len(samples) = g
      /\ g < w => f < w
      /\ ~(g < w) => /\ ~(f < w)
                     /\ Newest(w, samples) = [k \in 1..w |-> Sample(c, ss[f - w + k])]
  <2>1. Fresh(s, ss, f, g, w)
    BY <1>2
  <2>2. PICK y : y = samples
    OBVIOUS
  <2>3. y = [k \in DOMAIN s |-> Sample(c, s[k].outcome)]
    BY <2>2
  <2>4. TooFewOrNewest(c, ss, f, g, w, y)
    BY <2>1, <2>3, SamplesAre
  <2>. QED
    BY <2>2, <2>4, Zenon DEF TooFewOrNewest
<1>5. ss \in Seq(Outcomes) /\ Len(ss) = f
  BY Zenon DEF Fresh
<1>6. e = IF f < w THEN <<>> ELSE [k \in 1..w |-> Sample(c, ss[f - w + k])]
  BY <1>2, <1>3, <1>5, Zenon DEF EvidenceOf
<1>7. CASE g < w
  <2>1. e = <<>>
    BY <1>4, <1>6, <1>7, Zenon
  <2>2. ~Decidable(c.rule, e)
    BY <2>1, Zenon DEF Decidable
  <2>3. Len(samples) < c.rule.window
    BY <1>2, <1>4, <1>7, Zenon
  <2>4. Undecided(c.rule, samples)
    BY <2>3, Zenon DEF Undecided
  <2>5. EvaluateTrend(c.rule, samples) = "unknown"
    BY <2>4, Zenon DEF EvaluateTrend
  <2>. QED
    BY <1>3, <2>2, <2>5, Zenon
<1>8. CASE ~(g < w)
  <2>1. /\ e = [k \in 1..w |-> Sample(c, ss[f - w + k])]
        /\ e = Newest(c.rule.window, samples)
    BY <1>2, <1>4, <1>6, <1>8, Zenon
  <2>2. ASSUME NEW k \in 1..w PROVE SampledFrom(c, e[k])
    <3>1. f - w + k \in 1..f
      BY <1>4, <1>8, SMT
    <3>2. ss[f - w + k] \in Outcomes
      BY <1>5, <3>1
    <3>. QED
      BY <2>1, <3>2, Zenon DEF SampledFrom
  <2>3. DOMAIN e = 1..c.rule.window
    BY <1>2, <2>1, Zenon
  <2>4. Len(e) = c.rule.window
    BY <1>2, <2>1
  <2>5. Len(samples) \in Nat /\ Len(samples) >= c.rule.window
    BY <1>2, <1>4, <1>8, SMT
  <2>6. \A k \in DOMAIN e : SampledFrom(c, e[k])
    BY <1>2, <2>2, <2>3, Zenon
  <2>7. EvaluateTrend(c.rule, samples) =
           IF ~Decidable(c.rule, e) THEN "unknown"
           ELSE IF Means(c.rule, e) THEN "true" ELSE "false"
    BY <2>1, <2>3, <2>4, <2>5, <2>6, VerdictMeans
  <2>. QED
    BY <1>3, <2>7, Zenon
<1>. QED
  BY <1>7, <1>8

\* The meaning of a rule is a truth value.
LEMMA MeansIsBoolean ==
  ASSUME NEW r \in Rule, r # NoRule, NEW type, RuleAccepted(r, type), NEW e
  PROVE  Means(r, e) \in BOOLEAN
<1>1. ASSUME NEW a, NEW b, NEW op \in Comparison
      PROVE  CompareNumber(a, op, b) \in BOOLEAN
  <2>1. CASE op = "gt"
    BY <2>1, SMT DEF CompareNumber
  <2>2. CASE op = "gte"
    BY <2>2, SMT DEF CompareNumber
  <2>3. CASE op = "lt"
    BY <2>3, SMT DEF CompareNumber
  <2>4. CASE op = "lte"
    BY <2>4, SMT DEF CompareNumber
  <2>. QED
    BY <2>1, <2>2, <2>3, <2>4 DEF Comparison
<1>2. /\ r.type \in {"consecutive", "count"} \cup Numeric
      /\ r.type \in Numeric => r.op \in Comparison
      /\ r.type = "delta" => r.mode \in {"absolute", "percent"}
  BY RuleFields
<1>3. CASE r.type = "consecutive"
  BY <1>3 DEF Means
<1>4. CASE r.type = "count"
  BY <1>4 DEF Means
<1>5. CASE r.type = "average"
  BY <1>1, <1>2, <1>5 DEF Means, Numeric
<1>6. CASE r.type = "delta"
  BY <1>1, <1>2, <1>6 DEF Means, Numeric
<1>7. CASE r.type = "slope"
  BY <1>1, <1>2, <1>7 DEF Means, Numeric
<1>. QED
  BY <1>2, <1>3, <1>4, <1>5, <1>6, <1>7, Zenon DEF Numeric

\* The rule of the stored item is that of a submitted configuration.
LEMMA StoredRule ==
  ASSUME BoardIInv
  PROVE  /\ item.config \in Configuration
         /\ RuleAccepted(item.config.rule, item.config.type)
         /\ \E c \in Configs : c.rule = item.config.rule /\ c.type = item.config.type
<1>1. item.config \in Configuration /\ RuleAccepted(item.config.rule, item.config.type)
  BY Zenon DEF BoardIInv, Storable, Accepted
<1>2. PICK c \in Configs : item.config = Normalized(c)
  BY BoardParts, SMT DEF ItemRow, ItemConfigs
<1>3. c \in Configuration
  BY BoardAssumption, Zenon
<1>4. Rewritten(Normalized(c), c, NewMappings(c), NewThresholds(c))
      /\ NewMappings(c) \in Seq(Mapping) /\ NewThresholds(c) \in Seq(Threshold)
  BY <1>3, NormalizedIs, Zenon
<1>5. Normalized(c).rule = c.rule /\ Normalized(c).type = c.type
  BY <1>3, <1>4, RewrittenIs
<1>. QED
  BY <1>1, <1>2, <1>5, Zenon

\* Only the end of an execution leaves none in flight.
LEMMA EndsByFinish ==
  ASSUME BoardIInv, [BoardNext]_boardVars, running # 0, running' = 0
  PROVE  FinishExecution
<1>1. ~Begin
  BY Zenon DEF Begin
<1>2. ~EditItem /\ ~Switch /\ ~ClearRecords /\ ~Prune
  BY Zenon DEF EditItem, Switch, ClearRecords, Prune
<1>3. ~UNCHANGED boardVars
  BY Zenon DEF boardVars
<1>. QED
  BY <1>1, <1>2, <1>3, Zenon DEF BoardNext

\* At the end of an execution the rule follows its meaning.
LEMMA TrendStep ==
  ASSUME WindowsFitPages, HistoryIInv, [BoardNext]_boardVars,
         running # 0, running' = 0, item.enabled, item.config.rule # NoRule
  PROVE  item'.active =
           IF Decidable(item.config.rule, Evidence(item.config))
           THEN Means(item.config.rule, Evidence(item.config))
           ELSE item.active
<1>0. BoardIInv
  BY DEF HistoryIInv
<1>1. FinishExecution
  BY <1>0, EndsByFinish
<1>2. PICK o \in Outcomes :
        /\ item' = EvaluateExecution([at |-> running, outcome |-> o])
        /\ since' = IF running < item.startedAt THEN since ELSE Append(since, o)
  BY <1>1, Zenon DEF FinishExecution
<1>3. PICK x : x = [at |-> running, outcome |-> o]
  OBVIOUS
<1>4. x \in RecordOf(clock) /\ x.at = running /\ x.outcome = o
  <2>1. running \in 0..(clock - 1) /\ clock \in 1..(MaxExecutions + 1)
    BY <1>0, BoardParts, Zenon
  <2>2. running \in 1..(clock - 1)
    BY <2>1, BoardAssumption, SMT
  <2>. QED
    BY <1>3, <2>2 DEF RecordOf
<1>5. PICK c \in Configuration : c = item.config
  BY <1>0, StoredRule
<1>6. c.rule \in Rule /\ c.rule # NoRule /\ RuleAccepted(c.rule, c.type)
  BY <1>0, <1>5, StoredRule, Zenon DEF Configuration
<1>7. PICK w \in Nat \ {0} : w = c.rule.window
  BY <1>6, RuleFields
<1>8. w - 1 <= MaxPage
  BY <1>0, <1>5, <1>6, <1>7, StoredRule, Zenon DEF WindowsFitPages
<1>9. PICK ss : ss = since'
  OBVIOUS
<1>10. PICK s : s = Started(Append(ListRecords(w - 1), x))
  OBVIOUS
<1>11. PICK f \in Nat, g \in Nat : Fresh(s, ss, f, g, w)
  <2>1. /\ running < item.startedAt => ss = since
        /\ ~(running < item.startedAt) => ss = Append(since, o)
    BY <1>2, <1>9, Zenon
  <2>2. \E f, g \in Nat : Fresh(Started(Append(ListRecords(w - 1), x)), ss, f, g, w)
    BY <1>4, <1>8, <2>1, FreshIs
  <2>. QED
    BY <1>10, <2>2, Zenon
<1>12. PICK samples : samples = TrendSamples(x, w)
  OBVIOUS
<1>13. samples = [k \in DOMAIN s |-> Sample(c, s[k].outcome)]
  BY <1>5, <1>10, <1>12, Zenon DEF TrendSamples
<1>14. PICK e : e = Evidence(item.config)
  OBVIOUS
<1>15. e = EvidenceOf(c, ss)
  BY <1>5, <1>9, <1>14, Zenon DEF Evidence, EvidenceOf
<1>16. EvaluateTrend(c.rule, samples) =
         IF ~Decidable(c.rule, e) THEN "unknown"
         ELSE IF Means(c.rule, e) THEN "true" ELSE "false"
  <2>1. Fresh(s, ss, f, g, c.rule.window)
    BY <1>7, <1>11, Zenon
  <2>. QED
    BY <1>6, <1>13, <1>15, <2>1, VerdictOf
<1>17. PICK v : v = EvaluateTrend(c.rule, samples)
  OBVIOUS
<1>18. item'.active = ActiveAfter(v, item.active)
  <2>1. EvaluateExecution(x) = [item EXCEPT !.active = ActiveAfter(v, @)]
    BY <1>5, <1>7, <1>12, <1>17, Zenon DEF EvaluateExecution
  <2>2. item' = [item EXCEPT !.active = ActiveAfter(v, @)]
    BY <1>2, <1>3, <2>1, Zenon
  <2>3. item \in ItemRow(ItemConfigs, clock)
    BY <1>0, BoardParts, Zenon
  <2>. QED
    BY <2>2, <2>3, SMT DEF ItemRow
<1>19. Means(c.rule, e) \in BOOLEAN
  BY <1>6, MeansIsBoolean
<1>20. item'.active = IF Decidable(c.rule, e) THEN Means(c.rule, e) ELSE item.active
  <2>1. CASE ~Decidable(c.rule, e)
    <3>1. v = "unknown"
      BY <1>16, <1>17, <2>1, Zenon
    <3>. QED
      BY <1>18, <2>1, <3>1 DEF ActiveAfter
  <2>2. CASE Decidable(c.rule, e) /\ Means(c.rule, e)
    <3>1. v = "true"
      BY <1>16, <1>17, <2>2, Zenon
    <3>. QED
      BY <1>18, <1>19, <2>2, <3>1 DEF ActiveAfter
  <2>3. CASE Decidable(c.rule, e) /\ ~Means(c.rule, e)
    <3>1. v = "false"
      BY <1>16, <1>17, <2>3, Zenon
    <3>. QED
      BY <1>18, <1>19, <2>3, <3>1 DEF ActiveAfter
  <2>. QED
    BY <2>1, <2>2, <2>3
<1>. QED
  BY <1>5, <1>14, <1>20, Zenon

\* After an execution a trend rule is active exactly when its meaning holds of the
\* executions since the last edit or reset, and stays as it was when that cannot be
\* decided: what is listed, kept, sampled, counted and summed by EvaluateExecution
\* and EvaluateTrend (internal/statusboard/service.go and evaluator.go) is right for
\* every history and every window that fits in a page.
THEOREM TrendRulesMean ==
  ASSUME WindowsFitPages
  PROVE  BoardSpec => TrendsMeanTheirRules
<1>1. HistoryIInv /\ [BoardNext]_boardVars =>
        [running # 0 /\ running' = 0 /\ item.enabled /\ item.config.rule # NoRule =>
           item'.active =
             IF Decidable(item.config.rule, Evidence(item.config))
             THEN Means(item.config.rule, Evidence(item.config))
             ELSE item.active]_boardVars
  BY TrendStep, Zenon
<1>2. BoardInit => HistoryKept
  BY HistoryStart
<1>3. BoardIInv /\ HistoryKept /\ [BoardNext]_boardVars => HistoryKept'
  BY HistoryStep, Zenon DEF HistoryIInv
<1>4. BoardIInv /\ HistoryKept => HistoryIInv
  BY Zenon DEF HistoryIInv
<1>. QED
  BY <1>1, <1>2, <1>3, <1>4, BoardInvariance, PTL DEF BoardSpec, TrendsMeanTheirRules
=============================================================================
