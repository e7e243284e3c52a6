--------------------------- MODULE RecursionProofs ---------------------------
(* What the other proofs take for induction: no operator is a parameter     *)
(* here, only numbers, sets and functions.  Least elements; functions that  *)
(* are defined by recursion over numbers, and folds over finite sets, exist.*)
EXTENDS FiniteSetsExt, FiniteSetTheorems, WellFoundedInduction, TLAPS

-----------------------------------------------------------------------------
(* Numbers *)

\* A non-empty set of naturals has a least element and Min returns it.
LEMMA MinOfNaturals ==
    ASSUME NEW S \in SUBSET Nat, S # {}
    PROVE  /\ Min(S) \in S
           /\ \A y \in S : Min(S) <= y
<1> DEFINE Less == { ss \in Nat \X Nat : ss[1] < ss[2] }
<1>1. IsWellFoundedOn(Less, Nat)
  BY NatLessThanWellFounded DEF OpToRel
<1>2. PICK x \in S : \A y \in S : ~ (<<y, x>> \in Less)
  BY <1>1, WFMin
<1>3. ASSUME NEW y \in S
      PROVE  x <= y
  <2>1. y \in Nat /\ x \in Nat /\ ~ (<<y, x>> \in Less)
    BY <1>2
  <2>2. ~ (y < x)
    BY <2>1
  <2> QED
    BY <2>1, <2>2
<1>4. QED
  BY <1>3 DEF Min

\* A non-empty set of naturals bounded by B has a greatest element and Max
\* returns it.
LEMMA MaxOfBounded ==
    ASSUME NEW B \in Nat, NEW S \in SUBSET (0 .. B), S # {}
    PROVE  /\ Max(S) \in S
           /\ \A y \in S : y <= Max(S)
<1> DEFINE T == { B - y : y \in S }
<1>1. T \in SUBSET Nat
  OBVIOUS
<1>2. T # {}
  OBVIOUS
<1>3. Min(T) \in T /\ \A z \in T : Min(T) <= z
  BY <1>1, <1>2, MinOfNaturals
<1>4. PICK x \in S : Min(T) = B - x
  BY <1>3
<1>5. \A y \in S : x >= y
  <2> TAKE y \in S
  <2>1. B - x <= B - y
    BY <1>3, <1>4
  <2> QED
    BY <2>1
<1>6. QED
  BY <1>5 DEF Max

\* A set that has 0, and with a number below n the next one, has all up to n.
LEMMA Climb ==
    ASSUME NEW n \in Nat, NEW S, 0 \in S, \A i \in 0..n - 1 : i \in S => i + 1 \in S
    PROVE  \A i \in 0..n : i \in S
<1> DEFINE Bad == {i \in 0..n : i \notin S}
<1> SUFFICES ASSUME Bad # {}
             PROVE  FALSE
  OBVIOUS
<1>1. Bad \in SUBSET Nat
  OBVIOUS
<1>2. PICK x \in Bad : \A y \in Bad : x <= y
  <2> HIDE DEF Bad
  <2> QED
    BY <1>1, MinOfNaturals
<1>3. x - 1 \in 0..n - 1 /\ x - 1 \notin Bad
  BY <1>2
<1> QED
  BY <1>2, <1>3

\* Step i of G leads from P[i] to P[i + 1], up to n.
Leads(P, G, n) == \A i \in 0..n - 1 : \A x \in P[i] : G[i][x] \in P[i + 1]

\* f is what the first n steps make of x, and stays in P.
Repeats(P, G, n, x, f) ==
    /\ f = [i \in 0..n |-> IF i = 0 THEN x ELSE G[i - 1][f[i - 1]]]
    /\ \A i \in 0..n : f[i] \in P[i]

\* From x0 in P[0], steps that lead from P[i] to P[i + 1] can be repeated.
LEMMA Iterates ==
    ASSUME NEW n \in Nat, NEW P, NEW G, Leads(P, G, n), NEW x0 \in P[0]
    PROVE  \E f : Repeats(P, G, n, x0, f)
<1> USE DEF Leads, Repeats
<1> DEFINE Upto(m, f) == /\ f = [i \in 0..m |-> IF i = 0 THEN x0 ELSE G[i - 1][f[i - 1]]]
                         /\ \A i \in 0..m : f[i] \in P[i]
           S == {m \in 0..n : \E f : Upto(m, f)}
<1>1. 0 \in S
  <2> DEFINE f == [i \in 0..0 |-> x0]
  <2>1. f[0] = x0 /\ \A i \in 0..0 : i = 0
    OBVIOUS
  <2>2. f = [i \in 0..0 |-> IF i = 0 THEN x0 ELSE G[i - 1][f[i - 1]]]
    <3> DEFINE h == [i \in 0..0 |-> IF i = 0 THEN x0 ELSE G[i - 1][f[i - 1]]]
    <3>1. \A i \in 0..0 : h[i] = f[i]
      BY <2>1
    <3>2. DOMAIN h = 0..0 /\ DOMAIN f = 0..0 /\ h = [i \in 0..0 |-> h[i]] /\ f = [i \in 0..0 |-> f[i]]
      OBVIOUS
    <3> HIDE DEF f, h
    <3>3. f = h
      BY <3>1, <3>2
    <3> QED
      BY <3>3 DEF h
  <2> HIDE DEF f
  <2>3. Upto(0, f)
    BY <2>1, <2>2
  <2>4. 0 \in 0..n
    OBVIOUS
  <2> QED
    BY <2>3, <2>4
<1>2. ASSUME NEW m \in 0..n - 1, m \in S
      PROVE  m + 1 \in S
  <2>1. PICK f : Upto(m, f)
    BY <1>2
  <2> DEFINE g == [i \in 0..m + 1 |-> IF i <= m THEN f[i] ELSE G[m][f[m]]]
  <2>2. \A i \in 0..m : g[i] = f[i]
    OBVIOUS
  <2>3. g[m + 1] = G[m][f[m]] /\ DOMAIN g = 0..m + 1
    OBVIOUS
  <2>4. f[m] \in P[m] /\ G[m][f[m]] \in P[m + 1]
    BY <2>1
  <2>5. g = [i \in 0..m + 1 |-> g[i]]
    OBVIOUS
  <2> HIDE DEF g
  <2>6. \A i \in 0..m + 1 : g[i] = IF i = 0 THEN x0 ELSE G[i - 1][g[i - 1]]
    <3> TAKE i \in 0..m + 1
    <3>1. CASE i = 0
      BY <2>1, <2>2, <3>1
    <3>2. CASE i \in 1..m
      <4>1. i \in 0..m /\ i - 1 \in 0..m /\ i # 0
        BY <3>2
      <4>2. f[i] = G[i - 1][f[i - 1]]
        BY <2>1, <4>1
      <4> QED
        BY <2>2, <4>1, <4>2
    <3>3. CASE i = m + 1
      <4>1. i - 1 = m /\ m \in 0..m /\ i # 0
        BY <3>3
      <4> QED
        BY <2>2, <2>3, <3>3, <4>1
    <3> QED
      BY <3>1, <3>2, <3>3
  <2>7. \A i \in 0..m + 1 : g[i] \in P[i]
    <3> TAKE i \in 0..m + 1
    <3>1. CASE i \in 0..m
      BY <2>1, <2>2, <3>1
    <3>2. CASE i = m + 1
      BY <2>3, <2>4, <3>2
    <3> QED
      BY <3>1, <3>2
  <2>8. g = [i \in 0..m + 1 |-> IF i = 0 THEN x0 ELSE G[i - 1][g[i - 1]]]
    BY <2>5, <2>6
  <2> QED
    BY <2>7, <2>8
<1>3. n \in S
  <2> HIDE DEF S
  <2>1. \A i \in 0..n - 1 : i \in S => i + 1 \in S
    BY <1>2
  <2>2. \A i \in 0..n : i \in S
    BY <1>1, <2>1, Climb
  <2> QED
    BY <2>2
<1> QED
  BY <1>3

-----------------------------------------------------------------------------
(* Finite sets *)

Some(s) == CHOOSE x \in s : TRUE

\* A subset of a finite set loses one of its elements.
LEMMA OneLess ==
    ASSUME NEW S, IsFiniteSet(S), NEW s \in SUBSET S, NEW x \in s
    PROVE  /\ IsFiniteSet(s) /\ Cardinality(s) \in Nat \ {0}
           /\ s \ {x} \in SUBSET S
           /\ Cardinality(s \ {x}) = Cardinality(s) - 1
<1>1. IsFiniteSet(s)
  BY FS_Subset
<1>2. Cardinality(s) \in Nat /\ Cardinality(s) # 0
  BY <1>1, FS_CardinalityType, FS_EmptySet
<1>3. Cardinality(s \ {x}) = Cardinality(s) - 1
  BY <1>1, FS_RemoveElement
<1> QED
  BY <1>1, <1>2, <1>3

\* What holds of a subset as soon as it holds of all smaller ones, holds of all.
LEMMA SmallerFirst ==
    ASSUME NEW S, IsFiniteSet(S), NEW F \in SUBSET SUBSET S, NEW Good,
           \A s \in F : (\A t \in F : Cardinality(t) < Cardinality(s) => t \in Good)
                           => s \in Good
    PROVE  F \subseteq Good
<1> DEFINE Bad == {Cardinality(s) : s \in F \ Good}
<1> SUFFICES ASSUME F \ Good # {}
             PROVE  FALSE
  OBVIOUS
<1>1. \A s \in SUBSET S : Cardinality(s) \in Nat
  BY FS_Subset, FS_CardinalityType
<1>2. Bad \in SUBSET Nat /\ Bad # {}
  BY <1>1
<1>3. PICK n \in Bad : \A m \in Bad : n <= m
  <2> HIDE DEF Bad
  <2> QED
    BY <1>2, MinOfNaturals
<1>4. PICK s \in F \ Good : n = Cardinality(s)
  BY <1>3
<1>5. ASSUME NEW t \in F, Cardinality(t) < Cardinality(s)
      PROVE  t \in Good
  <2>1. Cardinality(t) \in Nat /\ Cardinality(s) \in Nat
    BY <1>1
  <2>2. t \notin Good => Cardinality(s) <= Cardinality(t)
    BY <1>3, <1>4
  <2> QED
    BY <1>5, <2>1, <2>2
<1> QED
  BY <1>4, <1>5

\* What a fold makes of s: `base` of nothing, else what `step` makes of the
\* element that `pick` takes from s and of the fold of the others.
FoldOf(pick, step, base, g, s) ==
    IF s = {} THEN base ELSE step[pick[s]][g[s \ {pick[s]}]]

Folds(S, V, pick, step, base, g) ==
    /\ g \in [SUBSET S -> V]
    /\ \A s \in SUBSET S : g[s] = FoldOf(pick, step, base, g, s)

Picks(S, pick) == \A s \in SUBSET S : s # {} => pick[s] \in s

\* The folds of the subsets of a finite set exist: those of up to n elements
\* give those of n + 1.
LEMMA FoldExists ==
    ASSUME NEW S, IsFiniteSet(S), NEW V, NEW base \in V, NEW pick, Picks(S, pick),
           NEW step \in [S -> [V -> V]]
    PROVE  \E g : Folds(S, V, pick, step, base, g)
<1> DEFINE of(g, s) == FoldOf(pick, step, base, g, s)
           Upto(n, g) == /\ g \in [SUBSET S -> V]
                         /\ \A s \in SUBSET S : Cardinality(s) <= n => g[s] = of(g, s)
           N == Cardinality(S)
           Done == {n \in 0..N : \E g : Upto(n, g)}
<1>0. N \in Nat
  BY FS_CardinalityType
<1>1. \A s \in SUBSET S : Cardinality(s) \in Nat /\ (Cardinality(s) = 0 <=> s = {})
  BY FS_Subset, FS_CardinalityType, FS_EmptySet
<1>2. ASSUME NEW s \in SUBSET S, s # {}
      PROVE  /\ pick[s] \in S /\ s \ {pick[s]} \in SUBSET S
             /\ Cardinality(s \ {pick[s]}) = Cardinality(s) - 1
  <2>1. pick[s] \in s
    BY <1>2 DEF Picks
  <2> QED
    BY <2>1, OneLess
<1>3. 0 \in Done
  <2> DEFINE g == [s \in SUBSET S |-> base]
  <2>1. \A s \in SUBSET S : Cardinality(s) <= 0 => g[s] = of(g, s)
    BY <1>1 DEF FoldOf
  <2>2. g \in [SUBSET S -> V]
    OBVIOUS
  <2> HIDE DEF g
  <2>3. Upto(0, g)
    BY <2>1, <2>2
  <2> QED
    BY <1>0, <2>3
<1>4. ASSUME NEW n \in 0..N - 1, n \in Done
      PROVE  n + 1 \in Done
  <2>1. PICK g : Upto(n, g)
    BY <1>4
  <2> DEFINE h == [s \in SUBSET S |-> IF Cardinality(s) <= n THEN g[s] ELSE of(g, s)]
  <2>2. \A s \in SUBSET S : Cardinality(s) <= n => h[s] = g[s]
    OBVIOUS
  <2>3. \A s \in SUBSET S : h[s] = of(g, s)
    BY <2>1
  <2>4. \A s \in SUBSET S : of(g, s) \in V
    <3> TAKE s \in SUBSET S
    <3>1. CASE s = {}
      BY <3>1 DEF FoldOf
    <3>2. CASE s # {}
      <4>1. pick[s] \in S /\ g[s \ {pick[s]}] \in V
        BY <1>2, <2>1, <3>2
      <4>2. step[pick[s]][g[s \ {pick[s]}]] \in V
        BY <4>1
      <4> QED
        BY <3>2, <4>2 DEF FoldOf
    <3> QED
      BY <3>1, <3>2
  <2>5. h \in [SUBSET S -> V]
    BY <2>1, <2>4
  <2> HIDE DEF h
  <2>6. ASSUME NEW s \in SUBSET S, Cardinality(s) <= n + 1
        PROVE  h[s] = of(h, s)
    <3>1. CASE s = {}
      BY <2>3, <3>1 DEF FoldOf
    <3>2. CASE s # {}
      <4> DEFINE t == s \ {pick[s]}
      <4>1. t \in SUBSET S /\ Cardinality(t) = Cardinality(s) - 1
        BY <1>2, <3>2
      <4>2. Cardinality(s) \in Nat
        BY <1>1
      <4>3. Cardinality(t) <= n
        BY <2>6, <4>1, <4>2
      <4>4. h[t] = g[t]
        BY <2>2, <4>1, <4>3
      <4>5. of(h, s) = of(g, s)
        BY <3>2, <4>4 DEF FoldOf
      <4> QED
        BY <2>3, <4>5
    <3> QED
      BY <3>1, <3>2
  <2>7. Upto(n + 1, h)
    BY <2>5, <2>6
  <2> QED
    BY <1>0, <2>7
<1>5. N \in Done
  <2> HIDE DEF Done
  <2>1. \A n \in 0..N : n \in Done
    BY <1>0, <1>3, <1>4, Climb
  <2> QED
    BY <1>0, <2>1
<1>6. PICK g : Upto(N, g)
  BY <1>5
<1>7. \A s \in SUBSET S : Cardinality(s) <= N
  BY FS_Subset
<1> QED
  BY <1>6, <1>7 DEF Folds
=============================================================================
