---------------------------- MODULE MergingProofs ----------------------------
(***************************************************************************)
(* Theorems about what is merged value by value: operations, and           *)
(* distributions.  What the code keeps is a running result, what it should *)
(* be is a sum over all that was given; so sums over finite sets come      *)
(* first.                                                                  *)
(***************************************************************************)
EXTENDS OperationMerge, Distribution, FiniteSetTheorems, WellFoundedInduction, TLAPS

-----------------------------------------------------------------------------
(* Numbers and finite sets.                                                *)

LEMMA Smallest ==
  ASSUME NEW N \in SUBSET Nat, N # {}
  PROVE  \E n \in N : \A k \in N : n <= k
<1> DEFINE R == OpToRel(<, Nat)
<1>0. \A x, y \in Nat : y < x => <<y, x>> \in R
  BY DEF OpToRel
<1>1. \E x \in N : \A y \in N : ~(<<y, x>> \in R)
  BY NatLessThanWellFounded, WFMin
<1> HIDE DEF R
<1>2. PICK x \in N : \A y \in N : ~(<<y, x>> \in R)
  BY <1>1
<1>3. \A y \in N : ~(y < x)
  BY <1>0, <1>2
<1>4. QED
  BY <1>3

\* Induction over the subsets of a finite set, P those it holds of.
LEMMA Subsets ==
  ASSUME NEW S, IsFiniteSet(S), NEW P,
         \A T \in SUBSET S : (\A U \in SUBSET T : U # T => U \in P) => T \in P
  PROVE  S \in P
<1> DEFINE N == {n \in Nat : \E T \in SUBSET S : T \notin P /\ Cardinality(T) = n}
<1>1. SUFFICES ASSUME N # {} PROVE FALSE
  <2>1. Cardinality(S) \in Nat
    BY FS_CardinalityType
  <2>2. S \in SUBSET S
    OBVIOUS
  <2>3. QED
    BY <2>1, <2>2
<1>2. PICK n \in N : \A k \in N : n <= k
  <2>1. N \in SUBSET Nat
    OBVIOUS
  <2> HIDE DEF N
  <2>2. QED
    BY <1>1, <2>1, Smallest
<1>3. PICK T \in SUBSET S : T \notin P /\ Cardinality(T) = n
  OBVIOUS
<1>4. PICK U \in SUBSET T : U # T /\ U \notin P
  BY <1>3
<1>5. IsFiniteSet(T)
  BY FS_Subset
<1>6. IsFiniteSet(U) /\ Cardinality(U) \in Nat /\ Cardinality(U) <= n /\ Cardinality(U) # n
  BY <1>3, <1>4, <1>5, FS_Subset, FS_CardinalityType
<1>7. Cardinality(U) \in N
  BY <1>4, <1>6
<1>8. QED
  BY <1>2, <1>6, <1>7

\* The same, adding an element at a time.
LEMMA Elements ==
  ASSUME NEW S, IsFiniteSet(S), NEW P, {} \in P,
         \A T \in SUBSET S : \A x \in T : T \ {x} \in P => T \in P
  PROVE  S \in P
<1>1. ASSUME NEW T \in SUBSET S, \A U \in SUBSET T : U # T => U \in P
      PROVE  T \in P
  <2>1. CASE T = {}
    BY <2>1
  <2>2. CASE T # {}
    <3>1. PICK x \in T : TRUE
      BY <2>2
    <3>2. T \ {x} \in SUBSET T /\ T \ {x} # T
      BY <3>1
    <3>3. QED
      BY <1>1, <3>1, <3>2
  <2>3. QED
    BY <2>1, <2>2
<1>2. QED
  BY <1>1, Subsets

-----------------------------------------------------------------------------
(* Sums over finite sets.                                                  *)

Sum(f, S) == SumFunctionOnSet(f, S)
Pick(S) == CHOOSE x \in S : TRUE

\* The recursion that a sum follows.
Sums(g, f, S) ==
  g = [T \in SUBSET S |-> IF T = {} THEN 0 ELSE f[Pick(T)] + g[T \ {Pick(T)}]]

LEMMA SumIsRecursive ==
  ASSUME NEW f, NEW S
  PROVE  Sum(f, S) = (CHOOSE g : Sums(g, f, S))[S]
BY DEF Sum, SumFunctionOnSet, FoldFunctionOnSet, MapThenFoldSet, Sums, Pick

LEMMA PickIsIn ==
  ASSUME NEW T, T # {}
  PROVE  Pick(T) \in T
BY DEF Pick

LEMMA SumsAre ==
  ASSUME NEW g, NEW f, NEW S, Sums(g, f, S), NEW T \in SUBSET S
  PROVE  g[T] = IF T = {} THEN 0 ELSE f[Pick(T)] + g[T \ {Pick(T)}]
BY DEF Sums

\* Two recursions agree where both are defined.
LEMMA SumsAgree ==
  ASSUME NEW f, NEW S, NEW T, IsFiniteSet(S), NEW g, NEW h,
         S \subseteq T, Sums(g, f, S), Sums(h, f, T)
  PROVE  g[S] = h[S]
<1> DEFINE P == {U \in SUBSET S : g[U] = h[U]}
<1>1. ASSUME NEW U \in SUBSET S, \A V \in SUBSET U : V # U => V \in P
      PROVE  U \in P
  <2>1. CASE U = {}
    <3>1. g[U] = 0 /\ h[U] = 0
      BY <2>1, SumsAre
    <3>2. QED
      BY <3>1
  <2>2. CASE U # {}
    <3>1. PICK V : V = U \ {Pick(U)}
      OBVIOUS
    <3>2. V \in SUBSET U /\ V # U
      BY <2>2, <3>1, PickIsIn
    <3>3. g[V] = h[V]
      BY <1>1, <3>2
    <3>4. U \in SUBSET T
      OBVIOUS
    <3>5. g[U] = f[Pick(U)] + g[V] /\ h[U] = f[Pick(U)] + h[V]
      BY <2>2, <3>1, <3>4, SumsAre
    <3>6. QED
      BY <3>3, <3>5
  <2>3. QED
    BY <2>1, <2>2
<1> HIDE DEF P
<1>2. S \in P
  BY <1>1, Subsets
<1>3. QED
  BY <1>2 DEF P

LEMMA SumsExist ==
  ASSUME NEW f, NEW S, IsFiniteSet(S)
  PROVE  \E g : Sums(g, f, S)
<1> DEFINE P == {T \in SUBSET S : \E g : Sums(g, f, T)}
<1>1. ASSUME NEW T \in SUBSET S, \A U \in SUBSET T : U # T => U \in P
      PROVE  T \in P
  <2>1. ASSUME NEW U \in SUBSET T, U # T
        PROVE  Sums(CHOOSE g : Sums(g, f, U), f, U)
    BY <1>1, <2>1
  <2> DEFINE G == [U \in SUBSET T |-> IF U = {} THEN 0
                    ELSE f[Pick(U)] + Sum(f, U \ {Pick(U)})]
  <2>2. ASSUME NEW U \in SUBSET T, U # T
        PROVE  G[U] = Sum(f, U)
    <3>0. PICK g : g = (CHOOSE h : Sums(h, f, U))
      OBVIOUS
    <3>1. Sums(g, f, U)
      BY <2>1, <2>2, <3>0
    <3>2. Sum(f, U) = g[U]
      BY <3>0, SumIsRecursive
    <3>3. g[U] = IF U = {} THEN 0 ELSE f[Pick(U)] + g[U \ {Pick(U)}]
      BY <3>1, SumsAre
    <3>4. CASE U = {}
      BY <3>2, <3>3, <3>4
    <3>5. CASE U # {}
      <4>1. PICK V : V = U \ {Pick(U)}
        OBVIOUS
      <4>2. V \in SUBSET T /\ V # T /\ V \subseteq U
        BY <3>5, <4>1, PickIsIn, <2>2
      <4>3. PICK h : h = (CHOOSE k : Sums(k, f, V))
        OBVIOUS
      <4>4. Sums(h, f, V)
        BY <2>1, <4>2, <4>3
      <4>5. Sum(f, V) = h[V]
        BY <4>3, SumIsRecursive
      <4>6. IsFiniteSet(V)
        BY <4>2, FS_Subset
      <4>7. h[V] = g[V]
        BY <4>2, <4>4, <4>6, <3>1, SumsAgree
      <4>8. QED
        BY <3>2, <3>3, <3>5, <4>1, <4>5, <4>7
    <3>6. QED
      BY <3>4, <3>5
  <2>3. \A U \in SUBSET T : U # {} => U \ {Pick(U)} \in SUBSET T /\ U \ {Pick(U)} # T
    BY PickIsIn
  <2>4. \A U \in SUBSET T : U # {} => G[U \ {Pick(U)}] = Sum(f, U \ {Pick(U)})
    <3> HIDE DEF G
    <3>1. QED
      BY <2>2, <2>3
  <2>5. G = [U \in SUBSET T |-> IF U = {} THEN 0 ELSE f[Pick(U)] + G[U \ {Pick(U)}]]
    <3>1. \A U \in SUBSET T :
            (IF U = {} THEN 0 ELSE f[Pick(U)] + Sum(f, U \ {Pick(U)}))
              = (IF U = {} THEN 0 ELSE f[Pick(U)] + G[U \ {Pick(U)}])
      <4> HIDE DEF G
      <4>1. QED
        BY <2>4
    <3>2. QED
      BY <3>1, Zenon
  <2>6. Sums(G, f, T)
    BY <2>5 DEF Sums
  <2>7. QED
    BY <2>6
<1> HIDE DEF P
<1>2. S \in P
  BY <1>1, Subsets
<1>3. QED
  BY <1>2 DEF P

\* A sum unfolds.
LEMMA SumUnfolds ==
  ASSUME NEW f, NEW S, IsFiniteSet(S)
  PROVE  Sum(f, S) = IF S = {} THEN 0 ELSE f[Pick(S)] + Sum(f, S \ {Pick(S)})
<1>1. PICK g : g = (CHOOSE h : Sums(h, f, S))
  OBVIOUS
<1>2. Sums(g, f, S)
  BY <1>1, SumsExist
<1>3. Sum(f, S) = g[S]
  BY <1>1, SumIsRecursive
<1>4. g[S] = IF S = {} THEN 0 ELSE f[Pick(S)] + g[S \ {Pick(S)}]
  BY <1>2, SumsAre
<1>5. CASE S # {}
  <2>1. PICK V : V = S \ {Pick(S)}
    OBVIOUS
  <2>2. IsFiniteSet(V) /\ V \subseteq S
    BY <2>1, FS_Subset
  <2>3. PICK h : h = (CHOOSE k : Sums(k, f, V))
    OBVIOUS
  <2>4. Sums(h, f, V)
    BY <2>2, <2>3, SumsExist
  <2>5. Sum(f, V) = h[V] /\ h[V] = g[V]
    BY <1>2, <2>2, <2>3, <2>4, SumIsRecursive, SumsAgree
  <2>6. QED
    BY <1>3, <1>4, <2>1, <2>5
<1>6. QED
  BY <1>3, <1>4, <1>5
LEMMA SumOfNone ==
  ASSUME NEW f
  PROVE  Sum(f, {}) = 0
BY SumUnfolds, FS_EmptySet

LEMMA SumIsInt ==
  ASSUME NEW f, NEW S, IsFiniteSet(S), \A x \in S : f[x] \in Int
  PROVE  Sum(f, S) \in Int
<1> DEFINE P == {T \in SUBSET S : Sum(f, T) \in Int}
<1>1. ASSUME NEW T \in SUBSET S, \A U \in SUBSET T : U # T => U \in P
      PROVE  T \in P
  <2>1. CASE T = {}
    BY <2>1, SumOfNone
  <2>2. CASE T # {}
    <3>1. PICK x, V : x = Pick(T) /\ V = T \ {x}
      OBVIOUS
    <3>2. x \in T /\ V \in SUBSET T /\ V # T
      BY <2>2, <3>1, PickIsIn
    <3>3. Sum(f, V) \in Int
      BY <1>1, <3>2
    <3>4. IsFiniteSet(T)
      BY FS_Subset
    <3>5. Sum(f, T) = f[x] + Sum(f, V)
      BY <2>2, <3>1, <3>4, SumUnfolds
    <3>6. QED
      BY <3>2, <3>3, <3>5
  <2>3. QED
    BY <2>1, <2>2
<1> HIDE DEF P
<1>2. S \in P
  BY <1>1, Subsets
<1>3. QED
  BY <1>2 DEF P

\* Any element can be taken out of a sum.
LEMMA SumWithout ==
  ASSUME NEW f, NEW S, IsFiniteSet(S), \A x \in S : f[x] \in Int, NEW y \in S
  PROVE  Sum(f, S) = f[y] + Sum(f, S \ {y})
<1> DEFINE P == {T \in SUBSET S : \A z \in T : Sum(f, T) = f[z] + Sum(f, T \ {z})}
<1>1. ASSUME NEW T \in SUBSET S, \A U \in SUBSET T : U # T => U \in P
      PROVE  T \in P
  <2>1. ASSUME NEW z \in T PROVE Sum(f, T) = f[z] + Sum(f, T \ {z})
    <3>1. PICK x, V, W : x = Pick(T) /\ V = T \ {x} /\ W = T \ {z}
      OBVIOUS
    <3>2. x \in T /\ V \in SUBSET T /\ V # T /\ W \in SUBSET T /\ W # T
      BY <3>1, PickIsIn
    <3>3. IsFiniteSet(T)
      BY FS_Subset
    <3>4. Sum(f, T) = f[x] + Sum(f, V)
      BY <3>1, <3>3, SumUnfolds
    <3>5. CASE x = z
      BY <3>1, <3>4, <3>5
    <3>6. CASE x # z
      <4>1. PICK R : R = T \ {x, z}
        OBVIOUS
      <4>2. R = V \ {z} /\ R = W \ {x} /\ z \in V /\ x \in W
        BY <3>1, <3>2, <3>6, <4>1
      <4>3. Sum(f, V) = f[z] + Sum(f, R)
        BY <1>1, <3>2, <4>2
      <4>4. Sum(f, W) = f[x] + Sum(f, R)
        BY <1>1, <3>2, <4>2
      <4>5. R \subseteq S /\ IsFiniteSet(R)
        BY <3>3, <4>1, FS_Subset
      <4>6. Sum(f, R) \in Int
        BY <4>5, SumIsInt
      <4>7. f[x] \in Int /\ f[z] \in Int
        BY <3>2
      <4>8. QED
        BY <3>1, <3>4, <4>3, <4>4, <4>6, <4>7
    <3>7. QED
      BY <3>5, <3>6
  <2>2. QED
    BY <2>1
<1> HIDE DEF P
<1>2. S \in P
  BY <1>1, Subsets
<1>3. QED
  BY <1>2 DEF P

\* Sums are linear.
LEMMA SumIsLinear ==
  ASSUME NEW S, IsFiniteSet(S), NEW f, NEW g, NEW h, NEW a \in Int, NEW b \in Int,
         \A x \in S : f[x] \in Int /\ g[x] \in Int /\ h[x] = a * f[x] + b * g[x]
  PROVE  Sum(h, S) = a * Sum(f, S) + b * Sum(g, S)
<1> DEFINE P == {T \in SUBSET S : Sum(h, T) = a * Sum(f, T) + b * Sum(g, T)}
<1>1. {} \in P
  BY SumOfNone
<1>2. ASSUME NEW T \in SUBSET S, NEW y \in T, T \ {y} \in P
      PROVE  T \in P
  <2>1. PICK V : V = T \ {y}
    OBVIOUS
  <2>2. IsFiniteSet(T) /\ IsFiniteSet(V)
    BY <2>1, FS_Subset
  <2>3. PICK u, v, w, p, q, r : /\ u = f[y] /\ v = g[y] /\ w = h[y]
                               /\ p = Sum(f, V) /\ q = Sum(g, V) /\ r = Sum(h, V)
    OBVIOUS
  <2>4. \A x \in T : f[x] \in Int /\ g[x] \in Int /\ h[x] \in Int
    <3>1. \A m, n \in Int : a * m + b * n \in Int
      OBVIOUS
    <3>2. QED
      BY <3>1
  <2>5. Sum(f, T) = u + p /\ Sum(g, T) = v + q /\ Sum(h, T) = w + r
    BY <2>1, <2>2, <2>3, <2>4, SumWithout
  <2>6. u \in Int /\ v \in Int /\ w = a * u + b * v
    BY <2>3
  <2>7. p \in Int /\ q \in Int /\ r = a * p + b * q
    <3>1. p \in Int /\ q \in Int
      BY <2>1, <2>2, <2>3, <2>4, SumIsInt
    <3>2. QED
      BY <1>2, <2>1, <2>3, <3>1
  <2>8. /\ a * (u + p) = a * u + a * p
        /\ b * (v + q) = b * v + b * q
        /\ a * u \in Int /\ b * v \in Int /\ a * p \in Int /\ b * q \in Int
    BY <2>6, <2>7
  <2>9. w + r = a * (u + p) + b * (v + q)
    BY <2>6, <2>7, <2>8
  <2>10. QED
    BY <2>5, <2>9
<1> HIDE DEF P
<1>3. S \in P
  BY <1>1, <1>2, Elements
<1>4. QED
  BY <1>3 DEF P

\* Equal terms have equal sums.
LEMMA SumIsSame ==
  ASSUME NEW S, IsFiniteSet(S), NEW f, NEW h,
         \A x \in S : f[x] \in Int /\ h[x] = f[x]
  PROVE  Sum(h, S) = Sum(f, S)
<1>1. \A x \in S : f[x] \in Int /\ h[x] = 1 * f[x] + 0 * f[x]
  OBVIOUS
<1>2. Sum(h, S) = 1 * Sum(f, S) + 0 * Sum(f, S)
  BY <1>1, SumIsLinear
<1>3. Sum(f, S) \in Int
  BY SumIsInt
<1>4. QED
  BY <1>2, <1>3

\* A sum over more is no less, if nothing in it is negative.
LEMMA SumGrows ==
  ASSUME NEW f, NEW T, IsFiniteSet(T), \A x \in T : f[x] \in Nat, NEW S \in SUBSET T
  PROVE  0 <= Sum(f, S) /\ Sum(f, S) <= Sum(f, T)
<1> DEFINE P == {U \in SUBSET T : Sum(f, U) \in Int /\ \A V \in SUBSET U :
                   Sum(f, V) \in Int /\ 0 <= Sum(f, V) /\ Sum(f, V) <= Sum(f, U)}
<1>1. {} \in P
  BY SumOfNone
<1>2. ASSUME NEW U \in SUBSET T, NEW y \in U, U \ {y} \in P
      PROVE  U \in P
  <2>1. \A x \in U : f[x] \in Int /\ f[x] >= 0
    OBVIOUS
  <2>2. IsFiniteSet(U)
    BY FS_Subset
  <2>3. Sum(f, U) = f[y] + Sum(f, U \ {y})
    BY <2>1, <2>2, SumWithout
  <2>4. Sum(f, U \ {y}) \in Int /\ 0 <= Sum(f, U \ {y})
    BY <1>2
  <2>5. ASSUME NEW V \in SUBSET U
        PROVE  Sum(f, V) \in Int /\ 0 <= Sum(f, V) /\ Sum(f, V) <= Sum(f, U)
    <3>1. CASE y \notin V
      <4>1. V \in SUBSET (U \ {y})
        BY <3>1
      <4>2. Sum(f, V) \in Int /\ 0 <= Sum(f, V) /\ Sum(f, V) <= Sum(f, U \ {y})
        BY <1>2, <4>1
      <4>3. QED
        BY <2>1, <2>3, <2>4, <4>2
    <3>2. CASE y \in V
      <4>1. V \ {y} \in SUBSET (U \ {y})
        OBVIOUS
      <4>2. /\ Sum(f, V \ {y}) \in Int /\ 0 <= Sum(f, V \ {y})
            /\ Sum(f, V \ {y}) <= Sum(f, U \ {y})
        BY <1>2, <4>1
      <4>3. IsFiniteSet(V) /\ \A x \in V : f[x] \in Int
        BY <2>1, <2>2, FS_Subset
      <4>4. Sum(f, V) = f[y] + Sum(f, V \ {y})
        BY <3>2, <4>3, SumWithout
      <4>5. QED
        BY <2>1, <2>3, <2>4, <4>2, <4>4
    <3>3. QED
      BY <3>1, <3>2
  <2>6. QED
    BY <2>1, <2>3, <2>4, <2>5
<1> HIDE DEF P
<1>3. T \in P
  BY <1>1, <1>2, Elements
<1>4. QED
  BY <1>3 DEF P

-----------------------------------------------------------------------------
(* Concatenations.                                                         *)

\* The recursion that a concatenation of the first n sequences follows.
Flattens(g, s, n) ==
  g = [i \in 1..n |-> IF i = 1 THEN s[i] ELSE g[i - 1] \o s[i]]

LEMMA FlatIsRecursive ==
  ASSUME NEW s, Len(s) # 0
  PROVE  FlattenSeq(s) = (CHOOSE g : Flattens(g, s, Len(s)))[Len(s)]
BY DEF FlattenSeq, Flattens

LEMMA FlattenExists ==
  ASSUME NEW s, NEW m \in Nat
  PROVE  \E g : Flattens(g, s, m)
<1> DEFINE N == {n \in Nat : ~ \E g : Flattens(g, s, n)}
<1>1. SUFFICES ASSUME N # {} PROVE FALSE
  OBVIOUS
<1>2. PICK n \in N : \A k \in N : n <= k
  <2>1. N \in SUBSET Nat
    OBVIOUS
  <2> HIDE DEF N
  <2>2. QED
    BY <1>1, <2>1, Smallest
<1>3. CASE n = 0
  <2> DEFINE g == [i \in 1..0 |-> s[i]]
  <2>1. Flattens(g, s, 0)
    BY DEF Flattens
  <2>2. QED
    BY <1>3, <2>1
<1>4. CASE n # 0
  <2>1. PICK k : k = n - 1
    OBVIOUS
  <2>2. k \in Nat /\ n = k + 1 /\ k \notin N
    BY <1>2, <1>4, <2>1
  <2>3. PICK g : Flattens(g, s, k)
    BY <2>2
  <2> DEFINE h == [i \in 1..n |-> IF i <= k THEN g[i]
                                  ELSE IF i = 1 THEN s[i] ELSE g[k] \o s[i]]
  <2>4. \A i \in 1..k : h[i] = g[i]
    BY <2>2
  <2>5. \A i \in 1..k : g[i] = IF i = 1 THEN s[i] ELSE g[i - 1] \o s[i]
    BY <2>3 DEF Flattens
  <2>6. ASSUME NEW i \in 1..n
        PROVE  h[i] = IF i = 1 THEN s[i] ELSE h[i - 1] \o s[i]
    <3>1. CASE i <= k
      <4>1. i \in 1..k /\ (i # 1 => i - 1 \in 1..k)
        BY <2>2, <3>1
      <4> HIDE DEF h
      <4>2. QED
        BY <2>4, <2>5, <4>1
    <3>2. CASE ~(i <= k)
      <4>1. i = k + 1 /\ i - 1 = k /\ (i # 1 => k \in 1..k)
        BY <2>2, <3>2
      <4>2. h[i] = IF i = 1 THEN s[i] ELSE g[k] \o s[i]
        BY <3>2
      <4> HIDE DEF h
      <4>3. i # 1 => h[i - 1] = g[k]
        BY <2>4, <4>1
      <4>4. QED
        BY <4>2, <4>3
    <3>3. QED
      BY <3>1, <3>2
  <2>7. h = [i \in 1..n |-> h[i]]
    OBVIOUS
  <2> HIDE DEF h
  <2>8. h = [i \in 1..n |-> IF i = 1 THEN s[i] ELSE h[i - 1] \o s[i]]
    BY <2>6, <2>7, Zenon
  <2>9. Flattens(h, s, n)
    BY <2>8 DEF Flattens
  <2>10. QED
    BY <2>9
<1>5. QED
  BY <1>3, <1>4

\* Two concatenations agree as far as what they concatenate.
LEMMA FlattenAgrees ==
  ASSUME NEW s, NEW t, NEW m \in Nat, NEW k \in Nat, m <= k, NEW g, NEW h,
         Flattens(g, s, m), Flattens(h, t, k), \A i \in 1..m : s[i] = t[i]
  PROVE  \A i \in 1..m : g[i] = h[i]
<1> DEFINE N == {n \in 1..m : g[n] # h[n]}
<1>1. SUFFICES ASSUME N # {} PROVE FALSE
  OBVIOUS
<1>2. PICK n \in N : \A j \in N : n <= j
  <2>1. N \in SUBSET Nat
    OBVIOUS
  <2> HIDE DEF N
  <2>2. QED
    BY <1>1, <2>1, Smallest
<1>3. /\ g[n] = IF n = 1 THEN s[n] ELSE g[n - 1] \o s[n]
      /\ h[n] = IF n = 1 THEN t[n] ELSE h[n - 1] \o t[n]
  <2>1. n \in 1..m /\ n \in 1..k
    OBVIOUS
  <2>2. \A i \in 1..m : g[i] = IF i = 1 THEN s[i] ELSE g[i - 1] \o s[i]
    BY Zenon DEF Flattens
  <2>3. \A i \in 1..k : h[i] = IF i = 1 THEN t[i] ELSE h[i - 1] \o t[i]
    BY Zenon DEF Flattens
  <2> HIDE DEF N
  <2>4. QED
    BY <2>1, <2>2, <2>3
<1>4. n # 1 => n - 1 \in 1..m /\ n - 1 \notin N
  BY <1>2
<1>5. n # 1 => g[n - 1] = h[n - 1]
  BY <1>4
<1>6. QED
  BY <1>3, <1>5

LEMMA FlattenOne ==
  ASSUME NEW s, Len(s) = 1
  PROVE  FlattenSeq(s) = s[1]
<1>1. PICK g : g = (CHOOSE h : Flattens(h, s, 1))
  OBVIOUS
<1>2. Flattens(g, s, 1)
  <2>1. 1 \in Nat
    OBVIOUS
  <2>2. \E h : Flattens(h, s, 1)
    BY <2>1, FlattenExists
  <2>3. QED
    BY <1>1, <2>2, Zenon
<1>3. FlattenSeq(s) = g[1]
  <2>1. Len(s) # 0
    OBVIOUS
  <2>2. FlattenSeq(s) = (CHOOSE h : Flattens(h, s, Len(s)))[Len(s)]
    BY <2>1, FlatIsRecursive
  <2>3. QED
    BY <1>1, <2>2, Zenon
<1>4. 1 \in 1..1 /\ g[1] = s[1]
  BY <1>2 DEF Flattens
<1>5. QED
  BY <1>3, <1>4

LEMMA FlattenNext ==
  ASSUME NEW s, NEW t, NEW n \in Nat, n > 0, Len(s) = n, Len(t) = n + 1,
         \A i \in 1..n : s[i] = t[i]
  PROVE  FlattenSeq(t) = FlattenSeq(s) \o t[n + 1]
<1>1. PICK g, h : /\ g = (CHOOSE k : Flattens(k, s, n))
                  /\ h = (CHOOSE k : Flattens(k, t, n + 1))
  OBVIOUS
<1>2. Flattens(g, s, n) /\ Flattens(h, t, n + 1)
  <2>1. n + 1 \in Nat
    OBVIOUS
  <2>2. QED
    BY <1>1, <2>1, FlattenExists
<1>3. FlattenSeq(s) = g[n] /\ FlattenSeq(t) = h[n + 1]
  <2>1. n # 0 /\ n + 1 # 0
    OBVIOUS
  <2>2. QED
    BY <1>1, <2>1, FlatIsRecursive, Zenon
<1>4. n \in 1..n /\ n <= n + 1 /\ n + 1 \in Nat
  OBVIOUS
<1>5. g[n] = h[n]
  BY <1>2, <1>4, FlattenAgrees
<1>6. h[n + 1] = h[n] \o t[n + 1]
  <2>1. n + 1 \in 1..(n + 1) /\ n + 1 # 1 /\ (n + 1) - 1 = n
    OBVIOUS
  <2>2. h[n + 1] = h[(n + 1) - 1] \o t[n + 1]
    BY <1>2, <2>1 DEF Flattens
  <2>3. QED
    BY <2>1, <2>2
<1>7. QED
  BY <1>3, <1>5, <1>6

-----------------------------------------------------------------------------
(* Merged operations: an aggregator a, and the operations g it was given.   *)

Values ==
  [type : OneOfFields, val : Nat, buckets : Buckets, start_time : Nat, end_time : Nat]

\* An operation may not have more values taken than it has.
GivenOK(g) ==
  /\ g \in Seq([op : Operations, taken : Nat]) /\ g # <<>>
  /\ \A i \in DOMAIN g : g[i].taken <= Len(g[i].op.metrics)

\* An aggregator after a merge that did not raise, and after one that did.
Sound(l, e, v) == [logs |-> l, end_time |-> e, values |-> v, raised |-> FALSE]
Broken(l, e, v) == [logs |-> l, end_time |-> e, values |-> v, raised |-> TRUE]
AggOK(a) ==
  /\ \/ a = Sound(a.logs, a.end_time, a.values)
     \/ a = Broken(a.logs, a.end_time, a.values)
  /\ a.end_time \in Nat
  /\ a.values \in [DOMAIN a.values -> Values]

LogsKept(a, g) == a.logs = FlattenSeq([i \in DOMAIN g |-> g[i].op.logs])

\* The operations whose end time counts.
Timed(g) == {i \in DOMAIN g : i = 1 \/ g[i].op.start_time = 0}
EndKept(a, g) ==
  \E i \in Timed(g) : /\ a.end_time = g[i].op.end_time
                      /\ \A j \in Timed(g) : g[j].op.end_time <= a.end_time

\* The values that were taken for a metric, by their places.
Places(g, key) ==
  {p \in UNION {{i} \X (1..g[i].taken) : i \in DOMAIN g} :
     g[p[1]].op.metrics[p[2]].key = key}
TakenFor(g, key) ==
  [p \in Places(g, key) |-> g[p[1]].op.metrics[p[2]].value]

\* There is a value for what was taken.
KeysKept(a, g) ==
  \A key : /\ IsFiniteSet(Places(g, key))
           /\ key \in DOMAIN a.values <=> Places(g, key) # {}

\* A delta is the sum of the values, with the latest end and the earliest start.
SumOf(f) == Sum([p \in DOMAIN f |-> f[p].val], DOMAIN f)
EndsAt(time, f) ==
  /\ \E p \in DOMAIN f : time = f[p].end_time
  /\ \A p \in DOMAIN f : f[p].end_time <= time
StartsAt(time, f) ==
  /\ time # 0 => \E p \in DOMAIN f : time = f[p].start_time
  /\ \A p \in DOMAIN f :
       f[p].start_time # 0 => time # 0 /\ time <= f[p].start_time
Summed(held, f) ==
  held.val = SumOf(f) /\ StartsAt(held.start_time, f) /\ EndsAt(held.end_time, f)

\* Another value is the last that was taken.
Before(p, q) == p[1] < q[1] \/ (p[1] = q[1] /\ p[2] <= q[2])
LastTaken(held, f) ==
  \E p \in DOMAIN f : held = f[p] /\ \A q \in DOMAIN f : Before(q, p)

ValuesKept(a, g) ==
  \A key \in DOMAIN a.values :
    IF KindOf(key.name) = "DELTA" THEN Summed(a.values[key], TakenFor(g, key))
    ELSE LastTaken(a.values[key], TakenFor(g, key))

Kept(a, g) ==
  /\ GivenOK(g) /\ AggOK(a) /\ LogsKept(a, g) /\ EndKept(a, g)
  /\ KeysKept(a, g) /\ ValuesKept(a, g)

MergeInv == Kept(agg, given)

-----------------------------------------------------------------------------
(* What the operators of OperationMerge do.                                *)

Number(t, u, v, s, e) ==
  [type |-> t, val |-> v, buckets |-> u, start_time |-> s, end_time |-> e]
NumberWith(a, x, y, z) == [a EXCEPT !.val = x, !.start_time = y, !.end_time = z]
WithValues(a, v) == [a EXCEPT !.values = v]
WithFirst(v, m) == [k \in DOMAIN v \cup {m.key} |-> IF k = m.key THEN m.value ELSE v[k]]
WithMerged(v, m) ==
  [v EXCEPT ![m.key] = Merged(KindOf(m.key.name), v[m.key], m.value)]

LEMMA MadeSound ==
  ASSUME NEW l, NEW e, NEW v
  PROVE  /\ [Sound(l, e, v) EXCEPT !.raised = FALSE] = Sound(l, e, v)
         /\ [Broken(l, e, v) EXCEPT !.raised = FALSE] = Sound(l, e, v)
<1>1. PICK a, b, r, q : a = Sound(l, e, v) /\ b = Broken(l, e, v) /\ r = FALSE /\ q = TRUE
  OBVIOUS
<1>2. /\ a = [logs |-> l, end_time |-> e, values |-> v, raised |-> r]
      /\ b = [logs |-> l, end_time |-> e, values |-> v, raised |-> q]
  BY <1>1 DEF Sound, Broken
<1>3. [a EXCEPT !.raised = r] = a /\ [b EXCEPT !.raised = r] = a
  BY <1>2
<1>4. QED
  BY <1>1, <1>3, Zenon

LEMMA MadeBroken ==
  ASSUME NEW l, NEW e, NEW v
  PROVE  [Sound(l, e, v) EXCEPT !.raised = TRUE] = Broken(l, e, v)
<1>1. PICK a, b, r, q : a = Sound(l, e, v) /\ b = Broken(l, e, v) /\ r = FALSE /\ q = TRUE
  OBVIOUS
<1>2. /\ a = [logs |-> l, end_time |-> e, values |-> v, raised |-> r]
      /\ b = [logs |-> l, end_time |-> e, values |-> v, raised |-> q]
  BY <1>1 DEF Sound, Broken
<1>3. [a EXCEPT !.raised = q] = b
  BY <1>2
<1>4. QED
  BY <1>1, <1>3, Zenon

LEMMA ValuesBecome ==
  ASSUME NEW l, NEW e, NEW v, NEW x
  PROVE  WithValues(Sound(l, e, v), x) = Sound(l, e, x)
<1>1. PICK a, b, r : a = Sound(l, e, v) /\ b = Sound(l, e, x) /\ r = FALSE
  OBVIOUS
<1>2. /\ a = [logs |-> l, end_time |-> e, values |-> v, raised |-> r]
      /\ b = [logs |-> l, end_time |-> e, values |-> x, raised |-> r]
  BY <1>1 DEF Sound
<1>3. [a EXCEPT !.values = x] = b
  BY <1>2
<1>4. QED
  BY <1>1, <1>3, Zenon DEF WithValues

LEMMA ExtendedIs ==
  ASSUME NEW l, NEW e, NEW v, NEW op
  PROVE  Extended(Sound(l, e, v), op) =
           IF op.start_time # 0 THEN Broken(l \o op.logs, e, v)
           ELSE Sound(l \o op.logs, Later(op.end_time, e), v)
<1>1. PICK a, x, y, r, q :
        /\ a = Sound(l, e, v) /\ x = l \o op.logs
        /\ y = IF op.start_time # 0 THEN e ELSE Later(op.end_time, e)
        /\ r = FALSE /\ q = (op.start_time # 0)
  OBVIOUS
<1>2. a = [logs |-> l, end_time |-> e, values |-> v, raised |-> r]
  BY <1>1 DEF Sound
<1>3. a.logs = l /\ a.end_time = e /\ a.raised = r
  BY <1>2
<1>4. Extended(a, op) = [a EXCEPT !.logs = x, !.end_time = y, !.raised = q]
  <2>1. (r \/ op.start_time # 0) = q
    BY <1>1
  <2>2. QED
    BY <1>1, <1>3, <2>1, Zenon DEF Extended
<1>5. [a EXCEPT !.logs = x, !.end_time = y, !.raised = q]
        = [[[a EXCEPT !.logs = x] EXCEPT !.end_time = y] EXCEPT !.raised = q]
  OBVIOUS
<1>6. [[[a EXCEPT !.logs = x] EXCEPT !.end_time = y] EXCEPT !.raised = q]
        = [logs |-> x, end_time |-> y, values |-> v, raised |-> q]
  <2>1. PICK b : b = [a EXCEPT !.logs = x]
    OBVIOUS
  <2>2. b = [logs |-> x, end_time |-> e, values |-> v, raised |-> r]
    BY <1>2, <2>1
  <2>3. PICK c : c = [b EXCEPT !.end_time = y]
    OBVIOUS
  <2>4. c = [logs |-> x, end_time |-> y, values |-> v, raised |-> r]
    BY <2>2, <2>3
  <2>5. [c EXCEPT !.raised = q] = [logs |-> x, end_time |-> y, values |-> v, raised |-> q]
    BY <2>4
  <2>6. QED
    BY <2>1, <2>3, <2>5, Zenon
<1>7. Extended(a, op) = [logs |-> x, end_time |-> y, values |-> v, raised |-> q]
  BY <1>4, <1>5, <1>6, Zenon
<1>8. CASE op.start_time # 0
  <2>1. q = TRUE /\ y = e
    BY <1>1, <1>8
  <2>2. QED
    BY <1>1, <1>7, <1>8, <2>1, Zenon DEF Broken
<1>9. CASE op.start_time = 0
  <2>1. q = FALSE /\ y = Later(op.end_time, e)
    BY <1>1, <1>9
  <2>2. QED
    BY <1>1, <1>7, <1>9, <2>1, Zenon DEF Sound
<1>10. QED
  BY <1>8, <1>9

\* The later of two times.
LEMMA LaterIs ==
  ASSUME NEW x \in Nat, NEW y \in Nat
  PROVE  Later(x, y) = IF x < y THEN y ELSE x
BY DEF Later

LEMMA EarlierIs ==
  ASSUME NEW x \in Nat, NEW y \in Nat
  PROVE  Earlier(x, y) = IF x = 0 THEN y ELSE IF y = 0 THEN x ELSE IF x < y THEN x ELSE y
BY DEF Earlier

LEMMA NumberReplaced ==
  ASSUME NEW t, NEW u, NEW n, NEW b, NEW e, NEW x, NEW y, NEW z
  PROVE  NumberWith(Number(t, u, n, b, e), x, y, z) = Number(t, u, x, y, z)
<1>1. PICK a0 : a0 = Number(t, u, n, b, e)
  OBVIOUS
<1>2. PICK a1 : a1 = [a0 EXCEPT !.val = x]
  OBVIOUS
<1>3. a1 = Number(t, u, x, b, e)
  BY <1>1, <1>2 DEF Number
<1>4. PICK a2 : a2 = [a1 EXCEPT !.start_time = y]
  OBVIOUS
<1>5. a2 = Number(t, u, x, y, e)
  BY <1>3, <1>4 DEF Number
<1>6. PICK a3 : a3 = [a2 EXCEPT !.end_time = z]
  OBVIOUS
<1>7. a3 = Number(t, u, x, y, z)
  BY <1>5, <1>6 DEF Number
<1>8. NumberWith(a0, x, y, z) =
        [[[a0 EXCEPT !.val = x] EXCEPT !.start_time = y] EXCEPT !.end_time = z]
  BY DEF NumberWith
<1>9. QED
  BY <1>1, <1>2, <1>4, <1>6, <1>7, <1>8, Zenon

\* What is stored: the latest value, which of a delta has been added to.
LEMMA MergedIs ==
  ASSUME NEW prior \in Values, NEW latest \in Values, NEW kind
  PROVE  Merged(kind, prior, latest) =
           IF kind # "DELTA" THEN latest
           ELSE Number(latest.type, latest.buckets, prior.val + latest.val,
                       Earlier(prior.start_time, latest.start_time),
                       Later(prior.end_time, latest.end_time))
<1>1. CASE kind # "DELTA"
  BY <1>1 DEF Merged
<1>2. CASE kind = "DELTA"
  <2>1. PICK v, s, e : /\ v = prior.val + latest.val
                       /\ s = Earlier(prior.start_time, latest.start_time)
                       /\ e = Later(prior.end_time, latest.end_time)
    OBVIOUS
  <2>2. Merged(kind, prior, latest) = NumberWith(latest, v, s, e)
    <3>1. Merged(kind, prior, latest) =
            NumberWith(latest, Combine(prior.val, latest.val),
                       Earlier(prior.start_time, latest.start_time),
                       Later(prior.end_time, latest.end_time))
      BY <1>2 DEF Merged, NumberWith
    <3>2. QED
      BY <2>1, <3>1 DEF Combine
  <2>3. PICK t, u, v1, s1, e1 : latest = Number(t, u, v1, s1, e1)
    <3>1. latest = Number(latest.type, latest.buckets, latest.val, latest.start_time,
                        latest.end_time)
      BY DEF Values, Number
    <3>2. QED
      BY <3>1
  <2>4. NumberWith(Number(t, u, v1, s1, e1), v, s, e) = Number(t, u, v, s, e)
    BY NumberReplaced
  <2>5. latest.type = t /\ latest.buckets = u
    BY <2>3 DEF Number
  <2>6. QED
    BY <1>2, <2>1, <2>2, <2>3, <2>4, <2>5
<1>3. QED
  BY <1>1, <1>2

\* A value is taken as the first of its key, is merged, or raises.
LEMMA TakeIs ==
  ASSUME NEW l, NEW e, NEW v, NEW m
  PROVE  /\ m.key \notin DOMAIN v =>
              Take(Sound(l, e, v), m) = Sound(l, e, WithFirst(v, m))
         /\ m.key \in DOMAIN v /\ Merges(KindOf(m.key.name), v[m.key], m.value) =>
              Take(Sound(l, e, v), m) = Sound(l, e, WithMerged(v, m))
         /\ m.key \in DOMAIN v /\ ~Merges(KindOf(m.key.name), v[m.key], m.value) =>
              Take(Sound(l, e, v), m) = Broken(l, e, v)
<1>1. PICK a : a = Sound(l, e, v)
  OBVIOUS
<1>2. ~a.raised /\ a.values = v
  BY <1>1 DEF Sound
<1>3. ASSUME m.key \notin DOMAIN v
      PROVE  Take(a, m) = Sound(l, e, WithFirst(v, m))
  <2>1. Take(a, m) = WithValues(a, WithFirst(v, m))
    BY <1>2, <1>3 DEF Take, WithValues, WithFirst
  <2>2. QED
    BY <1>1, <2>1, ValuesBecome
<1>4. ASSUME m.key \in DOMAIN v, Merges(KindOf(m.key.name), v[m.key], m.value)
      PROVE  Take(a, m) = Sound(l, e, WithMerged(v, m))
  <2>1. Take(a, m) = WithValues(a, WithMerged(v, m))
    BY <1>2, <1>4 DEF Take, WithValues, WithMerged
  <2>2. QED
    BY <1>1, <2>1, ValuesBecome
<1>5. ASSUME m.key \in DOMAIN v, ~Merges(KindOf(m.key.name), v[m.key], m.value)
      PROVE  Take(a, m) = Broken(l, e, v)
  <2>1. Take(a, m) = [a EXCEPT !.raised = TRUE]
    BY <1>2, <1>5 DEF Take
  <2>2. QED
    BY <1>1, <2>1, MadeBroken
<1>6. QED
  BY <1>1, <1>3, <1>4, <1>5

-----------------------------------------------------------------------------
(* Places and values.                                                      *)

LEMMA GivenIs ==
  ASSUME NEW g, GivenOK(g)
  PROVE  /\ Len(g) \in Nat \ {0} /\ DOMAIN g = 1..Len(g)
         /\ \A i \in DOMAIN g :
              /\ g[i] \in [op : Operations, taken : Nat]
              /\ g[i].op \in Operations /\ g[i].taken \in Nat
              /\ Len(g[i].op.metrics) \in Nat /\ g[i].taken <= Len(g[i].op.metrics)
<1>1. /\ g \in Seq([op : Operations, taken : Nat]) /\ g # <<>>
      /\ \A i \in DOMAIN g : g[i].taken <= Len(g[i].op.metrics)
  BY DEF GivenOK
<1>2. Len(g) \in Nat \ {0} /\ DOMAIN g = 1..Len(g)
  BY <1>1
<1>3. ASSUME NEW i \in DOMAIN g
      PROVE  /\ g[i] \in [op : Operations, taken : Nat]
             /\ g[i].op \in Operations /\ g[i].taken \in Nat
  <2>1. g[i] \in [op : Operations, taken : Nat]
    <3>1. PICK S : S = [op : Operations, taken : Nat]
      OBVIOUS
    <3>2. g \in Seq(S)
      BY <1>1, <3>1, Zenon
    <3>3. g[i] \in S
      BY <1>2, <3>2
    <3>4. QED
      BY <3>1, <3>3
  <2>2. QED
    BY <2>1
<1>4. ASSUME NEW i \in DOMAIN g
      PROVE  Len(g[i].op.metrics) \in Nat
  BY <1>3, MergeAssumption
<1>5. QED
  BY <1>1, <1>2, <1>3, <1>4

LEMMA PlacesAre ==
  ASSUME NEW g, NEW key
  PROVE  \A p : p \in Places(g, key) <=>
           \E i, j :
             i \in DOMAIN g /\ j \in 1..g[i].taken /\ p = <<i, j>> /\ g[i].op.metrics[j].key = key
<1>1. ASSUME NEW p \in Places(g, key)
      PROVE  \E i, j :
               i \in DOMAIN g /\ j \in 1..g[i].taken /\ p = <<i, j>> /\ g[i].op.metrics[j].key = key
  <2>1. PICK i \in DOMAIN g : p \in {i} \X (1..g[i].taken)
    BY <1>1 DEF Places
  <2>2. PICK j \in 1..g[i].taken : p = <<i, j>>
    BY <2>1
  <2>3. g[i].op.metrics[j].key = key
    BY <1>1, <2>2 DEF Places
  <2>4. QED
    BY <2>2, <2>3
<1>2. ASSUME NEW i \in DOMAIN g, NEW j \in 1..g[i].taken, g[i].op.metrics[j].key = key
      PROVE  <<i, j>> \in Places(g, key)
  <2>1. <<i, j>> \in UNION {{k} \X (1..g[k].taken) : k \in DOMAIN g}
    OBVIOUS
  <2>2. QED
    BY <1>2, <2>1 DEF Places
<1>3. QED
  BY <1>1, <1>2

\* A value that was taken is a value.
LEMMA TakenIs ==
  ASSUME NEW g, GivenOK(g), NEW i \in DOMAIN g, NEW j \in 1..Len(g[i].op.metrics)
  PROVE  g[i].op.metrics[j].value \in Values
<1>1. g[i].op \in Operations
  BY GivenIs
<1>2. PICK m : m = g[i].op.metrics
  OBVIOUS
<1>3. m \in Seq(ToSet(m))
  BY <1>1, <1>2, MergeAssumption
<1>4. j \in DOMAIN m
  BY <1>2, <1>3
<1>5. QED
  BY <1>1, <1>2, <1>4, MergeAssumption DEF Values

LEMMA PlaceIs ==
  ASSUME NEW g, GivenOK(g), NEW key, NEW p \in Places(g, key)
  PROVE  TakenFor(g, key)[p] \in Values
<1>1. PICK i, j : i \in DOMAIN g /\ j \in 1..g[i].taken /\ p = <<i, j>>
  BY PlacesAre
<1>2. i \in DOMAIN g /\ j \in 1..Len(g[i].op.metrics)
  BY <1>1, GivenIs
<1>3. g[i].op.metrics[j].value \in Values
  BY <1>2, TakenIs
<1>4. QED
  BY <1>1, <1>3 DEF TakenFor

LEMMA ValueIs ==
  ASSUME NEW v \in Values
  PROVE  v.val \in Nat /\ v.start_time \in Nat /\ v.end_time \in Nat
BY DEF Values

LEMMA PlacesSame ==
  ASSUME NEW g, NEW h, NEW key, \A i \in DOMAIN g : i \in DOMAIN h /\ h[i] = g[i],
         \A i \in DOMAIN h : \A j \in 1..h[i].taken : i \in DOMAIN g
  PROVE  TakenFor(h, key) = TakenFor(g, key) /\ Places(h, key) = Places(g, key)
<1>1. \A p : p \in Places(h, key) <=> p \in Places(g, key)
  <2>1. ASSUME NEW p \in Places(h, key) PROVE p \in Places(g, key)
    <3>1. PICK i, j :
            i \in DOMAIN h /\ j \in 1..h[i].taken /\ p = <<i, j>> /\ h[i].op.metrics[j].key = key
      BY PlacesAre
    <3>2. i \in DOMAIN g /\ h[i] = g[i]
      BY <3>1
    <3>3. QED
      BY <3>1, <3>2, PlacesAre
  <2>2. ASSUME NEW p \in Places(g, key) PROVE p \in Places(h, key)
    <3>1. PICK i, j :
            i \in DOMAIN g /\ j \in 1..g[i].taken /\ p = <<i, j>> /\ g[i].op.metrics[j].key = key
      BY PlacesAre
    <3>2. i \in DOMAIN h /\ h[i] = g[i]
      BY <3>1
    <3>3. QED
      BY <3>1, <3>2, PlacesAre
  <2>3. QED
    BY <2>1, <2>2
<1>2. Places(h, key) = Places(g, key)
  BY <1>1
<1>3. ASSUME NEW p \in Places(g, key)
      PROVE  h[p[1]].op.metrics[p[2]].value = g[p[1]].op.metrics[p[2]].value
  <2>1. PICK i, j : i \in DOMAIN g /\ j \in 1..g[i].taken /\ p = <<i, j>>
    BY PlacesAre
  <2>2. p[1] = i /\ h[i] = g[i]
    BY <2>1
  <2>3. QED
    BY <2>2
<1>4. TakenFor(h, key) = TakenFor(g, key)
  BY <1>2, <1>3, Zenon DEF TakenFor
<1>5. QED
  BY <1>2, <1>4

\* An operation of which nothing was taken yet has no place.
LEMMA PlacesOfNew ==
  ASSUME NEW g, GivenOK(g), NEW op, NEW key
  PROVE  LET h == Append(g, [op |-> op, taken |-> 0])
         IN TakenFor(h, key) = TakenFor(g, key) /\ Places(h, key) = Places(g, key)
<1>1. PICK h : h = Append(g, [op |-> op, taken |-> 0])
  OBVIOUS
<1>2. /\ Len(g) \in Nat /\ DOMAIN g = 1..Len(g) /\ DOMAIN h = 1..(Len(g) + 1)
      /\ \A i \in DOMAIN g : h[i] = g[i]
      /\ h[Len(g) + 1] = [op |-> op, taken |-> 0]
  BY <1>1 DEF GivenOK
<1>3. ASSUME NEW i \in DOMAIN h, NEW j \in 1..h[i].taken
      PROVE  i \in DOMAIN g
  <2>1. i = Len(g) + 1 => h[i].taken = 0
    BY <1>2
  <2>2. QED
    BY <1>2, <2>1
<1>4. \A i \in DOMAIN g : i \in DOMAIN h /\ h[i] = g[i]
  BY <1>2
<1>5. TakenFor(h, key) = TakenFor(g, key) /\ Places(h, key) = Places(g, key)
  BY <1>3, <1>4, PlacesSame
<1>6. QED
  BY <1>1, <1>5, Zenon

\* A function with one more point.
With(f, p, v) == [q \in DOMAIN f \cup {p} |-> IF q = p THEN v ELSE f[q]]

\* A value more is taken of the last operation.
TakenOneMore(g) == [g EXCEPT ![Len(g)].taken = @ + 1]
NextValue(g) == g[Len(g)].op.metrics[g[Len(g)].taken + 1]
NextPlace(g) == <<Len(g), g[Len(g)].taken + 1>>

LEMMA OneMore ==
  ASSUME NEW g, GivenOK(g), g[Len(g)].taken < Len(g[Len(g)].op.metrics)
  PROVE  /\ Len(g) \in DOMAIN g /\ g[Len(g)].taken \in Nat /\ g[Len(g)].op \in Operations
         /\ DOMAIN TakenOneMore(g) = DOMAIN g /\ Len(TakenOneMore(g)) = Len(g)
         /\ TakenOneMore(g)[Len(g)].taken = g[Len(g)].taken + 1
         /\ \A i \in DOMAIN g : TakenOneMore(g)[i].op = g[i].op
         /\ \A i \in DOMAIN g : i # Len(g) => TakenOneMore(g)[i] = g[i]
         /\ GivenOK(TakenOneMore(g))
         /\ NextValue(g).value \in Values
<1>1. /\ g \in Seq([op : Operations, taken : Nat]) /\ g # <<>>
      /\ \A i \in DOMAIN g : g[i].taken <= Len(g[i].op.metrics)
  BY DEF GivenOK
<1>2. Len(g) \in Nat \ {0} /\ DOMAIN g = 1..Len(g)
  BY <1>1
<1>3. PICK n : n = Len(g)
  OBVIOUS
<1>4. n \in DOMAIN g /\ g[n] \in [op : Operations, taken : Nat]
  BY <1>2, <1>3, GivenIs
<1>5. PICK x : x = [g[n] EXCEPT !.taken = @ + 1]
  OBVIOUS
<1>6. x.op = g[n].op /\ x.taken = g[n].taken + 1 /\ x \in [op : Operations, taken : Nat]
  BY <1>4, <1>5
<1>7. PICK h : h = TakenOneMore(g)
  OBVIOUS
<1>8. h = [g EXCEPT ![n] = x]
  BY <1>3, <1>5, <1>7 DEF TakenOneMore
<1>9. /\ h \in Seq([op : Operations, taken : Nat]) /\ DOMAIN h = DOMAIN g /\ Len(h) = n
      /\ h[n] = x /\ \A i \in DOMAIN g : i # n => h[i] = g[i]
  BY <1>1, <1>2, <1>3, <1>4, <1>6, <1>8
<1>10. \A i \in DOMAIN g : h[i].op = g[i].op
  BY <1>6, <1>9
<1>11. Len(g[n].op.metrics) \in Nat
  BY <1>4, MergeAssumption
<1>12. GivenOK(h)
  <2>1. \A i \in DOMAIN h : h[i].taken <= Len(h[i].op.metrics)
    <3>1. h[n].taken <= Len(h[n].op.metrics)
      BY <1>3, <1>4, <1>6, <1>9, <1>11
    <3>2. QED
      BY <1>1, <1>9, <3>1
  <2>2. h # <<>>
    BY <1>2, <1>3, <1>9
  <2>3. QED
    BY <1>9, <2>1, <2>2 DEF GivenOK
<1>13. NextValue(g).value \in Values
  <2>1. g[n].taken + 1 \in 1..Len(g[n].op.metrics)
    BY <1>3, <1>4, <1>11
  <2>2. QED
    BY <1>3, <1>4, <2>1, TakenIs DEF NextValue
<1>14. QED
  BY <1>3, <1>4, <1>6, <1>7, <1>9, <1>10, <1>12, <1>13

\* The value that is taken has a place of its own, after all others.
LEMMA PlacesNext ==
  ASSUME NEW g, GivenOK(g), g[Len(g)].taken < Len(g[Len(g)].op.metrics), NEW key
  PROVE  /\ key # NextValue(g).key => Places(TakenOneMore(g), key) = Places(g, key)
         /\ key = NextValue(g).key =>
              Places(TakenOneMore(g), key) = Places(g, key) \cup {NextPlace(g)}
         /\ NextPlace(g) \notin Places(g, key)
         /\ \A p \in Places(g, key) : Before(p, NextPlace(g))
<1>1. PICK n, t, h : n = Len(g) /\ t = g[n].taken /\ h = TakenOneMore(g)
  OBVIOUS
<1>2. /\ n \in DOMAIN g /\ t \in Nat /\ DOMAIN h = DOMAIN g /\ h[n].taken = t + 1
      /\ \A i \in DOMAIN g : h[i].op = g[i].op
      /\ \A i \in DOMAIN g : i # n => h[i] = g[i]
      /\ DOMAIN g = 1..n /\ n \in Nat
  BY <1>1, GivenIs, OneMore
<1>3. NextPlace(g) = <<n, t + 1>> /\ NextValue(g).key = g[n].op.metrics[t + 1].key
  BY <1>1 DEF NextPlace, NextValue
<1>4. ASSUME NEW p \in Places(g, key)
      PROVE  p \in Places(h, key) /\ p # <<n, t + 1>> /\ Before(p, <<n, t + 1>>)
  <2>1. PICK i, j :
          i \in DOMAIN g /\ j \in 1..g[i].taken /\ p = <<i, j>> /\ g[i].op.metrics[j].key = key
    BY PlacesAre
  <2>2. i = n => j \in 1..t
    BY <1>1, <2>1
  <2>3. j \in 1..h[i].taken
    <3>1. CASE i = n
      BY <1>2, <2>2, <3>1
    <3>2. CASE i # n
      BY <1>2, <2>1, <3>2
    <3>3. QED
      BY <3>1, <3>2
  <2>4. h[i].op.metrics[j].key = key
    BY <1>2, <2>1
  <2>5. p \in Places(h, key)
    BY <1>2, <2>1, <2>3, <2>4, PlacesAre
  <2>6. p # <<n, t + 1>>
    BY <1>2, <2>1, <2>2
  <2>7. i < n \/ (i = n /\ j <= t + 1)
    BY <1>2, <2>1, <2>2
  <2>8. QED
    BY <2>1, <2>5, <2>6, <2>7 DEF Before
<1>5. ASSUME NEW p \in Places(h, key)
      PROVE  p \in Places(g, key) \/ (p = <<n, t + 1>> /\ key = NextValue(g).key)
  <2>1. PICK i, j :
          i \in DOMAIN h /\ j \in 1..h[i].taken /\ p = <<i, j>> /\ h[i].op.metrics[j].key = key
    BY PlacesAre
  <2>2. i \in DOMAIN g /\ g[i].op.metrics[j].key = key
    BY <1>2, <2>1
  <2>3. CASE i = n /\ j = t + 1
    BY <1>3, <2>1, <2>2, <2>3
  <2>4. CASE ~(i = n /\ j = t + 1)
    <3>1. j \in 1..g[i].taken
      <4>1. CASE i = n
        <5>1. j \in 1..(t + 1) /\ j # t + 1
          BY <1>2, <2>1, <2>4, <4>1
        <5>2. j \in 1..t
          BY <1>2, <5>1
        <5>3. QED
          BY <1>1, <4>1, <5>2
      <4>2. CASE i # n
        BY <1>2, <2>1, <2>2, <4>2
      <4>3. QED
        BY <4>1, <4>2
    <3>2. QED
      BY <2>1, <2>2, <3>1, PlacesAre
  <2>5. QED
    BY <2>3, <2>4
<1>6. key = NextValue(g).key => <<n, t + 1>> \in Places(h, key)
  <2>1. n \in DOMAIN h /\ t + 1 \in 1..h[n].taken
    BY <1>2
  <2>2. h[n].op.metrics[t + 1].key = NextValue(g).key
    BY <1>2, <1>3
  <2>3. QED
    BY <2>1, <2>2, PlacesAre
<1>7. QED
  BY <1>1, <1>3, <1>4, <1>5, <1>6

LEMMA TakenNext ==
  ASSUME NEW g, GivenOK(g), g[Len(g)].taken < Len(g[Len(g)].op.metrics), NEW key
  PROVE  /\ key # NextValue(g).key => TakenFor(TakenOneMore(g), key) = TakenFor(g, key)
         /\ key = NextValue(g).key =>
              TakenFor(TakenOneMore(g), key) =
                With(TakenFor(g, key), NextPlace(g), NextValue(g).value)
<1>1. PICK n, t, h, x : /\ n = Len(g) /\ t = g[n].taken /\ h = TakenOneMore(g)
                        /\ x = NextPlace(g)
  OBVIOUS
<1>2. ASSUME NEW p \in Places(g, key)
      PROVE  p # x /\ h[p[1]].op.metrics[p[2]].value = g[p[1]].op.metrics[p[2]].value
  <2>1. PICK i, j : i \in DOMAIN g /\ j \in 1..g[i].taken /\ p = <<i, j>>
    BY PlacesAre
  <2>2. p[1] = i /\ h[i].op = g[i].op
    BY <1>1, <2>1, OneMore
  <2>3. QED
    BY <1>1, <2>2, PlacesNext
<1>3. h[x[1]].op.metrics[x[2]].value = NextValue(g).value
  <2>1. x[1] = n /\ x[2] = t + 1 /\ NextValue(g) = g[n].op.metrics[t + 1]
    BY <1>1 DEF NextPlace, NextValue
  <2>2. h[n].op = g[n].op
    BY <1>1, OneMore
  <2>3. QED
    BY <2>1, <2>2
<1>4. CASE key # NextValue(g).key
  <2>1. Places(h, key) = Places(g, key)
    BY <1>1, <1>4, PlacesNext
  <2>2. TakenFor(h, key) = TakenFor(g, key)
    BY <1>2, <2>1, Zenon DEF TakenFor
  <2>3. QED
    BY <1>1, <1>4, <2>2
<1>5. CASE key = NextValue(g).key
  <2>1. Places(h, key) = Places(g, key) \cup {x}
    BY <1>1, <1>5, PlacesNext
  <2>2. PICK f, v : f = TakenFor(g, key) /\ v = NextValue(g).value
    OBVIOUS
  <2>3. DOMAIN f = Places(g, key) /\ \A p \in Places(g, key) : f[p] = g[p[1]].op.metrics[p[2]].value
    BY <2>2 DEF TakenFor
  <2>4. \A p \in Places(g, key) \cup {x} :
          h[p[1]].op.metrics[p[2]].value = IF p = x THEN v ELSE f[p]
    BY <1>2, <1>3, <2>2, <2>3
  <2>5. TakenFor(h, key) = [p \in Places(g, key) \cup {x} |-> IF p = x THEN v ELSE f[p]]
    BY <2>1, <2>4, Zenon DEF TakenFor
  <2>6. TakenFor(h, key) = With(f, x, v)
    BY <2>3, <2>5, Zenon DEF With
  <2>7. QED
    BY <1>1, <1>5, <2>2, <2>6
<1>6. QED
  BY <1>4, <1>5

-----------------------------------------------------------------------------
(* A value more.                                                           *)

LEMMA SumNext ==
  ASSUME NEW f, IsFiniteSet(DOMAIN f), \A q \in DOMAIN f : f[q] \in Values,
         NEW p, p \notin DOMAIN f, NEW v \in Values
  PROVE  SumOf(With(f, p, v)) = v.val + SumOf(f)
<1>1. PICK w, S, T, j, k : /\ w = With(f, p, v) /\ S = DOMAIN f /\ T = DOMAIN w
                           /\ j = [q \in S |-> f[q].val] /\ k = [q \in T |-> w[q].val]
  OBVIOUS
<1>2. T = S \cup {p} /\ w[p] = v /\ \A q \in S : w[q] = f[q]
  BY <1>1 DEF With
<1>3. IsFiniteSet(T)
  BY <1>1, <1>2, FS_AddElement
<1>4. \A q \in S : f[q].val \in Int
  BY <1>1, ValueIs
<1>5. v.val \in Int
  BY ValueIs
<1>6. k[p] = v.val /\ p \in T /\ \A q \in S : k[q] = f[q].val /\ j[q] = f[q].val
  BY <1>1, <1>2
<1>7. \A q \in T : k[q] \in Int
  BY <1>2, <1>4, <1>5, <1>6
<1>8. Sum(k, T) = k[p] + Sum(k, T \ {p})
  BY <1>3, <1>6, <1>7, SumWithout
<1>9. T \ {p} = S
  BY <1>1, <1>2
<1>10. Sum(k, S) = Sum(j, S)
  <2>1. IsFiniteSet(S) /\ \A q \in S : j[q] \in Int /\ k[q] = j[q]
    BY <1>1, <1>4, <1>6
  <2>2. QED
    BY <2>1, SumIsSame
<1>11. SumOf(w) = Sum(k, T) /\ SumOf(f) = Sum(j, S)
  BY <1>1, Zenon DEF SumOf
<1>12. QED
  BY <1>1, <1>6, <1>8, <1>9, <1>10, <1>11

LEMMA SumOfFirst ==
  ASSUME NEW f, DOMAIN f = {}
  PROVE  SumOf(f) = 0
<1>1. SumOf(f) = Sum([p \in {} |-> f[p].val], {})
  BY Zenon DEF SumOf
<1>2. QED
  BY <1>1, SumOfNone

\* The first value taken.
LEMMA FirstKept ==
  ASSUME NEW f, DOMAIN f = {}, NEW p, NEW v \in Values, Before(p, p)
  PROVE  Summed(v, With(f, p, v)) /\ LastTaken(v, With(f, p, v))
<1>1. PICK w : w = With(f, p, v)
  OBVIOUS
<1>2. DOMAIN w = {p} /\ w[p] = v
  BY <1>1 DEF With
<1>3. v.val \in Nat /\ v.start_time \in Nat /\ v.end_time \in Nat
  BY ValueIs
<1>4. SumOf(w) = v.val
  <2>1. IsFiniteSet(DOMAIN f)
    BY FS_EmptySet
  <2>2. SumOf(w) = v.val + SumOf(f)
    BY <1>1, <2>1, SumNext
  <2>3. QED
    BY <1>3, <2>2, SumOfFirst
<1>5. StartsAt(v.start_time, w) /\ EndsAt(v.end_time, w)
  BY <1>2, <1>3 DEF StartsAt, EndsAt
<1>6. LastTaken(v, w)
  BY <1>2 DEF LastTaken
<1>7. QED
  BY <1>1, <1>4, <1>5, <1>6 DEF Summed

\* A value that is merged.
LEMMA NextKept ==
  ASSUME NEW f, IsFiniteSet(DOMAIN f), \A q \in DOMAIN f : f[q] \in Values,
         NEW p, p \notin DOMAIN f, Before(p, p), \A q \in DOMAIN f : Before(q, p),
         NEW held \in Values, NEW v \in Values
  PROVE  /\ LastTaken(v, With(f, p, v))
         /\ Summed(held, f) => Summed(Merged("DELTA", held, v), With(f, p, v))
<1>1. PICK w : w = With(f, p, v)
  OBVIOUS
<1>2. /\ DOMAIN w = DOMAIN f \cup {p} /\ w[p] = v
      /\ \A q \in DOMAIN f : w[q] = f[q]
  BY <1>1 DEF With
<1>3. LastTaken(v, w)
  BY <1>2 DEF LastTaken
<1>4. ASSUME Summed(held, f)
      PROVE  Summed(Merged("DELTA", held, v), w)
  <2>1. PICK n, s, e, m : /\ n = held.val + v.val /\ m = Merged("DELTA", held, v)
                          /\ s = Earlier(held.start_time, v.start_time)
                          /\ e = Later(held.end_time, v.end_time)
    OBVIOUS
  <2>2. m = Number(v.type, v.buckets, n, s, e)
    BY <2>1, MergedIs
  <2>3. m.val = n /\ m.start_time = s /\ m.end_time = e
    BY <2>2 DEF Number
  <2>4. /\ held.val \in Nat /\ held.start_time \in Nat /\ held.end_time \in Nat
        /\ v.val \in Nat /\ v.start_time \in Nat /\ v.end_time \in Nat
    BY ValueIs
  <2>5. \A q \in DOMAIN f : f[q].start_time \in Nat /\ f[q].end_time \in Nat
    BY ValueIs
  <2>6. n = SumOf(w)
    <3>1. SumOf(w) = v.val + SumOf(f)
      BY <1>1, SumNext
    <3>2. SumOf(f) = held.val
      BY <1>4 DEF Summed
    <3>3. QED
      BY <2>1, <2>4, <3>1, <3>2
  <2>7. StartsAt(s, w)
    <3>1. s = IF held.start_time = 0 THEN v.start_time
              ELSE IF v.start_time = 0 THEN held.start_time
              ELSE IF held.start_time < v.start_time THEN held.start_time ELSE v.start_time
      BY <2>1, <2>4, EarlierIs
    <3>2. StartsAt(held.start_time, f)
      BY <1>4 DEF Summed
    <3>3. s # 0 => (s = held.start_time /\ held.start_time # 0) \/ s = v.start_time
      BY <3>1
    <3>4. s # 0 => \E q \in DOMAIN w : s = w[q].start_time
      BY <1>2, <3>2, <3>3 DEF StartsAt
    <3>5. /\ held.start_time # 0 => s # 0 /\ s <= held.start_time
          /\ v.start_time # 0 => s # 0 /\ s <= v.start_time
          /\ s \in Nat
      BY <2>4, <3>1
    <3>6. ASSUME NEW q \in DOMAIN w, w[q].start_time # 0
          PROVE  s # 0 /\ s <= w[q].start_time
      <4>1. CASE q = p
        BY <1>2, <3>5, <3>6, <4>1
      <4>2. CASE q \in DOMAIN f
        <5>1. f[q].start_time # 0 /\ w[q] = f[q] /\ f[q].start_time \in Nat
          BY <1>2, <2>5, <3>6, <4>2
        <5>2. held.start_time # 0 /\ held.start_time <= f[q].start_time
          BY <3>2, <4>2, <5>1 DEF StartsAt
        <5>3. s # 0 /\ s <= f[q].start_time
          BY <2>4, <3>5, <5>1, <5>2
        <5>4. QED
          BY <5>1, <5>3
      <4>3. QED
        BY <1>2, <4>1, <4>2
    <3>7. QED
      BY <3>4, <3>6 DEF StartsAt
  <2>8. EndsAt(e, w)
    <3>1. e = IF held.end_time < v.end_time THEN v.end_time ELSE held.end_time
      BY <2>1, <2>4, LaterIs
    <3>2. EndsAt(held.end_time, f)
      BY <1>4 DEF Summed
    <3>3. \E q \in DOMAIN w : e = w[q].end_time
      BY <1>2, <3>1, <3>2 DEF EndsAt
    <3>4. held.end_time <= e /\ v.end_time <= e /\ e \in Nat
      BY <2>4, <3>1
    <3>5. ASSUME NEW q \in DOMAIN w
          PROVE  w[q].end_time <= e
      <4>1. CASE q = p
        BY <1>2, <3>4, <4>1
      <4>2. CASE q \in DOMAIN f
        <5>1. w[q] = f[q] /\ f[q].end_time \in Nat /\ f[q].end_time <= held.end_time
          BY <1>2, <2>5, <3>2, <4>2 DEF EndsAt
        <5>2. f[q].end_time <= e
          BY <2>4, <3>4, <5>1
        <5>3. QED
          BY <5>1, <5>2
      <4>3. QED
        BY <1>2, <4>1, <4>2
    <3>6. QED
      BY <3>3, <3>5 DEF EndsAt
  <2>9. QED
    BY <2>1, <2>3, <2>6, <2>7, <2>8 DEF Summed
<1>5. QED
  BY <1>1, <1>3, <1>4

\* Of a delta, what is stored is still a value.
LEMMA MergedIsValue ==
  ASSUME NEW prior \in Values, NEW latest \in Values, NEW kind
  PROVE  Merged(kind, prior, latest) \in Values
<1>1. CASE kind # "DELTA"
  BY <1>1, MergedIs
<1>2. CASE kind = "DELTA"
  <2>1. PICK n, s, e : /\ n = prior.val + latest.val
                       /\ s = Earlier(prior.start_time, latest.start_time)
                       /\ e = Later(prior.end_time, latest.end_time)
    OBVIOUS
  <2>2. Merged(kind, prior, latest) = Number(latest.type, latest.buckets, n, s, e)
    BY <1>2, <2>1, MergedIs
  <2>3. /\ prior.val \in Nat /\ prior.start_time \in Nat /\ prior.end_time \in Nat
        /\ latest.val \in Nat /\ latest.start_time \in Nat /\ latest.end_time \in Nat
    BY ValueIs
  <2>4. n \in Nat /\ s \in Nat /\ e \in Nat
    BY <2>1, <2>3, EarlierIs, LaterIs
  <2>5. latest.type \in OneOfFields /\ latest.buckets \in Buckets
    BY DEF Values
  <2>6. QED
    BY <2>2, <2>4, <2>5 DEF Number, Values
<1>3. QED
  BY <1>1, <1>2

-----------------------------------------------------------------------------
(* The aggregator's operations keep the invariant.                         *)

LEMMA AggIs ==
  ASSUME NEW a, AggOK(a)
  PROVE  /\ ~a.raised => a = Sound(a.logs, a.end_time, a.values)
         /\ a.raised => a = Broken(a.logs, a.end_time, a.values)
<1>1. PICK l, e, v : l = a.logs /\ e = a.end_time /\ v = a.values
  OBVIOUS
<1>2. a = Sound(l, e, v) \/ a = Broken(l, e, v)
  BY <1>1 DEF AggOK
<1>3. a = Sound(l, e, v) => ~a.raised
  BY DEF Sound
<1>4. a = Broken(l, e, v) => a.raised
  BY DEF Broken
<1>5. QED
  BY <1>1, <1>2, <1>3, <1>4

LEMMA MadeOK ==
  ASSUME NEW l, NEW e \in Nat, NEW v, v \in [DOMAIN v -> Values]
  PROVE  AggOK(Sound(l, e, v)) /\ AggOK(Broken(l, e, v))
<1>1. PICK a, b : a = Sound(l, e, v) /\ b = Broken(l, e, v)
  OBVIOUS
<1>2. a.logs = l /\ a.end_time = e /\ a.values = v
  BY <1>1 DEF Sound
<1>3. b.logs = l /\ b.end_time = e /\ b.values = v
  BY <1>1 DEF Broken
<1>4. AggOK(a)
  BY <1>1, <1>2 DEF AggOK
<1>5. AggOK(b)
  BY <1>1, <1>3 DEF AggOK
<1>6. QED
  BY <1>1, <1>4, <1>5

\* What is kept of an aggregator that is the same but for `raised'.
LEMMA KeptSame ==
  ASSUME NEW a, NEW b, NEW g, Kept(a, g), AggOK(b),
         b.logs = a.logs, b.end_time = a.end_time, b.values = a.values
  PROVE  Kept(b, g)
BY DEF Kept, LogsKept, EndKept, KeysKept, ValuesKept

\* add() before the values, given an aggregator that did not raise.
LEMMA AddKeeps ==
  ASSUME NEW l, NEW e, NEW v, NEW g, Kept(Sound(l, e, v), g), NEW op \in Operations
  PROVE  Kept(Extended(Sound(l, e, v), op), Append(g, [op |-> op, taken |-> 0]))
<1>1. PICK a, b, h, n, x :
        /\ a = Sound(l, e, v) /\ b = Extended(a, op)
        /\ x = [op |-> op, taken |-> 0] /\ h = Append(g, x) /\ n = Len(g)
  OBVIOUS
<1>2. a.logs = l /\ a.end_time = e /\ a.values = v
  BY <1>1 DEF Sound
<1>3. GivenOK(g) /\ AggOK(a) /\ LogsKept(a, g) /\ EndKept(a, g)
      /\ KeysKept(a, g) /\ ValuesKept(a, g)
  BY <1>1 DEF Kept
<1>4. e \in Nat /\ v \in [DOMAIN v -> Values]
  BY <1>2, <1>3 DEF AggOK
<1>5. op.start_time \in Nat /\ op.end_time \in Nat /\ Len(op.metrics) \in Nat
  BY MergeAssumption
<1>6. PICK f : f = IF op.start_time # 0 THEN e ELSE Later(op.end_time, e)
  OBVIOUS
<1>7. f \in Nat /\ (op.start_time = 0 => f = IF op.end_time < e THEN e ELSE op.end_time)
  BY <1>4, <1>5, <1>6, LaterIs
<1>8. AggOK(b) /\ b.logs = l \o op.logs /\ b.end_time = f /\ b.values = v
  <2>1. CASE op.start_time # 0
    <3>1. b = Broken(l \o op.logs, f, v)
      BY <1>1, <1>6, <2>1, ExtendedIs
    <3>2. PICK k : k = l \o op.logs
      OBVIOUS
    <3>3. AggOK(Broken(k, f, v))
      BY <1>4, <1>7, MadeOK
    <3>4. b = Broken(k, f, v)
      BY <3>1, <3>2
    <3>5. b.logs = k /\ b.end_time = f /\ b.values = v
      BY <3>4 DEF Broken
    <3>6. QED
      BY <3>2, <3>3, <3>4, <3>5
  <2>2. CASE op.start_time = 0
    <3>1. b = Sound(l \o op.logs, f, v)
      BY <1>1, <1>6, <2>2, ExtendedIs
    <3>2. PICK k : k = l \o op.logs
      OBVIOUS
    <3>3. AggOK(Sound(k, f, v))
      BY <1>4, <1>7, MadeOK
    <3>4. b = Sound(k, f, v)
      BY <3>1, <3>2
    <3>5. b.logs = k /\ b.end_time = f /\ b.values = v
      BY <3>4 DEF Sound
    <3>6. QED
      BY <3>2, <3>3, <3>4, <3>5
  <2>3. QED
    BY <2>1, <2>2
<1>9. /\ n \in Nat \ {0} /\ DOMAIN g = 1..n /\ DOMAIN h = 1..(n + 1)
      /\ h[n + 1] = x /\ \A i \in 1..n : h[i] = g[i]
  <2>1. g \in Seq([op : Operations, taken : Nat]) /\ n \in Nat \ {0} /\ DOMAIN g = 1..n
    BY <1>1, <1>3, GivenIs DEF GivenOK
  <2>2. QED
    BY <1>1, <2>1
<1>10. x.op = op /\ x.taken = 0 /\ x \in [op : Operations, taken : Nat]
  BY <1>1
<1>11. GivenOK(h)
  <2>1. h \in Seq([op : Operations, taken : Nat])
    BY <1>1, <1>3, <1>10 DEF GivenOK
  <2>2. h # <<>>
    BY <1>9
  <2>3. ASSUME NEW i \in DOMAIN h PROVE h[i].taken <= Len(h[i].op.metrics)
    <3>1. CASE i = n + 1
      BY <1>5, <1>9, <1>10, <3>1
    <3>2. CASE i \in DOMAIN g
      BY <1>3, <1>9, <3>2 DEF GivenOK
    <3>3. QED
      BY <1>9, <3>1, <3>2
  <2>4. QED
    BY <2>1, <2>2, <2>3 DEF GivenOK
<1>12. LogsKept(b, h)
  <2>1. PICK s, t : /\ s = [i \in DOMAIN g |-> g[i].op.logs]
                    /\ t = [i \in DOMAIN h |-> h[i].op.logs]
    OBVIOUS
  <2>2. /\ Len(s) = n /\ Len(t) = n + 1 /\ t[n + 1] = op.logs
        /\ \A i \in 1..n : s[i] = t[i]
    BY <1>9, <1>10, <2>1
  <2>3. FlattenSeq(t) = FlattenSeq(s) \o t[n + 1]
    <3>1. n \in Nat /\ n > 0
      BY <1>9
    <3>2. QED
      BY <2>2, <3>1, FlattenNext, Zenon
  <2>4. l = FlattenSeq(s)
    BY <1>2, <1>3, <2>1, Zenon DEF LogsKept
  <2>5. b.logs = FlattenSeq(t)
    BY <1>8, <2>2, <2>3, <2>4
  <2>6. QED
    BY <2>1, <2>5, Zenon DEF LogsKept
<1>13. EndKept(b, h)
  <2>1. PICK i \in Timed(g) : e = g[i].op.end_time /\ \A j \in Timed(g) : g[j].op.end_time <= e
    BY <1>2, <1>3 DEF EndKept
  <2>2. \A j \in Timed(g) : j \in Timed(h) /\ h[j] = g[j]
    BY <1>9 DEF Timed
  <2>3. \A j \in Timed(h) : j \in Timed(g) \/ (j = n + 1 /\ op.start_time = 0)
    BY <1>9, <1>10 DEF Timed
  <2>4. \A j \in Timed(g) : g[j].op.end_time \in Nat
    <3>1. \A j \in Timed(g) : g[j].op \in Operations
      BY <1>3, GivenIs DEF Timed
    <3>2. QED
      BY <3>1, MergeAssumption
  <2>5. CASE op.start_time # 0
    BY <1>6, <1>8, <2>1, <2>2, <2>3, <2>5 DEF EndKept
  <2>6. CASE op.start_time = 0
    <3>1. n + 1 \in Timed(h) /\ h[n + 1].op.end_time = op.end_time
      BY <1>9, <1>10, <2>6 DEF Timed
    <3>2. ASSUME NEW j \in Timed(h) PROVE h[j].op.end_time <= f
      <4>1. CASE j \in Timed(g)
        BY <1>4, <1>5, <1>7, <2>1, <2>2, <2>4, <2>6, <4>1
      <4>2. CASE j = n + 1
        BY <1>4, <1>5, <1>7, <2>6, <3>1, <4>2
      <4>3. QED
        BY <2>3, <4>1, <4>2
    <3>3. \E j \in Timed(h) : f = h[j].op.end_time
      <4>1. f = e \/ f = op.end_time
        BY <1>7, <2>6
      <4>2. QED
        BY <2>1, <2>2, <3>1, <4>1
    <3>4. QED
      BY <1>8, <3>2, <3>3 DEF EndKept
  <2>7. QED
    BY <1>5, <2>5, <2>6
<1>14. \A key : TakenFor(h, key) = TakenFor(g, key) /\ Places(h, key) = Places(g, key)
  BY <1>1, <1>3, PlacesOfNew, Zenon
<1>15. KeysKept(b, h) /\ ValuesKept(b, h)
  BY <1>2, <1>3, <1>8, <1>14 DEF KeysKept, ValuesKept
<1>16. Kept(b, h)
  BY <1>8, <1>11, <1>12, <1>13, <1>15 DEF Kept
<1>17. QED
  BY <1>1, <1>16, Zenon

\* A round of _merge_metric_values, from an aggregator that did not raise.
LEMMA MergeKeeps ==
  ASSUME NEW l, NEW e, NEW v, NEW g, Kept(Sound(l, e, v), g),
         g[Len(g)].taken < Len(g[Len(g)].op.metrics),
         NEW b, b = Take(Sound(l, e, v), NextValue(g))
  PROVE  /\ b.raised => Kept(b, g)
         /\ ~b.raised => Kept(b, TakenOneMore(g))
<1>1. PICK a, h, m : a = Sound(l, e, v) /\ h = TakenOneMore(g) /\ m = NextValue(g)
  OBVIOUS
<1>2. a.logs = l /\ a.end_time = e /\ a.values = v
  BY <1>1 DEF Sound
<1>3. GivenOK(g) /\ AggOK(a) /\ LogsKept(a, g) /\ EndKept(a, g)
      /\ KeysKept(a, g) /\ ValuesKept(a, g)
  BY <1>1 DEF Kept
<1>4. e \in Nat /\ v \in [DOMAIN v -> Values]
  BY <1>2, <1>3 DEF AggOK
<1>5. /\ GivenOK(h) /\ DOMAIN h = DOMAIN g /\ m.value \in Values
      /\ \A i \in DOMAIN g : h[i].op = g[i].op
      /\ Len(g) \in Nat /\ g[Len(g)].taken \in Nat
  BY <1>1, <1>3, OneMore, GivenIs
<1>6. PICK p : p = NextPlace(g)
  OBVIOUS
<1>7. Before(p, p)
  BY <1>5, <1>6 DEF Before, NextPlace
<1>8. LogsKept(a, h)
  <2>1. [i \in DOMAIN h |-> h[i].op.logs] = [i \in DOMAIN g |-> g[i].op.logs]
    BY <1>5, Zenon
  <2>2. QED
    BY <1>3, <2>1 DEF LogsKept
<1>9. EndKept(a, h)
  <2>1. Timed(h) = Timed(g)
    BY <1>5 DEF Timed
  <2>2. \A i \in Timed(g) : h[i].op = g[i].op
    BY <1>5 DEF Timed
  <2>3. QED
    BY <1>3, <2>1, <2>2 DEF EndKept
<1>10. \A key : /\ key # m.key => /\ TakenFor(h, key) = TakenFor(g, key)
                                  /\ Places(h, key) = Places(g, key)
                /\ key = m.key => /\ TakenFor(h, key) = With(TakenFor(g, key), p, m.value)
                                  /\ Places(h, key) = Places(g, key) \cup {p}
                /\ p \notin Places(g, key)
                /\ \A q \in Places(g, key) : Before(q, p)
  <2>1. ASSUME NEW key
        PROVE  /\ key # m.key => Places(h, key) = Places(g, key)
               /\ key = m.key => Places(h, key) = Places(g, key) \cup {p}
               /\ p \notin Places(g, key)
               /\ \A q \in Places(g, key) : Before(q, p)
    BY <1>1, <1>3, <1>6, PlacesNext, Zenon
  <2>2. ASSUME NEW key
        PROVE  /\ key # m.key => TakenFor(h, key) = TakenFor(g, key)
               /\ key = m.key => TakenFor(h, key) = With(TakenFor(g, key), p, m.value)
    BY <1>1, <1>3, <1>6, TakenNext, Zenon
  <2>3. QED
    BY <2>1, <2>2
<1>11. \A key : DOMAIN TakenFor(g, key) = Places(g, key)
  BY DEF TakenFor
<1>12. \A key : IsFiniteSet(Places(g, key)) /\ IsFiniteSet(Places(h, key))
  <2>1. \A key : IsFiniteSet(Places(g, key))
    BY <1>3 DEF KeysKept
  <2>2. ASSUME NEW key PROVE IsFiniteSet(Places(h, key))
    <3>1. IsFiniteSet(Places(g, key) \cup {p})
      BY <2>1, FS_AddElement
    <3>2. QED
      BY <1>10, <2>1, <3>1
  <2>3. QED
    BY <2>1, <2>2
<1>13. CASE m.key \notin DOMAIN v
  <2>1. PICK w : w = WithFirst(v, m)
    OBVIOUS
  <2>2. b = Sound(l, e, w)
    BY <1>1, <1>13, <2>1, TakeIs
  <2>3. /\ DOMAIN w = DOMAIN v \cup {m.key} /\ w[m.key] = m.value
        /\ \A key \in DOMAIN v : w[key] = v[key]
    BY <1>13, <2>1 DEF WithFirst
  <2>4. w \in [DOMAIN w -> Values]
    <3>1. \A key \in DOMAIN w : w[key] \in Values
      BY <1>4, <1>5, <2>3
    <3>2. w = [key \in DOMAIN w |-> w[key]]
      BY <2>1 DEF WithFirst
    <3>3. QED
      BY <3>1, <3>2
  <2>5. ~b.raised /\ b.logs = l /\ b.end_time = e /\ b.values = w
    BY <2>2 DEF Sound
  <2>6. AggOK(b)
    BY <1>4, <2>2, <2>4, MadeOK
  <2>7. Places(g, m.key) = {}
    BY <1>2, <1>3, <1>13 DEF KeysKept
  <2>8. KeysKept(b, h)
    <3>1. \A key : key \in DOMAIN w <=> Places(h, key) # {}
      BY <1>2, <1>3, <1>10, <2>3 DEF KeysKept
    <3>2. QED
      BY <1>12, <2>5, <3>1 DEF KeysKept
  <2>9. ValuesKept(b, h)
    <3>1. Summed(m.value, TakenFor(h, m.key)) /\ LastTaken(m.value, TakenFor(h, m.key))
      <4>1. PICK f : f = TakenFor(g, m.key)
        OBVIOUS
      <4>2. DOMAIN f = {}
        BY <1>11, <2>7, <4>1
      <4>3. Summed(m.value, With(f, p, m.value)) /\ LastTaken(m.value, With(f, p, m.value))
        BY <1>5, <1>7, <4>2, FirstKept
      <4>4. TakenFor(h, m.key) = With(f, p, m.value)
        BY <1>10, <4>1
      <4>5. QED
        BY <4>3, <4>4
    <3>2. ASSUME NEW key \in DOMAIN v
          PROVE  v[key] = w[key] /\ TakenFor(h, key) = TakenFor(g, key)
      BY <1>10, <1>13, <2>3
    <3>3. QED
      BY <1>2, <1>3, <2>3, <2>5, <3>1, <3>2 DEF ValuesKept
  <2>10. LogsKept(b, h) /\ EndKept(b, h)
    BY <1>2, <1>8, <1>9, <2>5 DEF LogsKept, EndKept
  <2>11. QED
    BY <1>1, <1>5, <2>5, <2>6, <2>8, <2>9, <2>10 DEF Kept
<1>14. CASE m.key \in DOMAIN v /\ Merges(KindOf(m.key.name), v[m.key], m.value)
  <2>1. PICK w, x : w = WithMerged(v, m) /\ x = Merged(KindOf(m.key.name), v[m.key], m.value)
    OBVIOUS
  <2>2. b = Sound(l, e, w)
    BY <1>1, <1>14, <2>1, TakeIs
  <2>3. v[m.key] \in Values
    BY <1>4, <1>14
  <2>4. x \in Values
    BY <1>5, <2>1, <2>3, MergedIsValue
  <2>5. w = [v EXCEPT ![m.key] = x]
    BY <2>1, Zenon DEF WithMerged
  <2>6. /\ DOMAIN w = DOMAIN v /\ w[m.key] = x /\ w \in [DOMAIN w -> Values]
        /\ \A key \in DOMAIN v : key # m.key => w[key] = v[key]
    BY <1>4, <1>14, <2>4, <2>5
  <2>7. ~b.raised /\ b.logs = l /\ b.end_time = e /\ b.values = w
    BY <2>2 DEF Sound
  <2>8. AggOK(b)
    BY <1>4, <2>2, <2>6, MadeOK
  <2>9. KeysKept(b, h)
    <3>1. \A key : key \in DOMAIN w <=> Places(h, key) # {}
      BY <1>2, <1>3, <1>10, <1>14, <2>6 DEF KeysKept
    <3>2. QED
      BY <1>12, <2>7, <3>1 DEF KeysKept
  <2>10. ValuesKept(b, h)
    <3>1. PICK f, kind : f = TakenFor(g, m.key) /\ kind = KindOf(m.key.name)
      OBVIOUS
    <3>2. IsFiniteSet(DOMAIN f) /\ p \notin DOMAIN f /\ \A q \in DOMAIN f : Before(q, p)
      BY <1>10, <1>11, <1>12, <3>1
    <3>3. \A q \in DOMAIN f : f[q] \in Values
      BY <1>3, <1>11, <3>1, PlaceIs
    <3>4. TakenFor(h, m.key) = With(f, p, m.value)
      BY <1>10, <3>1
    <3>5. /\ LastTaken(m.value, With(f, p, m.value))
          /\ Summed(v[m.key], f) =>
               Summed(Merged("DELTA", v[m.key], m.value), With(f, p, m.value))
      BY <1>5, <1>7, <2>3, <3>2, <3>3, NextKept
    <3>6. IF kind = "DELTA" THEN Summed(x, TakenFor(h, m.key))
          ELSE LastTaken(x, TakenFor(h, m.key))
      <4>1. CASE kind = "DELTA"
        <5>1. Summed(v[m.key], f)
          BY <1>2, <1>3, <1>14, <3>1, <4>1 DEF ValuesKept
        <5>2. x = Merged("DELTA", v[m.key], m.value)
          BY <2>1, <3>1, <4>1
        <5>3. QED
          BY <3>4, <3>5, <4>1, <5>1, <5>2
      <4>2. CASE kind # "DELTA"
        <5>1. x = m.value
          BY <1>5, <2>1, <2>3, <3>1, <4>2, MergedIs
        <5>2. QED
          BY <3>4, <3>5, <4>2, <5>1
      <4>3. QED
        BY <4>1, <4>2
    <3>7. ASSUME NEW key \in DOMAIN v, key # m.key
          PROVE  v[key] = w[key] /\ TakenFor(h, key) = TakenFor(g, key)
      BY <1>10, <2>6, <3>7
    <3>8. QED
      BY <1>2, <1>3, <2>6, <2>7, <3>1, <3>6, <3>7 DEF ValuesKept
  <2>11. LogsKept(b, h) /\ EndKept(b, h)
    BY <1>2, <1>8, <1>9, <2>7 DEF LogsKept, EndKept
  <2>12. QED
    BY <1>1, <1>5, <2>7, <2>8, <2>9, <2>10, <2>11 DEF Kept
<1>15. CASE m.key \in DOMAIN v /\ ~Merges(KindOf(m.key.name), v[m.key], m.value)
  <2>1. b = Broken(l, e, v)
    BY <1>1, <1>15, TakeIs
  <2>2. b.raised /\ b.logs = l /\ b.end_time = e /\ b.values = v
    BY <2>1 DEF Broken
  <2>3. AggOK(b)
    BY <1>4, <2>1, MadeOK
  <2>4. Kept(b, g)
    BY <1>1, <1>2, <2>2, <2>3, KeptSame
  <2>5. QED
    BY <2>2, <2>4
<1>16. QED
  BY <1>13, <1>14, <1>15

LEMMA InitKeeps == MergeInit => MergeInv
<1>1. SUFFICES ASSUME NEW op \in Operations, agg = Opened(op),
                      given = <<[op |-> op, taken |-> 0]>>
               PROVE  MergeInv
  BY DEF MergeInit
<1>2. PICK a, g, v : a = agg /\ g = given /\ v = [k \in {} |-> 0]
  OBVIOUS
<1>3. a = Sound(op.logs, op.end_time, v)
  BY <1>1, <1>2, Zenon DEF Opened, Sound
<1>4. op.end_time \in Nat /\ Len(op.metrics) \in Nat
  BY MergeAssumption
<1>5. DOMAIN v = {} /\ v \in [DOMAIN v -> Values]
  BY <1>2
<1>6. AggOK(a)
  BY <1>3, <1>4, <1>5, MadeOK
<1>7. a.logs = op.logs /\ a.end_time = op.end_time /\ a.values = v
  BY <1>3 DEF Sound
<1>8. /\ g = <<[op |-> op, taken |-> 0]>>
      /\ DOMAIN g = {1} /\ g[1].op = op /\ g[1].taken = 0 /\ g # <<>>
  BY <1>1, <1>2
<1>9. g \in Seq([op : Operations, taken : Nat])
  <2>1. PICK x : x = [op |-> op, taken |-> 0]
    OBVIOUS
  <2>2. x \in [op : Operations, taken : Nat]
    BY <2>1
  <2>3. g = <<x>>
    BY <1>8, <2>1
  <2>4. QED
    BY <2>2, <2>3
<1>10. GivenOK(g)
  BY <1>4, <1>8, <1>9 DEF GivenOK
<1>11. LogsKept(a, g)
  <2>1. PICK s : s = [i \in DOMAIN g |-> g[i].op.logs]
    OBVIOUS
  <2>2. Len(s) = 1 /\ s[1] = op.logs
    BY <1>8, <2>1
  <2>3. FlattenSeq(s) = op.logs
    BY <2>2, FlattenOne
  <2>4. QED
    BY <1>7, <2>1, <2>3, Zenon DEF LogsKept
<1>12. EndKept(a, g)
  <2>1. Timed(g) = {1}
    BY <1>8 DEF Timed
  <2>2. QED
    BY <1>4, <1>7, <1>8, <2>1 DEF EndKept
<1>13. \A key : Places(g, key) = {}
  <2>1. ASSUME NEW key, NEW p \in Places(g, key) PROVE FALSE
    <3>1. PICK i, j : i \in DOMAIN g /\ j \in 1..g[i].taken
      BY PlacesAre
    <3>2. QED
      BY <1>8, <3>1
  <2>2. QED
    BY <2>1
<1>14. KeysKept(a, g) /\ ValuesKept(a, g)
  BY <1>5, <1>7, <1>13, FS_EmptySet DEF KeysKept, ValuesKept
<1>15. QED
  BY <1>2, <1>6, <1>10, <1>11, <1>12, <1>14 DEF MergeInv, Kept

\* The aggregator that the next call starts from.
LEMMA ClearedIs ==
  ASSUME NEW a, NEW g, Kept(a, g)
  PROVE  LET b == Sound(a.logs, a.end_time, a.values)
         IN [a EXCEPT !.raised = FALSE] = b /\ Kept(b, g)
<1>1. PICK l, e, v : l = a.logs /\ e = a.end_time /\ v = a.values
  OBVIOUS
<1>2. a = Sound(l, e, v) \/ a = Broken(l, e, v)
  BY <1>1 DEF Kept, AggOK
<1>3. [a EXCEPT !.raised = FALSE] = Sound(l, e, v)
  <2>1. CASE a = Sound(l, e, v)
    <3>1. [Sound(l, e, v) EXCEPT !.raised = FALSE] = Sound(l, e, v)
      BY MadeSound
    <3>2. QED
      BY <2>1, <3>1, Zenon
  <2>2. CASE a = Broken(l, e, v)
    <3>1. [Broken(l, e, v) EXCEPT !.raised = FALSE] = Sound(l, e, v)
      BY MadeSound
    <3>2. QED
      BY <2>2, <3>1, Zenon
  <2>3. QED
    BY <1>2, <2>1, <2>2
<1>4. PICK b : b = Sound(l, e, v)
  OBVIOUS
<1>5. b.logs = a.logs /\ b.end_time = a.end_time /\ b.values = a.values
  BY <1>1, <1>4 DEF Sound
<1>6. e \in Nat /\ v \in [DOMAIN v -> Values]
  BY <1>1 DEF Kept, AggOK
<1>7. AggOK(b)
  BY <1>4, <1>6, MadeOK
<1>8. Kept(b, g)
  BY <1>5, <1>7, KeptSame
<1>9. QED
  BY <1>1, <1>3, <1>4, <1>8, Zenon

LEMMA NextKeeps == MergeInv /\ [MergeNext]_mergeVars => MergeInv'
<1>1. SUFFICES ASSUME MergeInv, [MergeNext]_mergeVars PROVE MergeInv'
  OBVIOUS
<1>2. PICK a, g, b, h : a = agg /\ g = given /\ b = agg' /\ h = given'
  OBVIOUS
<1>3. Kept(a, g)
  BY <1>1, <1>2 DEF MergeInv
<1>4. SUFFICES Kept(b, h)
  BY <1>2 DEF MergeInv
<1>5. PICK c, l, e, v : /\ l = a.logs /\ e = a.end_time /\ v = a.values
                        /\ c = [a EXCEPT !.raised = FALSE]
  OBVIOUS
<1>6. c = Sound(l, e, v) /\ Kept(Sound(l, e, v), g)
  BY <1>3, <1>5, ClearedIs
<1>7. ASSUME NEW op \in Operations, Add(op)
      PROVE  Kept(b, h)
  <2>1. b = Extended(c, op) /\ h = Append(g, [op |-> op, taken |-> 0])
    BY <1>2, <1>5, <1>7 DEF Add
  <2>2. Kept(Extended(Sound(l, e, v), op), Append(g, [op |-> op, taken |-> 0]))
    BY <1>6, AddKeeps
  <2>3. QED
    BY <1>6, <2>1, <2>2, Zenon
<1>8. CASE MergeValue
  <2>1. ~a.raised /\ g[Len(g)].taken < Len(g[Len(g)].op.metrics)
    BY <1>2, <1>8 DEF MergeValue, Merging, Latest
  <2>2. a = Sound(l, e, v)
    <3>1. AggOK(a)
      BY <1>3 DEF Kept
    <3>2. QED
      BY <1>5, <2>1, <3>1, AggIs
  <2>3. b = Take(a, NextValue(g))
    BY <1>2, <1>8 DEF MergeValue, Latest, NextValue
  <2>4. /\ b.raised => Kept(b, g)
        /\ ~b.raised => Kept(b, TakenOneMore(g))
    <3>1. b = Take(Sound(l, e, v), NextValue(g))
      BY <2>2, <2>3
    <3>2. QED
      BY <1>6, <2>1, <3>1, MergeKeeps
  <2>5. h = [g EXCEPT ![Len(g)].taken = IF b.raised THEN @ ELSE @ + 1]
    BY <1>2, <1>8 DEF MergeValue
  <2>6. CASE b.raised
    <3>1. PICK n, x : n = Len(g) /\ x = g[n]
      OBVIOUS
    <3>2. g \in Seq([op : Operations, taken : Nat]) /\ GivenOK(g)
      BY <1>3 DEF Kept, GivenOK
    <3>3. n \in DOMAIN g /\ x \in [op : Operations, taken : Nat]
      BY <3>1, <3>2, GivenIs
    <3>4. h = [g EXCEPT ![n].taken = x.taken]
      BY <2>5, <2>6, <3>1
    <3>5. [x EXCEPT !.taken = x.taken] = x
      BY <3>3
    <3>6. [g EXCEPT ![n].taken = x.taken] = [g EXCEPT ![n] = [x EXCEPT !.taken = x.taken]]
      BY <3>1
    <3>7. h = [g EXCEPT ![n] = x]
      BY <3>4, <3>5, <3>6
    <3>8. h = g
      <4>1. PICK T : T = [op : Operations, taken : Nat]
        OBVIOUS
      <4>2. g \in Seq(T)
        BY <3>2, <4>1, Zenon
      <4>3. QED
        BY <3>1, <3>3, <3>7, <4>2
    <3>9. QED
      BY <2>4, <2>6, <3>8
  <2>7. CASE ~b.raised
    <3>1. h = TakenOneMore(g)
      BY <2>5, <2>7 DEF TakenOneMore
    <3>2. QED
      BY <2>4, <2>7, <3>1
  <2>8. QED
    BY <2>6, <2>7
<1>9. CASE UNCHANGED mergeVars
  BY <1>2, <1>3, <1>9 DEF mergeVars
<1>10. QED
  BY <1>1, <1>7, <1>8, <1>9 DEF MergeNext

\* What Aggregator holds at any point of its life: its logs and times are those of
\* the operations it was given, and each value that of what was taken of them so
\* far, in the middle of add() and after an error as well.
THEOREM MergeInvariant == MergeSpec => []MergeInv
<1>1. MergeInit => MergeInv
  BY InitKeeps
<1>2. MergeInv /\ [MergeNext]_mergeVars => MergeInv'
  BY NextKeeps
<1>3. QED
  BY <1>1, <1>2, PTL DEF MergeSpec

LEMMA MaxIs ==
  ASSUME NEW S \in SUBSET Int, NEW x \in S, \A y \in S : y <= x
  PROVE  Max(S) = x
<1>1. PICK m : m = Max(S)
  OBVIOUS
<1>2. m = CHOOSE y \in S : \A z \in S : y >= z
  BY <1>1 DEF Max
<1>3. \E y \in S : \A z \in S : y >= z
  OBVIOUS
<1>4. m \in S /\ \A z \in S : m >= z
  BY <1>2, <1>3, Zenon
<1>5. QED
  BY <1>1, <1>4

LEMMA MaxExists ==
  ASSUME NEW n \in Nat, NEW S \in SUBSET (0..n), S # {}
  PROVE  Max(S) \in S /\ \A y \in S : y <= Max(S)
<1>1. PICK N : N = {n - x : x \in S}
  OBVIOUS
<1>2. N \in SUBSET Nat /\ N # {}
  <2>1. \A x \in S : x \in Int /\ n - x \in Nat
    OBVIOUS
  <2>2. PICK x : x \in S
    OBVIOUS
  <2>3. n - x \in N
    BY <1>1, <2>2
  <2>4. QED
    BY <1>1, <2>1, <2>3
<1>3. PICK m \in N : \A k \in N : m <= k
  BY <1>2, Smallest
<1>4. PICK x \in S : m = n - x
  BY <1>1, <1>3
<1>5. \A y \in S : y <= x
  BY <1>1, <1>3, <1>4
<1>6. S \in SUBSET Int
  OBVIOUS
<1>7. Max(S) = x
  BY <1>4, <1>5, <1>6, MaxIs
<1>8. QED
  BY <1>4, <1>5, <1>7

LEMMA MinIs ==
  ASSUME NEW S \in SUBSET Int, NEW x \in S, \A y \in S : x <= y
  PROVE  Min(S) = x
<1>1. PICK m : m = Min(S)
  OBVIOUS
<1>2. m = CHOOSE y \in S : \A z \in S : y <= z
  BY <1>1 DEF Min
<1>3. \E y \in S : \A z \in S : y <= z
  OBVIOUS
<1>4. m \in S /\ \A z \in S : m <= z
  BY <1>2, <1>3, Zenon
<1>5. QED
  BY <1>1, <1>4

LEMMA InvTotals == MergeInv => TotalsKept
<1>1. SUFFICES ASSUME MergeInv PROVE TotalsKept
  OBVIOUS
<1>2. PICK a, g : a = agg /\ g = given
  OBVIOUS
<1>3. GivenOK(g) /\ AggOK(a) /\ LogsKept(a, g) /\ EndKept(a, g)
      /\ KeysKept(a, g) /\ ValuesKept(a, g)
  BY <1>1, <1>2 DEF MergeInv, Kept
<1>4. agg.logs = FlattenSeq([i \in DOMAIN given |-> given[i].op.logs])
  BY <1>2, <1>3 DEF LogsKept
<1>5. Taken = UNION {{i} \X (1..g[i].taken) : i \in DOMAIN g}
  BY <1>2 DEF Taken
<1>6. \A key : ValuesOf(key) = Places(g, key)
  BY <1>2, <1>5, Zenon DEF ValuesOf, Places, Key
<1>7. DOMAIN agg.values = {Key(p) : p \in Taken}
  <2>1. \A key : key \in DOMAIN agg.values <=> \E p \in Taken : Key(p) = key
    BY <1>2, <1>3, <1>6, Zenon DEF KeysKept, ValuesOf
  <2>2. QED
    BY <2>1
<1>8. ASSUME NEW key
      PROVE  /\ DOMAIN TakenFor(g, key) = ValuesOf(key)
             /\ \A p \in ValuesOf(key) : TakenFor(g, key)[p] = Value(p)
  BY <1>2, <1>6 DEF TakenFor, Value
<1>9. ASSUME NEW key \in DOMAIN agg.values, KindOf(key.name) = "DELTA"
      PROVE  LET held == agg.values[key] IN
             /\ held.val = Total(key)
             /\ held.start_time = IF Starts(key) = {} THEN 0 ELSE Min(Starts(key))
             /\ held.end_time = Max(Ends(key))
  <2>1. PICK held, f, S : held = a.values[key] /\ f = TakenFor(g, key) /\ S = ValuesOf(key)
    OBVIOUS
  <2>2. DOMAIN f = S /\ \A p \in S : f[p] = Value(p)
    BY <1>8, <2>1
  <2>3. \A p \in S : f[p] \in Values
    BY <1>3, <1>6, <2>1, PlaceIs
  <2>4. Summed(held, f)
    BY <1>2, <1>3, <2>1, <1>9 DEF ValuesKept
  <2>5. held.val = Total(key)
    <3>1. [p \in S |-> f[p].val] = [p \in S |-> Value(p).val]
      BY <2>2, Zenon
    <3>2. SumOf(f) = Sum([p \in S |-> Value(p).val], S)
      BY <2>2, <3>1, Zenon DEF SumOf
    <3>3. DOMAIN [p \in S |-> Value(p).val] = S
      OBVIOUS
    <3>4. Total(key) = Sum([p \in S |-> Value(p).val], S)
      BY <2>1, <3>3, Zenon DEF Total, SumFunction, Sum
    <3>5. QED
      BY <2>4, <3>2, <3>4 DEF Summed
  <2>6. held.start_time = IF Starts(key) = {} THEN 0 ELSE Min(Starts(key))
    <3>1. PICK t, T : t = held.start_time /\ T = Starts(key)
      OBVIOUS
    <3>2. \A s : s \in T <=> s # 0 /\ \E p \in S : s = f[p].start_time
      BY <2>1, <2>2, <3>1 DEF Starts
    <3>3. /\ t # 0 => \E p \in S : t = f[p].start_time
          /\ \A p \in S : f[p].start_time # 0 => t # 0 /\ t <= f[p].start_time
      BY <2>2, <2>4, <3>1 DEF Summed, StartsAt
    <3>4. T \in SUBSET Int
      BY <2>3, <3>2, ValueIs
    <3>5. CASE T = {}
      BY <3>1, <3>2, <3>3, <3>5
    <3>6. CASE T # {}
      <4>1. t # 0
        BY <3>2, <3>3, <3>6
      <4>2. t \in T /\ \A s \in T : t <= s
        BY <3>2, <3>3, <4>1
      <4>3. Min(T) = t
        BY <3>4, <4>2, MinIs
      <4>4. QED
        BY <3>1, <3>6, <4>3
    <3>7. QED
      BY <3>5, <3>6
  <2>7. held.end_time = Max(Ends(key))
    <3>1. PICK t, T : t = held.end_time /\ T = Ends(key)
      OBVIOUS
    <3>2. \A s : s \in T <=> \E p \in S : s = f[p].end_time
      BY <2>1, <2>2, <3>1 DEF Ends
    <3>3. T \in SUBSET Int
      BY <2>3, <3>2, ValueIs
    <3>4. t \in T /\ \A s \in T : s <= t
      BY <2>2, <2>4, <3>1, <3>2 DEF Summed, EndsAt
    <3>5. Max(T) = t
      BY <3>3, <3>4, MaxIs
    <3>6. QED
      BY <3>1, <3>5
  <2>8. QED
    BY <1>2, <2>1, <1>9, <2>5, <2>6, <2>7
<1>10. QED
  BY <1>4, <1>7, <1>9, Zenon DEF TotalsKept

\* Of any operations, in any order, and wherever a merge raised: nothing that was
\* taken is lost or in twice.
THEOREM TotalsKeptHolds == MergeSpec => []TotalsKept
<1>1. MergeSpec => []MergeInv
  BY MergeInvariant
<1>2. MergeInv => TotalsKept
  BY InvTotals
<1>3. QED
  BY <1>1, <1>2, PTL

-----------------------------------------------------------------------------
(* Distributions: a histogram h and how often each value was added, t.      *)

OptionsOK(o) ==
  \/ /\ o.type = "linear" /\ o.n \in Int /\ o.width \in Int /\ o.offset \in Int
     /\ o.n > 0 /\ o.width > 0
  \/ /\ o.type = "exponential" /\ o.n \in Int /\ o.factor \in Int /\ o.scale \in Int
     /\ o.n > 0 /\ o.factor > 1 /\ o.scale > 0
  \/ /\ o.type = "explicit" /\ o.bounds \in Seq(Int)
     /\ \A i, j \in DOMAIN o.bounds : i < j => o.bounds[i] < o.bounds[j]

\* The last bucket.
LastBucket(o) == IF o.type = "explicit" THEN Len(o.bounds) ELSE o.n + 1

Histogram(o, c, m, lo, hi, s, b) ==
  [options |-> o, count |-> c, mean |-> m, minimum |-> lo, maximum |-> hi,
   ssd |-> s, bucket_counts |-> b]
HistogramOK(h) ==
  /\ h = Histogram(h.options, h.count, h.mean, h.minimum, h.maximum, h.ssd,
                   h.bucket_counts)
  /\ OptionsOK(h.options) /\ h.count \in Nat
  /\ h.mean \in Int /\ h.minimum \in Int /\ h.maximum \in Int /\ h.ssd \in Int
  /\ h.bucket_counts \in [0..LastBucket(h.options) -> Nat]

First(t) == Sum([x \in Samples |-> t[x] * x], Samples)
Second(t) == Sum([x \in Samples |-> t[x] * (x * x)], Samples)
StatisticsKept(h, t) ==
  /\ h.count = Sum(t, Samples)
  /\ h.count * h.mean = First(t)
  /\ h.ssd + h.mean * First(t) = Second(t)
  /\ h.count = Sum(h.bucket_counts, 0..LastBucket(h.options))
  /\ h.count = 0 => h.minimum = 0 /\ h.maximum = 0 /\ h.mean = 0 /\ h.ssd = 0

\* z: an empty distribution was merged into.
Seen(t, z) == {x \in Samples : t[x] > 0} \cup (IF z THEN {0} ELSE {})
ExtremesKept(h, t, z) ==
  IF h.count = 0 THEN ~z /\ Seen(t, z) = {}
  ELSE /\ h.minimum \in Seen(t, z) /\ h.maximum \in Seen(t, z)
       /\ \A x \in Seen(t, z) : h.minimum <= x /\ x <= h.maximum

Below(b) == {x \in Samples : x < b}
UpTo(b) == {x \in Samples : x <= b}
BucketsKept(h, t) ==
  \A i \in 0..(LastBucket(h.options) - 1) :
    LET b == UpperBound(h.options, i) IN
    /\ Sum(t, Below(b)) <= Sum(h.bucket_counts, 0..i)
    /\ Sum(h.bucket_counts, 0..i) <= Sum(t, UpTo(b))

DistInv ==
  /\ dist = [d \in Dists |-> dist[d]] /\ sampled \in [Dists -> [Samples -> Nat]]
  /\ mixed \subseteq Dists /\ zeroed \subseteq Dists
  /\ \A d \in Dists :
       /\ HistogramOK(dist[d]) /\ StatisticsKept(dist[d], sampled[d])
       /\ ExtremesKept(dist[d], sampled[d], d \in zeroed)
       /\ d \notin mixed => BucketsKept(dist[d], sampled[d])

-----------------------------------------------------------------------------
(* Sums of samples.                                                        *)

\* One term of a sum changes.
LEMMA SumChanges ==
  ASSUME NEW S, IsFiniteSet(S), NEW f, NEW g, NEW y \in S, NEW v \in Int,
         \A x \in S : f[x] \in Int, g[y] = f[y] + v, \A x \in S \ {y} : g[x] = f[x]
  PROVE  Sum(g, S) = Sum(f, S) + v
<1>1. \A x \in S : g[x] \in Int
  <2>1. g[y] \in Int
    OBVIOUS
  <2>2. QED
    BY <2>1
<1>2. Sum(f, S) = f[y] + Sum(f, S \ {y})
  BY SumWithout
<1>3. Sum(g, S) = g[y] + Sum(g, S \ {y})
  BY <1>1, SumWithout
<1>4. IsFiniteSet(S \ {y})
  BY FS_RemoveElement
<1>5. \A x \in S \ {y} : f[x] \in Int /\ g[x] = f[x]
  OBVIOUS
<1>6. Sum(g, S \ {y}) = Sum(f, S \ {y})
  BY <1>4, <1>5, SumIsSame
<1>7. Sum(f, S \ {y}) \in Int /\ f[y] \in Int
  BY <1>4, <1>5, SumIsInt
<1>8. QED
  BY <1>2, <1>3, <1>6, <1>7

LEMMA SumOfBoth ==
  ASSUME NEW S, IsFiniteSet(S), NEW f, NEW g, NEW h,
         \A x \in S : f[x] \in Int /\ g[x] \in Int /\ h[x] = f[x] + g[x]
  PROVE  Sum(h, S) = Sum(f, S) + Sum(g, S)
<1>1. \A x \in S : f[x] \in Int /\ g[x] \in Int /\ h[x] = 1 * f[x] + 1 * g[x]
  OBVIOUS
<1>2. Sum(h, S) = 1 * Sum(f, S) + 1 * Sum(g, S)
  BY <1>1, SumIsLinear
<1>3. Sum(f, S) \in Int /\ Sum(g, S) \in Int
  BY <1>1, SumIsInt
<1>4. QED
  BY <1>2, <1>3

LEMMA Moments ==
  ASSUME NEW t \in [Samples -> Nat]
  PROVE  First(t) \in Int /\ Second(t) \in Int /\ Sum(t, Samples) \in Nat
<1>0. IsFiniteSet(Samples)
  BY DistributionAssumption
<1>1. Samples \in SUBSET Int
  BY DistributionAssumption
<1>2. PICK f, g : /\ f = [x \in Samples |-> t[x] * x]
                  /\ g = [x \in Samples |-> t[x] * (x * x)]
  OBVIOUS
<1>3. \A x \in Samples : x \in Int /\ t[x] \in Int /\ t[x] \in Nat
  BY <1>1
<1>4. \A x, y \in Int : x * y \in Int
  OBVIOUS
<1>5. \A x \in Samples : f[x] \in Int /\ g[x] \in Int
  BY <1>2, <1>3, <1>4
<1>6. Sum(f, Samples) \in Int /\ Sum(g, Samples) \in Int
  BY <1>0, <1>5, SumIsInt
<1>7. Sum(t, Samples) \in Nat
  <2>1. Sum(t, Samples) \in Int
    BY <1>0, <1>3, SumIsInt
  <2>2. \A x \in Samples : t[x] \in Nat
    OBVIOUS
  <2>3. Samples \in SUBSET Samples
    OBVIOUS
  <2>4. 0 <= Sum(t, Samples)
    BY <1>0, <2>2, <2>3, SumGrows
  <2>5. QED
    BY <2>1, <2>4
<1>8. QED
  BY <1>2, <1>6, <1>7, Zenon DEF First, Second

\* Every mean is a whole number.
LEMMA Divisible ==
  ASSUME NEW t \in [Samples -> Nat], NEW n \in 1..MaxCount
  PROVE  \E k \in Int : First(t) = n * k /\ First(t) \div n = k
<1>0. IsFiniteSet(Samples)
  BY DistributionAssumption
<1>1. Samples \in SUBSET Int /\ MaxCount \in Nat
  BY DistributionAssumption
<1>2. \A x \in Samples : x \in Int /\ t[x] \in Int
  BY <1>1
<1>3. n \in Nat /\ n > 0
  BY <1>1
<1>4. \A x \in Samples : x \div n \in Int /\ x = n * (x \div n)
  <2>1. ASSUME NEW x \in Samples PROVE x \div n \in Int /\ x = n * (x \div n)
    <3>1. x % n = 0 /\ x \in Int
      BY <1>2, DistributionAssumption
    <3>2. QED
      BY <1>3, <3>1
  <2>2. QED
    BY <2>1
<1>5. PICK f, g : /\ f = [x \in Samples |-> t[x] * x]
                  /\ g = [x \in Samples |-> t[x] * (x \div n)]
  OBVIOUS
<1>6. ASSUME NEW x \in Samples
      PROVE  g[x] \in Int /\ f[x] = n * g[x] + 0 * g[x]
  <2>1. PICK a \in Int, b \in Int : a = t[x] /\ b = x \div n
    BY <1>2, <1>4
  <2>2. x = n * b /\ f[x] = a * (n * b) /\ g[x] = a * b
    BY <1>4, <1>5, <2>1
  <2>3. a * b \in Int /\ a * (n * b) = n * (a * b)
    BY <1>3
  <2>4. QED
    BY <2>2, <2>3
<1>7. PICK k : k = Sum(g, Samples)
  OBVIOUS
<1>8. k \in Int
  BY <1>0, <1>6, <1>7, SumIsInt
<1>9. Sum(f, Samples) = n * k + 0 * k
  <2>1. n \in Int /\ 0 \in Int
    BY <1>3
  <2>2. QED
    BY <1>0, <1>6, <1>7, <2>1, SumIsLinear
<1>10. First(t) = n * k
  <2>1. First(t) = Sum(f, Samples)
    BY <1>5, Zenon DEF First
  <2>2. QED
    BY <1>3, <1>8, <1>9, <2>1
<1>11. (n * k) \div n = k
  BY <1>3, <1>8
<1>12. QED
  BY <1>8, <1>10, <1>11

\* A sample more.
LEMMA SampleMore ==
  ASSUME NEW t \in [Samples -> Nat], NEW x \in Samples
  PROVE  LET u == [t EXCEPT ![x] = @ + 1] IN
         /\ u \in [Samples -> Nat]
         /\ First(u) = First(t) + x /\ Second(u) = Second(t) + x * x
         /\ \A S \in SUBSET Samples :
              Sum(u, S) = IF x \in S THEN Sum(t, S) + 1 ELSE Sum(t, S)
<1>0. IsFiniteSet(Samples)
  BY DistributionAssumption
<1>1. Samples \in SUBSET Int
  BY DistributionAssumption
<1>2. \A y \in Samples : y \in Int /\ t[y] \in Int
  BY <1>1
<1>3. PICK u : u = [t EXCEPT ![x] = @ + 1]
  OBVIOUS
<1>4. u \in [Samples -> Nat] /\ u[x] = t[x] + 1 /\ \A y \in Samples \ {x} : u[y] = t[y]
  BY <1>3
<1>5. \A a, b \in Int : a * b \in Int /\ (a + 1) * b = a * b + b
  OBVIOUS
<1>6. First(u) = First(t) + x
  <2>1. PICK f, g : /\ f = [y \in Samples |-> t[y] * y]
                    /\ g = [y \in Samples |-> u[y] * y]
    OBVIOUS
  <2>2. /\ \A y \in Samples : f[y] \in Int
        /\ g[x] = f[x] + x /\ \A y \in Samples \ {x} : g[y] = f[y]
    BY <1>2, <1>4, <1>5, <2>1
  <2>3. x \in Int
    BY <1>2
  <2>4. Sum(g, Samples) = Sum(f, Samples) + x
    BY <1>0, <2>2, <2>3, SumChanges
  <2>5. QED
    BY <2>1, <2>4, Zenon DEF First
<1>7. Second(u) = Second(t) + x * x
  <2>1. PICK f, g : /\ f = [y \in Samples |-> t[y] * (y * y)]
                    /\ g = [y \in Samples |-> u[y] * (y * y)]
    OBVIOUS
  <2>2. \A y \in Samples : y * y \in Int
    BY <1>2, <1>5
  <2>3. /\ \A y \in Samples : f[y] \in Int
        /\ g[x] = f[x] + x * x /\ \A y \in Samples \ {x} : g[y] = f[y]
    BY <1>2, <1>4, <1>5, <2>1, <2>2
  <2>4. PICK v \in Int : v = x * x
    BY <2>2
  <2>5. Sum(g, Samples) = Sum(f, Samples) + v
    <3>1. /\ \A y \in Samples : f[y] \in Int
          /\ g[x] = f[x] + v /\ \A y \in Samples \ {x} : g[y] = f[y]
      BY <2>3, <2>4
    <3>2. v \in Int
      BY <2>4
    <3>3. QED
      BY <1>0, <3>1, <3>2, SumChanges
  <2>6. QED
    BY <2>1, <2>4, <2>5, Zenon DEF Second
<1>8. ASSUME NEW S \in SUBSET Samples
      PROVE  Sum(u, S) = IF x \in S THEN Sum(t, S) + 1 ELSE Sum(t, S)
  <2>1. IsFiniteSet(S) /\ \A y \in S : t[y] \in Int
    BY <1>0, <1>2, FS_Subset
  <2>2. CASE x \in S
    BY <1>4, <2>1, <2>2, SumChanges
  <2>3. CASE x \notin S
    <3>1. \A y \in S : t[y] \in Int /\ u[y] = t[y]
      BY <1>4, <2>1, <2>3
    <3>2. QED
      BY <2>1, <2>3, <3>1, SumIsSame
  <2>4. QED
    BY <2>2, <2>3
<1>9. QED
  BY <1>3, <1>4, <1>6, <1>7, <1>8, Zenon

\* The samples of two.
LEMMA SamplesOfBoth ==
  ASSUME NEW t \in [Samples -> Nat], NEW s \in [Samples -> Nat]
  PROVE  LET u == [x \in Samples |-> t[x] + s[x]] IN
         /\ u \in [Samples -> Nat]
         /\ First(u) = First(t) + First(s) /\ Second(u) = Second(t) + Second(s)
         /\ \A S \in SUBSET Samples : Sum(u, S) = Sum(t, S) + Sum(s, S)
<1>0. IsFiniteSet(Samples)
  BY DistributionAssumption
<1>1. Samples \in SUBSET Int
  BY DistributionAssumption
<1>2. \A y \in Samples : y \in Int /\ t[y] \in Int /\ s[y] \in Int
  BY <1>1
<1>3. PICK u : u = [x \in Samples |-> t[x] + s[x]]
  OBVIOUS
<1>4. u \in [Samples -> Nat] /\ \A y \in Samples : u[y] = t[y] + s[y]
  BY <1>3
<1>5. \A a, b, c \in Int : a * b \in Int /\ (a + c) * b = a * b + c * b
  OBVIOUS
<1>6. First(u) = First(t) + First(s)
  <2>1. PICK f, g, h : /\ f = [y \in Samples |-> t[y] * y]
                       /\ g = [y \in Samples |-> s[y] * y]
                       /\ h = [y \in Samples |-> u[y] * y]
    OBVIOUS
  <2>2. \A y \in Samples : f[y] \in Int /\ g[y] \in Int /\ h[y] = f[y] + g[y]
    BY <1>2, <1>4, <1>5, <2>1
  <2>3. Sum(h, Samples) = Sum(f, Samples) + Sum(g, Samples)
    BY <1>0, <2>2, SumOfBoth
  <2>4. QED
    BY <2>1, <2>3, Zenon DEF First
<1>7. Second(u) = Second(t) + Second(s)
  <2>1. PICK f, g, h : /\ f = [y \in Samples |-> t[y] * (y * y)]
                       /\ g = [y \in Samples |-> s[y] * (y * y)]
                       /\ h = [y \in Samples |-> u[y] * (y * y)]
    OBVIOUS
  <2>2. \A y \in Samples : y * y \in Int
    BY <1>2, <1>5
  <2>3. \A y \in Samples : f[y] \in Int /\ g[y] \in Int /\ h[y] = f[y] + g[y]
    BY <1>2, <1>4, <1>5, <2>1, <2>2
  <2>4. Sum(h, Samples) = Sum(f, Samples) + Sum(g, Samples)
    BY <1>0, <2>3, SumOfBoth
  <2>5. QED
    BY <2>1, <2>4, Zenon DEF Second
<1>8. ASSUME NEW S \in SUBSET Samples
      PROVE  Sum(u, S) = Sum(t, S) + Sum(s, S)
  <2>1. IsFiniteSet(S) /\ \A y \in S : t[y] \in Int /\ s[y] \in Int /\ u[y] = t[y] + s[y]
    BY <1>0, <1>2, <1>4, FS_Subset
  <2>2. QED
    BY <2>1, SumOfBoth
<1>9. QED
  BY <1>3, <1>4, <1>6, <1>7, <1>8, Zenon

-----------------------------------------------------------------------------
(* Bounds and buckets.                                                     *)

IsPowers(p, f, m) == p = [k \in 0..m |-> IF k = 0 THEN 1 ELSE f * p[k - 1]]

LEMMA PowersAreChosen ==
  ASSUME NEW o
  PROVE  Powers(o) = CHOOSE p : IsPowers(p, o.factor, o.n + 1)
BY DEF Powers, IsPowers

LEMMA PowersExist ==
  ASSUME NEW f, NEW m \in Nat
  PROVE  \E p : IsPowers(p, f, m)
<1> DEFINE N == {n \in Nat : ~ \E p : IsPowers(p, f, n)}
<1>1. SUFFICES ASSUME N # {} PROVE FALSE
  OBVIOUS
<1>2. PICK n \in N : \A k \in N : n <= k
  <2>1. N \in SUBSET Nat
    OBVIOUS
  <2> HIDE DEF N
  <2>2. QED
    BY <1>1, <2>1, Smallest
<1>3. n \in Nat /\ ~ \E p : IsPowers(p, f, n)
  OBVIOUS
<1>4. n # 0
  <2>1. SUFFICES ASSUME n = 0 PROVE IsPowers([k \in 0..0 |-> 1], f, 0)
    BY <1>3
  <2>2. PICK p : p = [k \in 0..0 |-> 1]
    OBVIOUS
  <2>3. \A k \in 0..0 : 1 = IF k = 0 THEN 1 ELSE f * p[k - 1]
    OBVIOUS
  <2>4. p = [k \in 0..0 |-> IF k = 0 THEN 1 ELSE f * p[k - 1]]
    BY <2>2, <2>3, Zenon
  <2>5. QED
    BY <2>2, <2>4 DEF IsPowers
<1>5. PICK q : IsPowers(q, f, n - 1)
  <2>1. n - 1 \in Nat /\ ~ (n <= n - 1)
    BY <1>3, <1>4
  <2>2. n - 1 \notin N
    BY <1>2, <2>1
  <2>3. QED
    BY <2>1, <2>2
<1>6. PICK p : p = [k \in 0..n |-> IF k = 0 THEN 1 ELSE f * q[k - 1]]
  OBVIOUS
<1>7. \A k \in 0..(n - 1) : q[k] = IF k = 0 THEN 1 ELSE f * q[k - 1]
  BY <1>5 DEF IsPowers
<1>8. \A k \in 0..(n - 1) : p[k] = q[k]
  BY <1>3, <1>6, <1>7
<1>9. \A k \in 0..n : k # 0 => p[k - 1] = q[k - 1]
  BY <1>3, <1>8
<1>10. \A k \in 0..n : (IF k = 0 THEN 1 ELSE f * q[k - 1]) = IF k = 0 THEN 1 ELSE f * p[k - 1]
  BY <1>9
<1>11. p = [k \in 0..n |-> IF k = 0 THEN 1 ELSE f * p[k - 1]]
  BY <1>6, <1>10, Zenon
<1>12. QED
  BY <1>3, <1>11, Zenon DEF IsPowers

LEMMA PowersAre ==
  ASSUME NEW o, o.n \in Nat, o.factor \in Nat, o.factor > 1
  PROVE  /\ Powers(o)[0] = 1
         /\ \A k \in 1..(o.n + 1) : Powers(o)[k] = o.factor * Powers(o)[k - 1]
<1>1. PICK p : p = Powers(o)
  OBVIOUS
<1>2. o.n + 1 \in Nat
  OBVIOUS
<1>3. IsPowers(p, o.factor, o.n + 1)
  BY <1>1, <1>2, PowersExist, PowersAreChosen, Zenon
<1>4. p = [k \in 0..(o.n + 1) |-> IF k = 0 THEN 1 ELSE o.factor * p[k - 1]]
  BY <1>3 DEF IsPowers
<1>5. \A k \in 0..(o.n + 1) : p[k] = IF k = 0 THEN 1 ELSE o.factor * p[k - 1]
  BY <1>4, Zenon
<1>6. p[0] = 1 /\ \A k \in 1..(o.n + 1) : p[k] = o.factor * p[k - 1]
  BY <1>2, <1>5
<1>7. QED
  BY <1>1, <1>6, Zenon

\* The bounds of exponential buckets increase.
LEMMA BoundsIncrease ==
  ASSUME NEW o, o.n \in Nat, o.factor \in Nat, o.factor > 1, o.scale \in Nat, o.scale > 0
  PROVE  \A k \in 0..(o.n + 1) :
           /\ Powers(o)[k] \in Nat /\ o.scale * Powers(o)[k] \in Nat
           /\ \A j \in 0..k : o.scale * Powers(o)[j] <= o.scale * Powers(o)[k]
<1>1. PICK p, n, f, s : p = Powers(o) /\ n = o.n /\ f = o.factor /\ s = o.scale
  OBVIOUS
<1>2. n \in Nat /\ f \in Nat /\ f > 1 /\ s \in Nat /\ s > 0
  BY <1>1
<1>3. p[0] = 1 /\ \A k \in 1..(n + 1) : p[k] = f * p[k - 1]
  BY <1>1, PowersAre
<1> DEFINE Good(k) == /\ p[k] \in Nat /\ s * p[k] \in Nat
                      /\ \A j \in 0..k : s * p[j] <= s * p[k]
<1> DEFINE N == {k \in 0..(n + 1) : ~Good(k)}
<1>4. SUFFICES N = {}
  BY <1>1, <1>2
<1>5. SUFFICES ASSUME N # {} PROVE FALSE
  OBVIOUS
<1>6. PICK m \in N : \A k \in N : m <= k
  <2>1. N \in SUBSET Nat
    OBVIOUS
  <2> HIDE DEF N
  <2>2. QED
    BY <1>5, <2>1, Smallest
<1>7. m \in 0..(n + 1) /\ ~Good(m)
  BY <1>6
<1>8. m # 0
  BY <1>2, <1>3, <1>7
<1>9. Good(m - 1)
  <2>1. m - 1 \in 0..(n + 1) /\ ~ (m <= m - 1)
    BY <1>2, <1>7, <1>8
  <2>2. m - 1 \notin N
    BY <1>6, <2>1
  <2>3. QED
    BY <2>1, <2>2
<1>10. PICK a \in Nat : a = p[m - 1]
  BY <1>9
<1>11. p[m] = f * a
  BY <1>2, <1>3, <1>7, <1>8, <1>10
<1>12. f * a \in Nat /\ s * a \in Nat
  BY <1>2
<1>13. s * (f * a) \in Nat /\ s * (f * a) = f * (s * a)
  BY <1>2, <1>12
<1>14. s * a <= f * (s * a)
  <2>1. PICK c \in Nat : c = s * a
    BY <1>12
  <2>2. c <= f * c
    BY <1>2
  <2>3. QED
    BY <2>1, <2>2
<1>15. ASSUME NEW j \in 0..m PROVE s * p[j] <= s * p[m]
  <2>1. CASE j = m
    BY <1>11, <1>13, <2>1
  <2>2. CASE j # m
    <3>1. j \in 0..(m - 1)
      BY <1>7, <2>2
    <3>2. s * p[j] <= s * a
      BY <1>9, <1>10, <3>1
    <3>3. s * p[j] \in Int
      <4>1. j \in 0..(n + 1) /\ ~ (m <= j)
        BY <1>2, <1>7, <3>1
      <4>2. Good(j)
        BY <1>6, <4>1
      <4>3. QED
        BY <4>2
    <3>4. QED
      BY <1>11, <1>12, <1>13, <1>14, <3>2, <3>3
  <2>3. QED
    BY <2>1, <2>2
<1>16. QED
  BY <1>7, <1>11, <1>12, <1>13, <1>15

LEMMA Scales ==
  ASSUME NEW a \in Int, NEW b \in Int, NEW w \in Nat, a <= b
  PROVE  a * w <= b * w
<1>1. PICK c \in Nat : b = a + c
  <2>1. b - a \in Nat /\ b = a + (b - a)
    OBVIOUS
  <2>2. QED
    BY <2>1
<1>2. (a + c) * w = a * w + c * w
  OBVIOUS
<1>3. c * w \in Nat /\ a * w \in Int
  OBVIOUS
<1>4. QED
  BY <1>1, <1>2, <1>3

LEMMA Quotient ==
  ASSUME NEW y \in Int, NEW w \in Nat, w > 0
  PROVE  y \div w \in Int /\ (y \div w) * w <= y /\ y < (y \div w + 1) * w
<1>1. y \div w \in Int /\ y % w \in 0..(w - 1)
  OBVIOUS
<1>2. PICK q \in Int, r \in Int : q = y \div w /\ r = y % w
  BY <1>1
<1>3. y = w * q + r /\ 0 <= r /\ r < w
  BY <1>1, <1>2
<1>4. w * q = q * w /\ (q + 1) * w = q * w + w /\ q * w \in Int
  OBVIOUS
<1>5. QED
  BY <1>2, <1>3, <1>4

\* A linear bucket holds what lies below its bound.
LEMMA LinearFits ==
  ASSUME NEW o, OptionsOK(o), o.type = "linear", NEW x \in Int
  PROVE  /\ LinearIndex(x, o) \in 0..LastBucket(o)
         /\ \A i \in 0..(LastBucket(o) - 1) :
              /\ UpperBound(o, i) \in Int
              /\ x < UpperBound(o, i) => LinearIndex(x, o) <= i
              /\ LinearIndex(x, o) <= i => x <= UpperBound(o, i)
<1>1. PICK n, w, off : n = o.n /\ w = o.width /\ off = o.offset
  OBVIOUS
<1>2. n \in Nat /\ n > 0 /\ w \in Nat /\ w > 0 /\ off \in Int /\ LastBucket(o) = n + 1
  BY <1>1 DEF OptionsOK, LastBucket
<1>3. PICK k : k = LinearIndex(x, o)
  OBVIOUS
<1>4. k = IF x < off THEN 0 ELSE IF x >= off + n * w THEN n + 1 ELSE 1 + ((x - off) \div w)
  BY <1>1, <1>3 DEF LinearIndex
<1>5. \A i \in 0..n : UpperBound(o, i) = off + i * w /\ i * w \in Int
                      /\ 0 <= i * w /\ i * w <= n * w
  <2>1. ASSUME NEW i \in 0..n
        PROVE  /\ UpperBound(o, i) = off + i * w /\ i * w \in Int
               /\ 0 <= i * w /\ i * w <= n * w
    <3>1. UpperBound(o, i) = off + i * w
      BY <1>1 DEF UpperBound
    <3>2. i \in Int /\ 0 <= i /\ i <= n
      BY <1>2
    <3>3. 0 * w <= i * w /\ i * w <= n * w
      BY <1>2, <3>2, Scales
    <3>4. QED
      BY <1>2, <3>1, <3>2, <3>3
  <2>2. QED
    BY <2>1
<1>6. n * w \in Int
  BY <1>2
<1>7. CASE x < off
  BY <1>2, <1>3, <1>4, <1>5, <1>7
<1>8. CASE x >= off + n * w
  <2>1. k = n + 1
    <3>1. 0 <= n * w
      BY <1>2, <1>5
    <3>2. ~(x < off)
      BY <1>2, <1>6, <1>8, <3>1
    <3>3. QED
      BY <1>4, <1>8, <3>2
  <2>2. ASSUME NEW i \in 0..n PROVE ~(x < off + i * w)
    BY <1>2, <1>5, <1>6, <1>8
  <2>3. QED
    BY <1>2, <1>3, <1>5, <2>1, <2>2
<1>9. CASE ~(x < off) /\ ~(x >= off + n * w)
  <2>1. PICK y \in Int : y = x - off
    BY <1>2
  <2>2. 0 <= y /\ y < n * w
    BY <1>2, <1>6, <1>9, <2>1
  <2>3. PICK q \in Int : q = y \div w
    BY <1>2, Quotient
  <2>4. q * w <= y /\ y < (q + 1) * w
    BY <1>2, <2>3, Quotient
  <2>5. k = 1 + q
    BY <1>4, <1>9, <2>1, <2>3
  <2>6. q * w \in Int /\ (q + 1) * w \in Int /\ q + 1 \in Int
    BY <1>2
  <2>7. \A a \in Int : a <= q => a * w <= y
    <3>1. ASSUME NEW a \in Int, a <= q PROVE a * w <= y
      <4>1. a * w <= q * w /\ a * w \in Int
        BY <1>2, <3>1, Scales
      <4>2. QED
        BY <2>4, <2>6, <4>1
    <3>2. QED
      BY <3>1
  <2>8. \A a \in Int : q + 1 <= a => y < a * w
    <3>1. ASSUME NEW a \in Int, q + 1 <= a PROVE y < a * w
      <4>1. (q + 1) * w <= a * w /\ a * w \in Int
        BY <1>2, <2>6, <3>1, Scales
      <4>2. QED
        BY <2>4, <2>6, <4>1
    <3>2. QED
      BY <3>1
  <2>9. q < n
    BY <1>2, <1>6, <2>2, <2>7
  <2>10. 0 <= q
    <3>1. 0 * w = 0
      BY <1>2
    <3>2. ~(q + 1 <= 0)
      BY <2>2, <2>8, <3>1
    <3>3. QED
      BY <3>2
  <2>11. k \in 0..(n + 1)
    BY <1>2, <2>5, <2>9, <2>10
  <2>12. ASSUME NEW i \in 0..n
         PROVE  /\ x < off + i * w => k <= i
                /\ k <= i => x <= off + i * w
    <3>1. i \in Int /\ i * w \in Int
      BY <1>5
    <3>2. x < off + i * w => y < i * w
      BY <1>2, <2>1, <3>1
    <3>3. y < i * w => ~(i <= q)
      BY <2>7, <3>1
    <3>4. q + 1 <= i => y < i * w
      BY <2>8, <3>1
    <3>5. y < i * w => x <= off + i * w
      BY <1>2, <2>1, <3>1
    <3>6. QED
      BY <2>5, <3>1, <3>2, <3>3, <3>4, <3>5
  <2>13. QED
    BY <1>2, <1>3, <1>5, <2>11, <2>12
<1>10. QED
  BY <1>7, <1>8, <1>9

\* An exponential bucket too, even where the logarithm is rounded down.
LEMMA ExponentialFits ==
  ASSUME NEW o, OptionsOK(o), o.type = "exponential", NEW x \in Int,
         NEW k \in ExponentialIndexes(x, o)
  PROVE  /\ k \in 0..LastBucket(o)
         /\ \A i \in 0..(LastBucket(o) - 1) :
              /\ UpperBound(o, i) \in Int
              /\ x < UpperBound(o, i) => k <= i
              /\ k <= i => x <= UpperBound(o, i)
<1>1. PICK n, p, s, b : /\ n = o.n /\ p = Powers(o) /\ s = o.scale
                        /\ b = [i \in 0..(n + 1) |-> s * p[i]]
  OBVIOUS
<1>2. /\ n \in Nat /\ n > 0 /\ s \in Nat /\ s > 0 /\ LastBucket(o) = n + 1
      /\ o.factor \in Nat /\ o.factor > 1
  BY <1>1 DEF OptionsOK, LastBucket
<1>3. \A i \in 0..(n + 1) : b[i] \in Nat /\ \A j \in 0..i : b[j] <= b[i]
  <2>1. ASSUME NEW i \in 0..(n + 1)
        PROVE  s * p[i] \in Nat /\ \A j \in 0..i : s * p[j] <= s * p[i]
    BY <1>1, <1>2, BoundsIncrease
  <2>2. \A i \in 0..(n + 1) : \A j \in 0..i : j \in 0..(n + 1)
    BY <1>2
  <2>3. QED
    BY <1>1, <2>1, <2>2
<1>4. b[0] = s
  <2>1. p[0] = 1
    BY <1>1, <1>2, PowersAre
  <2>2. QED
    BY <1>1, <1>2, <2>1
<1>5. \A i \in 0..n : UpperBound(o, i) = b[i]
  BY <1>1, <1>2 DEF UpperBound
<1>6. CASE x <= s
  <2>1. k = 0
    BY <1>1, <1>6 DEF ExponentialIndexes
  <2>2. \A i \in 0..n : s <= b[i] /\ b[i] \in Int
    BY <1>2, <1>3, <1>4
  <2>3. QED
    BY <1>2, <1>5, <1>6, <2>1, <2>2
<1>7. CASE ~(x <= s)
  <2>1. PICK K, exact : K = {i \in 0..(n + 1) : b[i] <= x} /\ exact = Max(K)
    OBVIOUS
  <2>2. K = {i \in 0..(n + 1) : s * p[i] <= x}
    BY <1>1, <2>1
  <2>3. PICK logs : /\ logs = IF exact >= 2 /\ x = s * p[exact]
                              THEN {exact, exact - 1} ELSE {exact}
                    /\ k \in {Min({1 + j, n + 1}) : j \in logs}
    BY <1>1, <1>7, <2>1, <2>2 DEF ExponentialIndexes
  <2>4. exact \in K /\ \A i \in K : i <= exact
    <3>1. 0 \in K
      BY <1>2, <1>4, <1>7, <2>1
    <3>2. K \in SUBSET (0..(n + 1))
      BY <2>1
    <3>3. QED
      <4>1. n + 1 \in Nat /\ K # {}
        BY <1>2, <3>1
      <4>2. Max(K) \in K /\ \A i \in K : i <= Max(K)
        BY <3>2, <4>1, MaxExists
      <4>3. QED
        BY <2>1, <4>2
  <2>5. /\ exact \in 0..(n + 1) /\ b[exact] <= x
        /\ \A i \in 0..(n + 1) : exact < i => x < b[i]
    <3>1. exact \in 0..(n + 1) /\ b[exact] <= x
      BY <2>1, <2>4
    <3>2. ASSUME NEW i \in 0..(n + 1), exact < i PROVE x < b[i]
      BY <1>3, <2>1, <2>4, <3>1, <3>2
    <3>3. QED
      BY <3>1, <3>2
  <2>6. PICK j \in logs : k = Min({1 + j, n + 1})
    BY <2>3
  <2>7. j = exact \/ (j = exact - 1 /\ exact >= 2 /\ x = b[exact])
    BY <1>1, <2>3, <2>5
  <2>8. j \in Int /\ 0 <= j /\ j <= exact
    BY <1>2, <2>5, <2>7
  <2>9. k = IF 1 + j <= n + 1 THEN 1 + j ELSE n + 1
    <3>1. CASE 1 + j <= n + 1
      <4>1. /\ {1 + j, n + 1} \in SUBSET Int /\ 1 + j \in {1 + j, n + 1}
            /\ \A y \in {1 + j, n + 1} : 1 + j <= y
        BY <1>2, <2>8, <3>1
      <4>2. QED
        BY <2>6, <3>1, <4>1, MinIs
    <3>2. CASE ~(1 + j <= n + 1)
      <4>1. /\ {1 + j, n + 1} \in SUBSET Int /\ n + 1 \in {1 + j, n + 1}
            /\ \A y \in {1 + j, n + 1} : n + 1 <= y
        BY <1>2, <2>8, <3>2
      <4>2. QED
        BY <2>6, <3>2, <4>1, MinIs
    <3>3. QED
      BY <3>1, <3>2
  <2>10. k \in 0..(n + 1)
    BY <1>2, <2>8, <2>9
  <2>11. ASSUME NEW i \in 0..n
         PROVE  b[i] \in Int /\ (x < b[i] => k <= i) /\ (k <= i => x <= b[i])
    <3>1. i \in 0..(n + 1) /\ b[i] \in Int
      BY <1>2, <1>3
    <3>2. ASSUME x < b[i] PROVE k <= i
      <4>1. exact < i
        <5>1. SUFFICES ASSUME ~(exact < i) PROVE FALSE
          OBVIOUS
        <5>2. i \in 0..exact
          BY <1>2, <2>5, <5>1
        <5>3. b[i] <= b[exact] /\ b[exact] \in Int
          BY <1>3, <2>5, <5>2
        <5>4. QED
          BY <2>5, <3>1, <3>2, <5>3
      <4>2. QED
        BY <1>2, <2>5, <2>8, <2>9, <4>1
    <3>3. ASSUME k <= i PROVE x <= b[i]
      <4>1. 1 + j <= i
        BY <1>2, <2>8, <2>9, <3>3
      <4>2. CASE exact < i
        <5>1. x < b[i]
          BY <2>5, <3>1, <4>2
        <5>2. QED
          BY <3>1, <5>1
      <4>3. CASE ~(exact < i)
        <5>1. j # exact
          BY <2>5, <2>8, <4>1, <4>3
        <5>2. x = b[exact] /\ exact = i
          BY <1>2, <2>5, <2>7, <4>1, <4>3, <5>1
        <5>3. QED
          BY <3>1, <5>2
      <4>4. QED
        BY <4>2, <4>3
    <3>4. QED
      BY <3>1, <3>2, <3>3
  <2>12. QED
    BY <1>2, <1>5, <2>10, <2>11
<1>8. QED
  BY <1>6, <1>7

\* As many explicit bounds are at most the sample as there are buckets below.
LEMMA ExplicitFits ==
  ASSUME NEW o, OptionsOK(o), o.type = "explicit", NEW x \in Int
  PROVE  /\ ExplicitIndex(x, o) \in 0..LastBucket(o)
         /\ \A i \in 0..(LastBucket(o) - 1) :
              /\ UpperBound(o, i) \in Int
              /\ x < UpperBound(o, i) => ExplicitIndex(x, o) <= i
              /\ ExplicitIndex(x, o) <= i => x <= UpperBound(o, i)
<1>1. PICK b, n, I, k : /\ b = o.bounds /\ n = Len(b)
                        /\ I = {i \in DOMAIN b : b[i] <= x} /\ k = Cardinality(I)
  OBVIOUS
<1>2. /\ b \in Seq(Int) /\ n \in Nat /\ DOMAIN b = 1..n /\ LastBucket(o) = n
      /\ \A i, j \in DOMAIN b : i < j => b[i] < b[j]
  BY <1>1 DEF OptionsOK, LastBucket
<1>3. k = ExplicitIndex(x, o)
  BY <1>1 DEF ExplicitIndex
<1>4. \A m \in 0..n : IsFiniteSet(1..m) /\ Cardinality(1..m) = m
  <2>1. ASSUME NEW m \in 0..n PROVE IsFiniteSet(1..m) /\ Cardinality(1..m) = m
    <3>1. m \in Int /\ 1 \in Int /\ m >= 0
      BY <1>2
    <3>2. QED
      BY <3>1, FS_Interval
  <2>2. QED
    BY <2>1
<1>5. I \subseteq 1..n /\ IsFiniteSet(I) /\ k \in 0..n
  <2>1. I \subseteq 1..n
    BY <1>1, <1>2
  <2>2. n \in 0..n
    BY <1>2
  <2>3. IsFiniteSet(I) /\ Cardinality(I) <= n /\ Cardinality(I) \in Nat
    <3>1. IsFiniteSet(1..n) /\ Cardinality(1..n) = n
      BY <1>4, <2>2
    <3>2. IsFiniteSet(I) /\ Cardinality(I) <= Cardinality(1..n)
      BY <2>1, <3>1, FS_Subset
    <3>3. QED
      BY <3>1, <3>2, FS_CardinalityType
  <2>4. QED
    BY <1>1, <1>2, <2>1, <2>3
<1>6. \A i \in 0..(n - 1) : UpperBound(o, i) = b[i + 1] /\ i + 1 \in DOMAIN b /\ b[i + 1] \in Int
  BY <1>1, <1>2 DEF UpperBound
<1>7. ASSUME NEW i \in 0..(n - 1), x < b[i + 1] PROVE k <= i
  <2>1. ASSUME NEW j \in I PROVE j \in 1..i
    <3>1. j \in 1..n /\ b[j] <= x /\ b[j] \in Int
      BY <1>1, <1>2
    <3>2. i + 1 \in DOMAIN b /\ b[i + 1] \in Int /\ j \in DOMAIN b
      BY <1>2, <1>6, <3>1
    <3>3. i + 1 < j => b[i + 1] < b[j]
      BY <1>2, <3>2
    <3>4. ~(i + 1 < j) /\ j # i + 1
      BY <1>7, <3>1, <3>2, <3>3
    <3>5. QED
      BY <1>2, <3>1, <3>4
  <2>2. I \subseteq 1..i /\ i \in 0..n
    BY <1>2, <2>1
  <2>3. Cardinality(I) <= Cardinality(1..i)
    BY <1>4, <2>2, FS_Subset
  <2>4. QED
    BY <1>1, <1>4, <2>2, <2>3
<1>8. ASSUME NEW i \in 0..(n - 1), k <= i PROVE x <= b[i + 1]
  <2>1. SUFFICES ASSUME ~(x <= b[i + 1]) PROVE FALSE
    OBVIOUS
  <2>2. i + 1 \in 0..n /\ 1..(i + 1) \subseteq DOMAIN b
    BY <1>2
  <2>3. ASSUME NEW j \in 1..(i + 1) PROVE j \in I
    <3>1. j \in DOMAIN b /\ b[j] \in Int
      BY <1>2, <2>2
    <3>2. j = i + 1 \/ b[j] < b[i + 1]
      <4>1. i + 1 \in DOMAIN b /\ (j < i + 1 => b[j] < b[i + 1])
        BY <1>2, <1>6, <3>1
      <4>2. QED
        BY <1>2, <4>1
    <3>3. b[j] <= x
      BY <1>6, <2>1, <3>1, <3>2
    <3>4. QED
      BY <1>1, <3>1, <3>3
  <2>4. 1..(i + 1) \subseteq I
    BY <2>3
  <2>5. Cardinality(1..(i + 1)) <= Cardinality(I)
    BY <1>5, <2>4, FS_Subset
  <2>6. i + 1 <= k
    BY <1>1, <1>4, <2>2, <2>5
  <2>7. QED
    BY <1>5, <1>8, <2>6
<1>9. QED
  BY <1>2, <1>3, <1>5, <1>6, <1>7, <1>8

LEMMA IndexFits ==
  ASSUME NEW o, OptionsOK(o), NEW x \in Int, NEW k \in Indexes(x, o)
  PROVE  /\ k \in 0..LastBucket(o)
         /\ \A i \in 0..(LastBucket(o) - 1) :
              /\ x < UpperBound(o, i) => k <= i
              /\ k <= i => x <= UpperBound(o, i)
<1>1. CASE o.type = "linear"
  <2>1. k = LinearIndex(x, o)
    BY <1>1 DEF Indexes
  <2>2. QED
    BY <1>1, <2>1, LinearFits
<1>2. CASE o.type = "exponential"
  <2>1. k \in ExponentialIndexes(x, o)
    BY <1>2 DEF Indexes
  <2>2. QED
    BY <1>2, <2>1, ExponentialFits
<1>3. CASE o.type = "explicit"
  <2>1. k = ExplicitIndex(x, o)
    BY <1>3 DEF Indexes
  <2>2. QED
    BY <1>3, <2>1, ExplicitFits
<1>4. QED
  BY <1>1, <1>2, <1>3 DEF OptionsOK

-----------------------------------------------------------------------------
(* Samples.                                                                *)

WithFive(h, c, m, hi, lo, s) ==
  [h EXCEPT !.count = c, !.mean = m, !.maximum = hi, !.minimum = lo, !.ssd = s]
WithCounts(h, b) == [h EXCEPT !.bucket_counts = b]

LEMMA FiveReplaced ==
  ASSUME NEW o, NEW c0, NEW m0, NEW lo0, NEW hi0, NEW s0, NEW b,
         NEW c, NEW m, NEW lo, NEW hi, NEW s
  PROVE  WithFive(Histogram(o, c0, m0, lo0, hi0, s0, b), c, m, hi, lo, s)
           = Histogram(o, c, m, lo, hi, s, b)
<1>1. PICK h0 : h0 = Histogram(o, c0, m0, lo0, hi0, s0, b)
  OBVIOUS
<1>2. PICK h1 : h1 = [h0 EXCEPT !.count = c]
  OBVIOUS
<1>3. h1 = Histogram(o, c, m0, lo0, hi0, s0, b)
  BY <1>1, <1>2 DEF Histogram
<1>4. PICK h2 : h2 = [h1 EXCEPT !.mean = m]
  OBVIOUS
<1>5. h2 = Histogram(o, c, m, lo0, hi0, s0, b)
  BY <1>3, <1>4 DEF Histogram
<1>6. PICK h3 : h3 = [h2 EXCEPT !.maximum = hi]
  OBVIOUS
<1>7. h3 = Histogram(o, c, m, lo0, hi, s0, b)
  BY <1>5, <1>6 DEF Histogram
<1>8. PICK h4 : h4 = [h3 EXCEPT !.minimum = lo]
  OBVIOUS
<1>9. h4 = Histogram(o, c, m, lo, hi, s0, b)
  BY <1>7, <1>8 DEF Histogram
<1>10. PICK h5 : h5 = [h4 EXCEPT !.ssd = s]
  OBVIOUS
<1>11. h5 = Histogram(o, c, m, lo, hi, s, b)
  BY <1>9, <1>10 DEF Histogram
<1>12. WithFive(h0, c, m, hi, lo, s)
         = [[[[[h0 EXCEPT !.count = c] EXCEPT !.mean = m] EXCEPT !.maximum = hi]
               EXCEPT !.minimum = lo] EXCEPT !.ssd = s]
  BY DEF WithFive
<1>13. QED
  BY <1>1, <1>2, <1>4, <1>6, <1>8, <1>10, <1>11, <1>12, Zenon

LEMMA CountsReplaced ==
  ASSUME NEW o, NEW c, NEW m, NEW lo, NEW hi, NEW s, NEW b, NEW b2
  PROVE  WithCounts(Histogram(o, c, m, lo, hi, s, b), b2)
           = Histogram(o, c, m, lo, hi, s, b2)
<1>1. PICK h : h = Histogram(o, c, m, lo, hi, s, b)
  OBVIOUS
<1>2. [h EXCEPT !.bucket_counts = b2] = Histogram(o, c, m, lo, hi, s, b2)
  BY <1>1 DEF Histogram
<1>3. QED
  BY <1>1, <1>2, Zenon DEF WithCounts

LEMMA MadeHistogram ==
  ASSUME NEW o, OptionsOK(o), NEW c \in Nat, NEW m \in Int, NEW lo \in Int,
         NEW hi \in Int, NEW s \in Int, NEW b \in [0..LastBucket(o) -> Nat]
  PROVE  HistogramOK(Histogram(o, c, m, lo, hi, s, b))
<1>1. PICK h : h = Histogram(o, c, m, lo, hi, s, b)
  OBVIOUS
<1>2. /\ h.options = o /\ h.count = c /\ h.mean = m /\ h.minimum = lo
      /\ h.maximum = hi /\ h.ssd = s /\ h.bucket_counts = b
  BY <1>1 DEF Histogram
<1>3. HistogramOK(h)
  BY <1>1, <1>2 DEF HistogramOK
<1>4. QED
  BY <1>1, <1>3

\* What _update_general_statistics and the bucket's count make of a histogram.
Added(h, x, i) == [WithStatistics(h, x) EXCEPT !.bucket_counts[i] = @ + 1]

MeanWith(h, x) ==
  IF h.count = 0 THEN x ELSE (h.count * h.mean + x) \div (h.count + 1)
MaximumWith(h, x) == IF h.count = 0 THEN x ELSE Max({x, h.maximum})
MinimumWith(h, x) == IF h.count = 0 THEN x ELSE Min({x, h.minimum})
DeviationWith(h, x) ==
  IF h.count = 0 THEN 0 ELSE h.ssd + (x - h.mean) * (x - MeanWith(h, x))

LEMMA AddedIs ==
  ASSUME NEW h, HistogramOK(h), NEW x, NEW i
  PROVE  Added(h, x, i) =
           Histogram(h.options, h.count + 1, MeanWith(h, x), MinimumWith(h, x),
                     MaximumWith(h, x), DeviationWith(h, x),
                     [h.bucket_counts EXCEPT ![i] = @ + 1])
<1>1. PICK o, c, m, lo, hi, s, b :
        /\ o = h.options /\ c = h.count /\ m = h.mean /\ lo = h.minimum
        /\ hi = h.maximum /\ s = h.ssd /\ b = h.bucket_counts
  OBVIOUS
<1>2. h = Histogram(o, c, m, lo, hi, s, b) /\ c \in Nat
  BY <1>1 DEF HistogramOK
<1>3. PICK c2, m2, lo2, hi2, s2, b2 :
        /\ c2 = c + 1 /\ m2 = MeanWith(h, x) /\ lo2 = MinimumWith(h, x)
        /\ hi2 = MaximumWith(h, x) /\ s2 = DeviationWith(h, x)
        /\ b2 = [b EXCEPT ![i] = @ + 1]
  OBVIOUS
<1>4. WithStatistics(h, x) = WithFive(h, c2, m2, hi2, lo2, s2)
  <2>1. CASE c = 0
    <3>1. c2 = 1 /\ m2 = x /\ lo2 = x /\ hi2 = x /\ s2 = 0
      BY <1>1, <1>3, <2>1 DEF MeanWith, MinimumWith, MaximumWith, DeviationWith
    <3>2. WithStatistics(h, x) =
            [h EXCEPT !.count = 1, !.maximum = x, !.minimum = x, !.mean = x, !.ssd = 0]
      BY <1>1, <2>1 DEF WithStatistics
    <3>3. [h EXCEPT !.count = 1, !.maximum = x, !.minimum = x, !.mean = x, !.ssd = 0]
            = WithFive(h, 1, x, x, x, 0)
      BY DEF WithFive
    <3>4. QED
      BY <3>1, <3>2, <3>3
  <2>2. CASE c # 0
    <3>1. /\ m2 = (h.count * h.mean + x) \div (h.count + 1) /\ c2 = h.count + 1
          /\ lo2 = Min({x, h.minimum}) /\ hi2 = Max({x, h.maximum})
          /\ s2 = h.ssd + (x - h.mean) * (x - m2)
      BY <1>1, <1>3, <2>2 DEF MeanWith, MinimumWith, MaximumWith, DeviationWith
    <3>2. WithStatistics(h, x) =
            [h EXCEPT !.count = h.count + 1, !.mean = m2,
                      !.maximum = Max({x, h.maximum}), !.minimum = Min({x, h.minimum}),
                      !.ssd = h.ssd + (x - h.mean) * (x - m2)]
      BY <1>1, <2>2, <3>1 DEF WithStatistics
    <3>3. QED
      BY <3>1, <3>2 DEF WithFive
  <2>3. QED
    BY <2>1, <2>2
<1>5. WithStatistics(h, x) = Histogram(o, c2, m2, lo2, hi2, s2, b)
  BY <1>2, <1>4, FiveReplaced
<1>6. PICK g : g = WithStatistics(h, x)
  OBVIOUS
<1>7. g.bucket_counts = b
  BY <1>5, <1>6 DEF Histogram
<1>8. Added(h, x, i) = WithCounts(g, b2)
  <2>1. Added(h, x, i) = [g EXCEPT !.bucket_counts = [g.bucket_counts EXCEPT ![i] = @ + 1]]
    BY <1>6 DEF Added
  <2>2. QED
    BY <1>3, <1>7, <2>1 DEF WithCounts
<1>9. Added(h, x, i) = Histogram(o, c2, m2, lo2, hi2, s2, b2)
  BY <1>5, <1>6, <1>8, CountsReplaced
<1>10. QED
  BY <1>1, <1>3, <1>9, Zenon

\* A bucket's count more.
LEMMA BucketMore ==
  ASSUME NEW L \in Nat, NEW b \in [0..L -> Nat], NEW k \in 0..L
  PROVE  LET c == [b EXCEPT ![k] = @ + 1] IN
         /\ c \in [0..L -> Nat]
         /\ \A i \in 0..L : /\ Sum(b, 0..i) \in Int
                            /\ Sum(c, 0..i) = IF k <= i THEN Sum(b, 0..i) + 1
                                              ELSE Sum(b, 0..i)
<1>1. PICK c : c = [b EXCEPT ![k] = @ + 1]
  OBVIOUS
<1>2. /\ c \in [0..L -> Nat] /\ c[k] = b[k] + 1
      /\ \A j \in 0..L : j # k => c[j] = b[j]
  BY <1>1
<1>3. ASSUME NEW i \in 0..L
      PROVE  /\ Sum(b, 0..i) \in Int
             /\ Sum(c, 0..i) = IF k <= i THEN Sum(b, 0..i) + 1 ELSE Sum(b, 0..i)
  <2>1. PICK S : S = 0..i
    OBVIOUS
  <2>2. IsFiniteSet(S)
    <3>1. 0 \in Int /\ i \in Int
      OBVIOUS
    <3>2. QED
      BY <2>1, <3>1, FS_Interval
  <2>3. \A j \in S : j \in 0..L /\ b[j] \in Int
    BY <2>1
  <2>4. Sum(b, S) \in Int
    BY <2>2, <2>3, SumIsInt
  <2>5. CASE k <= i
    <3>1. k \in S /\ \A j \in S \ {k} : c[j] = b[j]
      BY <1>2, <2>1, <2>3, <2>5
    <3>2. \A j \in S : b[j] \in Int
      BY <2>3
    <3>3. 1 \in Int /\ c[k] = b[k] + 1
      BY <1>2
    <3>4. Sum(c, S) = Sum(b, S) + 1
      BY <2>2, <3>1, <3>2, <3>3, SumChanges
    <3>5. QED
      BY <2>1, <2>4, <2>5, <3>4
  <2>6. CASE ~(k <= i)
    <3>1. \A j \in S : b[j] \in Int /\ c[j] = b[j]
      BY <1>2, <2>1, <2>3, <2>6
    <3>2. Sum(c, S) = Sum(b, S)
      BY <2>2, <3>1, SumIsSame
    <3>3. QED
      BY <2>1, <2>4, <2>6, <3>2
  <2>7. QED
    BY <2>5, <2>6
<1>4. QED
  BY <1>1, <1>2, <1>3, Zenon

LEMMA LastIs ==
  ASSUME NEW o, OptionsOK(o)
  PROVE  LastBucket(o) \in Nat
BY DEF OptionsOK, LastBucket

LEMMA SampleSets ==
  ASSUME NEW b
  PROVE  Below(b) \in SUBSET Samples /\ UpTo(b) \in SUBSET Samples
BY DEF Below, UpTo

LEMMA SumIsCount ==
  ASSUME NEW t \in [Samples -> Nat], NEW S \in SUBSET Samples
  PROVE  Sum(t, S) \in Int
<1>1. IsFiniteSet(S)
  BY DistributionAssumption, FS_Subset
<1>2. \A x \in S : t[x] \in Int
  OBVIOUS
<1>3. QED
  BY <1>1, <1>2, SumIsInt

\* add_sample's update.
LEMMA SampleKeeps ==
  ASSUME NEW h, HistogramOK(h), NEW t \in [Samples -> Nat], NEW z \in BOOLEAN,
         StatisticsKept(h, t), ExtremesKept(h, t, z),
         NEW x \in Samples, NEW k \in Indexes(x, h.options), h.count + 1 <= MaxCount
  PROVE  \E g, u :
         /\ g = Added(h, x, k) /\ u = [t EXCEPT ![x] = @ + 1]
         /\ u \in [Samples -> Nat]
         /\ HistogramOK(g) /\ StatisticsKept(g, u) /\ ExtremesKept(g, u, z)
         /\ g.options = h.options
         /\ BucketsKept(h, t) => BucketsKept(g, u)
<1>0. PICK g, u : g = Added(h, x, k) /\ u = [t EXCEPT ![x] = @ + 1]
  OBVIOUS
<1>1. PICK o, n, m, lo, hi, s, b, L :
        /\ o = h.options /\ n = h.count /\ m = h.mean /\ lo = h.minimum
        /\ hi = h.maximum /\ s = h.ssd /\ b = h.bucket_counts /\ L = LastBucket(o)
  OBVIOUS
<1>2. /\ OptionsOK(o) /\ n \in Nat /\ m \in Int /\ lo \in Int /\ hi \in Int /\ s \in Int
      /\ b \in [0..L -> Nat]
  BY <1>1 DEF HistogramOK
<1>3. L \in Nat /\ x \in Int /\ MaxCount \in Nat /\ Samples \in SUBSET Int
  BY <1>1, <1>2, LastIs, DistributionAssumption
<1>4. PICK m2, lo2, hi2, s2, c :
        /\ m2 = MeanWith(h, x) /\ lo2 = MinimumWith(h, x) /\ hi2 = MaximumWith(h, x)
        /\ s2 = DeviationWith(h, x) /\ c = [b EXCEPT ![k] = @ + 1]
  OBVIOUS
<1>5. g = Histogram(o, n + 1, m2, lo2, hi2, s2, c)
  BY <1>0, <1>1, <1>4, AddedIs
<1>6. /\ g.options = o /\ g.count = n + 1 /\ g.mean = m2 /\ g.minimum = lo2
      /\ g.maximum = hi2 /\ g.ssd = s2 /\ g.bucket_counts = c
  BY <1>5 DEF Histogram
<1>7. PICK F \in Int, Q \in Int : F = First(t) /\ Q = Second(t)
  BY Moments
<1>8. /\ u \in [Samples -> Nat] /\ First(u) = F + x /\ Second(u) = Q + x * x
      /\ \A S \in SUBSET Samples : Sum(u, S) = IF x \in S THEN Sum(t, S) + 1 ELSE Sum(t, S)
  BY <1>0, <1>7, SampleMore, Zenon
<1>9. n * m = F /\ s + m * F = Q /\ n = Sum(t, Samples) /\ n = Sum(b, 0..L)
      /\ (n = 0 => m = 0 /\ s = 0 /\ lo = 0 /\ hi = 0)
  BY <1>1, <1>7 DEF StatisticsKept
<1>10. n = 0 => F = 0 /\ Q = 0
  BY <1>2, <1>9
<1>11. m2 \in Int /\ (n + 1) * m2 = F + x
  <2>1. n + 1 \in 1..MaxCount
    BY <1>1, <1>2, <1>3
  <2>2. PICK j \in Int : First(u) = (n + 1) * j /\ First(u) \div (n + 1) = j
    BY <1>8, <2>1, Divisible
  <2>3. CASE n = 0
    <3>1. m2 = x
      BY <1>1, <1>4, <2>3 DEF MeanWith
    <3>2. QED
      BY <1>3, <1>10, <2>3, <3>1
  <2>4. CASE n # 0
    <3>1. m2 = (n * m + x) \div (n + 1)
      BY <1>1, <1>4, <2>4 DEF MeanWith
    <3>2. m2 = j
      BY <1>8, <1>9, <2>2, <3>1
    <3>3. QED
      BY <1>8, <2>2, <3>2
  <2>5. QED
    BY <2>3, <2>4
<1>12. s2 \in Int /\ s2 + m2 * (F + x) = Q + x * x
  <2>1. CASE n = 0
    <3>1. s2 = 0 /\ m2 = x
      BY <1>1, <1>4, <2>1 DEF MeanWith, DeviationWith
    <3>2. F = 0 /\ Q = 0
      BY <1>10, <2>1
    <3>3. QED
      BY <1>3, <3>1, <3>2
  <2>2. CASE n # 0
    <3>1. s2 = s + (x - m) * (x - m2)
      BY <1>1, <1>4, <2>2 DEF DeviationWith
    <3>2. n \in Int
      BY <1>2
    <3>3. s + (x - m) * (x - m2) + m2 * (F + x) = Q + x * x
      <4>1. m \in Int /\ x \in Int /\ m2 \in Int /\ s \in Int /\ F \in Int /\ Q \in Int
        BY <1>2, <1>3, <1>11
      <4>2. n * m = F /\ s + m * F = Q /\ (n + 1) * m2 = F + x
        BY <1>9, <1>11
      <4>3. m * F + m * x = m2 * F + m * m2
        <5>1. m * (F + x) = m * F + m * x
          BY <4>1
        <5>2. m * ((n + 1) * m2) = m2 * (n * m) + m * m2
          BY <3>2, <4>1
        <5>3. QED
          BY <4>2, <5>1, <5>2
      <4>4. /\ (x - m) * (x - m2) = x * x - x * m2 - m * x + m * m2
            /\ m2 * (F + x) = m2 * F + x * m2
        BY <4>1
      <4>5. /\ m * F \in Int /\ m * x \in Int /\ m2 * F \in Int /\ m * m2 \in Int
            /\ x * x \in Int /\ x * m2 \in Int
        BY <4>1
      <4>6. QED
        BY <4>1, <4>2, <4>3, <4>4, <4>5
    <3>4. (x - m) * (x - m2) \in Int
      BY <1>2, <1>3, <1>11
    <3>5. QED
      BY <1>2, <3>1, <3>3, <3>4
  <2>3. QED
    BY <2>1, <2>2
<1>13. k \in 0..L
  BY <1>1, <1>2, <1>3, IndexFits
<1>14. /\ c \in [0..L -> Nat]
       /\ \A i \in 0..L : /\ Sum(b, 0..i) \in Int
                          /\ Sum(c, 0..i) = IF k <= i THEN Sum(b, 0..i) + 1
                                            ELSE Sum(b, 0..i)
  <2>1. L \in Nat
    BY <1>3
  <2>2. b \in [0..L -> Nat]
    BY <1>2
  <2>3. LET c0 == [b EXCEPT ![k] = @ + 1] IN
        /\ c0 \in [0..L -> Nat]
        /\ \A i \in 0..L : /\ Sum(b, 0..i) \in Int
                           /\ Sum(c0, 0..i) = IF k <= i THEN Sum(b, 0..i) + 1
                                              ELSE Sum(b, 0..i)
    BY <1>13, <2>1, <2>2, BucketMore, Zenon
  <2>4. c = [b EXCEPT ![k] = @ + 1]
    BY <1>4
  <2>5. QED
    BY <2>3, <2>4, Zenon
<1>15. Seen(u, z) = Seen(t, z) \cup {x}
  <2>1. u[x] = t[x] + 1 /\ t[x] \in Nat /\ \A y \in Samples : y # x => u[y] = t[y]
    BY <1>0
  <2>2. {y \in Samples : u[y] > 0} = {y \in Samples : t[y] > 0} \cup {x}
    BY <2>1
  <2>3. QED
    BY <2>2, Zenon DEF Seen
<1>16. lo2 \in Int /\ hi2 \in Int /\ ExtremesKept(g, u, z)
  <2>1. n + 1 # 0
    BY <1>2
  <2>2. CASE n = 0
    <3>1. lo2 = x /\ hi2 = x
      BY <1>1, <1>4, <2>2 DEF MinimumWith, MaximumWith
    <3>2. Seen(t, z) = {}
      BY <1>1, <2>2 DEF ExtremesKept
    <3>3. Seen(u, z) = {x}
      BY <1>15, <3>2
    <3>4. /\ lo2 \in Int /\ hi2 \in Int /\ lo2 \in Seen(u, z) /\ hi2 \in Seen(u, z)
          /\ \A y \in Seen(u, z) : lo2 <= y /\ y <= hi2
      <4>1. x \in Int /\ x <= x
        BY <1>3
      <4>2. QED
        BY <3>1, <3>3, <4>1
    <3>5. QED
      BY <1>6, <2>1, <3>4 DEF ExtremesKept
  <2>3. CASE n # 0
    <3>1. lo2 = Min({x, lo}) /\ hi2 = Max({x, hi})
      BY <1>1, <1>4, <2>3 DEF MinimumWith, MaximumWith
    <3>2. lo2 = IF x <= lo THEN x ELSE lo
      <4>1. {x, lo} \in SUBSET Int
        BY <1>2, <1>3
      <4>2. CASE x <= lo
        <5>1. x \in {x, lo} /\ \A y \in {x, lo} : x <= y
          BY <1>3, <4>2
        <5>2. QED
          BY <3>1, <4>1, <4>2, <5>1, MinIs
      <4>3. CASE ~(x <= lo)
        <5>1. lo \in {x, lo} /\ \A y \in {x, lo} : lo <= y
          BY <1>2, <1>3, <4>3
        <5>2. QED
          BY <3>1, <4>1, <4>3, <5>1, MinIs
      <4>4. QED
        BY <4>2, <4>3
    <3>3. hi2 = IF hi <= x THEN x ELSE hi
      <4>1. {x, hi} \in SUBSET Int
        BY <1>2, <1>3
      <4>2. CASE hi <= x
        <5>1. x \in {x, hi} /\ \A y \in {x, hi} : y <= x
          BY <1>3, <4>2
        <5>2. QED
          BY <3>1, <4>1, <4>2, <5>1, MaxIs
      <4>3. CASE ~(hi <= x)
        <5>1. hi \in {x, hi} /\ \A y \in {x, hi} : y <= hi
          BY <1>2, <1>3, <4>3
        <5>2. QED
          BY <3>1, <4>1, <4>3, <5>1, MaxIs
      <4>4. QED
        BY <4>2, <4>3
    <3>4. /\ lo \in Seen(t, z) /\ hi \in Seen(t, z)
          /\ \A y \in Seen(t, z) : lo <= y /\ y <= hi
      BY <1>1, <2>3 DEF ExtremesKept
    <3>5. \A y \in Seen(t, z) : y \in Int
      BY <1>3 DEF Seen
    <3>6. lo2 \in Seen(u, z) /\ hi2 \in Seen(u, z)
      BY <1>15, <3>2, <3>3, <3>4
    <3>7. /\ lo2 <= x /\ x <= hi2 /\ lo2 <= lo /\ hi <= hi2
          /\ lo2 \in Int /\ hi2 \in Int
      BY <1>2, <1>3, <3>2, <3>3
    <3>8. ASSUME NEW y \in Seen(u, z) PROVE lo2 <= y /\ y <= hi2
      <4>1. CASE y = x
        BY <3>7, <4>1
      <4>2. CASE y \in Seen(t, z)
        BY <1>2, <3>4, <3>5, <3>7, <4>2
      <4>3. QED
        BY <1>15, <4>1, <4>2
    <3>9. QED
      BY <1>6, <2>1, <3>6, <3>7, <3>8 DEF ExtremesKept
  <2>4. QED
    BY <2>2, <2>3
<1>17. HistogramOK(g)
  <2>1. n + 1 \in Nat
    BY <1>2
  <2>2. c \in [0..LastBucket(o) -> Nat]
    BY <1>1, <1>14
  <2>3. QED
    BY <1>2, <1>5, <1>11, <1>12, <1>16, <2>1, <2>2, MadeHistogram
<1>18. StatisticsKept(g, u)
  <2>1. Sum(u, Samples) = n + 1
    <3>1. Samples \in SUBSET Samples
      OBVIOUS
    <3>2. QED
      BY <1>8, <1>9, <3>1
  <2>2. Sum(c, 0..L) = n + 1
    <3>1. L \in 0..L /\ k <= L
      BY <1>3, <1>13
    <3>2. QED
      BY <1>9, <1>14, <3>1
  <2>3. n + 1 # 0
    BY <1>2
  <2>4. QED
    BY <1>1, <1>6, <1>8, <1>11, <1>12, <2>1, <2>2, <2>3 DEF StatisticsKept
<1>19. ASSUME BucketsKept(h, t) PROVE BucketsKept(g, u)
  <2>1. ASSUME NEW i \in 0..(L - 1)
        PROVE  LET v == UpperBound(o, i) IN
               /\ Sum(u, Below(v)) <= Sum(c, 0..i)
               /\ Sum(c, 0..i) <= Sum(u, UpTo(v))
    <3>1. PICK v : v = UpperBound(o, i)
      OBVIOUS
    <3>2. (x < v => k <= i) /\ (k <= i => x <= v)
      BY <1>1, <1>2, <1>3, <3>1, IndexFits
    <3>3. Sum(t, Below(v)) <= Sum(b, 0..i) /\ Sum(b, 0..i) <= Sum(t, UpTo(v))
      BY <1>1, <1>19, <3>1 DEF BucketsKept
    <3>4. i \in 0..L
      BY <1>3
    <3>5. Sum(t, Below(v)) \in Int /\ Sum(t, UpTo(v)) \in Int /\ Sum(b, 0..i) \in Int
      BY <1>14, <3>4, SampleSets, SumIsCount
    <3>6. Sum(c, 0..i) = IF k <= i THEN Sum(b, 0..i) + 1 ELSE Sum(b, 0..i)
      BY <1>14, <3>4
    <3>7. Sum(u, Below(v)) = IF x < v THEN Sum(t, Below(v)) + 1 ELSE Sum(t, Below(v))
      <4>1. x \in Below(v) <=> x < v
        BY DEF Below
      <4>2. QED
        BY <1>8, <4>1, SampleSets
    <3>8. Sum(u, UpTo(v)) = IF x <= v THEN Sum(t, UpTo(v)) + 1 ELSE Sum(t, UpTo(v))
      <4>1. x \in UpTo(v) <=> x <= v
        BY DEF UpTo
      <4>2. QED
        BY <1>8, <4>1, SampleSets
    <3>9. Sum(u, Below(v)) <= Sum(c, 0..i) /\ Sum(c, 0..i) <= Sum(u, UpTo(v))
      BY <3>2, <3>3, <3>5, <3>6, <3>7, <3>8
    <3>10. QED
      BY <3>1, <3>9
  <2>2. QED
    BY <1>1, <1>6, <2>1 DEF BucketsKept
<1>20. QED
  BY <1>0, <1>1, <1>6, <1>8, <1>16, <1>17, <1>18, <1>19

-----------------------------------------------------------------------------
(* Merges of distributions.                                                *)

CombinedMean(p, l) ==
  (l.count * l.mean + p.count * p.mean) \div (l.count + p.count)
CombinedDeviation(p, l) ==
  l.ssd + p.ssd + l.count * Squared(CombinedMean(p, l) - l.mean)
    + p.count * Squared(CombinedMean(p, l) - p.mean)
CombinedCounts(p, l) ==
  [i \in DOMAIN l.bucket_counts |-> l.bucket_counts[i] + p.bucket_counts[i]]

LEMMA CombinedIs ==
  ASSUME NEW p, NEW l, HistogramOK(l)
  PROVE  Combined(p, l) =
           Histogram(l.options, l.count + p.count, CombinedMean(p, l),
                     Min({p.minimum, l.minimum}), Max({p.maximum, l.maximum}),
                     CombinedDeviation(p, l), CombinedCounts(p, l))
<1>1. PICK o, c, m, lo, hi, s, b :
        /\ o = l.options /\ c = l.count /\ m = l.mean /\ lo = l.minimum
        /\ hi = l.maximum /\ s = l.ssd /\ b = l.bucket_counts
  OBVIOUS
<1>2. l = Histogram(o, c, m, lo, hi, s, b)
  BY <1>1 DEF HistogramOK
<1>3. PICK c2, m2, lo2, hi2, s2, b2 :
        /\ c2 = l.count + p.count /\ m2 = CombinedMean(p, l)
        /\ lo2 = Min({p.minimum, l.minimum}) /\ hi2 = Max({p.maximum, l.maximum})
        /\ s2 = CombinedDeviation(p, l) /\ b2 = CombinedCounts(p, l)
  OBVIOUS
<1>4. PICK g : g = WithFive(l, c2, m2, hi2, lo2, s2)
  OBVIOUS
<1>5. g = Histogram(o, c2, m2, lo2, hi2, s2, b)
  BY <1>2, <1>4, FiveReplaced
<1>6. Combined(p, l) = WithCounts(g, b2)
  <2>1. /\ m2 = (l.count * l.mean + p.count * p.mean) \div c2
        /\ s2 = l.ssd + p.ssd + l.count * Squared(m2 - l.mean)
                  + p.count * Squared(m2 - p.mean)
        /\ b2 = [i \in DOMAIN l.bucket_counts |->
                   l.bucket_counts[i] + p.bucket_counts[i]]
    BY <1>3 DEF CombinedMean, CombinedDeviation, CombinedCounts
  <2>2. Combined(p, l) =
          [l EXCEPT !.count = c2, !.mean = m2, !.maximum = hi2, !.minimum = lo2,
                    !.ssd = s2, !.bucket_counts = b2]
    BY <1>3, <2>1 DEF Combined
  <2>3. [l EXCEPT !.count = c2, !.mean = m2, !.maximum = hi2, !.minimum = lo2,
                  !.ssd = s2, !.bucket_counts = b2] = WithCounts(g, b2)
    BY <1>4 DEF WithFive, WithCounts
  <2>4. QED
    BY <2>2, <2>3
<1>7. Combined(p, l) = Histogram(o, c2, m2, lo2, hi2, s2, b2)
  BY <1>5, <1>6, CountsReplaced
<1>8. QED
  BY <1>1, <1>3, <1>7, Zenon

\* The deviation from another mean.
LEMMA DeviationFrom ==
  ASSUME NEW n \in Int, NEW m \in Int, NEW M \in Int
  PROVE  /\ n * Squared(M - m) \in Int
         /\ n * Squared(M - m) = n * (M * M) - 2 * (M * (n * m)) + m * (n * m)
<1>1. Squared(M - m) = M * M - 2 * (M * m) + m * m
  BY DEF Squared
<1>2. M * M \in Int /\ M * m \in Int /\ m * m \in Int
  OBVIOUS
<1>3. n * Squared(M - m) = n * (M * M) - 2 * (n * (M * m)) + n * (m * m)
  BY <1>1, <1>2
<1>4. n * (M * m) = M * (n * m) /\ n * (m * m) = m * (n * m)
  OBVIOUS
<1>5. n * (M * M) \in Int /\ M * (n * m) \in Int /\ m * (n * m) \in Int
  OBVIOUS
<1>6. QED
  BY <1>3, <1>4, <1>5

LEMMA DeviationOfBoth ==
  ASSUME NEW n \in Int, NEW m \in Int, NEW s \in Int,
         NEW n1 \in Int, NEW m1 \in Int, NEW s1 \in Int, NEW M \in Int
  PROVE  /\ s + s1 + n * Squared(M - m) + n1 * Squared(M - m1) \in Int
         /\ s + s1 + n * Squared(M - m) + n1 * Squared(M - m1)
              = (s + m * (n * m)) + (s1 + m1 * (n1 * m1))
                  + M * ((n + n1) * M) - 2 * (M * (n * m + n1 * m1))
<1>1. /\ n * Squared(M - m) \in Int
      /\ n * Squared(M - m) = n * (M * M) - 2 * (M * (n * m)) + m * (n * m)
  BY DeviationFrom, Zenon
<1>2. /\ n1 * Squared(M - m1) \in Int
      /\ n1 * Squared(M - m1)
           = n1 * (M * M) - 2 * (M * (n1 * m1)) + m1 * (n1 * m1)
  BY DeviationFrom, Zenon
<1>3. M * ((n + n1) * M) = n * (M * M) + n1 * (M * M)
  OBVIOUS
<1>4. M * (n * m + n1 * m1) = M * (n * m) + M * (n1 * m1)
  OBVIOUS
<1>5. /\ n * (M * M) \in Int /\ n1 * (M * M) \in Int
      /\ M * (n * m) \in Int /\ M * (n1 * m1) \in Int
      /\ m * (n * m) \in Int /\ m1 * (n1 * m1) \in Int
  OBVIOUS
<1>6. QED
  BY <1>1, <1>2, <1>3, <1>4, <1>5

\* The counts of both.
LEMMA BucketsOfBoth ==
  ASSUME NEW L \in Nat, NEW b \in [0..L -> Nat], NEW d \in [0..L -> Nat]
  PROVE  LET c == [i \in 0..L |-> b[i] + d[i]] IN
         /\ c \in [0..L -> Nat]
         /\ \A i \in 0..L : /\ Sum(b, 0..i) \in Int /\ Sum(d, 0..i) \in Int
                            /\ Sum(c, 0..i) = Sum(b, 0..i) + Sum(d, 0..i)
<1>1. PICK c : c = [i \in 0..L |-> b[i] + d[i]]
  OBVIOUS
<1>2. c \in [0..L -> Nat] /\ \A j \in 0..L : c[j] = b[j] + d[j]
  BY <1>1
<1>3. ASSUME NEW i \in 0..L
      PROVE  /\ Sum(b, 0..i) \in Int /\ Sum(d, 0..i) \in Int
             /\ Sum(c, 0..i) = Sum(b, 0..i) + Sum(d, 0..i)
  <2>1. PICK S : S = 0..i
    OBVIOUS
  <2>2. IsFiniteSet(S)
    <3>1. 0 \in Int /\ i \in Int
      OBVIOUS
    <3>2. QED
      BY <2>1, <3>1, FS_Interval
  <2>3. \A j \in S : b[j] \in Int /\ d[j] \in Int /\ c[j] = b[j] + d[j]
    BY <1>2, <2>1
  <2>4. Sum(b, S) \in Int /\ Sum(d, S) \in Int
    BY <2>2, <2>3, SumIsInt
  <2>5. Sum(c, S) = Sum(b, S) + Sum(d, S)
    BY <2>2, <2>3, SumOfBoth
  <2>6. QED
    BY <2>1, <2>4, <2>5
<1>4. QED
  BY <1>1, <1>2, <1>3, Zenon

LEMMA SeenByBoth ==
  ASSUME NEW t \in [Samples -> Nat], NEW s \in [Samples -> Nat],
         NEW z \in BOOLEAN, NEW y \in BOOLEAN, NEW e \in BOOLEAN,
         NEW q \in BOOLEAN, q <=> z \/ e \/ y,
         NEW u \in [Samples -> Nat], \A x \in Samples : u[x] = t[x] + s[x]
  PROVE  Seen(u, q)
           = Seen(s, y) \cup Seen(t, z) \cup (IF e THEN {0} ELSE {})
<1>1. \A x \in Samples : u[x] > 0 <=> t[x] > 0 \/ s[x] > 0
  <2>1. ASSUME NEW x \in Samples PROVE u[x] > 0 <=> t[x] > 0 \/ s[x] > 0
    <3>1. t[x] \in Nat /\ s[x] \in Nat /\ u[x] = t[x] + s[x]
      OBVIOUS
    <3>2. QED
      BY <3>1
  <2>2. QED
    BY <2>1
<1>2. {x \in Samples : u[x] > 0}
        = {x \in Samples : s[x] > 0} \cup {x \in Samples : t[x] > 0}
  BY <1>1
<1>3. (IF q THEN {0} ELSE {})
        = (IF y THEN {0} ELSE {}) \cup (IF z THEN {0} ELSE {}) \cup (IF e THEN {0} ELSE {})
  OBVIOUS
<1>4. QED
  BY <1>2, <1>3, Zenon DEF Seen

\* Two sets of values, each between its extremes.
LEMMA ExtremesOfBoth ==
  ASSUME NEW A \in SUBSET Int, NEW B \in SUBSET Int,
         NEW lo \in A, NEW hi \in A, \A x \in A : lo <= x /\ x <= hi,
         NEW lo1 \in B, NEW hi1 \in B, \A x \in B : lo1 <= x /\ x <= hi1
  PROVE  /\ Min({lo, lo1}) \in A \cup B /\ Max({hi, hi1}) \in A \cup B
         /\ Min({lo, lo1}) \in Int /\ Max({hi, hi1}) \in Int
         /\ \A x \in A \cup B : Min({lo, lo1}) <= x /\ x <= Max({hi, hi1})
<1>1. lo \in Int /\ hi \in Int /\ lo1 \in Int /\ hi1 \in Int
  OBVIOUS
<1>2. Min({lo, lo1}) = IF lo <= lo1 THEN lo ELSE lo1
  <2>1. {lo, lo1} \in SUBSET Int
    BY <1>1
  <2>2. CASE lo <= lo1
    <3>1. lo \in {lo, lo1} /\ \A y \in {lo, lo1} : lo <= y
      BY <1>1, <2>2
    <3>2. QED
      BY <2>1, <2>2, <3>1, MinIs
  <2>3. CASE ~(lo <= lo1)
    <3>1. lo1 \in {lo, lo1} /\ \A y \in {lo, lo1} : lo1 <= y
      BY <1>1, <2>3
    <3>2. QED
      BY <2>1, <2>3, <3>1, MinIs
  <2>4. QED
    BY <2>2, <2>3
<1>3. Max({hi, hi1}) = IF hi1 <= hi THEN hi ELSE hi1
  <2>1. {hi, hi1} \in SUBSET Int
    BY <1>1
  <2>2. CASE hi1 <= hi
    <3>1. hi \in {hi, hi1} /\ \A y \in {hi, hi1} : y <= hi
      BY <1>1, <2>2
    <3>2. QED
      BY <2>1, <2>2, <3>1, MaxIs
  <2>3. CASE ~(hi1 <= hi)
    <3>1. hi1 \in {hi, hi1} /\ \A y \in {hi, hi1} : y <= hi1
      BY <1>1, <2>3
    <3>2. QED
      BY <2>1, <2>3, <3>1, MaxIs
  <2>4. QED
    BY <2>2, <2>3
<1>4. PICK v, w : v = Min({lo, lo1}) /\ w = Max({hi, hi1})
  OBVIOUS
<1>5. v = (IF lo <= lo1 THEN lo ELSE lo1) /\ w = (IF hi1 <= hi THEN hi ELSE hi1)
  BY <1>2, <1>3, <1>4
<1>6. /\ v \in A \cup B /\ w \in A \cup B /\ v \in Int /\ w \in Int
      /\ v <= lo /\ v <= lo1 /\ hi <= w /\ hi1 <= w
  BY <1>1, <1>5
<1>7. ASSUME NEW x \in A \cup B PROVE v <= x /\ x <= w
  <2>1. x \in Int
    OBVIOUS
  <2>2. (lo <= x /\ x <= hi) \/ (lo1 <= x /\ x <= hi1)
    OBVIOUS
  <2>3. QED
    BY <1>1, <1>6, <2>1, <2>2
<1>8. QED
  BY <1>4, <1>6, <1>7

\* merge's update: p the prior, with its samples s; l the latest, with t.
LEMMA MergeKeepsSamples ==
  ASSUME NEW p, HistogramOK(p), NEW s \in [Samples -> Nat], NEW y \in BOOLEAN,
         StatisticsKept(p, s), ExtremesKept(p, s, y),
         NEW l, HistogramOK(l), NEW t \in [Samples -> Nat], NEW z \in BOOLEAN,
         StatisticsKept(l, t), ExtremesKept(l, t, z),
         p.bucket_counts \in [DOMAIN l.bucket_counts -> Nat],
         p.count > 0, l.count + p.count <= MaxCount
  PROVE  \E g, u :
         /\ g = Combined(p, l) /\ u = [x \in Samples |-> t[x] + s[x]]
         /\ HistogramOK(g) /\ StatisticsKept(g, u)
         /\ ExtremesKept(g, u, z \/ l.count = 0 \/ y)
         /\ g.options = l.options /\ u \in [Samples -> Nat]
         /\ p.options = l.options /\ BucketsKept(p, s) /\ BucketsKept(l, t)
              => BucketsKept(g, u)
<1>0. PICK g, u : g = Combined(p, l) /\ u = [x \in Samples |-> t[x] + s[x]]
  OBVIOUS
<1>1. PICK o, n, m, lo, hi, v, b, L :
        /\ o = l.options /\ n = l.count /\ m = l.mean /\ lo = l.minimum
        /\ hi = l.maximum /\ v = l.ssd /\ b = l.bucket_counts /\ L = LastBucket(o)
  OBVIOUS
<1>2. PICK n1, m1, lo1, hi1, v1, d :
        /\ n1 = p.count /\ m1 = p.mean /\ lo1 = p.minimum
        /\ hi1 = p.maximum /\ v1 = p.ssd /\ d = p.bucket_counts
  OBVIOUS
<1>3. /\ OptionsOK(o) /\ n \in Nat /\ m \in Int /\ lo \in Int /\ hi \in Int /\ v \in Int
      /\ b \in [0..L -> Nat]
  BY <1>1 DEF HistogramOK
<1>4. L \in Nat /\ MaxCount \in Nat /\ Samples \in SUBSET Int
  BY <1>1, <1>3, LastIs, DistributionAssumption
<1>5. /\ n1 \in Nat /\ m1 \in Int /\ lo1 \in Int /\ hi1 \in Int /\ v1 \in Int
      /\ d \in [0..L -> Nat] /\ LastBucket(p.options) = L
  <2>1. /\ OptionsOK(p.options) /\ n1 \in Nat /\ m1 \in Int /\ lo1 \in Int /\ hi1 \in Int
        /\ v1 \in Int /\ d \in [0..LastBucket(p.options) -> Nat]
    BY <1>2 DEF HistogramOK
  <2>2. PICK K : K = LastBucket(p.options)
    OBVIOUS
  <2>3. K \in Nat
    BY <2>1, <2>2, LastIs
  <2>4. 0..K = 0..L
    BY <1>1, <1>2, <1>3, <2>1, <2>2
  <2>5. K = L
    <3>1. K \in 0..L /\ L \in 0..K
      BY <1>4, <2>3, <2>4
    <3>2. QED
      BY <1>4, <2>3, <3>1
  <2>6. QED
    BY <2>1, <2>2, <2>5
<1>6. PICK M, lo2, hi2, w, c :
        /\ M = CombinedMean(p, l) /\ lo2 = Min({lo1, lo}) /\ hi2 = Max({hi1, hi})
        /\ w = CombinedDeviation(p, l) /\ c = CombinedCounts(p, l)
  OBVIOUS
<1>7. g = Histogram(o, n + n1, M, lo2, hi2, w, c)
  BY <1>0, <1>1, <1>2, <1>6, CombinedIs
<1>8. /\ g.options = o /\ g.count = n + n1 /\ g.mean = M /\ g.minimum = lo2
      /\ g.maximum = hi2 /\ g.ssd = w /\ g.bucket_counts = c
  BY <1>7 DEF Histogram
<1>9. PICK F \in Int, Q \in Int, F1 \in Int, Q1 \in Int :
        F = First(t) /\ Q = Second(t) /\ F1 = First(s) /\ Q1 = Second(s)
  BY Moments
<1>10. /\ u \in [Samples -> Nat] /\ First(u) = F + F1 /\ Second(u) = Q + Q1
       /\ \A S \in SUBSET Samples : Sum(u, S) = Sum(t, S) + Sum(s, S)
  BY <1>0, <1>9, SamplesOfBoth, Zenon
<1>11. n * m = F /\ v + m * F = Q /\ n = Sum(t, Samples) /\ n = Sum(b, 0..L)
  BY <1>1, <1>9 DEF StatisticsKept
<1>12. n1 * m1 = F1 /\ v1 + m1 * F1 = Q1 /\ n1 = Sum(s, Samples) /\ n1 = Sum(d, 0..L)
  BY <1>2, <1>5, <1>9 DEF StatisticsKept
<1>13. n1 > 0 /\ n + n1 \in Nat /\ n + n1 \in 1..MaxCount /\ n + n1 # 0
  <2>1. n1 > 0 /\ n + n1 <= MaxCount
    BY <1>1, <1>2
  <2>2. n \in Nat /\ n1 \in Nat /\ MaxCount \in Nat
    BY <1>3, <1>4, <1>5
  <2>3. QED
    BY <2>1, <2>2
<1>14. M \in Int /\ (n + n1) * M = F + F1
  <2>1. PICK j \in Int : First(u) = (n + n1) * j /\ First(u) \div (n + n1) = j
    BY <1>10, <1>13, Divisible
  <2>2. M = (n * m + n1 * m1) \div (n + n1)
    BY <1>1, <1>2, <1>6 DEF CombinedMean
  <2>3. M = j
    BY <1>10, <1>11, <1>12, <2>1, <2>2
  <2>4. QED
    BY <1>10, <2>1, <2>3
<1>15. w \in Int /\ w + M * (F + F1) = Q + Q1
  <2>1. PICK w2 : w2 = v + v1 + n * Squared(M - m) + n1 * Squared(M - m1)
    OBVIOUS
  <2>2. w = w2
    BY <1>1, <1>2, <1>6, <2>1 DEF CombinedDeviation
  <2>3. n \in Int /\ n1 \in Int
    BY <1>3, <1>5
  <2>8. m \in Int /\ m1 \in Int
    BY <1>3, <1>5
  <2>9. v \in Int /\ v1 \in Int
    BY <1>3, <1>5
  <2>10. M \in Int
    BY <1>14
  <2>4. /\ v + v1 + n * Squared(M - m) + n1 * Squared(M - m1) \in Int
        /\ v + v1 + n * Squared(M - m) + n1 * Squared(M - m1)
             = (v + m * (n * m)) + (v1 + m1 * (n1 * m1))
                 + M * ((n + n1) * M) - 2 * (M * (n * m + n1 * m1))
    BY <2>3, <2>8, <2>9, <2>10, DeviationOfBoth
  <2>5. w2 \in Int /\ w2 = Q + Q1 + M * (F + F1) - 2 * (M * (F + F1))
    BY <1>11, <1>12, <1>14, <2>1, <2>4
  <2>6. M * (F + F1) \in Int
    BY <1>14
  <2>7. QED
    BY <2>2, <2>5, <2>6
<1>16. /\ c \in [0..L -> Nat]
       /\ \A i \in 0..L : /\ Sum(b, 0..i) \in Int /\ Sum(d, 0..i) \in Int
                          /\ Sum(c, 0..i) = Sum(b, 0..i) + Sum(d, 0..i)
  <2>1. L \in Nat
    BY <1>4
  <2>2. b \in [0..L -> Nat]
    BY <1>3
  <2>3. d \in [0..L -> Nat]
    BY <1>5
  <2>4. LET c0 == [i \in 0..L |-> b[i] + d[i]] IN
        /\ c0 \in [0..L -> Nat]
        /\ \A i \in 0..L : /\ Sum(b, 0..i) \in Int /\ Sum(d, 0..i) \in Int
                           /\ Sum(c0, 0..i) = Sum(b, 0..i) + Sum(d, 0..i)
    BY <2>1, <2>2, <2>3, BucketsOfBoth, Zenon
  <2>5. c = [i \in 0..L |-> b[i] + d[i]]
    <3>1. DOMAIN b = 0..L
      BY <2>2
    <3>2. c = [i \in DOMAIN b |-> b[i] + d[i]]
      BY <1>1, <1>2, <1>6 DEF CombinedCounts
    <3>3. QED
      BY <3>1, <3>2, Zenon
  <2>6. QED
    BY <2>4, <2>5, Zenon
<1>17. /\ lo2 \in Int /\ hi2 \in Int
       /\ ExtremesKept(g, u, z \/ l.count = 0 \/ y)
  <2>1. PICK e \in BOOLEAN : e <=> n = 0
    OBVIOUS
  <2>12. PICK q \in BOOLEAN : q <=> z \/ e \/ y
    OBVIOUS
  <2>2. PICK A, B : A = Seen(s, y) /\ B = Seen(t, z) \cup (IF e THEN {0} ELSE {})
    OBVIOUS
  <2>3. Seen(u, q) = A \cup B
    <3>1. Seen(u, q)
            = Seen(s, y) \cup Seen(t, z) \cup (IF e THEN {0} ELSE {})
      <4>1. \A x \in Samples : u[x] = t[x] + s[x]
        BY <1>0
      <4>2. u \in [Samples -> Nat]
        BY <1>10
      <4>3. QED
        BY <2>12, <4>1, <4>2, SeenByBoth
    <3>2. QED
      BY <2>2, <3>1
  <2>4. A \in SUBSET Int /\ B \in SUBSET Int
    <3>1. Seen(s, y) \in SUBSET Int /\ Seen(t, z) \in SUBSET Int
      <4>1. \A x \in Samples : x \in Int
        BY <1>4
      <4>2. 0 \in Int
        OBVIOUS
      <4>3. QED
        BY <4>1, <4>2, Zenon DEF Seen
    <3>2. QED
      BY <2>2, <3>1
  <2>5. lo1 \in A /\ hi1 \in A /\ \A x \in A : lo1 <= x /\ x <= hi1
    BY <1>2, <1>5, <1>13, <2>2 DEF ExtremesKept
  <2>6. lo \in B /\ hi \in B /\ \A x \in B : lo <= x /\ x <= hi
    <3>1. CASE e
      <4>1. n = 0
        BY <2>1, <3>1
      <4>2. lo = 0 /\ hi = 0
        BY <1>1, <4>1 DEF StatisticsKept
      <4>3. Seen(t, z) = {}
        BY <1>1, <4>1 DEF ExtremesKept
      <4>4. B = {0}
        BY <2>2, <3>1, <4>3
      <4>5. QED
        BY <4>2, <4>4
    <3>2. CASE ~e
      <4>1. n # 0
        BY <2>1, <3>2
      <4>2. B = Seen(t, z)
        BY <2>2, <3>2
      <4>3. QED
        BY <1>1, <4>1, <4>2 DEF ExtremesKept
    <3>3. QED
      BY <3>1, <3>2
  <2>7. /\ lo2 \in A \cup B /\ hi2 \in A \cup B /\ lo2 \in Int /\ hi2 \in Int
        /\ \A x \in A \cup B : lo2 <= x /\ x <= hi2
    <3>1. A \in SUBSET Int
      BY <2>4
    <3>2. B \in SUBSET Int
      BY <2>4
    <3>3. lo1 \in A /\ hi1 \in A
      BY <2>5
    <3>4. \A x \in A : lo1 <= x /\ x <= hi1
      BY <2>5
    <3>5. lo \in B /\ hi \in B
      BY <2>6
    <3>6. \A x \in B : lo <= x /\ x <= hi
      BY <2>6
    <3>7. /\ Min({lo1, lo}) \in A \cup B /\ Max({hi1, hi}) \in A \cup B
          /\ Min({lo1, lo}) \in Int /\ Max({hi1, hi}) \in Int
          /\ \A x \in A \cup B : Min({lo1, lo}) <= x /\ x <= Max({hi1, hi})
      BY <3>1, <3>2, <3>3, <3>4, <3>5, <3>6, ExtremesOfBoth, Zenon
    <3>8. lo2 = Min({lo1, lo}) /\ hi2 = Max({hi1, hi})
      BY <1>6
    <3>9. QED
      BY <3>7, <3>8, Zenon
  <2>8. ExtremesKept(g, u, q)
    BY <1>8, <1>13, <2>3, <2>7 DEF ExtremesKept
  <2>9. q <=> (z \/ l.count = 0 \/ y)
    BY <1>1, <2>1, <2>12
  <2>10. ExtremesKept(g, u, z \/ l.count = 0 \/ y)
    BY <2>8, <2>9
  <2>11. QED
    BY <2>7, <2>10
<1>18. HistogramOK(g)
  <2>1. c \in [0..LastBucket(o) -> Nat]
    BY <1>1, <1>16
  <2>2. QED
    BY <1>3, <1>7, <1>13, <1>14, <1>15, <1>17, <2>1, MadeHistogram
<1>19. StatisticsKept(g, u)
  <2>1. Sum(u, Samples) = n + n1
    <3>1. Samples \in SUBSET Samples
      OBVIOUS
    <3>2. QED
      BY <1>10, <1>11, <1>12, <3>1
  <2>2. Sum(c, 0..L) = n + n1
    <3>1. L \in 0..L
      BY <1>4
    <3>2. QED
      BY <1>11, <1>12, <1>16, <3>1
  <2>3. QED
    BY <1>1, <1>8, <1>10, <1>13, <1>14, <1>15, <2>1, <2>2 DEF StatisticsKept
<1>20. ASSUME p.options = l.options, BucketsKept(p, s), BucketsKept(l, t)
       PROVE  BucketsKept(g, u)
  <2>1. ASSUME NEW i \in 0..(L - 1)
        PROVE  LET a == UpperBound(o, i) IN
               /\ Sum(u, Below(a)) <= Sum(c, 0..i)
               /\ Sum(c, 0..i) <= Sum(u, UpTo(a))
    <3>1. PICK a : a = UpperBound(o, i)
      OBVIOUS
    <3>2. Sum(t, Below(a)) <= Sum(b, 0..i) /\ Sum(b, 0..i) <= Sum(t, UpTo(a))
      BY <1>1, <1>20, <3>1 DEF BucketsKept
    <3>3. Sum(s, Below(a)) <= Sum(d, 0..i) /\ Sum(d, 0..i) <= Sum(s, UpTo(a))
      BY <1>1, <1>2, <1>20, <3>1 DEF BucketsKept
    <3>4. i \in 0..L
      BY <1>4
    <3>5. /\ Sum(t, Below(a)) \in Int /\ Sum(t, UpTo(a)) \in Int
          /\ Sum(s, Below(a)) \in Int /\ Sum(s, UpTo(a)) \in Int
      BY SampleSets, SumIsCount
    <3>6. /\ Sum(b, 0..i) \in Int /\ Sum(d, 0..i) \in Int
          /\ Sum(c, 0..i) = Sum(b, 0..i) + Sum(d, 0..i)
      BY <1>16, <3>4
    <3>7. /\ Sum(u, Below(a)) = Sum(t, Below(a)) + Sum(s, Below(a))
          /\ Sum(u, UpTo(a)) = Sum(t, UpTo(a)) + Sum(s, UpTo(a))
      BY <1>10, SampleSets
    <3>8. Sum(u, Below(a)) <= Sum(c, 0..i) /\ Sum(c, 0..i) <= Sum(u, UpTo(a))
      BY <3>2, <3>3, <3>5, <3>6, <3>7
    <3>9. QED
      BY <3>1, <3>8
  <2>2. QED
    BY <1>1, <1>8, <2>1 DEF BucketsKept
<1>21. QED
  BY <1>0, <1>1, <1>8, <1>10, <1>17, <1>18, <1>19, <1>20

-----------------------------------------------------------------------------
(* Empty distributions.                                                    *)

LEMMA SumOfZeros ==
  ASSUME NEW S, IsFiniteSet(S), NEW f, \A x \in S : f[x] = 0
  PROVE  Sum(f, S) = 0
<1>1. \A x \in S : f[x] \in Int /\ f[x] = 0 * f[x] + 0 * f[x]
  OBVIOUS
<1>2. Sum(f, S) \in Int
  BY <1>1, SumIsInt
<1>3. 0 \in Int
  OBVIOUS
<1>4. Sum(f, S) = 0 * Sum(f, S) + 0 * Sum(f, S)
  BY <1>1, <1>3, SumIsLinear
<1>5. QED
  BY <1>2, <1>4

\* The bounds that create_explicit keeps are an increasing sequence.
LEMMA SortedOptions ==
  ASSUME NEW x \in Options, Valid(x), NEW o \in Sorted(x)
  PROVE  OptionsOK(o)
<1>1. \/ x \in [type : {"linear"}, n : Int, width : Int, offset : Int]
      \/ x \in [type : {"exponential"}, n : Int, factor : Int, scale : Int]
      \/ x \in [type : {"explicit"}, bounds : Seq(Int)]
  BY OptionsAssumption
<1>2. CASE x \in [type : {"linear"}, n : Int, width : Int, offset : Int]
  <2>1. /\ x.type = "linear" /\ x.n \in Int /\ x.width \in Int /\ x.offset \in Int
        /\ o = x
    BY <1>2 DEF Sorted
  <2>2. x.n > 0 /\ x.width > 0
    BY <2>1 DEF Valid
  <2>3. QED
    BY <2>1, <2>2 DEF OptionsOK
<1>3. CASE x \in [type : {"exponential"}, n : Int, factor : Int, scale : Int]
  <2>1. /\ x.type = "exponential" /\ x.n \in Int /\ x.factor \in Int /\ x.scale \in Int
        /\ o = x
    BY <1>3 DEF Sorted
  <2>2. x.n > 0 /\ x.factor > 1 /\ x.scale > 0
    BY <2>1 DEF Valid
  <2>3. QED
    BY <2>1, <2>2 DEF OptionsOK
<1>4. CASE x \in [type : {"explicit"}, bounds : Seq(Int)]
  <2>1. x.type = "explicit" /\ x.bounds \in Seq(Int)
    BY <1>4
  <2>2. PICK b \in [DOMAIN x.bounds -> Range(x.bounds)] :
          /\ o = [x EXCEPT !.bounds = b]
          /\ \A i, j \in DOMAIN b : i < j => b[i] < b[j]
    BY <2>1 DEF Sorted
  <2>3. o.type = "explicit" /\ o.bounds = b
    BY <1>4, <2>2
  <2>4. PICK n : n \in Nat /\ DOMAIN x.bounds = 1..n
    BY <2>1
  <2>5. b \in Seq(Int)
    <3>1. \A v \in Range(x.bounds) : v \in Int
      BY <2>1 DEF Range
    <3>2. b \in [1..n -> Int]
      BY <2>4, <3>1
    <3>3. QED
      BY <2>4, <3>2
  <2>6. QED
    BY <2>2, <2>3, <2>5 DEF OptionsOK
<1>5. QED
  BY <1>1, <1>2, <1>3, <1>4

LEMMA EmptyDescribes ==
  ASSUME NEW o, OptionsOK(o), NEW z \in BOOLEAN, ~z
  PROVE  \E h, t : /\ h = Create(o) /\ t = [x \in Samples |-> 0]
                   /\ t \in [Samples -> Nat]
                   /\ HistogramOK(h) /\ StatisticsKept(h, t)
                   /\ ExtremesKept(h, t, z) /\ BucketsKept(h, t)
<1>1. PICK h, t, b : /\ h = Create(o) /\ t = [x \in Samples |-> 0]
                     /\ b = [i \in 0..LastBucket(o) |-> 0]
  OBVIOUS
<1>2. h = Histogram(o, 0, 0, 0, 0, 0, b)
  BY <1>1 DEF Create, Histogram, LastBucket
<1>3. /\ h.options = o /\ h.count = 0 /\ h.mean = 0 /\ h.minimum = 0 /\ h.maximum = 0
      /\ h.ssd = 0 /\ h.bucket_counts = b
  BY <1>2 DEF Histogram
<1>4. t \in [Samples -> Nat] /\ \A x \in Samples : t[x] = 0
  BY <1>1
<1>5. PICK L : L = LastBucket(o)
  OBVIOUS
<1>6. L \in Nat
  BY <1>5, LastIs
<1>7. b \in [0..L -> Nat] /\ \A i \in 0..L : b[i] = 0
  BY <1>1, <1>5
<1>8. HistogramOK(h)
  <2>1. b \in [0..LastBucket(o) -> Nat]
    BY <1>5, <1>7
  <2>2. 0 \in Nat /\ 0 \in Int
    OBVIOUS
  <2>3. QED
    BY <1>2, <2>1, <2>2, MadeHistogram
<1>9. \A S \in SUBSET Samples : Sum(t, S) = 0
  <2>1. ASSUME NEW S \in SUBSET Samples PROVE Sum(t, S) = 0
    <3>1. IsFiniteSet(Samples)
      BY DistributionAssumption
    <3>2. IsFiniteSet(S)
      BY <3>1, FS_Subset
    <3>3. \A x \in S : t[x] = 0
      BY <1>4
    <3>4. QED
      BY <3>2, <3>3, SumOfZeros
  <2>2. QED
    BY <2>1
<1>10. \A i \in 0..L : Sum(b, 0..i) = 0
  <2>1. ASSUME NEW i \in 0..L PROVE Sum(b, 0..i) = 0
    <3>1. PICK S : S = 0..i
      OBVIOUS
    <3>2. IsFiniteSet(S)
      <4>1. 0 \in Int /\ i \in Int
        OBVIOUS
      <4>2. QED
        BY <3>1, <4>1, FS_Interval
    <3>3. \A j \in S : b[j] = 0
      BY <1>6, <1>7, <3>1
    <3>4. Sum(b, S) = 0
      BY <3>2, <3>3, SumOfZeros
    <3>5. QED
      BY <3>1, <3>4
  <2>2. QED
    BY <2>1
<1>11. First(t) = 0 /\ Second(t) = 0
  <2>1. PICK f, g : /\ f = [x \in Samples |-> t[x] * x]
                    /\ g = [x \in Samples |-> t[x] * (x * x)]
    OBVIOUS
  <2>2. \A x \in Samples : f[x] = 0 /\ g[x] = 0
    <3>1. \A x \in Samples : x \in Int
      BY DistributionAssumption
    <3>2. \A x \in Int : x * x \in Int /\ 0 * x = 0
      OBVIOUS
    <3>3. QED
      BY <1>4, <2>1, <3>1, <3>2
  <2>3. IsFiniteSet(Samples)
    BY DistributionAssumption
  <2>4. Sum(f, Samples) = 0 /\ Sum(g, Samples) = 0
    BY <2>2, <2>3, SumOfZeros
  <2>5. QED
    BY <2>1, <2>4, Zenon DEF First, Second
<1>12. StatisticsKept(h, t)
  <2>1. Sum(t, Samples) = 0
    <3>1. Samples \in SUBSET Samples
      OBVIOUS
    <3>2. QED
      BY <1>9, <3>1
  <2>2. Sum(b, 0..L) = 0
    BY <1>6, <1>10
  <2>3. QED
    BY <1>3, <1>5, <1>11, <2>1, <2>2 DEF StatisticsKept
<1>13. ExtremesKept(h, t, z)
  <2>1. {x \in Samples : t[x] > 0} = {}
    BY <1>4
  <2>2. Seen(t, z) = {}
    BY <2>1 DEF Seen
  <2>3. QED
    BY <1>3, <2>2 DEF ExtremesKept
<1>14. BucketsKept(h, t)
  <2>1. ASSUME NEW i \in 0..(L - 1)
        PROVE  LET a == UpperBound(o, i) IN
               Sum(t, Below(a)) <= Sum(b, 0..i) /\ Sum(b, 0..i) <= Sum(t, UpTo(a))
    <3>1. PICK a : a = UpperBound(o, i)
      OBVIOUS
    <3>2. Sum(t, Below(a)) = 0 /\ Sum(t, UpTo(a)) = 0
      BY <1>9, SampleSets
    <3>3. i \in 0..L
      BY <1>6
    <3>4. Sum(b, 0..i) = 0
      BY <1>10, <3>3
    <3>5. QED
      BY <3>1, <3>2, <3>4
  <2>2. QED
    BY <1>3, <1>5, <2>1 DEF BucketsKept
<1>15. QED
  BY <1>1, <1>4, <1>8, <1>12, <1>13, <1>14

-----------------------------------------------------------------------------
(* The distributions' invariant.                                           *)

LEMMA DistInitKeeps == DistInit => DistInv
<1>1. SUFFICES ASSUME DistInit PROVE DistInv
  OBVIOUS
<1>2. dist = [d \in Dists |-> dist[d]]
  BY <1>1 DEF DistInit
<1>3. ASSUME NEW d \in Dists
      PROVE  /\ HistogramOK(dist[d]) /\ StatisticsKept(dist[d], sampled[d])
             /\ ExtremesKept(dist[d], sampled[d], d \in zeroed)
             /\ BucketsKept(dist[d], sampled[d]) /\ sampled[d] \in [Samples -> Nat]
  <2>1. PICK x, o : x \in Options /\ o \in Sorted(x) /\ Valid(x) /\ dist[d] = Create(o)
    BY <1>1 DEF DistInit
  <2>2. OptionsOK(o)
    BY <2>1, SortedOptions
  <2>3. PICK z \in BOOLEAN : ~z
    OBVIOUS
  <2>4. PICK h, t : /\ h = Create(o) /\ t = [y \in Samples |-> 0]
                    /\ t \in [Samples -> Nat]
                    /\ HistogramOK(h) /\ StatisticsKept(h, t)
                    /\ ExtremesKept(h, t, z) /\ BucketsKept(h, t)
    BY <2>2, <2>3, EmptyDescribes
  <2>5. dist[d] = h /\ sampled[d] = t /\ (d \in zeroed <=> z)
    BY <1>1, <2>1, <2>3, <2>4 DEF DistInit
  <2>6. QED
    BY <2>4, <2>5
<1>4. sampled \in [Dists -> [Samples -> Nat]]
  <2>1. sampled = [d \in Dists |-> sampled[d]]
    BY <1>1 DEF DistInit
  <2>2. QED
    BY <1>3, <2>1
<1>5. mixed \subseteq Dists /\ zeroed \subseteq Dists
  BY <1>1 DEF DistInit
<1>6. QED
  BY <1>2, <1>3, <1>4, <1>5 DEF DistInv

\* No distribution has more samples than all of them.
LEMMA CountWithin ==
  ASSUME DistInv, NEW d \in Dists
  PROVE  TotalCount \in Int /\ dist[d].count <= TotalCount
<1>1. PICK f : f = [e \in Dists |-> dist[e].count]
  OBVIOUS
<1>2. \A e \in Dists : f[e] \in Nat /\ f[e] \in Int
  BY <1>1 DEF DistInv, HistogramOK
<1>3. TotalCount = Sum(f, Dists)
  <2>1. DOMAIN f = Dists
    BY <1>1
  <2>2. QED
    BY <1>1, <2>1, Zenon DEF TotalCount, SumFunction, Sum
<1>4. IsFiniteSet(Dists)
  BY DistributionAssumption
<1>5. Sum(f, Dists) = f[d] + Sum(f, Dists \ {d})
  BY <1>2, <1>4, SumWithout
<1>6. 0 <= Sum(f, Dists \ {d})
  <2>1. Dists \ {d} \in SUBSET Dists
    OBVIOUS
  <2>2. \A e \in Dists : f[e] \in Nat
    BY <1>2
  <2>3. QED
    BY <1>4, <2>1, <2>2, SumGrows
<1>7. Sum(f, Dists \ {d}) \in Int
  <2>1. IsFiniteSet(Dists \ {d})
    BY <1>4, FS_RemoveElement
  <2>2. \A e \in Dists \ {d} : f[e] \in Int
    BY <1>2
  <2>3. QED
    BY <2>1, <2>2, SumIsInt
<1>8. f[d] \in Int /\ f[d] = dist[d].count
  BY <1>1, <1>2
<1>9. QED
  BY <1>3, <1>5, <1>6, <1>7, <1>8

\* A step changes one distribution.
LEMMA OneReplaced ==
  ASSUME DistInv, NEW d \in Dists, NEW g, NEW u \in [Samples -> Nat],
         dist' = [dist EXCEPT ![d] = g], sampled' = [sampled EXCEPT ![d] = u],
         mixed' \subseteq Dists, zeroed' \subseteq Dists,
         \A e \in Dists : e # d => /\ e \in mixed' <=> e \in mixed
                                   /\ e \in zeroed' <=> e \in zeroed,
         HistogramOK(g), StatisticsKept(g, u), ExtremesKept(g, u, d \in zeroed'),
         d \notin mixed' => BucketsKept(g, u)
  PROVE  DistInv'
<1>1. /\ dist = [e \in Dists |-> dist[e]] /\ sampled \in [Dists -> [Samples -> Nat]]
      /\ \A e \in Dists :
           /\ HistogramOK(dist[e]) /\ StatisticsKept(dist[e], sampled[e])
           /\ ExtremesKept(dist[e], sampled[e], e \in zeroed)
           /\ e \notin mixed => BucketsKept(dist[e], sampled[e])
  BY DEF DistInv
<1>2. dist' = [e \in Dists |-> dist'[e]]
  BY <1>1
<1>3. sampled' \in [Dists -> [Samples -> Nat]]
  BY <1>1
<1>4. ASSUME NEW e \in Dists
      PROVE  /\ HistogramOK(dist'[e]) /\ StatisticsKept(dist'[e], sampled'[e])
             /\ ExtremesKept(dist'[e], sampled'[e], e \in zeroed')
             /\ e \notin mixed' => BucketsKept(dist'[e], sampled'[e])
  <2>1. CASE e = d
    <3>1. dist'[e] = g /\ sampled'[e] = u
      BY <1>1, <2>1
    <3>2. QED
      BY <2>1, <3>1
  <2>2. CASE e # d
    <3>1. dist'[e] = dist[e] /\ sampled'[e] = sampled[e]
      BY <1>1, <2>2
    <3>2. (e \in zeroed' <=> e \in zeroed) /\ (e \in mixed' <=> e \in mixed)
      BY <2>2
    <3>3. QED
      BY <1>1, <3>1, <3>2
  <2>3. QED
    BY <2>1, <2>2
<1>5. QED
  BY <1>2, <1>3, <1>4 DEF DistInv

LEMMA AddSampleKeeps ==
  ASSUME DistInv, NEW d \in Dists, NEW x \in Samples, AddSample(d, x)
  PROVE  DistInv'
<1>1. PICK h, t : h = dist[d] /\ t = sampled[d]
  OBVIOUS
<1>2. PICK z \in BOOLEAN : z <=> d \in zeroed
  OBVIOUS
<1>3. /\ HistogramOK(h) /\ StatisticsKept(h, t) /\ t \in [Samples -> Nat]
      /\ d \notin mixed => BucketsKept(h, t)
  BY <1>1 DEF DistInv
<1>4. ExtremesKept(h, t, z)
  BY <1>1, <1>2 DEF DistInv
<1>5. PICK k \in Indexes(x, h.options) : dist' = [dist EXCEPT ![d] = Added(h, x, k)]
  <2>1. \E i \in Indexes(x, dist[d].options) :
          dist' = [dist EXCEPT ![d] = Added(dist[d], x, i)]
    BY Zenon DEF AddSample, Added
  <2>2. QED
    BY <1>1, <2>1, Zenon
<1>6. h.count + 1 <= MaxCount
  <2>1. TotalCount \in Int /\ h.count <= TotalCount
    BY <1>1, CountWithin
  <2>2. TotalCount < MaxCount /\ MaxCount \in Nat /\ h.count \in Nat
    BY <1>3, DistributionAssumption DEF AddSample, HistogramOK
  <2>3. QED
    BY <2>1, <2>2
<1>7. PICK g, u :
        /\ g = Added(h, x, k) /\ u = [t EXCEPT ![x] = @ + 1]
        /\ u \in [Samples -> Nat]
        /\ HistogramOK(g) /\ StatisticsKept(g, u) /\ ExtremesKept(g, u, z)
        /\ g.options = h.options
        /\ BucketsKept(h, t) => BucketsKept(g, u)
  BY <1>3, <1>4, <1>6, SampleKeeps
<1>10. dist' = [dist EXCEPT ![d] = g]
  BY <1>5, <1>7
<1>11. sampled' = [sampled EXCEPT ![d] = u]
  BY <1>1, <1>7 DEF AddSample
<1>12. mixed' = mixed /\ zeroed' = zeroed
  BY DEF AddSample
<1>13. mixed \subseteq Dists /\ zeroed \subseteq Dists
  BY DEF DistInv
<1>14. ExtremesKept(g, u, d \in zeroed')
  BY <1>2, <1>7, <1>12
<1>15. QED
  BY <1>3, <1>7, <1>10, <1>11, <1>12, <1>13, <1>14, OneReplaced

LEMMA MergeIntoKeeps ==
  ASSUME DistInv, NEW prior \in Dists, NEW latest \in Dists, Merge(prior, latest)
  PROVE  DistInv'
<1>1. PICK p, s, l, t : /\ p = dist[prior] /\ s = sampled[prior]
                        /\ l = dist[latest] /\ t = sampled[latest]
  OBVIOUS
<1>2. PICK y \in BOOLEAN, z \in BOOLEAN :
        (y <=> prior \in zeroed) /\ (z <=> latest \in zeroed)
  OBVIOUS
<1>3. /\ HistogramOK(p) /\ StatisticsKept(p, s) /\ s \in [Samples -> Nat]
      /\ prior \notin mixed => BucketsKept(p, s)
  BY <1>1 DEF DistInv
<1>4. /\ HistogramOK(l) /\ StatisticsKept(l, t) /\ t \in [Samples -> Nat]
      /\ latest \notin mixed => BucketsKept(l, t)
  BY <1>1 DEF DistInv
<1>5. ExtremesKept(p, s, y) /\ ExtremesKept(l, t, z)
  BY <1>1, <1>2 DEF DistInv
<1>6. /\ TotalCount + p.count <= MaxCount /\ p.count > 0
      /\ DOMAIN p.bucket_counts = DOMAIN l.bucket_counts
      /\ dist' = [dist EXCEPT ![latest] = Combined(p, l)]
  BY <1>1 DEF Merge
<1>7. p.bucket_counts \in [DOMAIN l.bucket_counts -> Nat]
  <2>1. p.bucket_counts \in [0..LastBucket(p.options) -> Nat]
    BY <1>3 DEF HistogramOK
  <2>2. QED
    BY <1>6, <2>1
<1>8. l.count + p.count <= MaxCount
  <2>1. TotalCount \in Int /\ l.count <= TotalCount
    BY <1>1, CountWithin
  <2>2. l.count \in Nat /\ p.count \in Nat /\ MaxCount \in Nat
    BY <1>3, <1>4, DistributionAssumption DEF HistogramOK
  <2>3. QED
    BY <1>6, <2>1, <2>2
<1>9. p.count > 0
  BY <1>6
<1>10. PICK g, u :
         /\ g = Combined(p, l) /\ u = [x \in Samples |-> t[x] + s[x]]
         /\ HistogramOK(g) /\ StatisticsKept(g, u)
         /\ ExtremesKept(g, u, z \/ l.count = 0 \/ y)
         /\ g.options = l.options /\ u \in [Samples -> Nat]
         /\ p.options = l.options /\ BucketsKept(p, s) /\ BucketsKept(l, t)
              => BucketsKept(g, u)
  BY <1>3, <1>4, <1>5, <1>7, <1>8, <1>9, MergeKeepsSamples
<1>11. dist' = [dist EXCEPT ![latest] = g]
  BY <1>6, <1>10
<1>12. sampled' = [sampled EXCEPT ![latest] = u]
  BY <1>1, <1>10 DEF Merge
<1>13. /\ mixed' = IF p.options # l.options \/ prior \in mixed
                     THEN mixed \cup {latest} ELSE mixed
       /\ zeroed' = IF l.count = 0 \/ prior \in zeroed
                      THEN zeroed \cup {latest} ELSE zeroed
  BY <1>1 DEF Merge
<1>14. mixed \subseteq Dists /\ zeroed \subseteq Dists
  BY DEF DistInv
<1>15. /\ mixed' \subseteq Dists /\ zeroed' \subseteq Dists
       /\ \A e \in Dists : e # latest => /\ e \in mixed' <=> e \in mixed
                                         /\ e \in zeroed' <=> e \in zeroed
  BY <1>13, <1>14
<1>16. latest \in zeroed' <=> z \/ l.count = 0 \/ y
  BY <1>2, <1>13
<1>17. ExtremesKept(g, u, latest \in zeroed')
  BY <1>10, <1>16
<1>18. latest \notin mixed' => BucketsKept(g, u)
  BY <1>3, <1>4, <1>10, <1>13
<1>19. QED
  <2>1. HistogramOK(g) /\ StatisticsKept(g, u)
    BY <1>10
  <2>2. u \in [Samples -> Nat]
    BY <1>10
  <2>3. QED
    BY <1>11, <1>12, <1>15, <1>17, <1>18, <2>1, <2>2, OneReplaced

LEMMA DistNextKeeps == DistInv /\ [DistNext]_distVars => DistInv'
<1>1. SUFFICES ASSUME DistInv, [DistNext]_distVars PROVE DistInv'
  OBVIOUS
<1>2. ASSUME NEW d \in Dists, NEW x \in Samples, AddSample(d, x) PROVE DistInv'
  BY <1>1, <1>2, AddSampleKeeps
<1>3. ASSUME NEW p \in Dists, NEW l \in Dists, p # l, Merge(p, l) PROVE DistInv'
  BY <1>1, <1>3, MergeIntoKeeps
<1>4. CASE UNCHANGED distVars
  BY <1>1, <1>4 DEF distVars, DistInv
<1>5. QED
  BY <1>1, <1>2, <1>3, <1>4 DEF DistNext

\* The invariant behind the samples' description: the first and second moments,
\* which an updated mean and deviation still determine.
THEOREM DistributionInvariant == DistSpec => []DistInv
<1>1. DistInit => DistInv
  BY DistInitKeeps
<1>2. DistInv /\ [DistNext]_distVars => DistInv'
  BY DistNextKeeps
<1>3. QED
  BY <1>1, <1>2, PTL DEF DistSpec

-----------------------------------------------------------------------------
(* What the samples say.                                                   *)

\* The deviation of the samples from a value.
LEMMA DeviationIs ==
  ASSUME NEW t \in [Samples -> Nat], NEW m \in Int
  PROVE  Sum([x \in Samples |-> t[x] * Squared(x - m)], Samples)
           = Second(t) - 2 * (m * First(t)) + (m * m) * Sum(t, Samples)
<1>1. \A x \in Samples : x \in Int /\ t[x] \in Int
  BY DistributionAssumption
<1>2. PICK c \in Int, w \in Int : c = -(2 * m) /\ w = m * m
  OBVIOUS
<1>3. PICK f, g, e, k :
        /\ f = [x \in Samples |-> t[x] * (x * x)] /\ g = [x \in Samples |-> t[x] * x]
        /\ e = [x \in Samples |-> 1 * f[x] + c * g[x]]
        /\ k = [x \in Samples |-> t[x] * Squared(x - m)]
  OBVIOUS
<1>4. ASSUME NEW x \in Samples
      PROVE  /\ f[x] \in Int /\ g[x] \in Int /\ e[x] \in Int
             /\ e[x] = 1 * f[x] + c * g[x] /\ k[x] = 1 * e[x] + w * t[x]
  <2>1. PICK a \in Int : a = t[x]
    BY <1>1
  <2>2. x \in Int
    BY <1>1
  <2>3. f[x] = a * (x * x) /\ g[x] = a * x /\ k[x] = a * Squared(x - m)
    BY <1>3, <2>1
  <2>4. a * (x * x) \in Int /\ a * x \in Int
    BY <2>2
  <2>5. e[x] = 1 * (a * (x * x)) + c * (a * x)
    BY <1>3, <2>3
  <2>6. 1 * (a * (x * x)) + c * (a * x) \in Int
    BY <2>4
  <2>7. a * Squared(x - m) = 1 * (1 * (a * (x * x)) + c * (a * x)) + w * a
    <3>1. a * Squared(x - m)
            = 1 * (1 * (a * (x * x)) + (-(2 * m)) * (a * x)) + (m * m) * a
      BY <2>2 DEF Squared
    <3>2. QED
      BY <1>2, <3>1
  <2>8. QED
    BY <2>1, <2>3, <2>4, <2>5, <2>6, <2>7
<1>5. IsFiniteSet(Samples)
  BY DistributionAssumption
<1>6. PICK F \in Int, Q \in Int, n \in Int :
        F = First(t) /\ Q = Second(t) /\ n = Sum(t, Samples)
  BY Moments
<1>7. Sum(f, Samples) = Q /\ Sum(g, Samples) = F
  BY <1>3, <1>6, Zenon DEF First, Second
<1>8. Sum(e, Samples) = 1 * Sum(f, Samples) + c * Sum(g, Samples)
  <2>1. \A x \in Samples : /\ f[x] \in Int /\ g[x] \in Int
                           /\ e[x] = 1 * f[x] + c * g[x]
    BY <1>4
  <2>2. 1 \in Int
    OBVIOUS
  <2>3. QED
    BY <1>5, <2>1, <2>2, SumIsLinear
<1>9. Sum(k, Samples) = 1 * Sum(e, Samples) + w * Sum(t, Samples)
  <2>1. \A x \in Samples : /\ e[x] \in Int /\ t[x] \in Int
                           /\ k[x] = 1 * e[x] + w * t[x]
    BY <1>1, <1>4
  <2>2. 1 \in Int
    OBVIOUS
  <2>3. QED
    BY <1>5, <2>1, <2>2, SumIsLinear
<1>10. Sum(k, Samples) = Q - 2 * (m * F) + (m * m) * n
  <2>1. PICK v : v = Sum(e, Samples)
    OBVIOUS
  <2>2. v = 1 * Q + c * F
    BY <1>7, <1>8, <2>1
  <2>3. c * F = -(2 * (m * F)) /\ m * F \in Int /\ w * n \in Int
    <3>1. (-(2 * m)) * F = -(2 * (m * F)) /\ m * F \in Int
      OBVIOUS
    <3>2. w * n \in Int
      OBVIOUS
    <3>3. QED
      BY <1>2, <3>1, <3>2
  <2>4. v \in Int /\ v = Q - 2 * (m * F)
    BY <2>2, <2>3
  <2>5. Sum(k, Samples) = 1 * v + w * n
    BY <1>6, <1>9, <2>1
  <2>6. Sum(k, Samples) = v + w * n
    BY <2>3, <2>4, <2>5
  <2>7. QED
    BY <1>2, <2>4, <2>6
<1>11. QED
  BY <1>3, <1>6, <1>10, Zenon

LEMMA InvDescribes ==
  ASSUME DistInv, NEW d \in Dists
  PROVE  LET h == dist[d]
         IN /\ h.count = Times(d, Samples)
            /\ h.count = Counted(h, DOMAIN h.bucket_counts)
            /\ h.count * h.mean = SumFunction([x \in Samples |-> sampled[d][x] * x])
            /\ h.ssd = SumFunction([x \in Samples |->
                                      sampled[d][x] * Squared(x - h.mean)])
            /\ \A x \in Sampled(d) : h.minimum <= x /\ x <= h.maximum
<1>1. d \in Dists
  OBVIOUS
<1>2. PICK h, t : h = dist[d] /\ t = sampled[d]
  OBVIOUS
<1>3. /\ HistogramOK(h) /\ StatisticsKept(h, t) /\ t \in [Samples -> Nat]
      /\ ExtremesKept(h, t, d \in zeroed)
  BY <1>1, <1>2 DEF DistInv
<1>4. PICK L : L = LastBucket(h.options)
  OBVIOUS
<1>5. /\ L \in Nat /\ DOMAIN h.bucket_counts = 0..L
      /\ h.count \in Int /\ h.mean \in Int /\ h.ssd \in Int
  <2>1. OptionsOK(h.options) /\ h.bucket_counts \in [0..L -> Nat]
    BY <1>3, <1>4 DEF HistogramOK
  <2>2. L \in Nat
    BY <1>4, <2>1, LastIs
  <2>3. QED
    BY <1>3, <2>1, <2>2 DEF HistogramOK
<1>6. \A S : Times(d, S) = Sum(t, S)
  BY <1>2 DEF Times, Sum
<1>7. \A S : Counted(h, S) = Sum(h.bucket_counts, S)
  BY DEF Counted, Sum
<1>8. h.count = Times(d, Samples)
  BY <1>3, <1>6 DEF StatisticsKept
<1>9. h.count = Counted(h, DOMAIN h.bucket_counts)
  BY <1>3, <1>4, <1>5, <1>7 DEF StatisticsKept
<1>10. PICK f, k : /\ f = [x \in Samples |-> t[x] * x]
                   /\ k = [x \in Samples |-> t[x] * Squared(x - h.mean)]
  OBVIOUS
<1>11. SumFunction(f) = Sum(f, Samples) /\ SumFunction(k) = Sum(k, Samples)
  <2>1. DOMAIN f = Samples /\ DOMAIN k = Samples
    BY <1>10
  <2>2. QED
    BY <2>1, Zenon DEF SumFunction, Sum
<1>12. h.count * h.mean = SumFunction(f)
  <2>1. First(t) = Sum(f, Samples)
    BY <1>10, Zenon DEF First
  <2>2. QED
    BY <1>3, <1>11, <2>1 DEF StatisticsKept
<1>13. h.ssd = SumFunction(k)
  <2>1. PICK F \in Int, Q \in Int : F = First(t) /\ Q = Second(t)
    BY <1>3, Moments
  <2>2. PICK m \in Int, n \in Int : m = h.mean /\ n = h.count
    BY <1>5
  <2>3. n = Sum(t, Samples) /\ n * m = F
    BY <1>3, <2>1, <2>2 DEF StatisticsKept
  <2>4. Sum([x \in Samples |-> t[x] * Squared(x - m)], Samples)
          = Second(t) - 2 * (m * First(t)) + (m * m) * Sum(t, Samples)
    <3>1. t \in [Samples -> Nat]
      BY <1>3
    <3>2. QED
      BY <3>1, DeviationIs
  <2>5. Sum(k, Samples) = Q - 2 * (m * F) + (m * m) * n
    BY <1>10, <2>1, <2>2, <2>3, <2>4, Zenon
  <2>6. h.ssd + m * F = Q
    BY <1>3, <2>1, <2>2 DEF StatisticsKept
  <2>7. m * F \in Int /\ (m * m) * n = m * F
    <3>1. m * F \in Int /\ (m * m) * n = m * (n * m)
      OBVIOUS
    <3>2. QED
      BY <2>3, <3>1
  <2>8. QED
    <3>1. PICK j \in Int, r \in Int : j = m * F /\ r = h.ssd
      BY <1>5, <2>7
    <3>2. r + j = Q /\ Sum(k, Samples) = Q - 2 * j + j
      BY <2>5, <2>6, <2>7, <3>1
    <3>3. QED
      BY <1>11, <3>1, <3>2
<1>14. \A x \in Sampled(d) : h.minimum <= x /\ x <= h.maximum
  BY <1>2, <1>3 DEF Sampled, Seen, ExtremesKept
<1>15. QED
  BY <1>2, <1>8, <1>9, <1>10, <1>12, <1>13, <1>14, Zenon

LEMMA InvExtremes ==
  ASSUME DistInv, NEW d \in Dists, d \notin zeroed
  PROVE  HasExtremes(d)
<1>1. PICK h, t : h = dist[d] /\ t = sampled[d]
  OBVIOUS
<1>2. h.count \in Nat /\ ExtremesKept(h, t, FALSE)
  <2>1. HistogramOK(h) /\ ExtremesKept(h, t, d \in zeroed)
    BY <1>1 DEF DistInv
  <2>2. (d \in zeroed) = FALSE
    OBVIOUS
  <2>3. ExtremesKept(h, t, FALSE)
    BY <2>1, <2>2
  <2>4. QED
    BY <2>1, <2>3 DEF HistogramOK
<1>3. ASSUME h.count > 0
      PROVE  h.minimum = Min(Sampled(d)) /\ h.maximum = Max(Sampled(d))
  <2>1. Sampled(d) = Seen(t, FALSE)
    BY <1>1 DEF Seen, Sampled
  <2>2. /\ h.minimum \in Sampled(d) /\ h.maximum \in Sampled(d)
        /\ \A x \in Sampled(d) : h.minimum <= x /\ x <= h.maximum
    <3>1. h.count # 0
      BY <1>2, <1>3
    <3>2. QED
      BY <1>2, <2>1, <3>1, Zenon DEF ExtremesKept
  <2>3. Sampled(d) \in SUBSET Int
    BY DistributionAssumption DEF Sampled
  <2>4. QED
    BY <2>2, <2>3, MinIs, MaxIs
<1>4. QED
  BY <1>1, <1>3 DEF HasExtremes

LEMMA InvBuckets ==
  ASSUME DistInv, NEW d \in Dists, d \notin mixed
  PROVE  HasBuckets(d)
<1>1. PICK h, t, L : h = dist[d] /\ t = sampled[d] /\ L = LastBucket(h.options)
  OBVIOUS
<1>2. HistogramOK(h) /\ BucketsKept(h, t)
  BY <1>1 DEF DistInv
<1>3. L \in Nat /\ DOMAIN h.bucket_counts = 0..L
  <2>1. OptionsOK(h.options) /\ h.bucket_counts \in [0..L -> Nat]
    BY <1>1, <1>2 DEF HistogramOK
  <2>2. QED
    BY <1>1, <2>1, LastIs
<1>4. ASSUME NEW i \in {j \in DOMAIN h.bucket_counts : j + 1 \in DOMAIN h.bucket_counts}
      PROVE  LET bound == UpperBound(h.options, i) IN
             /\ Times(d, {x \in Samples : x < bound}) <= Counted(h, 0..i)
             /\ Counted(h, 0..i) <= Times(d, {x \in Samples : x <= bound})
  <2>1. i \in 0..(L - 1)
    BY <1>3
  <2>2. PICK b : b = UpperBound(h.options, i)
    OBVIOUS
  <2>3. /\ Sum(t, Below(b)) <= Sum(h.bucket_counts, 0..i)
        /\ Sum(h.bucket_counts, 0..i) <= Sum(t, UpTo(b))
    BY <1>1, <1>2, <2>1, <2>2 DEF BucketsKept
  <2>4. \A S : Times(d, S) = Sum(t, S) /\ Counted(h, S) = Sum(h.bucket_counts, S)
    BY <1>1 DEF Times, Counted, Sum
  <2>5. /\ Times(d, Below(b)) <= Counted(h, 0..i)
        /\ Counted(h, 0..i) <= Times(d, UpTo(b))
    BY <2>3, <2>4
  <2>6. QED
    BY <2>2, <2>5 DEF Below, UpTo
<1>5. QED
  BY <1>1, <1>4, Zenon DEF HasBuckets

\* Count, mean and deviation are those of all the samples and the extremes enclose
\* them, however they came into a distribution, one by one or merged with whatever
\* others: for any samples, bounds and number of merges.
THEOREM DescribesSamplesHolds == DistSpec => []DescribesSamples
<1>1. DistSpec => []DistInv
  BY DistributionInvariant
<1>2. DistInv => DescribesSamples
  BY InvDescribes DEF DescribesSamples
<1>3. QED
  BY <1>1, <1>2, PTL

\* The extremes are samples as long as no distribution without samples was merged
\* into, and the buckets hold what lies between their bounds as long as those of
\* what was merged were the same.
THEOREM FitsSamplesHolds == DistSpec => []FitsSamples
<1>1. DistSpec => []DistInv
  BY DistributionInvariant
<1>2. DistInv => FitsSamples
  BY InvExtremes, InvBuckets DEF FitsSamples
<1>3. QED
  BY <1>1, <1>2, PTL
=============================================================================
