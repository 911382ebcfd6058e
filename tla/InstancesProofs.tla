-------------------------- MODULE InstancesProofs --------------------------
(***************************************************************************)
(* Lemmas about the operators of Instances, for the proofs of every        *)
(* component.  Costs and risks are sums, and a sum over a set is a         *)
(* recursive function of its subsets: the first part proves induction on   *)
(* naturals and on finite sets with the induction hypothesis given as a    *)
(* set, and that such a recursion has a solution; the second, that a sum   *)
(* does not depend on the order in which CHOOSE takes the elements, and    *)
(* what follows for sums; the third, what that means for instances.        *)
(***************************************************************************)
EXTENDS Instances, FiniteSetTheorems, TLAPS

\* Induction on the naturals: Good is the set of what has the property.
LEMMA NatStep ==
  ASSUME NEW Good, 0 \in Good, \A m \in Nat : m \in Good => m + 1 \in Good,
         NEW n \in Nat
  PROVE  n \in Good
<1> SUFFICES ASSUME n \notin Good PROVE FALSE
  OBVIOUS
<1> DEFINE Bad == {m \in 0 .. n : m \notin Good}
<1>1. IsWellFoundedOn(StrictSubsetOrdering(0 .. n), FiniteSubsetsOf(0 .. n))
  BY FS_StrictSubsetOrderingWellFounded
<1> DEFINE Tails == {T \in FiniteSubsetsOf(0 .. n) : \E m \in Bad : T = 0 .. m}
<1>2. Tails \subseteq FiniteSubsetsOf(0 .. n) /\ Tails # {}
  <2>1. IsFiniteSet(0 .. n)
    BY FS_Interval
  <2> QED
    BY <2>1 DEF FiniteSubsetsOf
<1>3. PICK T \in Tails :
        \A U \in Tails : ~ (<<U, T>> \in StrictSubsetOrdering(0 .. n))
  <2> HIDE DEF Tails
  <2> QED
    BY <1>1, <1>2, WFMin, Zenon
<1>4. PICK m \in Bad : T = 0 .. m
  OBVIOUS
<1>5. m # 0 /\ m - 1 \in Bad
  OBVIOUS
<1>6. 0 .. m - 1 \in Tails
  <2>1. IsFiniteSet(0 .. m - 1) /\ 0 .. m - 1 \subseteq 0 .. n
    BY FS_Interval, <1>5
  <2> QED
    BY <1>5, <2>1 DEF FiniteSubsetsOf
<1>7. /\ 0 .. m - 1 \in SUBSET (0 .. n) /\ T \in SUBSET (0 .. n)
      /\ 0 .. m - 1 \subseteq T /\ 0 .. m - 1 # T
  <2>1. m \in T /\ m \notin 0 .. m - 1
    BY <1>4
  <2> QED
    BY <1>4, <2>1
<1> QED
  BY <1>3, <1>6, <1>7 DEF StrictSubsetOrdering

\* Induction on a finite set: a set is good when it is good without any one
\* of its elements.
LEMMA SubsetStep ==
  ASSUME NEW S, IsFiniteSet(S), NEW Good, {} \in Good,
         \A T \in SUBSET S :
           T # {} /\ (\A x \in T : T \ {x} \in Good) => T \in Good
  PROVE  S \in Good
<1> DEFINE Counts == {n \in Nat : \A T \in SUBSET S :
                                  Cardinality(T) = n => T \in Good}
<1>1. \A T \in SUBSET S :
        /\ IsFiniteSet(T) /\ Cardinality(T) \in Nat
        /\ Cardinality(T) = 0 <=> T = {}
        /\ \A x \in T : Cardinality(T \ {x}) = Cardinality(T) - 1
  BY FS_Subset, FS_CardinalityType, FS_EmptySet, FS_RemoveElement
<1>2. 0 \in Counts
  BY <1>1
<1>3. ASSUME NEW n \in Nat, n \in Counts
      PROVE  n + 1 \in Counts
  <2> SUFFICES ASSUME NEW T \in SUBSET S, Cardinality(T) = n + 1
               PROVE  T \in Good
    OBVIOUS
  <2>1. T # {}
    BY <1>1
  <2>2. ASSUME NEW x \in T PROVE Cardinality(T \ {x}) = n
    BY <1>1
  <2> QED
    BY <1>3, <2>1, <2>2
<1>4. Cardinality(S) \in Counts
  <2>1. Cardinality(S) \in Nat
    BY <1>1
  <2> HIDE DEF Counts
  <2> QED
    BY <1>2, <1>3, <2>1, NatStep
<1> QED
  BY <1>4

\* A set of naturals has a least element.
LEMMA LeastNat ==
  ASSUME NEW S \in SUBSET Nat, S # {}
  PROVE  Min(S) \in S /\ \A x \in S : Min(S) <= x
<1>1. \E m \in S : \A x \in S : m <= x
  <2> SUFFICES ASSUME \A m \in S : \E x \in S : ~ (m <= x) PROVE FALSE
    OBVIOUS
  <2> DEFINE Good == {m \in Nat : \A x \in S : m <= x}
  <2>1. 0 \in Good
    OBVIOUS
  <2>2. ASSUME NEW m \in Nat, m \in Good PROVE m + 1 \in Good
    <3>1. m \notin S
      BY <2>2
    <3> QED
      BY <2>2, <3>1
  <2>3. PICK x \in S : TRUE
    OBVIOUS
  <2>4. x + 1 \in Good
    <3>1. x + 1 \in Nat
      OBVIOUS
    <3> HIDE DEF Good
    <3> QED
      BY <2>1, <2>2, <3>1, NatStep
  <2> QED
    BY <2>4
<1> QED
  BY <1>1 DEF Min

\* A nonempty set of numbers up to m has a greatest element.
LEMMA GreatestUpTo ==
  ASSUME NEW m \in Nat, NEW S \in SUBSET (0 .. m), S # {}
  PROVE  Max(S) \in S /\ \A x \in S : x <= Max(S)
<1> DEFINE L == {m - x : x \in S}
<1>1. L \in SUBSET Nat /\ L # {}
  <2>1. \A x \in S : m - x \in Nat
    OBVIOUS
  <2> QED
    BY <2>1
<1>2. Min(L) \in L /\ \A y \in L : Min(L) <= y
  <2> HIDE DEF L
  <2> QED
    BY <1>1, LeastNat
<1>3. PICK g \in S : Min(L) = m - g
  BY <1>2
<1>4. \A x \in S : x <= g
  <2>1. ASSUME NEW x \in S PROVE x <= g
    <3>1. m - x \in L /\ x \in Int /\ g \in Int
      OBVIOUS
    <3>2. m - g <= m - x
      BY <1>2, <1>3, <3>1
    <3> QED
      BY <3>1, <3>2
  <2> QED
    BY <2>1
<1>5. \E y \in S : \A x \in S : y >= x
  BY <1>4
<1>6. Max(S) \in S /\ \A x \in S : Max(S) >= x
  BY <1>5 DEF Max
<1> QED
  BY <1>6

RankIn(R, S, x) == Cardinality({y \in S : <<y, x>> \in R})

Orders(R, S) ==
  \A x, y, z \in S : /\ <<x, x>> \notin R
                     /\ <<x, y>> \in R /\ <<y, z>> \in R => <<x, z>> \in R
                     /\ x # y => <<x, y>> \in R \/ <<y, x>> \in R

Ranked(R, S) ==
  /\ Cardinality(S) \in Nat
  /\ \A x \in S : RankIn(R, S, x) \in 0 .. Cardinality(S) - 1
  /\ \A x, y \in S : <<x, y>> \in R => RankIn(R, S, x) < RankIn(R, S, y)
  /\ \A k \in 1 .. Cardinality(S) : \E x \in S : RankIn(R, S, x) = k - 1

\* In a finite ordered set every rank below its size is taken, once.
LEMMA Ranking ==
  ASSUME NEW S, IsFiniteSet(S), NEW R, Orders(R, S)
  PROVE  Ranked(R, S)
<1> DEFINE Under(x) == {y \in S : <<y, x>> \in R}
           N == Cardinality(S)
<1>1. N \in Nat
  BY FS_CardinalityType
<1>2. ASSUME NEW x \in S
      PROVE  /\ RankIn(R, S, x) = Cardinality(Under(x)) /\ IsFiniteSet(Under(x))
             /\ RankIn(R, S, x) \in 0 .. N - 1
  <2>1. Under(x) \in SUBSET S /\ Under(x) # S
    BY DEF Orders
  <2>2. IsFiniteSet(Under(x)) /\ Cardinality(Under(x)) <= N
        /\ Cardinality(Under(x)) # N
    BY <2>1, FS_Subset
  <2>3. Cardinality(Under(x)) \in Nat
    BY <2>2, FS_CardinalityType
  <2> QED
    BY <1>1, <2>2, <2>3 DEF RankIn
<1>3. ASSUME NEW x \in S, NEW y \in S, <<x, y>> \in R
      PROVE  RankIn(R, S, x) < RankIn(R, S, y)
  <2>1. Under(x) \in SUBSET Under(y) /\ x \in Under(y) /\ x \notin Under(x)
    BY <1>3 DEF Orders
  <2>2. IsFiniteSet(Under(y)) /\ Under(x) # Under(y)
    BY <1>2, <2>1
  <2>3. Cardinality(Under(x)) <= Cardinality(Under(y))
        /\ Cardinality(Under(x)) # Cardinality(Under(y))
    BY <2>1, <2>2, FS_Subset
  <2>4. /\ RankIn(R, S, x) = Cardinality(Under(x)) /\ RankIn(R, S, x) \in Int
        /\ RankIn(R, S, y) = Cardinality(Under(y)) /\ RankIn(R, S, y) \in Int
    BY <1>1, <1>2
  <2> HIDE DEF Under
  <2> QED
    BY <2>3, <2>4
<1>4. ASSUME NEW k \in 1 .. N PROVE \E x \in S : RankIn(R, S, x) = k - 1
  <2> DEFINE f == [x \in S |-> RankIn(R, S, x)]
             V == 0 .. N - 1
  <2>1. f \in [S -> V]
    BY <1>2
  <2>2. \A x, y \in S : f[x] = f[y] => x = y
    <3> SUFFICES ASSUME NEW x \in S, NEW y \in S, x # y PROVE f[x] # f[y]
      OBVIOUS
    <3>1. <<x, y>> \in R \/ <<y, x>> \in R
      BY DEF Orders
    <3>2. RankIn(R, S, x) < RankIn(R, S, y) \/ RankIn(R, S, y) < RankIn(R, S, x)
      BY <1>3, <3>1
    <3>3. RankIn(R, S, x) \in V /\ RankIn(R, S, y) \in V
      BY <1>2
    <3> QED
      BY <1>1, <3>2, <3>3
  <2>3. f \in Injection(S, V)
    BY <2>1, <2>2 DEF Injection, IsInjective
  <2>4. IsFiniteSet(V) /\ Cardinality(V) = N
    <3>1. 0 \in Int /\ N - 1 \in Int
      BY <1>1
    <3>2. IsFiniteSet(V) /\ Cardinality(V) = IF 0 > N - 1 THEN 0 ELSE N - 1 - 0 + 1
      BY <3>1, FS_Interval
    <3> QED
      BY <1>1, <3>2
  <2>5. f \in Surjection(S, V)
    <3> HIDE DEF f, V
    <3> QED
      BY <2>3, <2>4, FS_Injection
  <2>6. k - 1 \in V
    BY <1>1
  <2>7. \E x \in S : f[x] = k - 1
    <3> HIDE DEF f, V
    <3> QED
      BY <2>5, <2>6 DEF Surjection
  <2> QED
    BY <2>7
<1> QED
  BY <1>1, <1>2, <1>3, <1>4 DEF Ranked

Picks(pick, S) == \A s \in SUBSET S : s # {} => pick[s] \in s

Accumulates(h, S, V) == \A s \in SUBSET S : \A v \in V : h[s][v] \in V

Folds(g, base, pick, h, S) ==
  \A s \in SUBSET S :
    g[s] = IF s = {} THEN base ELSE h[s][g[s \ {pick[s]}]]

\* The recursion of a fold has a solution, which takes its values in V.
LEMMA FoldExists ==
  ASSUME NEW S, IsFiniteSet(S), NEW V, NEW base \in V,
         NEW pick, Picks(pick, S), NEW h, Accumulates(h, S, V)
  PROVE  \E g \in [SUBSET S -> V] : Folds(g, base, pick, h, S)
<1> USE DEF Picks, Accumulates, Folds
<1> DEFINE Unroll(g, s) == IF s = {} THEN base ELSE h[s][g[s \ {pick[s]}]]
           Upto(n, g) == \A s \in SUBSET S :
                           Cardinality(s) <= n => g[s] = Unroll(g, s)
           Good == {n \in Nat : \E g \in [SUBSET S -> V] : Upto(n, g)}
<1>1. \A s \in SUBSET S : /\ Cardinality(s) \in Nat
                          /\ Cardinality(s) <= Cardinality(S)
  BY FS_Subset, FS_CardinalityType
<1>2. ASSUME NEW s \in SUBSET S, Cardinality(s) = 0
      PROVE  s = {}
  BY <1>2, FS_Subset, FS_EmptySet
<1>3. ASSUME NEW s \in SUBSET S, NEW x \in s
      PROVE  Cardinality(s \ {x}) = Cardinality(s) - 1
  BY FS_Subset, FS_RemoveElement
<1>4. 0 \in Good
  <2> DEFINE g == [s \in SUBSET S |-> base]
  <2>1. ASSUME NEW s \in SUBSET S, Cardinality(s) <= 0 PROVE s = {}
    <3>1. Cardinality(s) = 0
      BY <1>1, <2>1
    <3> QED
      BY <3>1, <1>2
  <2>2. g \in [SUBSET S -> V] /\ Upto(0, g)
    BY <2>1
  <2> HIDE DEF g, Upto
  <2> QED
    BY <2>2
<1>5. ASSUME NEW n \in Nat, n \in Good
      PROVE  n + 1 \in Good
  <2>1. PICK f \in [SUBSET S -> V] : Upto(n, f)
    BY <1>5
  <2> DEFINE g == [s \in SUBSET S |-> Unroll(f, s)]
  <2>2. g \in [SUBSET S -> V]
    BY <1>1
  <2>3. ASSUME NEW s \in SUBSET S, Cardinality(s) <= n + 1, s # {}
        PROVE  g[s \ {pick[s]}] = f[s \ {pick[s]}]
    <3>1. pick[s] \in s /\ s \ {pick[s]} \in SUBSET S
      BY <2>3
    <3>2. Cardinality(s \ {pick[s]}) = Cardinality(s) - 1
      BY <1>3, <3>1
    <3>3. Cardinality(s \ {pick[s]}) <= n
      BY <1>1, <2>3, <3>2
    <3> QED
      BY <2>1, <3>1, <3>3
  <2>4. ASSUME NEW s \in SUBSET S, Cardinality(s) <= n + 1
        PROVE  g[s] = Unroll(g, s)
    <3>1. g[s] = Unroll(f, s)
      OBVIOUS
    <3> HIDE DEF g
    <3> QED
      BY <2>3, <2>4, <3>1
  <2>5. Upto(n + 1, g)
    BY <2>4, Zenon
  <2> HIDE DEF g, Upto
  <2>6. n + 1 \in Nat
    OBVIOUS
  <2> QED
    BY <2>2, <2>5, <2>6, Zenon
<1>6. Cardinality(S) \in Good
  <2>1. Cardinality(S) \in Nat
    BY <1>1
  <2> HIDE DEF Good
  <2> QED
    BY <1>4, <1>5, <2>1, NatStep
<1>7. PICK g \in [SUBSET S -> V] : Upto(Cardinality(S), g)
  BY <1>6
<1>8. \A s \in SUBSET S : g[s] = Unroll(g, s)
  BY <1>1, <1>7
<1> QED
  BY <1>8

-----------------------------------------------------------------------------
IntValued(f, S) == \A x \in S : f[x] \in Int

NatValued(f, S) == \A x \in S : f[x] \in Nat

\* g[T] adds up f over T, in the order CHOOSE takes the elements.
IsSumFold(g, f, S) ==
  /\ g \in [SUBSET S -> Int]
  /\ g[{}] = 0
  /\ \A T \in SUBSET S : T # {} =>
       g[T] = f[CHOOSE x \in T : TRUE] + g[T \ {CHOOSE x \in T : TRUE}]

\* SumFunctionOnSet is such a fold: its recursive LET has a solution.
LEMMA SumFold ==
  ASSUME NEW S, IsFiniteSet(S), NEW f, IntValued(f, S)
  PROVE  \E g : IsSumFold(g, f, S) /\ g[S] = SumFunctionOnSet(f, S)
<1> USE DEF IntValued
<1> DEFINE pick == [T \in SUBSET S |-> CHOOSE x \in T : TRUE]
           h == [T \in SUBSET S |->
                   [v \in Int |-> IF T = {} THEN v ELSE f[pick[T]] + v]]
           IsFold(g) ==
             g = [T \in SUBSET S |->
                    IF T = {} THEN 0
                    ELSE f[CHOOSE x \in T : TRUE]
                           + g[T \ {CHOOSE x \in T : TRUE}]]
<1>1. Picks(pick, S)
  BY DEF Picks
<1>2. Accumulates(h, S, Int)
  BY <1>1 DEF Picks, Accumulates
<1>3. \E g \in [SUBSET S -> Int] : Folds(g, 0, pick, h, S)
  <2>1. 0 \in Int
    OBVIOUS
  <2> HIDE DEF pick, h
  <2> QED
    BY <1>1, <1>2, <2>1, FoldExists
<1>4. PICK e \in [SUBSET S -> Int] : Folds(e, 0, pick, h, S)
  BY <1>3
<1>5. \A T \in SUBSET S : T # {} =>
        h[T][e[T \ {pick[T]}]] = f[CHOOSE x \in T : TRUE]
                                     + e[T \ {CHOOSE x \in T : TRUE}]
  OBVIOUS
<1>6. IsFold(e)
  <2> HIDE DEF pick, h
  <2> QED
    BY <1>4, <1>5 DEF Folds
<1> DEFINE g == CHOOSE g : IsFold(g)
<1>7. IsFold(g)
  BY <1>6
<1>8. SumFunctionOnSet(f, S) = g[S]
  BY DEF SumFunctionOnSet, FoldFunctionOnSet, MapThenFoldSet
<1> HIDE DEF g
<1>9. /\ g[{}] = 0
      /\ \A T \in SUBSET S : T # {} =>
                g[T] = f[CHOOSE x \in T : TRUE] + g[T \ {CHOOSE x \in T : TRUE}]
  BY <1>7
<1>10. g \in [SUBSET S -> Int]
  <2> DEFINE Good == {T \in SUBSET S : g[T] \in Int}
  <2>1. ASSUME NEW U \in SUBSET S PROVE U \in Good
    <3>1. IsFiniteSet(U)
      BY FS_Subset
    <3>2. {} \in Good
      BY <1>9
    <3>3. ASSUME NEW T \in SUBSET U, T # {}, \A x \in T : T \ {x} \in Good
          PROVE  T \in Good
      <4> DEFINE c == CHOOSE x \in T : TRUE
      <4>1. c \in T
        BY <3>3
      <4>2. g[T \ {c}] \in Int /\ f[c] \in Int
        BY <3>3, <4>1
      <4>3. g[T] = f[c] + g[T \ {c}]
        BY <1>9, <3>3
      <4> QED
        BY <4>2, <4>3
    <3> HIDE DEF Good
    <3> QED
      BY <3>1, <3>2, <3>3, SubsetStep
  <2>2. g = [T \in SUBSET S |-> g[T]]
    BY <1>7
  <2> QED
    BY <2>1, <2>2
<1> QED
  BY <1>8, <1>9, <1>10 DEF IsSumFold

\* Two folds of the same values agree, whatever set they were taken in.
LEMMA FoldsAgree ==
  ASSUME NEW S, IsFiniteSet(S), NEW f, NEW U \in SUBSET S,
         NEW g, IsSumFold(g, f, S), NEW h, IsSumFold(h, f, U)
  PROVE  g[U] = h[U]
<1> USE DEF IsSumFold
<1> DEFINE Good == {T \in SUBSET U : g[T] = h[T]}
<1>1. IsFiniteSet(U) /\ {} \in Good
  BY FS_Subset
<1>2. ASSUME NEW T \in SUBSET U, T # {}, \A x \in T : T \ {x} \in Good
      PROVE  T \in Good
  <2> DEFINE c == CHOOSE x \in T : TRUE
  <2>1. c \in T
    BY <1>2
  <2> QED
    BY <1>2, <2>1
<1>3. U \in Good
  <2> HIDE DEF Good, IsSumFold
  <2> QED
    BY <1>1, <1>2, SubsetStep
<1> QED
  BY <1>3

\* g[T] is the sum of f over T, and any element may be taken out first.
IsSumTable(g, f, S) ==
  /\ g \in [SUBSET S -> Int]
  /\ g[{}] = 0
  /\ \A T \in SUBSET S : g[T] = SumFunctionOnSet(f, T)
  /\ \A T \in SUBSET S : \A x \in T : g[T] = f[x] + g[T \ {x}]

\* Sums do not depend on the enclosing set, nor on the order.
LEMMA SumTable ==
  ASSUME NEW S, IsFiniteSet(S), NEW f, IntValued(f, S)
  PROVE  \E g : IsSumTable(g, f, S)
<1>1. PICK g : IsSumFold(g, f, S)
  BY SumFold
<1>2. ASSUME NEW U \in SUBSET S
      PROVE  g[U] = SumFunctionOnSet(f, U)
  <2>1. IsFiniteSet(U) /\ IntValued(f, U)
    BY FS_Subset DEF IntValued
  <2>2. PICK h : IsSumFold(h, f, U) /\ h[U] = SumFunctionOnSet(f, U)
    BY <2>1, SumFold
  <2>3. g[U] = h[U]
    BY <1>1, <2>2, FoldsAgree
  <2> QED
    BY <2>2, <2>3
<1>3. ASSUME NEW T \in SUBSET S, NEW x \in T
      PROVE  g[T] = f[x] + g[T \ {x}]
  <2> DEFINE Good == {U \in SUBSET S : \A y \in U : g[U] = f[y] + g[U \ {y}]}
  <2>1. {} \in Good /\ IsFiniteSet(T)
    BY FS_Subset
  <2>2. ASSUME NEW U \in SUBSET T, U # {}, \A y \in U : U \ {y} \in Good
        PROVE  U \in Good
    <3> DEFINE c == CHOOSE y \in U : TRUE
    <3>1. c \in U /\ g[U] = f[c] + g[U \ {c}]
      BY <1>1, <2>2 DEF IsSumFold
    <3> HIDE DEF c
    <3>2. ASSUME NEW y \in U PROVE g[U] = f[y] + g[U \ {y}]
      <4>1. CASE y = c
        BY <3>1, <4>1
      <4>2. CASE y # c
        <5>1. y \in U \ {c} /\ c \in U \ {y}
          BY <3>1, <4>2
        <5>2. g[U \ {c}] = f[y] + g[(U \ {c}) \ {y}]
          BY <2>2, <3>1, <5>1
        <5>3. g[U \ {y}] = f[c] + g[(U \ {c}) \ {y}]
          <6>1. (U \ {c}) \ {y} = (U \ {y}) \ {c}
            OBVIOUS
          <6> QED
            BY <2>2, <5>1, <6>1
        <5> DEFINE rest == g[(U \ {c}) \ {y}]
        <5>4. f[y] \in Int /\ f[c] \in Int /\ rest \in Int
          BY <1>1, <3>1 DEF IntValued, IsSumFold
        <5> HIDE DEF rest
        <5>5. f[c] + (f[y] + rest) = f[y] + (f[c] + rest)
          BY <5>4
        <5> QED
          BY <3>1, <5>2, <5>3, <5>5 DEF rest
      <4> QED
        BY <4>1, <4>2
    <3> QED
      BY <3>2
  <2>3. T \in Good
    <3> HIDE DEF Good
    <3> QED
      BY <2>1, <2>2, SubsetStep
  <2> QED
    BY <2>3
<1>4. IsSumTable(g, f, S)
  BY <1>1, <1>2, <1>3 DEF IsSumTable, IsSumFold
<1> QED
  BY <1>4

-----------------------------------------------------------------------------
(* What sums satisfy. *)

\* An empty sum is zero.
LEMMA SumEmpty == ASSUME NEW f PROVE SumFunctionOnSet(f, {}) = 0
<1>1. IsFiniteSet({}) /\ IntValued(f, {})
  BY FS_EmptySet DEF IntValued
<1> QED
  BY <1>1, SumTable DEF IsSumTable

\* A sum of integers is one.
LEMMA SumInt ==
  ASSUME NEW S, IsFiniteSet(S), NEW f, IntValued(f, S)
  PROVE  SumFunctionOnSet(f, S) \in Int
<1>1. PICK g : IsSumTable(g, f, S)
  BY SumTable
<1> QED
  BY <1>1 DEF IsSumTable

\* Any element may be taken out of a sum.
LEMMA SumRemove ==
  ASSUME NEW S, IsFiniteSet(S), NEW f, IntValued(f, S), NEW x \in S
  PROVE  SumFunctionOnSet(f, S) = f[x] + SumFunctionOnSet(f, S \ {x})
<1>1. PICK g : IsSumTable(g, f, S)
  BY SumTable
<1> QED
  BY <1>1 DEF IsSumTable

\* A sum of naturals is one.
LEMMA SumNat ==
  ASSUME NEW S, IsFiniteSet(S), NEW f, NatValued(f, S)
  PROVE  SumFunctionOnSet(f, S) \in Nat
<1>1. PICK g : IsSumTable(g, f, S)
  BY SumTable DEF IntValued, NatValued
<1> DEFINE Good == {T \in SUBSET S : g[T] \in Nat}
<1>2. {} \in Good
  BY <1>1 DEF IsSumTable
<1>3. ASSUME NEW T \in SUBSET S, T # {}, \A x \in T : T \ {x} \in Good
      PROVE  T \in Good
  <2>1. PICK x \in T : TRUE
    BY <1>3
  <2>2. g[T] = f[x] + g[T \ {x}] /\ f[x] \in Nat
    BY <1>1, <2>1 DEF IsSumTable, NatValued
  <2>3. g[T \ {x}] \in Nat
    BY <1>3, <2>1
  <2>4. g[T] \in Nat
    BY <2>2, <2>3
  <2> QED
    BY <2>4
<1>4. S \in Good
  <2> HIDE DEF Good
  <2> QED
    BY <1>2, <1>3, SubsetStep
<1> QED
  BY <1>1, <1>4 DEF IsSumTable

\* The larger summands have the larger sum.
LEMMA SumMonotone ==
  ASSUME NEW S, IsFiniteSet(S), NEW f, IntValued(f, S), NEW g, IntValued(g, S),
         \A x \in S : f[x] <= g[x]
  PROVE  SumFunctionOnSet(f, S) <= SumFunctionOnSet(g, S)
<1>1. PICK F : IsSumTable(F, f, S)
  BY SumTable
<1>2. PICK G : IsSumTable(G, g, S)
  BY SumTable
<1> DEFINE Good == {T \in SUBSET S : F[T] <= G[T]}
<1>3. {} \in Good
  BY <1>1, <1>2 DEF IsSumTable
<1>4. ASSUME NEW T \in SUBSET S, T # {}, \A x \in T : T \ {x} \in Good
      PROVE  T \in Good
  <2>1. PICK x \in T : TRUE
    BY <1>4
  <2>2. /\ F[T] = f[x] + F[T \ {x}] /\ G[T] = g[x] + G[T \ {x}]
        /\ f[x] <= g[x] /\ F[T \ {x}] <= G[T \ {x}]
    BY <1>1, <1>2, <1>4, <2>1 DEF IsSumTable
  <2>3. /\ f[x] \in Int /\ g[x] \in Int
        /\ F[T \ {x}] \in Int /\ G[T \ {x}] \in Int
    BY <1>1, <1>2, <2>1 DEF IsSumTable, IntValued
  <2> QED
    BY <2>2, <2>3
<1>5. S \in Good
  <2> HIDE DEF Good
  <2> QED
    BY <1>3, <1>4, SubsetStep
<1> QED
  BY <1>1, <1>2, <1>5 DEF IsSumTable

\* Only the values on the set count.
LEMMA SumEqual ==
  ASSUME NEW S, IsFiniteSet(S), NEW f, IntValued(f, S), NEW g,
         \A x \in S : f[x] = g[x]
  PROVE  SumFunctionOnSet(f, S) = SumFunctionOnSet(g, S)
<1>1. /\ IntValued(g, S)
      /\ \A x \in S : f[x] <= g[x] /\ g[x] <= f[x]
  BY DEF IntValued
<1>2. /\ SumFunctionOnSet(f, S) <= SumFunctionOnSet(g, S)
      /\ SumFunctionOnSet(g, S) <= SumFunctionOnSet(f, S)
  BY <1>1, SumMonotone
<1>3. SumFunctionOnSet(f, S) \in Int /\ SumFunctionOnSet(g, S) \in Int
  BY <1>1, SumInt
<1> QED
  BY <1>2, <1>3

\* Sums over disjoint sets add up.
LEMMA SumUnion ==
  ASSUME NEW S, IsFiniteSet(S), NEW f, IntValued(f, S),
         NEW A \in SUBSET S, NEW B \in SUBSET S, A \cap B = {}
  PROVE  SumFunctionOnSet(f, A \cup B)
           = SumFunctionOnSet(f, A) + SumFunctionOnSet(f, B)
<1>1. PICK F : IsSumTable(F, f, S)
  BY SumTable
<1> DEFINE Good == {T \in SUBSET A : F[T \cup B] = F[T] + F[B]}
<1>2. IsFiniteSet(A) /\ {} \in Good
  BY <1>1, FS_Subset DEF IsSumTable
<1>3. ASSUME NEW T \in SUBSET A, T # {}, \A x \in T : T \ {x} \in Good
      PROVE  T \in Good
  <2>1. PICK x \in T : TRUE
    BY <1>3
  <2>2. (T \cup B) \ {x} = (T \ {x}) \cup B
    BY <2>1
  <2>3. F[T] = f[x] + F[T \ {x}]
    BY <1>1, <2>1 DEF IsSumTable
  <2>4. F[T \cup B] = f[x] + F[(T \ {x}) \cup B]
    <3>1. F[T \cup B] = f[x] + F[(T \cup B) \ {x}]
      BY <1>1, <2>1 DEF IsSumTable
    <3> QED
      BY <3>1, <2>2, Zenon
  <2>5. F[(T \ {x}) \cup B] = F[T \ {x}] + F[B]
    BY <1>3, <2>1
  <2>6. f[x] \in Int /\ F[T \ {x}] \in Int /\ F[B] \in Int
    BY <1>1, <2>1 DEF IsSumTable, IntValued
  <2>7. F[T \cup B] = F[T] + F[B]
    BY <2>3, <2>4, <2>5, <2>6
  <2> QED
    BY <2>7
<1>4. A \in Good
  <2> HIDE DEF Good
  <2> QED
    BY <1>2, <1>3, SubsetStep
<1> QED
  BY <1>1, <1>4 DEF IsSumTable

\* Over fewer naturals the sum is no larger.
LEMMA SumSubset ==
  ASSUME NEW S, IsFiniteSet(S), NEW f, NatValued(f, S), NEW A \in SUBSET S
  PROVE  SumFunctionOnSet(f, A) <= SumFunctionOnSet(f, S)
<1>1. /\ IsFiniteSet(A) /\ IsFiniteSet(S \ A)
      /\ A \cup (S \ A) = S /\ A \cap (S \ A) = {}
      /\ IntValued(f, S) /\ NatValued(f, A) /\ NatValued(f, S \ A)
  BY FS_Subset DEF IntValued, NatValued
<1>2. SumFunctionOnSet(f, S)
        = SumFunctionOnSet(f, A) + SumFunctionOnSet(f, S \ A)
  <2>1. SumFunctionOnSet(f, A \cup (S \ A))
          = SumFunctionOnSet(f, A) + SumFunctionOnSet(f, S \ A)
    BY <1>1, SumUnion
  <2> QED
    BY <2>1, <1>1, Zenon
<1>3. SumFunctionOnSet(f, A) \in Nat /\ SumFunctionOnSet(f, S \ A) \in Nat
  BY <1>1, SumNat
<1> QED
  BY <1>2, <1>3

-----------------------------------------------------------------------------
(* Costs, weights and risks of an instance. *)

\* A finite set of integers has a greatest element.
LEMMA GreatestOf ==
  ASSUME NEW S \in SUBSET Int, IsFiniteSet(S), S # {}
  PROVE  Max(S) \in S /\ \A x \in S : x <= Max(S)
<1> DEFINE Good == {T \in SUBSET S : T = {} \/ \E m \in T : \A x \in T : x <= m}
<1>1. {} \in Good
  OBVIOUS
<1>2. ASSUME NEW T \in SUBSET S, T # {}, \A x \in T : T \ {x} \in Good
      PROVE  T \in Good
  <2>1. PICK y \in T : TRUE
    BY <1>2
  <2>2. T \ {y} \in Good
    BY <1>2
  <2>3. CASE T \ {y} = {}
    <3>1. \A x \in T : x <= y
      BY <2>1, <2>3
    <3> QED
      BY <2>1, <3>1
  <2>4. CASE T \ {y} # {}
    <3>1. PICK m \in T \ {y} : \A x \in T \ {y} : x <= m
      BY <2>2, <2>4
    <3>2. CASE y <= m
      <4>1. \A x \in T : x <= m
        BY <3>1, <3>2
      <4> QED
        BY <3>1, <4>1
    <3>3. CASE ~ (y <= m)
      <4>1. \A x \in T : x <= y
        BY <2>1, <3>1, <3>3
      <4> QED
        BY <2>1, <4>1
    <3> QED
      BY <3>2, <3>3
  <2> QED
    BY <2>3, <2>4
<1>3. S \in Good
  <2> HIDE DEF Good
  <2> QED
    BY <1>1, <1>2, SubsetStep
<1>4. \E m \in S : \A x \in S : m >= x
  BY <1>3
<1> QED
  BY <1>4 DEF Max

\* The larger of two integers.
LEMMA MaxOfTwo ==
  ASSUME NEW a \in Int, NEW b \in Int
  PROVE  /\ Max({a, b}) \in {a, b}
         /\ Max({a, b}) >= a /\ Max({a, b}) >= b
<1>1. \E x \in {a, b} : \A y \in {a, b} : x >= y
  <2>1. a >= b \/ b >= a
    OBVIOUS
  <2> QED
    BY <2>1
<1> QED
  BY <1>1 DEF Max

LEMMA MinOfTwo ==
  ASSUME NEW a \in Int, NEW b \in Int
  PROVE  /\ Min({a, b}) \in {a, b}
         /\ Min({a, b}) <= a /\ Min({a, b}) <= b
<1>1. \E x \in {a, b} : \A y \in {a, b} : x <= y
  <2>1. a >= b \/ b >= a
    OBVIOUS
  <2> QED
    BY <2>1
<1> QED
  BY <1>1 DEF Min

\* Floor division by a positive number, as the weights use it.
LEMMA DivBetween ==
  ASSUME NEW a \in Int, NEW d \in Nat \ {0}
  PROVE  /\ a \div d \in Int
         /\ a >= 0 => a \div d >= 0
         /\ \A q \in Int : a >= q * d => a \div d >= q
OBVIOUS

\* The costs of the assets are a finite set of naturals.
LEMMA RangeFacts ==
  ASSUME NEW I, IsInstance(I)
  PROVE  /\ Range(I.cost) = {I.cost[a] : a \in I.assets}
         /\ IsFiniteSet(Range(I.cost)) /\ Range(I.cost) \in SUBSET Nat
<1>1. I.cost \in [I.assets -> Nat] /\ IsFiniteSet(I.assets)
  BY DEF IsInstance
<1>2. Range(I.cost) = {I.cost[a] : a \in I.assets}
  BY <1>1 DEF Range
<1>3. I.cost \in Surjection(I.assets, Range(I.cost))
  BY <1>1, <1>2 DEF Surjection
<1>4. IsFiniteSet(Range(I.cost))
  BY <1>1, <1>3, FS_Surjection
<1> QED
  BY <1>1, <1>2, <1>4

\* The cost of a set of assets, and how it adds up and grows.
LEMMA CostNat ==
  ASSUME NEW I, IsInstance(I), NEW S \in SUBSET I.assets
  PROVE  CostOf(I.cost, S) \in Nat
<1>1. IsFiniteSet(S) /\ NatValued(I.cost, S)
  BY FS_Subset DEF IsInstance, NatValued
<1> QED
  BY <1>1, SumNat DEF CostOf

LEMMA CostUnion ==
  ASSUME NEW I, IsInstance(I),
         NEW A \in SUBSET I.assets, NEW B \in SUBSET I.assets, A \cap B = {}
  PROVE  CostOf(I.cost, A \cup B) = CostOf(I.cost, A) + CostOf(I.cost, B)
<1>1. IsFiniteSet(I.assets) /\ IntValued(I.cost, I.assets)
  BY DEF IsInstance, IntValued
<1> QED
  BY <1>1, SumUnion DEF CostOf

LEMMA CostSubset ==
  ASSUME NEW I, IsInstance(I), NEW B \in SUBSET I.assets, NEW A \in SUBSET B
  PROVE  CostOf(I.cost, A) <= CostOf(I.cost, B)
<1>1. IsFiniteSet(B) /\ NatValued(I.cost, B)
  BY FS_Subset DEF IsInstance, NatValued
<1> QED
  BY <1>1, SumSubset DEF CostOf

\* A weight is never negative, also for a base above the scale.
LEMMA WeightNat ==
  ASSUME NEW I, IsInstance(I), NEW a \in I.assets, NEW t \in Int
  PROVE  IntWeight(I, a, t) \in Nat
<1> DEFINE shelf == I.shelf[a]
           crit == I.crit[a]
           base == I.rm.base
           scale == I.rm.scale
           deficit == I.crqc - (t + shelf)
           lead == Max({shelf, 1})
           span == Max({0, lead - deficit})
           num == (scale - base) * span
           ramp == IF I.rm.form = "step" THEN 0 ELSE num \div lead
<1>1. /\ shelf \in Nat /\ crit \in Nat /\ base \in Nat /\ scale \in Nat \ {0}
      /\ deficit \in Int
  BY DEF IsInstance, RiskModels
<1>2. IntWeight(I, a, t) = IF deficit <= 0 THEN crit
                           ELSE (crit * (base + ramp)) \div scale
  BY DEF IntWeight
<1> HIDE DEF shelf, crit, base, scale
<1>3. lead \in Nat \ {0}
  BY <1>1, MaxOfTwo
<1> HIDE DEF deficit, lead
<1>4. span \in Nat /\ (deficit > 0 => span <= lead)
  <2>1. 0 \in Int /\ lead - deficit \in Int
    BY <1>1, <1>3
  <2>2. span \in {0, lead - deficit} /\ span >= 0
    BY <2>1, MaxOfTwo, Zenon
  <2> QED
    BY <2>1, <2>2, <1>1, <1>3
<1> HIDE DEF span
<1>5. num \in Int /\ (scale >= base => num >= 0)
  BY <1>1, <1>4
<1>6. ASSUME deficit > 0, scale < base
      PROVE  num >= (scale - base) * lead
  BY <1>1, <1>3, <1>4, <1>6
<1> HIDE DEF num
<1>7. ASSUME deficit > 0 PROVE ramp \in Int /\ base + ramp >= 0
  <2>1. num \div lead \in Int
    BY <1>3, <1>5, DivBetween
  <2>2. CASE scale >= base
    <3>1. num \div lead >= 0
      BY <2>2, <1>3, <1>5, DivBetween
    <3> QED
      BY <1>1, <2>1, <3>1
  <2>3. CASE scale < base
    <3>1. num \div lead >= scale - base
      BY <2>3, <1>1, <1>3, <1>5, <1>6, <1>7, DivBetween
    <3> QED
      BY <1>1, <2>1, <3>1
  <2> QED
    BY <1>1, <2>2, <2>3
<1> HIDE DEF ramp
<1>8. ASSUME deficit > 0 PROVE (crit * (base + ramp)) \div scale \in Nat
  <2>1. base + ramp \in Nat
    BY <1>1, <1>7, <1>8
  <2>2. crit * (base + ramp) \in Nat
    BY <2>1, <1>1
  <2> QED
    BY <2>2, <1>1, DivBetween
<1> QED
  BY <1>1, <1>2, <1>8

\* The longer an asset waits, the more risk it accrues.
LEMMA ExposureFacts ==
  ASSUME NEW I, IsInstance(I), NEW a \in I.assets,
         NEW m \in Nat, NEW n \in Nat, m <= n
  PROVE  Exposure(I, a, m) \in Nat /\ Exposure(I, a, m) <= Exposure(I, a, n)
<1> DEFINE w(k) == [t \in 0 .. k - 1 |-> IntWeight(I, a, t)]
<1>1. \A k : Exposure(I, a, k) = SumFunctionOnSet(w(k), 0 .. k - 1)
  BY DEF Exposure, SumFunction, SumFunctionOnSet, FoldFunction,
         FoldFunctionOnSet
<1>2. ASSUME NEW k \in Nat
      PROVE  IsFiniteSet(0 .. k - 1) /\ NatValued(w(k), 0 .. k - 1)
  <2>1. k - 1 \in Int /\ \A t \in 0 .. k - 1 : t \in Int
    OBVIOUS
  <2>2. \A t \in 0 .. k - 1 : w(k)[t] \in Nat
    BY <2>1, WeightNat
  <2> QED
    BY <2>1, <2>2, FS_Interval DEF NatValued
<1>3. \A k \in Nat : Exposure(I, a, k) \in Nat
  BY <1>1, <1>2, SumNat
<1>4. 0 .. m - 1 \subseteq 0 .. n - 1
  OBVIOUS
<1>5. SumFunctionOnSet(w(n), 0 .. m - 1) <= SumFunctionOnSet(w(n), 0 .. n - 1)
  BY <1>2, <1>4, SumSubset
<1>6. SumFunctionOnSet(w(m), 0 .. m - 1) = SumFunctionOnSet(w(n), 0 .. m - 1)
  <2>1. IsFiniteSet(0 .. m - 1) /\ IntValued(w(m), 0 .. m - 1)
    BY <1>2 DEF IntValued, NatValued
  <2>2. \A t \in 0 .. m - 1 : w(m)[t] = w(n)[t]
    BY <1>4
  <2> HIDE DEF w
  <2> QED
    BY <2>1, <2>2, SumEqual
<1> QED
  BY <1>1, <1>3, <1>5, <1>6

\* the period from which s leaves no risk on a, and the risk up to it
End(I, s, a) == IF a \in DOMAIN s THEN s[a] ELSE I.T

AssetRisks(I, s) == [a \in I.assets |-> Exposure(I, a, End(I, s, a))]

\* The risk of a schedule, asset by asset.
LEMMA RiskIsSum ==
  ASSUME NEW I, NEW s
  PROVE  Risk(I, s) = SumFunctionOnSet(AssetRisks(I, s), I.assets)
BY DEF Risk, SumFunction, AssetRisks, End

\* An asset stops accruing within the horizon.
LEMMA EndFacts ==
  ASSUME NEW I, IsInstance(I), NEW s \in Schedules(I), NEW a \in I.assets
  PROVE  End(I, s, a) \in Nat /\ End(I, s, a) <= I.T
<1>1. PICK D \in SUBSET I.assets : s \in [D -> Periods(I)]
  BY DEF Schedules
<1>2. I.T \in Nat
  BY DEF IsInstance
<1> QED
  BY <1>1, <1>2 DEF End, Periods

\* The summands of the risk are naturals.
LEMMA AssetRisksNat ==
  ASSUME NEW I, IsInstance(I), NEW s \in Schedules(I)
  PROVE  /\ IsFiniteSet(I.assets)
         /\ NatValued(AssetRisks(I, s), I.assets)
         /\ IntValued(AssetRisks(I, s), I.assets)
<1>1. ASSUME NEW a \in I.assets PROVE Exposure(I, a, End(I, s, a)) \in Nat
  <2>1. End(I, s, a) \in Nat /\ End(I, s, a) <= End(I, s, a)
    BY EndFacts
  <2> QED
    BY <2>1, ExposureFacts
<1> QED
  BY <1>1 DEF IsInstance, NatValued, IntValued, AssetRisks

\* So is the risk.
LEMMA RiskNat ==
  ASSUME NEW I, IsInstance(I), NEW s \in Schedules(I)
  PROVE  Risk(I, s) \in Nat
BY RiskIsSum, AssetRisksNat, SumNat

\* Migrating more, and earlier, leaves no more risk.
LEMMA RiskMonotone ==
  ASSUME NEW I, IsInstance(I), NEW s \in Schedules(I), NEW z \in Schedules(I),
         \A a \in DOMAIN z : a \in DOMAIN s /\ s[a] <= z[a]
  PROVE  Risk(I, s) <= Risk(I, z)
<1>1. ASSUME NEW a \in I.assets
      PROVE  AssetRisks(I, s)[a] <= AssetRisks(I, z)[a]
  <2>1. /\ End(I, s, a) \in Nat /\ End(I, z, a) \in Nat
        /\ End(I, s, a) <= I.T
    BY EndFacts
  <2>2. End(I, s, a) <= End(I, z, a)
    BY <2>1 DEF End
  <2>3. Exposure(I, a, End(I, s, a)) <= Exposure(I, a, End(I, z, a))
    BY <2>1, <2>2, ExposureFacts
  <2> QED
    BY <2>3 DEF AssetRisks
<1> QED
  BY <1>1, AssetRisksNat, RiskIsSum, SumMonotone

\* Risks depend on six fields only, not on starts, deadlines or couplings.
SameRisks(I, J) ==
  /\ I.assets = J.assets /\ I.T = J.T
  /\ I.crit = J.crit /\ I.shelf = J.shelf /\ I.crqc = J.crqc /\ I.rm = J.rm

\* Instances that agree on those fields give a schedule the same risk.
LEMMA RiskCongruence ==
  ASSUME NEW I, NEW J, SameRisks(I, J), NEW s
  PROVE  Risk(I, s) = Risk(J, s)
<1>1. \A a, t : IntWeight(I, a, t) = IntWeight(J, a, t)
  BY DEF SameRisks, IntWeight
<1>2. ASSUME NEW a, NEW end
      PROVE  Exposure(I, a, end) = Exposure(J, a, end)
  <2>1. [t \in 0 .. end - 1 |-> IntWeight(I, a, t)]
          = [t \in 0 .. end - 1 |-> IntWeight(J, a, t)]
    BY <1>1
  <2> QED
    BY <2>1, Zenon DEF Exposure
<1>3. \A a : End(I, s, a) = End(J, s, a)
  BY DEF SameRisks, End
<1>4. AssetRisks(I, s) = AssetRisks(J, s)
  BY <1>2, <1>3 DEF SameRisks, AssetRisks
<1> QED
  BY <1>4, RiskIsSum DEF SameRisks

=============================================================================
