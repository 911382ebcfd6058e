---------------------------- MODULE IngestProofs ----------------------------
(***************************************************************************)
(* Proofs about Ingest, for all bills of materials, dependency sections    *)
(* and policies, cycles included.                                          *)
(*                                                                         *)
(* Resolution.  The components being resolved are all different and none   *)
(* has a verdict yet (IInv); what is said of a verdict is said of all the  *)
(* component reaches (VInv).                                               *)
(*                                                                         *)
(* Reconciliation.  After k passes every deadline is at most those of the  *)
(* dependents k edges away, and was asked for by one of them (Lowered).    *)
(* No dependent is further away than there are assets, and a pass that     *)
(* changes nothing leaves the deadlines ordered along every edge: either   *)
(* way the relaxation may stop.                                            *)
(***************************************************************************)
EXTENDS Ingest, InstancesProofs, SequenceTheorems

-----------------------------------------------------------------------------
(* The components reached, and the dependents, are computed by adding      *)
(* neighbours once per element.  That is enough for a closure.             *)

Spread(K, R, S) == S \cup {b \in K : \E a \in S : <<a, b>> \in R}

Shut(R, S) == \A a \in S : \A b : <<a, b>> \in R => b \in S

\* C is the least set that holds r and is shut under R.
IsClosure(C, K, R, r) ==
  /\ C \in SUBSET K /\ r \in C /\ Shut(R, C)
  /\ \A S \in SUBSET K : r \in S /\ Shut(R, S) => C \subseteq S

IsGrowth(g, D, K, R, r) ==
  /\ g[{}] = {r}
  /\ \A s \in SUBSET D : s # {} => \E x \in s : g[s] = Spread(K, R, g[s \ {x}])

LEMMA SpreadFacts ==
  ASSUME NEW K, NEW R \in SUBSET (K \X K), NEW S \in SUBSET K
  PROVE  /\ Spread(K, R, S) \in SUBSET K /\ S \subseteq Spread(K, R, S)
         /\ Spread(K, R, S) = S => Shut(R, S)
         /\ Shut(R, S) => Spread(K, R, S) = S
         /\ \A Q \in SUBSET K : S \subseteq Q /\ Shut(R, Q) => Spread(K, R, S) \subseteq Q
<1>1. /\ Spread(K, R, S) \in SUBSET K /\ S \subseteq Spread(K, R, S)
  BY DEF Spread
<1>2. ASSUME Spread(K, R, S) = S PROVE Shut(R, S)
  <2> SUFFICES ASSUME NEW a \in S, NEW b, <<a, b>> \in R PROVE b \in S
    BY DEF Shut
  <2>1. b \in K
    OBVIOUS
  <2>2. b \in Spread(K, R, S)
    BY <2>1 DEF Spread
  <2> QED
    BY <1>2, <2>2
<1>3. ASSUME NEW Q \in SUBSET K, S \subseteq Q, Shut(R, Q)
      PROVE  Spread(K, R, S) \subseteq Q
  BY <1>3 DEF Spread, Shut
<1>4. Shut(R, S) => Spread(K, R, S) = S
  BY <1>1 DEF Spread, Shut
<1> QED
  BY <1>1, <1>2, <1>3, <1>4

LEMMA GrowthCloses ==
  ASSUME NEW D, IsFiniteSet(D), NEW K, IsFiniteSet(K), Cardinality(K) <= Cardinality(D),
         NEW R \in SUBSET (K \X K), NEW r \in K, NEW g, IsGrowth(g, D, K, R, r)
  PROVE  IsClosure(g[D], K, R, r)
<1> DEFINE Least(S) == \A Q \in SUBSET K : r \in Q /\ Shut(R, Q) => S \subseteq Q
           Good == {s \in SUBSET D :
                      /\ g[s] \in SUBSET K /\ r \in g[s] /\ Least(g[s])
                      /\ Shut(R, g[s]) \/ Cardinality(g[s]) > Cardinality(s)}
<1>1. {} \in Good
  <2>1. g[{}] = {r} /\ Cardinality({r}) = 1 /\ Cardinality({}) = 0
    BY FS_EmptySet, FS_Singleton DEF IsGrowth
  <2> QED
    BY <2>1
<1>2. ASSUME NEW s \in SUBSET D, s # {}, \A x \in s : s \ {x} \in Good
      PROVE  s \in Good
  <2>1. PICK x \in s : g[s] = Spread(K, R, g[s \ {x}])
    BY <1>2 DEF IsGrowth
  <2> DEFINE S == g[s \ {x}]
  <2>2. /\ S \in SUBSET K /\ r \in S /\ Least(S)
        /\ Shut(R, S) \/ Cardinality(S) > Cardinality(s \ {x})
    BY <1>2
  <2> HIDE DEF S, Least
  <2>3. g[s] = Spread(K, R, S)
    BY <2>1 DEF S
  <2> HIDE DEF Good
  <2>4. g[s] \in SUBSET K /\ r \in g[s] /\ Least(g[s])
    BY <2>2, <2>3, SpreadFacts DEF Least
  <2>5. Shut(R, g[s]) \/ Cardinality(g[s]) > Cardinality(s)
    <3>1. CASE g[s] = S
      BY <2>2, <2>3, <3>1, SpreadFacts
    <3>2. CASE g[s] # S /\ Shut(R, S)
      BY <2>2, <2>3, <3>2, SpreadFacts
    <3>3. CASE g[s] # S /\ Cardinality(S) > Cardinality(s \ {x})
      <4>1. IsFiniteSet(g[s]) /\ S \subseteq g[s] /\ IsFiniteSet(s)
        BY <2>2, <2>3, <2>4, SpreadFacts, FS_Subset
      <4>2. /\ IsFiniteSet(S) /\ Cardinality(S) <= Cardinality(g[s])
            /\ Cardinality(S) # Cardinality(g[s])
        BY <3>3, <4>1, FS_Subset
      <4>3. Cardinality(s \ {x}) = Cardinality(s) - 1
        BY <4>1, FS_RemoveElement
      <4>4. Cardinality(S) \in Nat /\ Cardinality(g[s]) \in Nat /\ Cardinality(s) \in Nat
        BY <4>1, <4>2, FS_CardinalityType
      <4> QED
        BY <3>3, <4>2, <4>3, <4>4
    <3> QED
      BY <2>2, <3>1, <3>2, <3>3
  <2> QED
    BY <2>4, <2>5 DEF Good
<1>3. D \in Good
  <2> HIDE DEF Good
  <2> QED
    BY <1>1, <1>2, SubsetStep
<1>4. /\ g[D] \in SUBSET K /\ r \in g[D] /\ Least(g[D])
      /\ Shut(R, g[D]) \/ Cardinality(g[D]) > Cardinality(D)
  BY <1>3
<1>5. Cardinality(g[D]) <= Cardinality(K) /\ IsFiniteSet(g[D])
  BY <1>4, FS_Subset
<1>6. Cardinality(g[D]) \in Nat /\ Cardinality(K) \in Nat /\ Cardinality(D) \in Nat
  BY <1>5, FS_CardinalityType
<1>7. Shut(R, g[D])
  BY <1>4, <1>5, <1>6
<1> QED
  BY <1>4, <1>7 DEF IsClosure

Unrolls(e, D, K, R, r, pick) ==
  e = [s \in SUBSET D |->
         IF s = {} THEN {r} ELSE Spread(K, R, e[s \ {pick[s]}])]

\* The recursion of such a fold has a solution.
LEMMA GrowthExists ==
  ASSUME NEW D, IsFiniteSet(D), NEW K, NEW R \in SUBSET (K \X K), NEW r \in K,
         NEW pick, Picks(pick, D)
  PROVE  \E e : Unrolls(e, D, K, R, r, pick)
<1> DEFINE V == SUBSET K
           h == [s \in SUBSET D |-> [v \in V |-> Spread(K, R, v)]]
<1>1. Accumulates(h, D, V)
  BY SpreadFacts DEF Accumulates
<1>2. {r} \in V
  OBVIOUS
<1>3. PICK e \in [SUBSET D -> V] : Folds(e, {r}, pick, h, D)
  <2> HIDE DEF V, h
  <2> QED
    BY <1>1, <1>2, FoldExists
<1>4. ASSUME NEW s \in SUBSET D, s # {}
      PROVE  e[s] = Spread(K, R, e[s \ {pick[s]}])
  <2>1. e[s] = h[s][e[s \ {pick[s]}]]
    <3> HIDE DEF h
    <3> QED
      BY <1>3, <1>4 DEF Folds
  <2>2. e[s \ {pick[s]}] \in V
    BY <1>3
  <2> QED
    BY <2>1, <2>2
<1>5. e[{}] = {r}
  BY <1>3 DEF Folds
<1> DEFINE f == [s \in SUBSET D |->
                   IF s = {} THEN {r} ELSE Spread(K, R, e[s \ {pick[s]}])]
<1>6. \A s \in SUBSET D : e[s] = f[s]
  BY <1>4, <1>5
<1>7. e = f
  BY <1>3, <1>6
<1>8. Unrolls(e, D, K, R, r, pick)
  BY <1>7, Zenon DEF Unrolls
<1> QED
  BY <1>8

LEMMA KnownFacts ==
  ASSUME bom \in Files
  PROVE  /\ bom.order \in Seq(Nat) /\ Known \subseteq Nat /\ IsFiniteSet(Known)
         /\ Cardinality(Known) <= Cardinality(DOMAIN bom.order)
         /\ Links \in SUBSET (Known \X Known)
         /\ DOMAIN bom.order = 1 .. Len(bom.order)
         /\ \A k \in 1 .. Len(bom.order) : bom.order[k] \in Known
<1>1. bom.order \in Seq(Nat) /\ DOMAIN bom.order = 1 .. Len(bom.order)
      /\ Len(bom.order) \in Nat
  BY FilesAssumption
<1>2. Known = {bom.order[k] : k \in DOMAIN bom.order}
  BY <1>1 DEF Known, KnownIn, ToSet
<1>3. IsFiniteSet(DOMAIN bom.order)
  BY <1>1, FS_Interval
<1>4. [k \in DOMAIN bom.order |-> bom.order[k]] \in Surjection(DOMAIN bom.order, Known)
  BY <1>2 DEF Surjection
<1>5. IsFiniteSet(Known) /\ Cardinality(Known) <= Cardinality(DOMAIN bom.order)
  BY <1>3, <1>4, FS_Surjection
<1>6. Known \subseteq Nat
  BY <1>1, <1>2
<1> QED
  BY <1>1, <1>2, <1>5, <1>6 DEF Links

\* Reach is the reflexive-transitive closure of Links.
LEMMA ReachFacts ==
  ASSUME bom \in Files, NEW r \in Known
  PROVE  IsClosure(Reach(r), Known, Links, r)
<1> DEFINE D == DOMAIN bom.order
           pick == [T \in SUBSET D |-> Max(T)]
           IsFold(g) == g = [T \in SUBSET D |->
                               IF T = {} THEN {r}
                               ELSE LET S == g[T \ {Max(T)}]
                                    IN  S \cup {b \in Known : \E a \in S : <<a, b>> \in Links}]
<1>1. /\ IsFiniteSet(D) /\ IsFiniteSet(Known) /\ Cardinality(Known) <= Cardinality(D)
      /\ Links \in SUBSET (Known \X Known) /\ D = 1 .. Len(bom.order)
      /\ Len(bom.order) \in Nat
  <2>1. D = 1 .. Len(bom.order) /\ Len(bom.order) \in Nat /\ 1 \in Int /\ Len(bom.order) \in Int
    BY KnownFacts
  <2> QED
    BY <2>1, KnownFacts, FS_Interval
<1>2. \A T \in SUBSET D : T # {} => Max(T) \in T
  <2>1. ASSUME NEW T \in SUBSET D, T # {} PROVE Max(T) \in T
    <3>1. T \in SUBSET (0 .. Len(bom.order))
      BY <1>1
    <3> QED
      BY <1>1, <2>1, <3>1, GreatestUpTo
  <2> QED
    BY <2>1
<1>3. Picks(pick, D)
  BY <1>2 DEF Picks
<1>4. \E g : IsFold(g)
  <2>1. PICK e : Unrolls(e, D, Known, Links, r, pick)
    <3> HIDE DEF D, pick
    <3> QED
      BY <1>1, <1>3, GrowthExists
  <2>2. IsFold(e)
    BY <2>1 DEF Unrolls, Spread
  <2> QED
    BY <2>2
<1> DEFINE g == CHOOSE g : IsFold(g)
<1>5. IsFold(g)
  BY <1>4
<1>6. Reach(r) = g[D]
  BY DEF Reach, FoldLeft, MapThenFoldSet
<1> HIDE DEF g
<1>7. IsGrowth(g, D, Known, Links, r)
  <2>1. g[{}] = {r}
    BY <1>5
  <2>2. ASSUME NEW T \in SUBSET D, T # {}
        PROVE  \E x \in T : g[T] = Spread(Known, Links, g[T \ {x}])
    <3>1. g[T] = Spread(Known, Links, g[T \ {Max(T)}])
      BY <1>5, <2>2 DEF Spread
    <3> QED
      BY <1>2, <2>2, <3>1
  <2> QED
    BY <2>1, <2>2 DEF IsGrowth
<1> HIDE DEF D, IsFold
<1> QED
  BY <1>1, <1>6, <1>7, GrowthCloses

\* Dependents, as a function of the assets and the edges
DependentsIn(A, E, a) ==
  FoldSet(LAMBDA x, S : S \cup {i \in A : \E j \in S : <<j, i>> \in E}, {a}, A)

\* It is the reflexive-transitive closure of the edges.
LEMMA DependentsFacts ==
  ASSUME NEW D, IsFiniteSet(D), NEW E \in SUBSET (D \X D), NEW a \in D
  PROVE  IsClosure(DependentsIn(D, E, a), D, E, a)
<1> DEFINE pick == [T \in SUBSET D |-> CHOOSE x \in T : TRUE]
           IsFold(g) ==
             g = [T \in SUBSET D |->
                    IF T = {} THEN {a}
                    ELSE LET S == g[T \ {CHOOSE x \in T : TRUE}]
                         IN  S \cup {i \in D : \E j \in S : <<j, i>> \in E}]
<1>2. \A T \in SUBSET D : T # {} => (CHOOSE x \in T : TRUE) \in T
  OBVIOUS
<1>3. Picks(pick, D)
  BY <1>2 DEF Picks
<1>4. \E g : IsFold(g)
  <2>1. PICK e : Unrolls(e, D, D, E, a, pick)
    <3> HIDE DEF pick
    <3> QED
      BY <1>3, GrowthExists
  <2>2. IsFold(e)
    BY <2>1 DEF Unrolls, Spread
  <2> QED
    BY <2>2
<1> DEFINE g == CHOOSE g : IsFold(g)
<1>5. IsFold(g)
  BY <1>4
<1>6. DependentsIn(D, E, a) = g[D]
  BY DEF DependentsIn, FoldSet, MapThenFoldSet
<1> HIDE DEF g
<1>7. IsGrowth(g, D, D, E, a)
  <2>1. g[{}] = {a}
    BY <1>5
  <2>2. ASSUME NEW T \in SUBSET D, T # {}
        PROVE  \E x \in T : g[T] = Spread(D, E, g[T \ {x}])
    <3>1. g[T] = Spread(D, E, g[T \ {CHOOSE x \in T : TRUE}])
      BY <1>5, <2>2 DEF Spread
    <3> QED
      BY <1>2, <2>2, <3>1
  <2> QED
    BY <2>1, <2>2 DEF IsGrowth
<1>8. Cardinality(D) \in Nat /\ a \in D
  BY FS_CardinalityType
<1>9. Cardinality(D) <= Cardinality(D)
  BY <1>8
<1> HIDE DEF IsFold
<1>10. IsClosure(g[D], D, E, a)
  BY <1>7, <1>8, <1>9, GrowthCloses
<1> QED
  BY <1>6, <1>10

\* The edges are a sequence of pairs of assets.
LEMMA EdgesFacts ==
  ASSUME NEW assets \in SUBSET Nat, IsFiniteSet(assets), NEW lines
  PROVE  Edges(assets, lines) \in Seq(assets \X assets)
<1> DEFINE U == Flipped(assets, lines)
           R == {e \in U \X U : Earlier(e[1], e[2])}
<1>1. U \in SUBSET (assets \X assets)
  BY DEF Flipped
<1>2. IsFiniteSet(U)
  BY <1>1, FS_Product, FS_Subset
<1> HIDE DEF U
<1>3. \A e, f \in U : <<e, f>> \in R <=> Earlier(e, f)
  OBVIOUS
<1>4. ASSUME NEW e \in U PROVE e[1] \in Int /\ e[2] \in Int /\ e = <<e[1], e[2]>>
  <2>1. e \in assets \X assets
    BY <1>1
  <2>2. e[1] \in assets /\ e[2] \in assets /\ e = <<e[1], e[2]>>
    BY <2>1
  <2> QED
    BY <2>2
<1>5. Orders(R, U)
  <2>1. ASSUME NEW e \in U, NEW f \in U, e # f
        PROVE  Earlier(e, f) \/ Earlier(f, e)
    <3>1. e[1] # f[1] \/ e[2] # f[2]
      BY <1>4, <2>1, Zenon
    <3> QED
      BY <1>4, <3>1 DEF Earlier
  <2>2. \A e, f, h \in U : /\ ~Earlier(e, e)
                           /\ Earlier(e, f) /\ Earlier(f, h) => Earlier(e, h)
    BY <1>4 DEF Earlier
  <2> HIDE DEF R
  <2> QED
    BY <1>3, <2>1, <2>2 DEF Orders
<1>6. \A e \in U : Place(U, e) = RankIn(R, U, e)
  <2> SUFFICES ASSUME NEW e \in U
               PROVE  {f \in U : Earlier(f, e)} = {f \in U : <<f, e>> \in R}
    BY DEF Place, RankIn
  <2> HIDE DEF R
  <2> QED
    BY <1>3
<1> HIDE DEF R
<1>7. Ranked(R, U)
  BY <1>2, <1>5, Ranking
<1>8. /\ Cardinality(U) \in Nat
      /\ \A k \in 1 .. Cardinality(U) : \E e \in U : Place(U, e) = k - 1
  BY <1>6, <1>7 DEF Ranked
<1> DEFINE at(k) == CHOOSE e \in U : Place(U, e) = k - 1
<1>9. \A k \in 1 .. Cardinality(U) : at(k) \in assets \X assets
  BY <1>1, <1>8
<1>10. Edges(assets, lines) = [k \in 1 .. Cardinality(U) |-> at(k)]
  BY DEF Edges, U
<1> HIDE DEF at
<1>11. [k \in 1 .. Cardinality(U) |-> at(k)] \in Seq(assets \X assets)
  BY <1>8, <1>9
<1> QED
  BY <1>10, <1>11, Zenon

-----------------------------------------------------------------------------
(* Resolution.                                                             *)

\* The frames in progress are all different, and none has a verdict.
Frames == [ref : Known, next : Nat \ {0}]

StackOK ==
  /\ stack \in Seq(Frames)
  /\ \A k \in 1 .. Len(stack) : stack[k].ref \notin DOMAIN memo
  /\ \A k, l \in 1 .. Len(stack) : stack[k].ref = stack[l].ref => k = l

IInv == bom \in Files /\ polled \in Nat /\ StackOK /\ NoFalseAlarm

\* The innermost frame, and what is left when it returns.
LEMMA StackFacts ==
  ASSUME IInv, stack # <<>>
  PROVE  /\ Len(stack) \in Nat \ {0} /\ Top = stack[Len(stack)] /\ Top \in Frames
         /\ Top.ref \in Known /\ Top.ref \notin DOMAIN memo
         /\ Front(stack) \in Seq(Frames) /\ Len(Front(stack)) = Len(stack) - 1
         /\ \A k \in 1 .. Len(stack) - 1 : Front(stack)[k] = stack[k]
<1>1. stack \in Seq(Frames) /\ Len(stack) \in Nat \ {0}
  BY DEF IInv, StackOK
<1>2. Top = stack[Len(stack)] /\ Len(stack) \in 1 .. Len(stack)
  BY <1>1 DEF Top, Last
<1>3. Top \in Frames /\ Top.ref \in Known
  <2>1. Top \in Frames
    BY <1>1, <1>2
  <2> QED
    BY <2>1 DEF Frames
<1>4. Top.ref \notin DOMAIN memo
  BY <1>2 DEF IInv, StackOK
<1>5. /\ Front(stack) \in Seq(Frames) /\ Len(Front(stack)) = Len(stack) - 1
      /\ \A k \in 1 .. Len(stack) - 1 : Front(stack)[k] = stack[k]
  <2> DEFINE n == Len(stack) - 1
  <2>1. n \in Nat /\ \A k \in 1 .. n : stack[k] \in Frames
    BY <1>1
  <2>2. Front(stack) = SubSeq(stack, 1, n)
    BY DEF Front
  <2> HIDE DEF Frames, n
  <2>3. SubSeq(stack, 1, n) \in Seq(Frames)
    BY <2>1, SubSeqProperties
  <2>4. Len(SubSeq(stack, 1, n)) = n
    BY <2>1, SubSeqProperties
  <2>5. \A k \in 1 .. n : SubSeq(stack, 1, n)[k] = stack[k]
    BY <2>1, SubSeqProperties
  <2> QED
    BY <2>2, <2>3, <2>4, <2>5 DEF n
<1> QED
  BY <1>1, <1>2, <1>3, <1>4, <1>5

\* A verdict that is justified keeps the invariant when it is remembered.
LEMMA ReturnKeeps ==
  ASSUME IInv, stack # <<>>, NEW v \in BOOLEAN, Return(v), UNCHANGED <<bom, polled>>,
         v => \/ Weak(bom, Top.ref)
              \/ \E b \in ToSet(Refs(Top.ref)) : b \in DOMAIN memo /\ memo[b]
  PROVE  IInv'
<1>1. /\ DOMAIN memo' = DOMAIN memo \cup {Top.ref}
      /\ memo'[Top.ref] = v
      /\ \A r \in DOMAIN memo : memo'[r] = memo[r]
      /\ stack' = Front(stack)
  BY StackFacts DEF Return, Remember
<1>2. Known' = Known /\ Frames' = Frames
  BY DEF Known, Frames
<1>3. \A k \in 1 .. Len(stack') : k \in 1 .. Len(stack) - 1 /\ stack'[k] = stack[k]
  BY <1>1, StackFacts
<1>4. \A k \in 1 .. Len(stack) - 1 : stack[k].ref # Top.ref /\ stack[k].ref \notin DOMAIN memo
  <2> SUFFICES ASSUME NEW k \in 1 .. Len(stack) - 1
               PROVE  stack[k].ref # Top.ref /\ stack[k].ref \notin DOMAIN memo
    OBVIOUS
  <2>1. k \in 1 .. Len(stack) /\ Len(stack) \in 1 .. Len(stack) /\ k # Len(stack)
    BY StackFacts
  <2> QED
    BY <2>1, StackFacts DEF IInv, StackOK
<1>5. StackOK'
  <2>1. stack' \in Seq(Frames)
    BY <1>1, StackFacts
  <2>2. \A k \in 1 .. Len(stack') : k \in 1 .. Len(stack)
    BY <1>3, StackFacts
  <2>3. \A k, l \in 1 .. Len(stack') : stack'[k].ref = stack'[l].ref => k = l
    BY <1>3, <2>2 DEF IInv, StackOK
  <2> QED
    BY <1>1, <1>2, <1>3, <1>4, <2>1, <2>3 DEF StackOK
<1>6. NoFalseAlarm'
  <2> SUFFICES ASSUME NEW r \in DOMAIN memo', memo'[r]
               PROVE  \/ Weak(bom, r)
                      \/ \E b \in ToSet(Refs(r)) : b \in DOMAIN memo' /\ memo'[b]
    BY DEF NoFalseAlarm, Refs
  <2>1. CASE r \in DOMAIN memo
    BY <1>1, <2>1 DEF IInv, NoFalseAlarm
  <2>2. CASE r = Top.ref
    BY <1>1, <2>2
  <2> QED
    BY <1>1, <2>1, <2>2
<1> QED
  BY <1>5, <1>6 DEF IInv

\* The stack grows by a component that is neither on it nor resolved.
LEMMA PushKeeps ==
  ASSUME IInv, NEW r \in Known, r \notin DOMAIN memo, r \notin Visiting,
         stack' = Append(stack, Frame(r)), UNCHANGED <<bom, memo>>, polled' \in Nat
  PROVE  IInv'
<1>1. stack \in Seq(Frames) /\ Len(stack) \in Nat
  BY DEF IInv, StackOK
<1>2. Frame(r) \in Frames /\ Frame(r).ref = r
  BY DEF Frame, Frames
<1>3. /\ stack' \in Seq(Frames) /\ Len(stack') = Len(stack) + 1
      /\ stack'[Len(stack) + 1] = Frame(r)
      /\ \A k \in 1 .. Len(stack) : stack'[k] = stack[k]
  BY <1>1, <1>2
<1>4. \A k \in 1 .. Len(stack) : stack[k].ref # r
  <2> SUFFICES ASSUME NEW k \in 1 .. Len(stack) PROVE stack[k] \in ToSet(stack)
    BY DEF Visiting
  <2> QED
    BY <1>1 DEF ToSet
<1>5. \A k \in 1 .. Len(stack') : k \in 1 .. Len(stack) \/ k = Len(stack) + 1
  BY <1>1, <1>3
<1>6. \A k \in 1 .. Len(stack') : stack'[k].ref \notin DOMAIN memo
  BY <1>2, <1>3, <1>5 DEF IInv, StackOK
<1>7. ASSUME NEW k \in 1 .. Len(stack'), NEW l \in 1 .. Len(stack'),
             stack'[k].ref = stack'[l].ref
      PROVE  k = l
  <2>1. CASE k \in 1 .. Len(stack) /\ l \in 1 .. Len(stack)
    BY <1>3, <1>7, <2>1 DEF IInv, StackOK
  <2>2. CASE k = Len(stack) + 1 /\ l \in 1 .. Len(stack)
    BY <1>2, <1>3, <1>4, <1>7, <2>2
  <2>3. CASE l = Len(stack) + 1 /\ k \in 1 .. Len(stack)
    BY <1>2, <1>3, <1>4, <1>7, <2>3
  <2> QED
    BY <1>5, <2>1, <2>2, <2>3
<1>8. Frames' = Frames /\ (NoFalseAlarm => NoFalseAlarm')
  BY DEF Frames, Known, NoFalseAlarm, Refs
<1> QED
  BY <1>3, <1>6, <1>7, <1>8 DEF IInv, StackOK

\* The next reference, when nothing is pushed or remembered.
LEMMA AdvanceKeeps ==
  ASSUME IInv, stack # <<>>,
         stack' = [stack EXCEPT ![Len(stack)].next = @ + 1],
         UNCHANGED <<bom, memo, polled>>
  PROVE  IInv'
<1>1. stack \in Seq(Frames) /\ Len(stack) \in 1 .. Len(stack)
  BY StackFacts DEF IInv, StackOK
<1>2. [stack[Len(stack)] EXCEPT !.next = @ + 1] \in Frames
  <2>1. stack[Len(stack)] \in Frames
    BY <1>1
  <2>2. ASSUME NEW f \in Frames PROVE [f EXCEPT !.next = @ + 1] \in Frames
    <3>1. f.next + 1 \in Nat \ {0}
      BY DEF Frames
    <3>2. \A n \in Nat \ {0} : [f EXCEPT !.next = n] \in Frames
      BY DEF Frames
    <3> QED
      BY <3>1, <3>2
  <2> QED
    BY <2>1, <2>2
<1>3. /\ stack' \in Seq(Frames) /\ Len(stack') = Len(stack)
      /\ \A k \in 1 .. Len(stack) : stack'[k].ref = stack[k].ref
  BY <1>1, <1>2 DEF Frames
<1>4. Frames' = Frames /\ (NoFalseAlarm => NoFalseAlarm')
  BY DEF Frames, Known, NoFalseAlarm, Refs
<1> QED
  BY <1>3, <1>4 DEF IInv, StackOK

LEMMA NextPreserves == IInv /\ [Next]_vars => IInv'
<1> SUFFICES ASSUME IInv, [Next]_vars PROVE IInv'
  OBVIOUS
<1>1. CASE Ask
  <2> DEFINE r == bom.order[polled + 1]
  <2>1. stack = <<>> /\ UNCHANGED <<bom, memo>> /\ polled' \in Nat /\ polled < Len(bom.order)
    BY <1>1 DEF Ask, IInv
  <2>2. CASE r \in DOMAIN memo
    <3>1. stack' = stack
      BY <1>1, <2>1, <2>2 DEF Ask
    <3> QED
      BY <2>1, <3>1 DEF IInv, StackOK, NoFalseAlarm, Frames, Known, Refs
  <2>3. CASE r \notin DOMAIN memo
    <3>1. stack' = <<Frame(r)>> /\ <<Frame(r)>> = Append(<<>>, Frame(r))
      BY <1>1, <2>3 DEF Ask
    <3>2. bom.order \in Seq(Nat) /\ polled + 1 \in 1 .. Len(bom.order)
      BY <2>1, FilesAssumption DEF IInv
    <3>3. r \in Known
      BY <3>2 DEF Known, KnownIn, ToSet
    <3>4. r \notin Visiting
      BY <2>1 DEF Visiting, ToSet
    <3> HIDE DEF r
    <3> QED
      BY <2>1, <2>3, <3>1, <3>3, <3>4, PushKeeps
  <2> QED
    BY <2>2, <2>3
<1>2. CASE Leaf
  <2>1. Weak(bom, Top.ref) \in BOOLEAN
    BY DEF Weak
  <2> QED
    BY <1>2, <2>1, ReturnKeeps DEF Leaf
<1>3. CASE Look
  <2> DEFINE r == Refs(Top.ref)[Top.next]
  <2>1. stack # <<>> /\ Top.next <= Len(Refs(Top.ref)) /\ UNCHANGED <<bom, polled>>
        /\ polled' \in Nat
    BY <1>3 DEF Look, IInv
  <2>2. CASE ~Quick(r)
    <3>1. stack' = Append(stack, Frame(r)) /\ memo' = memo
      BY <1>3, <2>2 DEF Look
    <3>2. r \in Known /\ r \notin DOMAIN memo /\ r \notin Visiting
      BY <2>2 DEF Quick
    <3> HIDE DEF r
    <3> QED
      BY <2>1, <3>1, <3>2, PushKeeps
  <2>3. CASE Quick(r) /\ Verdict(r)
    <3>1. Return(TRUE)
      BY <1>3, <2>3 DEF Look
    <3>2. Top \in Frames /\ Top.ref \in ToSet(bom.order)
      BY <2>1, StackFacts DEF Known, KnownIn
    <3>3. Refs(Top.ref) \in Seq(Nat) /\ Top.next \in DOMAIN Refs(Top.ref)
      BY <2>1, <3>2, FilesAssumption DEF IInv, Refs, Frames
    <3>4. r \in ToSet(Refs(Top.ref)) /\ r \in DOMAIN memo /\ memo[r]
      BY <2>3, <3>3 DEF ToSet, Verdict
    <3> HIDE DEF r
    <3> QED
      BY <1>3, <2>1, <3>1, <3>4, ReturnKeeps DEF Look
  <2>4. CASE Quick(r) /\ ~Verdict(r)
    <3>1. stack' = [stack EXCEPT ![Len(stack)].next = @ + 1] /\ memo' = memo
      BY <1>3, <2>4 DEF Look
    <3> QED
      BY <2>1, <3>1, AdvanceKeeps
  <2> QED
    BY <2>2, <2>3, <2>4
<1>4. CASE Exhausted
  BY <1>4, ReturnKeeps DEF Exhausted
<1>5. CASE UNCHANGED resolverVars
  BY <1>5 DEF resolverVars, IInv, StackOK, NoFalseAlarm, Frames, Known, Refs
<1>6. CASE Resolve
  BY <1>1, <1>2, <1>3, <1>4, <1>6 DEF Resolve
<1> QED
  BY <1>5, <1>6 DEF Next, Convert, Adjust, Terminated, vars, resolverVars

-----------------------------------------------------------------------------
(* What the verdicts say of everything a component reaches.                *)

\* The path only descends; every component that was polled has a verdict or
\* is being resolved; a verdict TRUE has a weak component within reach.
\* Without cycles the references already passed are refuted, and a verdict
\* FALSE has none.
Path ==
  \A k, l \in 1 .. Len(stack) : k <= l => stack[l].ref \in Reach(stack[k].ref)

Polled ==
  \A i \in 1 .. polled : \/ bom.order[i] \in DOMAIN memo
                         \/ stack # <<>> /\ stack[1].ref = bom.order[i]

Supported ==
  \A r \in DOMAIN memo :
    r \in Known /\ (memo[r] => \E x \in Reach(r) : Weak(bom, x))

Refuted(b) == b \in Known => b \in DOMAIN memo /\ ~memo[b]

Searched ==
  \A k \in 1 .. Len(stack) : \A m \in 1 .. stack[k].next - 1 :
    m <= Len(Refs(stack[k].ref)) => Refuted(Refs(stack[k].ref)[m])

Harmless(r) == \A x \in Reach(r) : ~Weak(bom, x)

Clean == \A r \in DOMAIN memo : ~memo[r] => Harmless(r)

VInv == Path /\ Polled /\ Supported /\ (Acyclic => Searched /\ Clean)

LEMMA FileStays ==
  ASSUME bom' = bom
  PROVE  /\ Known' = Known /\ Links' = Links /\ (Acyclic' <=> Acyclic)
         /\ \A r : Reach(r)' = Reach(r) /\ Refs(r)' = Refs(r)
         /\ \A r : Harmless(r)' <=> Harmless(r)
<1>1. Known' = Known /\ Links' = Links /\ \A r : Refs(r)' = Refs(r)
  BY DEF Known, Links, Refs
<1>2. \A r : Reach(r)' = Reach(r)
  BY DEF Reach, Links, Known, Refs, FoldLeft, MapThenFoldSet
<1>3. Acyclic' <=> Acyclic
  BY <1>1, <1>2 DEF Acyclic
<1>4. \A r : Harmless(r)' <=> Harmless(r)
  BY <1>2 DEF Harmless
<1> QED
  BY <1>1, <1>2, <1>3, <1>4

\* A component reaches what those it refers to reach.
LEMMA ReachThrough ==
  ASSUME bom \in Files, NEW r \in Known
  PROVE  /\ r \in Reach(r) /\ Reach(r) \subseteq Known
         /\ \A a, b : a \in Reach(r) /\ <<a, b>> \in Links =>
              b \in Reach(r) /\ Reach(b) \subseteq Reach(r)
<1>1. IsClosure(Reach(r), Known, Links, r)
  BY ReachFacts
<1>2. ASSUME NEW a \in Reach(r), NEW b, <<a, b>> \in Links
      PROVE  b \in Reach(r) /\ Reach(b) \subseteq Reach(r)
  <2>1. b \in Reach(r) /\ b \in Known
    BY <1>1, <1>2 DEF IsClosure, Shut
  <2>2. IsClosure(Reach(b), Known, Links, b)
    BY <2>1, ReachFacts
  <2> QED
    BY <1>1, <2>1, <2>2 DEF IsClosure
<1> QED
  BY <1>1, <1>2 DEF IsClosure

LEMMA ReturnKeepsVerdicts ==
  ASSUME IInv, VInv, stack # <<>>, NEW v \in BOOLEAN, Return(v),
         UNCHANGED <<bom, polled>>,
         v => \E x \in Reach(Top.ref) : Weak(bom, x),
         Acyclic /\ ~v => Harmless(Top.ref)
  PROVE  VInv'
<1>1. /\ DOMAIN memo' = DOMAIN memo \cup {Top.ref} /\ memo'[Top.ref] = v
      /\ \A r \in DOMAIN memo : memo'[r] = memo[r]
      /\ Top.ref \in Known /\ Top.ref \notin DOMAIN memo
  BY StackFacts DEF Return, Remember
<1>2. /\ Len(stack) \in Nat \ {0} /\ Top = stack[Len(stack)]
      /\ Len(stack') = Len(stack) - 1
      /\ \A k \in 1 .. Len(stack) - 1 : stack'[k] = stack[k]
  BY StackFacts DEF Return
<1>3. \A k \in 1 .. Len(stack') : k \in 1 .. Len(stack) /\ stack'[k] = stack[k]
  BY <1>2
<1>4. Path'
  BY <1>3, FileStays DEF VInv, Path
<1>5. Polled'
  <2> SUFFICES ASSUME NEW i \in 1 .. polled
               PROVE  \/ bom.order[i] \in DOMAIN memo'
                      \/ stack' # <<>> /\ stack'[1].ref = bom.order[i]
    BY DEF Polled
  <2>1. CASE bom.order[i] \in DOMAIN memo
    BY <1>1, <2>1
  <2>2. CASE stack[1].ref = bom.order[i] /\ Len(stack) = 1
    BY <1>1, <1>2, <2>2
  <2>3. CASE stack[1].ref = bom.order[i] /\ Len(stack) # 1
    <3>1. 1 \in 1 .. Len(stack) - 1 /\ Len(stack') # 0
      BY <1>2, <2>3
    <3> QED
      BY <1>2, <2>3, <3>1
  <2> QED
    BY <2>1, <2>2, <2>3 DEF VInv, Polled
<1>6. Supported'
  <2> SUFFICES ASSUME NEW r \in DOMAIN memo'
               PROVE  r \in Known /\ (memo'[r] => \E x \in Reach(r) : Weak(bom, x))
    BY FileStays DEF Supported
  <2>1. CASE r \in DOMAIN memo
    BY <1>1, <2>1 DEF VInv, Supported
  <2>2. CASE r = Top.ref
    BY <1>1, <2>2
  <2> QED
    BY <1>1, <2>1, <2>2
<1>7. ASSUME Acyclic' PROVE Searched' /\ Clean'
  <2>1. Acyclic /\ Searched /\ Clean
    BY <1>7, FileStays DEF VInv
  <2>2. ASSUME NEW b, Refuted(b), b \in Known
        PROVE  b \in DOMAIN memo' /\ ~memo'[b]
    BY <1>1, <2>2 DEF Refuted
  <2>3. Searched'
    <3> SUFFICES ASSUME NEW k \in 1 .. Len(stack'), NEW m \in 1 .. stack'[k].next - 1,
                        m <= Len(Refs(stack'[k].ref)),
                        Refs(stack'[k].ref)[m] \in Known
                 PROVE  /\ Refs(stack'[k].ref)[m] \in DOMAIN memo'
                        /\ ~memo'[Refs(stack'[k].ref)[m]]
      BY FileStays DEF Searched, Refuted
    <3>1. k \in 1 .. Len(stack) /\ stack'[k] = stack[k]
      BY <1>3
    <3>2. Refuted(Refs(stack'[k].ref)[m])
      BY <2>1, <3>1 DEF Searched
    <3> QED
      BY <2>2, <3>2
  <2>4. Clean'
    <3> SUFFICES ASSUME NEW r \in DOMAIN memo', ~memo'[r] PROVE Harmless(r)
      BY FileStays DEF Clean
    <3>1. CASE r \in DOMAIN memo
      BY <1>1, <2>1, <3>1 DEF Clean
    <3>2. CASE r = Top.ref
      BY <1>1, <2>1, <3>2
    <3> QED
      BY <1>1, <3>1, <3>2
  <2> QED
    BY <2>3, <2>4
<1> QED
  BY <1>4, <1>5, <1>6, <1>7 DEF VInv

LEMMA PushKeepsVerdicts ==
  ASSUME IInv, VInv, NEW r \in Known, stack' = Append(stack, Frame(r)),
         UNCHANGED <<bom, memo>>,
         stack # <<>> => <<Top.ref, r>> \in Links,
         \/ polled' = polled
         \/ stack = <<>> /\ polled' = polled + 1 /\ bom.order[polled + 1] = r
  PROVE  VInv'
<1>1. stack \in Seq(Frames) /\ Len(stack) \in Nat /\ polled \in Nat
  BY DEF IInv, StackOK
<1>2. Frame(r) \in Frames /\ Frame(r).ref = r /\ Frame(r).next = 1
  BY DEF Frame, Frames
<1>3. /\ Len(stack') = Len(stack) + 1 /\ stack'[Len(stack) + 1] = Frame(r)
      /\ \A k \in 1 .. Len(stack) : stack'[k] = stack[k]
      /\ stack' # <<>>
  BY <1>1, <1>2
<1>4. \A k \in 1 .. Len(stack') : k \in 1 .. Len(stack) \/ k = Len(stack) + 1
  BY <1>1, <1>3
<1>5. r \in Reach(r)
  BY ReachThrough DEF IInv
<1>6. ASSUME NEW k \in 1 .. Len(stack) PROVE r \in Reach(stack[k].ref)
  <2>1. stack # <<>> /\ Len(stack) \in 1 .. Len(stack) /\ k <= Len(stack)
    BY <1>1
  <2>2. Top = stack[Len(stack)]
    BY <2>1, StackFacts
  <2>3. Top.ref \in Reach(stack[k].ref)
    BY <2>1, <2>2 DEF VInv, Path
  <2>4. stack[k].ref \in Known
    <3>1. stack[k] \in Frames
      BY <1>1
    <3> QED
      BY <3>1 DEF Frames
  <2> QED
    BY <2>1, <2>3, <2>4, ReachThrough DEF IInv
<1>7. Path'
  <2> SUFFICES ASSUME NEW k \in 1 .. Len(stack'), NEW l \in 1 .. Len(stack'), k <= l
               PROVE  stack'[l].ref \in Reach(stack'[k].ref)
    BY FileStays DEF Path
  <2>1. CASE l \in 1 .. Len(stack)
    <3>1. k \in 1 .. Len(stack)
      BY <1>1, <2>1
    <3> QED
      BY <1>3, <2>1, <3>1 DEF VInv, Path
  <2>2. CASE l = Len(stack) + 1 /\ k \in 1 .. Len(stack)
    BY <1>2, <1>3, <1>6, <2>2
  <2>3. CASE l = Len(stack) + 1 /\ k = Len(stack) + 1
    BY <1>2, <1>3, <1>5, <2>3
  <2> QED
    BY <1>4, <2>1, <2>2, <2>3
<1>8. Polled'
  <2> SUFFICES ASSUME NEW i \in 1 .. polled'
               PROVE  bom.order[i] \in DOMAIN memo \/ stack'[1].ref = bom.order[i]
    BY <1>3 DEF Polled
  <2>1. CASE i \in 1 .. polled
    <3>1. stack # <<>> => 1 \in 1 .. Len(stack)
      BY <1>1
    <3> QED
      BY <1>3, <2>1, <3>1 DEF VInv, Polled
  <2>2. CASE i \notin 1 .. polled
    <3>1. i = polled + 1 /\ stack = <<>> /\ bom.order[i] = r
      BY <1>1, <2>2
    <3> QED
      BY <1>2, <1>3, <3>1
  <2> QED
    BY <2>1, <2>2
<1>9. Supported'
  BY FileStays DEF VInv, Supported
<1>10. ASSUME Acyclic' PROVE Searched' /\ Clean'
  <2>1. Acyclic /\ Searched /\ Clean
    BY <1>10, FileStays DEF VInv
  <2>2. Searched'
    <3> SUFFICES ASSUME NEW k \in 1 .. Len(stack'), NEW m \in 1 .. stack'[k].next - 1,
                        m <= Len(Refs(stack'[k].ref))
                 PROVE  Refuted(Refs(stack'[k].ref)[m])
      BY FileStays DEF Searched, Refuted
    <3>1. k \in 1 .. Len(stack)
      BY <1>2, <1>3, <1>4
    <3> QED
      BY <1>3, <2>1, <3>1 DEF Searched
  <2> QED
    BY <2>1, <2>2, FileStays DEF Clean
<1> QED
  BY <1>7, <1>8, <1>9, <1>10 DEF VInv

LEMMA AdvanceKeepsVerdicts ==
  ASSUME IInv, VInv, stack # <<>>,
         stack' = [stack EXCEPT ![Len(stack)].next = @ + 1],
         UNCHANGED <<bom, memo, polled>>,
         Acyclic => Refuted(Refs(Top.ref)[Top.next])
  PROVE  VInv'
<1>1. stack \in Seq(Frames) /\ Len(stack) \in 1 .. Len(stack) /\ Top = stack[Len(stack)]
      /\ Top.next \in Nat
  <2>1. Top \in Frames
    BY StackFacts
  <2> QED
    BY <2>1, StackFacts DEF IInv, StackOK, Frames
<1>2. /\ Len(stack') = Len(stack) /\ stack' # <<>>
      /\ \A k \in 1 .. Len(stack) :
           /\ stack'[k].ref = stack[k].ref
           /\ k # Len(stack) => stack'[k].next = stack[k].next
      /\ stack'[Len(stack)].next = Top.next + 1
  BY <1>1 DEF Frames
<1>3. Path' /\ Polled' /\ Supported'
  <2>1. 1 \in 1 .. Len(stack)
    BY <1>1
  <2> QED
    BY <1>2, <2>1, FileStays DEF VInv, Path, Polled, Supported
<1>4. ASSUME Acyclic' PROVE Searched' /\ Clean'
  <2>1. Acyclic /\ Searched /\ Clean
    BY <1>4, FileStays DEF VInv
  <2>2. Searched'
    <3> SUFFICES ASSUME NEW k \in 1 .. Len(stack), NEW m \in 1 .. stack'[k].next - 1,
                        m <= Len(Refs(stack[k].ref))
                 PROVE  Refuted(Refs(stack[k].ref)[m])
      BY <1>2, FileStays DEF Searched, Refuted
    <3>1. CASE m \in 1 .. stack[k].next - 1
      BY <2>1, <3>1 DEF Searched
    <3>2. CASE m \notin 1 .. stack[k].next - 1
      <4>1. k = Len(stack) /\ m = Top.next
        BY <1>1, <1>2, <3>2
      <4> QED
        BY <1>1, <2>1, <4>1
    <3> QED
      BY <3>1, <3>2
  <2> QED
    BY <2>1, <2>2, FileStays DEF Clean
<1> QED
  BY <1>3, <1>4 DEF VInv

LEMMA ComponentFacts ==
  ASSUME IInv, NEW r \in Known
  PROVE  /\ Refs(r) \in Seq(Nat)
         /\ Refs(r) # <<>> => ~Weak(bom, r)
         /\ \A m \in DOMAIN Refs(r) : Refs(r)[m] \in Known => <<r, Refs(r)[m]>> \in Links
         /\ Refs(r) = <<>> => \A b : <<r, b>> \notin Links
<1>1. /\ bom.comp[r].refs \in Seq(Nat)
      /\ bom.comp[r].type \in {"algorithm", "unknown"} => bom.comp[r].refs = <<>>
  BY FilesAssumption DEF IInv, Known, KnownIn
<1> QED
  BY <1>1 DEF Refs, Weak, Links, ToSet

\* A component without references reaches itself only.
LEMMA LeafReach ==
  ASSUME IInv, NEW r \in Known, Refs(r) = <<>>
  PROVE  Reach(r) = {r}
<1>1. IsClosure(Reach(r), Known, Links, r)
  BY ReachFacts DEF IInv
<1>2. {r} \in SUBSET Known /\ Shut(Links, {r})
  BY ComponentFacts DEF Shut
<1> QED
  BY <1>1, <1>2 DEF IsClosure

\* When every reference was refuted, so is the component.
LEMMA RefutedHarmless ==
  ASSUME IInv, NEW r \in Known, Refs(r) # <<>>, Clean,
         \A m \in DOMAIN Refs(r) : Refuted(Refs(r)[m])
  PROVE  Harmless(r)
<1> DEFINE S == {x \in Known : \/ x = r
                               \/ \E b \in ToSet(Refs(r)) : b \in Known /\ x \in Reach(b)}
<1>1. IsClosure(Reach(r), Known, Links, r)
  BY ReachFacts DEF IInv
<1>2. ASSUME NEW b \in ToSet(Refs(r)), b \in Known
      PROVE  Harmless(b) /\ b \in Reach(b)
  <2>1. PICK m \in DOMAIN Refs(r) : b = Refs(r)[m]
    BY DEF ToSet
  <2>2. Refuted(b)
    BY <2>1
  <2> QED
    BY <1>2, <2>2, ReachThrough DEF Refuted, Clean, IInv
<1>3. Shut(Links, S)
  <2> SUFFICES ASSUME NEW a \in S, NEW c, <<a, c>> \in Links PROVE c \in S
    BY DEF Shut
  <2>1. c \in Known /\ (a = r => c \in ToSet(Refs(r)))
    BY DEF Links
  <2>2. CASE a = r
    BY <1>2, <2>1, <2>2 DEF Harmless
  <2>3. CASE a # r
    <3>1. PICK b \in ToSet(Refs(r)) : b \in Known /\ a \in Reach(b)
      BY <2>3
    <3>2. c \in Reach(b)
      BY <3>1, ReachThrough DEF IInv
    <3> QED
      BY <1>2, <2>1, <3>1, <3>2 DEF Harmless
  <2> QED
    BY <2>2, <2>3
<1>4. Reach(r) \subseteq S
  <2>1. S \in SUBSET Known /\ r \in S
    OBVIOUS
  <2> HIDE DEF S
  <2> QED
    BY <1>1, <1>3, <2>1 DEF IsClosure
<1>5. ~Weak(bom, r)
  BY ComponentFacts
<1> QED
  BY <1>2, <1>4, <1>5 DEF Harmless

LEMMA VerdictsPreserved == IInv /\ VInv /\ [Next]_vars => VInv'
<1> SUFFICES ASSUME IInv, VInv, [Next]_vars PROVE VInv'
  OBVIOUS
<1> USE DEF IInv
<1>1. CASE Ask
  <2> DEFINE r == bom.order[polled + 1]
  <2>1. /\ stack = <<>> /\ UNCHANGED <<bom, memo>> /\ polled' = polled + 1
        /\ polled \in Nat /\ polled + 1 \in 1 .. Len(bom.order)
    <3>1. stack = <<>> /\ UNCHANGED <<bom, memo>> /\ polled' = polled + 1
          /\ polled < Len(bom.order) /\ polled \in Nat
      BY <1>1 DEF Ask
    <3>2. Len(bom.order) \in Nat
      BY KnownFacts
    <3> QED
      BY <3>1, <3>2
  <2>2. r \in Known
    BY <2>1, KnownFacts
  <2>3. CASE r \in DOMAIN memo
    <3>1. stack' = stack
      BY <1>1, <2>1, <2>3 DEF Ask
    <3>2. Polled'
      <4>1. \A i \in 1 .. polled' : i \in 1 .. polled \/ i = polled + 1
        BY <2>1
      <4> QED
        BY <2>1, <2>3, <4>1 DEF Polled, VInv
    <3> QED
      BY <2>1, <3>1, <3>2, FileStays DEF VInv, Path, Supported, Searched, Clean, Refuted
  <2>4. CASE r \notin DOMAIN memo
    <3>1. stack' = <<Frame(r)>> /\ <<Frame(r)>> = Append(<<>>, Frame(r))
      BY <1>1, <2>4 DEF Ask
    <3> HIDE DEF IInv
    <3> QED
      BY <2>1, <2>2, <3>1, PushKeepsVerdicts
  <2> QED
    BY <2>3, <2>4
<1>2. CASE Leaf
  <2>1. Top.ref \in Known /\ Refs(Top.ref) = <<>> /\ Reach(Top.ref) = {Top.ref}
    BY <1>2, StackFacts, LeafReach DEF Leaf
  <2>2. Weak(bom, Top.ref) \in BOOLEAN
    BY DEF Weak
  <2>3. /\ Weak(bom, Top.ref) => \E x \in Reach(Top.ref) : Weak(bom, x)
        /\ ~Weak(bom, Top.ref) => Harmless(Top.ref)
    BY <2>1 DEF Harmless
  <2> QED
    BY <1>2, <2>2, <2>3, ReturnKeepsVerdicts DEF Leaf
<1>3. CASE Look
  <2> DEFINE r == Refs(Top.ref)[Top.next]
  <2>1. stack # <<>> /\ Top.next <= Len(Refs(Top.ref)) /\ UNCHANGED <<bom, polled>>
    BY <1>3 DEF Look
  <2>2. Top \in Frames /\ Top.ref \in Known /\ Top.next \in Nat \ {0}
    BY <2>1, StackFacts DEF Frames
  <2>3. Refs(Top.ref) \in Seq(Nat) /\ Top.next \in DOMAIN Refs(Top.ref)
    BY <2>1, <2>2, ComponentFacts
  <2>4. r \in Known => <<Top.ref, r>> \in Links
    BY <2>2, <2>3, ComponentFacts
  <2>5. CASE ~Quick(r)
    <3>1. stack' = Append(stack, Frame(r)) /\ memo' = memo /\ polled' = polled /\ r \in Known
      BY <1>3, <2>1, <2>5 DEF Look, Quick
    <3> HIDE DEF r, IInv
    <3> QED
      BY <2>1, <2>4, <3>1, PushKeepsVerdicts
  <2>6. CASE Quick(r) /\ Verdict(r)
    <3>1. Return(TRUE) /\ r \in DOMAIN memo /\ memo[r]
      BY <1>3, <2>6 DEF Look, Verdict
    <3>2. r \in Known /\ \E x \in Reach(r) : Weak(bom, x)
      BY <3>1 DEF VInv, Supported
    <3>3. Reach(r) \subseteq Reach(Top.ref)
      BY <2>2, <2>4, <3>2, ReachThrough
    <3> HIDE DEF r, IInv
    <3> QED
      BY <2>1, <3>1, <3>2, <3>3, ReturnKeepsVerdicts
  <2>7. CASE Quick(r) /\ ~Verdict(r)
    <3>1. stack' = [stack EXCEPT ![Len(stack)].next = @ + 1] /\ memo' = memo
      BY <1>3, <2>7 DEF Look
    <3>2. ASSUME Acyclic PROVE Refuted(r)
      <4>1. CASE r \in DOMAIN memo \/ r \notin Known
        BY <2>7, <4>1 DEF Refuted, Verdict
      <4>2. CASE r \in Visiting /\ r \in Known
        <5>1. PICK k \in 1 .. Len(stack) : stack[k].ref = r
          BY <4>2 DEF Visiting, ToSet, StackOK
        <5>2. Len(stack) \in 1 .. Len(stack) /\ k <= Len(stack) /\ Top = stack[Len(stack)]
          BY <2>1, StackFacts
        <5>3. Top.ref \in Reach(r)
          BY <5>1, <5>2 DEF VInv, Path
        <5>4. <<Top.ref, r>> \in Links
          BY <2>4, <4>2
        <5> HIDE DEF r
        <5> QED
          BY <3>2, <5>3, <5>4 DEF Acyclic
      <4> QED
        BY <2>7, <4>1, <4>2 DEF Quick
    <3> HIDE DEF IInv
    <3> QED
      BY <2>1, <3>1, <3>2, AdvanceKeepsVerdicts
  <2> QED
    BY <2>5, <2>6, <2>7
<1>4. CASE Exhausted
  <2>1. /\ stack # <<>> /\ Refs(Top.ref) # <<>> /\ Top.next > Len(Refs(Top.ref))
        /\ Return(FALSE) /\ UNCHANGED <<bom, polled>>
    BY <1>4 DEF Exhausted
  <2>2. /\ Top \in Frames /\ Top.ref \in Known /\ Top.next \in Nat
        /\ Len(stack) \in 1 .. Len(stack) /\ Top = stack[Len(stack)]
    BY <2>1, StackFacts DEF Frames
  <2>3. ASSUME Acyclic PROVE Harmless(Top.ref)
    <3>1. ASSUME NEW m \in DOMAIN Refs(Top.ref) PROVE Refuted(Refs(Top.ref)[m])
      <4>1. Refs(Top.ref) \in Seq(Nat)
        BY <2>2, ComponentFacts
      <4>2. m \in 1 .. Top.next - 1 /\ m <= Len(Refs(Top.ref))
        BY <2>1, <2>2, <4>1
      <4> QED
        BY <2>2, <2>3, <4>2 DEF VInv, Searched
    <3> HIDE DEF IInv
    <3> QED
      BY <2>1, <2>2, <2>3, <3>1, RefutedHarmless DEF VInv
  <2> HIDE DEF IInv
  <2> QED
    BY <2>1, <2>3, ReturnKeepsVerdicts
<1>5. CASE UNCHANGED resolverVars
  BY <1>5, FileStays
     DEF resolverVars, VInv, Path, Polled, Supported, Searched, Clean, Refuted
<1>6. CASE Resolve
  BY <1>1, <1>2, <1>3, <1>4, <1>6 DEF Resolve
<1> QED
  BY <1>5, <1>6 DEF Next, Convert, Adjust, Terminated, vars, resolverVars

-----------------------------------------------------------------------------
(* The estate: what is drafted is an instance, and stays one.              *)

Span == 0 .. Horizon - 1

\* What every step from the conversion on works with.
EstateOK ==
  /\ IsInstance(inst) /\ inst.T = Horizon /\ inst.clusters = <<>>
  /\ inst.assets = Kept /\ Resolved /\ policy \in Policies
  /\ edges \in Seq(inst.assets \X inst.assets)
  /\ asked \in [inst.assets -> Span \cup {None}]
  /\ \A a \in inst.assets : /\ inst.earliest[a] \in Span
                            /\ inst.deadline[a] \in Span \cup {None}
  /\ pos \in Nat \ {0} /\ pass \in Nat

EInv ==
  /\ pc \in {"resolve", "pass", "drop", "budget", "done"}
  /\ pc # "resolve" => EstateOK

LEMMA ClampFacts == ASSUME NEW t \in Int PROVE Clamp(t) \in Span
<1> DEFINE m == Min({t, Horizon - 1})
<1>1. Horizon - 1 \in Int /\ Horizon - 1 >= 0
  BY PolicyAssumption
<1>2. m \in Int /\ m <= Horizon - 1
  BY <1>1, MinOfTwo
<1> HIDE DEF m
<1>3. Max({0, m}) \in {0, m} /\ Max({0, m}) >= 0
  BY <1>2, MaxOfTwo
<1>4. Clamp(t) = Max({0, m})
  BY DEF Clamp, m
<1> QED
  BY <1>1, <1>2, <1>3, <1>4 DEF Span

LEMMA WindowFacts ==
  ASSUME NEW p \in Policies, NEW r
  PROVE  /\ Kind(bom, r) \in Kinds
         /\ EarliestOf(p, r) \in Span
         /\ DeadlineOf(p, r) \in Span \cup {None}
<1>1. Kind(bom, r) \in Kinds
  BY DEF Kind, Kinds
<1>2. EarliestOf(p, r) \in Span
  <2>1. (IF SignatureSide(bom, r) THEN p.delay ELSE 0) \in Int
    BY PolicyAssumption
  <2> QED
    BY <2>1, ClampFacts DEF EarliestOf
<1>3. DeadlineOf(p, r) \in Span \cup {None}
  <2> DEFINE due == p.due[Kind(bom, r)]
  <2>1. due \in Int \cup {None}
    BY <1>1, PolicyAssumption
  <2>2. CASE due = None
    BY <2>2 DEF DeadlineOf
  <2>3. CASE due # None
    <3>1. Clamp(due) \in Span /\ due \in Int
      BY <2>1, <2>3, ClampFacts
    <3> DEFINE c == Clamp(due)
               e == EarliestOf(p, r)
    <3>2. DeadlineOf(p, r) = Max({c, e})
      BY <2>3 DEF DeadlineOf
    <3>3. c \in Span /\ e \in Span
      BY <1>2, <3>1
    <3> HIDE DEF c, e
    <3>4. c \in Int /\ e \in Int
      BY <3>3, PolicyAssumption DEF Span
    <3>5. Max({c, e}) \in {c, e}
      BY <3>4, MaxOfTwo
    <3> QED
      BY <3>2, <3>3, <3>5
  <2> QED
    BY <2>2, <2>3
<1> QED
  BY <1>1, <1>2, <1>3

\* Once the questions are answered every component has its verdict.
LEMMA KeptFacts ==
  ASSUME IInv, VInv, Resolved
  PROVE  /\ DOMAIN memo = Known /\ Kept \in SUBSET Nat /\ IsFiniteSet(Kept)
         /\ \A r \in Kept : r \in Known /\ r \in DOMAIN memo /\ memo[r]
<1>1. bom \in Files /\ stack = <<>> /\ polled = Len(bom.order)
  BY DEF IInv, Resolved
<1>2. Known \subseteq DOMAIN memo
  <2> SUFFICES ASSUME NEW r \in Known PROVE r \in DOMAIN memo
    OBVIOUS
  <2>1. PICK i \in 1 .. Len(bom.order) : r = bom.order[i]
    BY <1>1, KnownFacts DEF Known, KnownIn, ToSet
  <2> QED
    BY <1>1, <2>1 DEF VInv, Polled
<1>3. DOMAIN memo \subseteq Known
  BY DEF VInv, Supported
<1>4. IsFiniteSet(Known) /\ Known \subseteq Nat /\ Kept \subseteq Known
  BY <1>1, KnownFacts DEF Kept
<1>5. IsFiniteSet(Kept)
  BY <1>4, FS_Subset
<1> QED
  BY <1>2, <1>3, <1>4, <1>5 DEF Kept

LEMMA DraftFacts ==
  ASSUME NEW p \in Policies, Kept \in SUBSET Nat, IsFiniteSet(Kept)
  PROVE  /\ IsInstance(Draft(p))
         /\ Draft(p).T = Horizon /\ Draft(p).clusters = <<>> /\ Draft(p).assets = Kept
         /\ Draft(p).deadline \in [Kept -> Span \cup {None}]
         /\ \A a \in Kept : /\ Draft(p).earliest[a] \in Span
                            /\ Draft(p).deadline[a] \in Span \cup {None}
<1> DEFINE D == Draft(p)
<1>1. \A r : /\ Kind(bom, r) \in Kinds /\ EarliestOf(p, r) \in Span
             /\ DeadlineOf(p, r) \in Span \cup {None}
  BY WindowFacts
<1>2. /\ D.assets = Kept /\ D.T = Horizon /\ D.clusters = <<>> /\ D.deps = {}
      /\ D.crqc = Crqc /\ D.rm = RiskModel
      /\ D.budget = [t \in 0 .. Horizon - 1 |-> 0]
      /\ D.crit = [r \in Kept |-> p.crit[Kind(bom, r)]]
      /\ D.shelf = [r \in Kept |-> p.shelf[Kind(bom, r)]]
      /\ D.cost = [r \in Kept |-> p.cost[Kind(bom, r)]]
      /\ D.earliest = [r \in Kept |-> EarliestOf(p, r)]
      /\ D.deadline = [r \in Kept |-> DeadlineOf(p, r)]
      /\ DOMAIN D = InstanceFields
  BY DEF Draft, InstanceFields
<1> HIDE DEF D
<1>3. /\ p.crit \in [Kinds -> Nat] /\ p.shelf \in [Kinds -> Nat]
      /\ p.cost \in [Kinds -> Nat]
      /\ Horizon \in Nat \ {0} /\ Crqc \in Int /\ RiskModel \in RiskModels
  BY PolicyAssumption
<1>4. \A x \in Span : x \in Nat /\ x \in Int
  BY <1>3 DEF Span
<1>5. /\ D.crit \in [Kept -> Nat] /\ D.shelf \in [Kept -> Nat] /\ D.cost \in [Kept -> Nat]
      /\ D.earliest \in [Kept -> Span]
      /\ D.deadline \in [Kept -> Span \cup {None}]
  BY <1>1, <1>2, <1>3
<1>6. /\ D.earliest \in [Kept -> Nat]
      /\ D.deadline \in [Kept -> Int \cup {None}]
  <2>1. ASSUME NEW r
        PROVE  EarliestOf(p, r) \in Nat /\ DeadlineOf(p, r) \in Int \cup {None}
    <3>1. EarliestOf(p, r) \in Span /\ DeadlineOf(p, r) \in Span \cup {None}
      BY <1>1
    <3> QED
      BY <1>4, <3>1, Zenon
  <2> QED
    BY <1>2, <2>1
<1>7. /\ D.budget \in [Periods(D) -> Nat] /\ D.deps \in SUBSET (D.assets \X D.assets)
      /\ D.clusters \in Seq(D.assets \X D.assets)
  BY <1>2, <1>3 DEF Periods
<1>8. IsInstance(D)
  BY <1>2, <1>3, <1>5, <1>6, <1>7 DEF IsInstance
<1> QED
  BY <1>2, <1>5, <1>8 DEF D

\* Other deadlines make another instance.
LEMMA WithDeadline ==
  ASSUME NEW I, IsInstance(I), NEW d \in [I.assets -> Int \cup {None}], NEW J,
         J = [I EXCEPT !.deadline = d]
  PROVE  /\ IsInstance(J) /\ J.deadline = d
         /\ J.assets = I.assets /\ J.T = I.T /\ J.clusters = I.clusters
         /\ J.earliest = I.earliest /\ J.cost = I.cost /\ J.deps = I.deps
         /\ J.budget = I.budget
<1>1. DOMAIN I = InstanceFields
  BY DEF IsInstance
<1>2. /\ DOMAIN J = InstanceFields /\ J.deadline = d
      /\ J.assets = I.assets /\ J.T = I.T /\ J.clusters = I.clusters
      /\ J.earliest = I.earliest /\ J.cost = I.cost /\ J.deps = I.deps
      /\ J.budget = I.budget /\ J.crit = I.crit /\ J.shelf = I.shelf
      /\ J.crqc = I.crqc /\ J.rm = I.rm
  BY <1>1 DEF InstanceFields
<1>3. Periods(J) = Periods(I)
  BY <1>2 DEF Periods
<1>4. IsInstance(J)
  BY <1>2, <1>3 DEF IsInstance
<1> QED
  BY <1>2, <1>4

-----------------------------------------------------------------------------
(* The steps, as the invariants need them.                                 *)

LEMMA ConvertFacts ==
  ASSUME IInv, VInv, EInv, Convert
  PROVE  EstateOK' /\ pc' = "pass" /\ asked' = inst'.deadline /\ pos' = 1 /\ pass' = 0
         /\ UNCHANGED resolverVars
<1>1. PICK lines \in DependsOn : Receive(Draft(policy'), lines)
  BY DEF Convert
<1> DEFINE D == Draft(policy')
<1>2. /\ policy' \in Policies /\ Resolved /\ UNCHANGED resolverVars
  BY DEF Convert
<1>3. /\ DOMAIN memo = Known /\ Kept \in SUBSET Nat /\ IsFiniteSet(Kept)
  BY <1>2, KeptFacts
<1>4. /\ IsInstance(D) /\ D.T = Horizon /\ D.clusters = <<>> /\ D.assets = Kept
      /\ D.deadline \in [Kept -> Span \cup {None}]
      /\ \A a \in Kept : D.earliest[a] \in Span /\ D.deadline[a] \in Span \cup {None}
  BY <1>2, <1>3, DraftFacts
<1> HIDE DEF D
<1>5. /\ inst' = D /\ edges' = Edges(D.assets, lines) /\ asked' = D.deadline
      /\ pc' = "pass" /\ pass' = 0 /\ pos' = 1 /\ changed' = FALSE
  BY <1>1 DEF Receive, D
<1>6. edges' \in Seq(Kept \X Kept)
  BY <1>3, <1>4, <1>5, EdgesFacts
<1>7. Kept' = Kept /\ Resolved' /\ UNCHANGED resolverVars
  BY <1>2 DEF Kept, Known, Resolved, resolverVars
<1>8. /\ IsInstance(inst') /\ inst'.T = Horizon /\ inst'.clusters = <<>>
      /\ inst'.assets = Kept' /\ Resolved' /\ policy' \in Policies
  BY <1>2, <1>4, <1>5, <1>7
<1>9. /\ edges' \in Seq(inst'.assets \X inst'.assets)
      /\ asked' \in [inst'.assets -> Span \cup {None}]
  BY <1>4, <1>5, <1>6
<1>10. \A a \in inst'.assets : /\ inst'.earliest[a] \in Span
                               /\ inst'.deadline[a] \in Span \cup {None}
  BY <1>4, <1>5
<1>11. EstateOK'
  <2>1. pos' \in Nat \ {0} /\ pass' \in Nat
    BY <1>5
  <2> QED
    BY <1>8, <1>9, <1>10, <2>1, Zenon DEF EstateOK
<1>12. asked' = inst'.deadline
  BY <1>5
<1> QED
  BY <1>5, <1>7, <1>11, <1>12

\* An edge that tightens rewrites one deadline.
LEMMA RelaxFacts ==
  ASSUME EstateOK, RelaxEdge
  PROVE  LET j == edges[pos][1]
             i == edges[pos][2]
         IN  /\ pos \in DOMAIN edges /\ i \in inst.assets /\ j \in inst.assets
             /\ edges[pos] = <<j, i>>
             /\ \/ /\ Tightens(j, i) /\ changed'
                   /\ inst'.deadline[j] = inst.deadline[i]
                   /\ \A a \in inst.assets \ {j} : inst'.deadline[a] = inst.deadline[a]
                \/ ~Tightens(j, i) /\ inst' = inst /\ changed' = changed
             /\ IsInstance(inst')
             /\ inst'.assets = inst.assets /\ inst'.T = inst.T
             /\ inst'.clusters = inst.clusters /\ inst'.earliest = inst.earliest
             /\ \A a \in inst.assets : inst'.deadline[a] \in Span \cup {None}
<1> DEFINE j == edges[pos][1]
           i == edges[pos][2]
           d == [inst.deadline EXCEPT ![j] = inst.deadline[i]]
<1>1. pos \in DOMAIN edges /\ edges[pos] \in inst.assets \X inst.assets
  BY DEF EstateOK, RelaxEdge
<1>2. i \in inst.assets /\ j \in inst.assets /\ edges[pos] = <<j, i>>
  BY <1>1
<1>3. inst.deadline \in [inst.assets -> Int \cup {None}]
  BY DEF EstateOK, IsInstance
<1>4. CASE Tightens(j, i)
  <2>1. inst' = [inst EXCEPT !.deadline[j] = inst.deadline[i]] /\ changed'
    BY <1>4 DEF RelaxEdge
  <2>2. inst' = [inst EXCEPT !.deadline = d]
    BY <2>1
  <2>3. d \in [inst.assets -> Int \cup {None}] /\ d[j] = inst.deadline[i]
        /\ \A a \in inst.assets \ {j} : d[a] = inst.deadline[a]
    BY <1>2, <1>3
  <2> HIDE DEF d, i, j
  <2>4. /\ IsInstance(inst') /\ inst'.deadline = d
        /\ inst'.assets = inst.assets /\ inst'.T = inst.T
        /\ inst'.clusters = inst.clusters /\ inst'.earliest = inst.earliest
    BY <2>2, <2>3, WithDeadline DEF EstateOK
  <2>5. \A a \in inst.assets : inst'.deadline[a] \in Span \cup {None}
    BY <1>2, <2>3, <2>4 DEF EstateOK
  <2> QED
    BY <1>1, <1>2, <1>4, <2>1, <2>3, <2>4, <2>5 DEF i, j
<1>5. CASE ~Tightens(j, i)
  <2>1. inst' = inst /\ changed' = changed
    BY <1>5 DEF RelaxEdge
  <2> QED
    BY <1>1, <1>2, <1>5, <2>1 DEF EstateOK
<1> QED
  BY <1>4, <1>5

LEMMA DropFacts ==
  ASSUME EstateOK, DropImpossible
  PROVE  /\ IsInstance(inst')
         /\ inst'.assets = inst.assets /\ inst'.T = inst.T
         /\ inst'.clusters = inst.clusters /\ inst'.earliest = inst.earliest
         /\ \A a \in inst.assets :
              inst'.deadline[a] = IF Impossible(a) THEN None ELSE inst.deadline[a]
<1> DEFINE d == [a \in inst.assets |-> IF Impossible(a) THEN None ELSE inst.deadline[a]]
<1>1. inst.deadline \in [inst.assets -> Int \cup {None}]
  BY DEF EstateOK, IsInstance
<1>2. d \in [inst.assets -> Int \cup {None}]
  BY <1>1
<1>3. inst' = [inst EXCEPT !.deadline = d]
  BY DEF DropImpossible
<1>4. \A a \in inst.assets : d[a] = IF Impossible(a) THEN None ELSE inst.deadline[a]
  OBVIOUS
<1> HIDE DEF d
<1> QED
  BY <1>2, <1>3, <1>4, WithDeadline DEF EstateOK

LEMMA BudgetFacts ==
  ASSUME EstateOK, SizeBudget
  PROVE  /\ IsInstance(inst')
         /\ inst'.assets = inst.assets /\ inst'.T = inst.T
         /\ inst'.clusters = inst.clusters /\ inst'.earliest = inst.earliest
         /\ inst'.deadline = inst.deadline /\ inst'.cost = inst.cost
         /\ inst'.deps = ToSet(edges)
         /\ policy.tightness[1] >= policy.tightness[2] =>
              \A p \in Periods(inst) :
                CostOf(inst.cost, {a \in inst.assets : Alap[a] = p}) <= inst'.budget[p]
<1> DEFINE num == policy.tightness[1]
           den == policy.tightness[2]
           need == num * Peak + den - 1
           size == Max({policy.floor, need \div den})
           Load(p) == CostOf(inst.cost, {a \in inst.assets : Alap[a] = p})
           Loads == {Load(p) : p \in Periods(inst)}
           b == [p \in Periods(inst) |-> size]
           total == CostOf(inst.cost, inst.assets)
<1>1. /\ num \in Nat \ {0} /\ den \in Nat \ {0} /\ policy.floor \in Nat
  BY PolicyAssumption DEF EstateOK
<1>2. IsInstance(inst) /\ inst.T \in Nat \ {0}
  BY DEF EstateOK, IsInstance
<1>3. \A p : Load(p) \in Nat /\ Load(p) <= total /\ total \in Nat
  BY <1>2, CostNat, CostSubset
<1>4. /\ Peak = Max(Loads) /\ Loads # {} /\ total \in Nat
      /\ Loads \in SUBSET (0 .. total)
  <2>1. 0 \in Periods(inst)
    BY <1>2 DEF Periods
  <2>2. Loads # {}
    BY <2>1
  <2>3. Peak = Max(Loads)
    BY DEF Peak
  <2> HIDE DEF Load, total
  <2> QED
    BY <1>3, <2>2, <2>3
<1> HIDE DEF Load, total
<1>5. Peak \in Nat /\ \A p \in Periods(inst) : Load(p) <= Peak
  <2>1. Max(Loads) \in Loads /\ \A x \in Loads : x <= Max(Loads)
    <3> HIDE DEF Loads
    <3> QED
      BY <1>4, GreatestUpTo
  <2> QED
    BY <1>3, <1>4, <2>1
<1> HIDE DEF Loads, num, den
<1>6. need \in Nat
  BY <1>1, <1>5
<1>7. need \div den \in Int /\ need \div den >= 0
  <2> HIDE DEF need
  <2> QED
    BY <1>1, <1>6, DivBetween
<1>8. size \in Nat /\ size >= need \div den
  <2> DEFINE q == need \div den
  <2>1. q \in Int /\ q >= 0 /\ policy.floor \in Int
    BY <1>1, <1>7
  <2> HIDE DEF q
  <2>2. Max({policy.floor, q}) \in {policy.floor, q} /\ Max({policy.floor, q}) >= q
    BY <2>1, MaxOfTwo
  <2> QED
    BY <1>1, <2>1, <2>2 DEF q
<1>9. ASSUME num >= den PROVE size >= Peak
  <2>1. PICK k \in Nat : num = den + k
    <3>1. num - den \in Nat /\ num = den + (num - den)
      BY <1>1, <1>9
    <3> QED
      BY <3>1
  <2>2. k * Peak \in Nat /\ num * Peak = Peak * den + k * Peak
    BY <1>1, <1>5, <2>1
  <2>3. need >= Peak * den
    BY <1>1, <1>5, <2>2
  <2>4. need \div den >= Peak
    <3>1. need \in Int /\ Peak \in Int
      BY <1>5, <1>6
    <3> HIDE DEF need
    <3> QED
      BY <1>1, <2>3, <3>1, DivBetween
  <2> QED
    BY <1>5, <1>7, <1>8, <2>4
<1> HIDE DEF size
<1>10. inst' = [inst EXCEPT !.budget = b, !.deps = ToSet(edges)]
  BY DEF SizeBudget, size, num, den
<1>11. ToSet(edges) \in SUBSET (inst.assets \X inst.assets)
  BY DEF EstateOK, ToSet
<1>12. b \in [Periods(inst) -> Nat] /\ \A p \in Periods(inst) : b[p] = size
  BY <1>8
<1> HIDE DEF b
<1>13. /\ IsInstance(inst') /\ inst'.budget = b /\ inst'.deps = ToSet(edges)
       /\ inst'.assets = inst.assets /\ inst'.T = inst.T
       /\ inst'.clusters = inst.clusters /\ inst'.earliest = inst.earliest
       /\ inst'.cost = inst.cost /\ inst'.deadline = inst.deadline
  <2>1. DOMAIN inst = InstanceFields
    BY <1>2 DEF IsInstance
  <2>2. /\ DOMAIN inst' = InstanceFields /\ inst'.budget = b /\ inst'.deps = ToSet(edges)
        /\ inst'.assets = inst.assets /\ inst'.T = inst.T
        /\ inst'.clusters = inst.clusters /\ inst'.earliest = inst.earliest
        /\ inst'.cost = inst.cost /\ inst'.deadline = inst.deadline
        /\ inst'.crit = inst.crit /\ inst'.shelf = inst.shelf
        /\ inst'.crqc = inst.crqc /\ inst'.rm = inst.rm
    BY <1>10, <2>1 DEF InstanceFields
  <2>3. Periods(inst') = Periods(inst)
    BY <2>2 DEF Periods
  <2>4. IsInstance(inst')
    BY <1>2, <1>11, <1>12, <2>2, <2>3 DEF IsInstance
  <2> QED
    BY <2>2, <2>4
<1>14. ASSUME num >= den, NEW p \in Periods(inst) PROVE Load(p) <= inst'.budget[p]
  <2>1. inst'.budget[p] = size
    BY <1>12, <1>13
  <2> QED
    BY <1>3, <1>5, <1>8, <1>9, <1>14, <2>1
<1> QED
  BY <1>13, <1>14 DEF num, den, Load

-----------------------------------------------------------------------------
(* The relaxation.                                                         *)

\* x is a mandate at least as tight as y
AtMost(x, y) == y # None => x # None /\ x <= y

Mandates == Span \cup {None}

\* (None is no mandate at all, which every mandate is as tight as)
LEMMA AtMostTrans ==
  ASSUME NEW x \in Mandates, NEW y \in Mandates, NEW z \in Mandates,
         AtMost(x, y), AtMost(y, z)
  PROVE  AtMost(x, z)
BY NoneAssumption, PolicyAssumption DEF Mandates, AtMost, Span

\* a walk of k steps along the edges, some of which may stay
Walk(E, p, k) == \A m \in 0 .. k - 1 : p[m + 1] = p[m] \/ <<p[m], p[m + 1]>> \in E

Walks(A, E, k, a, i) ==
  {p \in [0 .. k -> A] : p[0] = a /\ p[k] = i /\ Walk(E, p, k)}

Within(A, E, k, a) == {i \in A : Walks(A, E, k, a, i) # {}}

\* No step at all reaches a only; the first and the last step of a walk.
LEMMA WithinNone ==
  ASSUME NEW A, NEW E, NEW a \in A, NEW k \in Nat
  PROVE  a \in Within(A, E, k, a) /\ Within(A, E, 0, a) \subseteq {a}
<1>1. [m \in 0 .. k |-> a] \in Walks(A, E, k, a, a)
  BY DEF Walks, Walk
<1>2. Within(A, E, 0, a) \subseteq {a}
  BY DEF Within, Walks
<1> QED
  BY <1>1, <1>2 DEF Within

LEMMA WithinFirst ==
  ASSUME NEW A, NEW E, NEW a \in A, NEW k \in Nat, NEW i \in Within(A, E, k + 1, a),
         i \notin Within(A, E, k, a)
  PROVE  \E x \in A : <<a, x>> \in E /\ i \in Within(A, E, k, x)
<1>1. PICK p \in [0 .. k + 1 -> A] : p[0] = a /\ p[k + 1] = i /\ Walk(E, p, k + 1)
  BY DEF Within, Walks
<1> DEFINE q == [m \in 0 .. k |-> p[m + 1]]
           x == p[1]
<1>2. x \in A /\ i \in A /\ q \in [0 .. k -> A]
  BY <1>1
<1>3. q[0] = x /\ q[k] = i
  BY <1>1
<1>4. ASSUME NEW m \in 0 .. k - 1
      PROVE  q[m + 1] = q[m] \/ <<q[m], q[m + 1]>> \in E
  <2>1. m + 1 \in 0 .. (k + 1) - 1 /\ m \in 0 .. k /\ m + 1 \in 0 .. k
    OBVIOUS
  <2>2. p[m + 1 + 1] = p[m + 1] \/ <<p[m + 1], p[m + 1 + 1]>> \in E
    BY <1>1, <2>1 DEF Walk
  <2> QED
    BY <2>1, <2>2
<1>5. q \in Walks(A, E, k, x, i)
  BY <1>2, <1>3, <1>4 DEF Walks, Walk
<1>6. i \in Within(A, E, k, x)
  BY <1>2, <1>5 DEF Within
<1>7. p[1] = p[0] \/ <<p[0], p[1]>> \in E
  <2>1. 0 \in 0 .. (k + 1) - 1 /\ 0 + 1 = 1
    OBVIOUS
  <2> QED
    BY <1>1, <2>1 DEF Walk
<1>8. <<a, x>> \in E
  BY <1>1, <1>6, <1>7
<1> QED
  BY <1>2, <1>6, <1>8

LEMMA WithinNext ==
  ASSUME NEW A, NEW E, NEW a \in A, NEW k \in Nat, NEW i \in Within(A, E, k, a),
         NEW b \in A, b = i \/ <<i, b>> \in E
  PROVE  b \in Within(A, E, k + 1, a)
<1>1. PICK p \in [0 .. k -> A] : p[0] = a /\ p[k] = i /\ Walk(E, p, k)
  BY DEF Within, Walks
<1> DEFINE q == [m \in 0 .. k + 1 |-> IF m = k + 1 THEN b ELSE p[m]]
<1>2. q \in [0 .. k + 1 -> A]
  BY <1>1
<1>3. q[0] = a /\ q[k + 1] = b
  BY <1>1
<1>4. ASSUME NEW m \in 0 .. (k + 1) - 1
      PROVE  q[m + 1] = q[m] \/ <<q[m], q[m + 1]>> \in E
  <2>1. CASE m = k
    <3>1. q[m] = i /\ q[m + 1] = b
      BY <1>1, <2>1
    <3> QED
      BY <3>1
  <2>2. CASE m # k
    <3>1. m \in 0 .. k - 1 /\ m \in 0 .. k + 1 /\ m + 1 \in 0 .. k + 1 /\ m + 1 # k + 1 /\ m # k + 1
      BY <2>2
    <3>2. q[m] = p[m] /\ q[m + 1] = p[m + 1]
      BY <3>1
    <3>3. p[m + 1] = p[m] \/ <<p[m], p[m + 1]>> \in E
      BY <1>1, <3>1 DEF Walk
    <3> HIDE DEF q
    <3> QED
      BY <3>2, <3>3
  <2> QED
    BY <2>1, <2>2
<1>5. q \in Walks(A, E, k + 1, a, b)
  <2> HIDE DEF q
  <2> QED
    BY <1>2, <1>3, <1>4 DEF Walks, Walk
<1> QED
  BY <1>5 DEF Within

\* As many passes as there are assets reach every dependent.
LEMMA WithinAll ==
  ASSUME NEW A, IsFiniteSet(A), NEW E \in SUBSET (A \X A), NEW a \in A,
         NEW C, IsClosure(C, A, E, a), NEW k \in Nat, k >= Cardinality(A)
  PROVE  C \subseteq Within(A, E, k, a)
<1> DEFINE W(m) == Within(A, E, m, a)
           Good == {m \in Nat : C \subseteq W(m) \/ Cardinality(W(m)) > m}
<1>1. ASSUME NEW m \in Nat
      PROVE  /\ W(m) \in SUBSET A /\ IsFiniteSet(W(m)) /\ Cardinality(W(m)) \in Nat
             /\ Cardinality(W(m)) <= Cardinality(A)
             /\ a \in W(m) /\ W(m) \subseteq W(m + 1)
  <2>1. W(m) \in SUBSET A
    BY DEF Within
  <2>2. a \in W(m)
    BY WithinNone
  <2>3. W(m) \subseteq W(m + 1)
    BY <2>1, WithinNext
  <2>4. IsFiniteSet(W(m)) /\ Cardinality(W(m)) <= Cardinality(A)
    BY <2>1, FS_Subset
  <2> QED
    BY <2>1, <2>2, <2>3, <2>4, FS_CardinalityType
<1>2. 0 \in Good
  <2>1. W(0) = {a}
    BY <1>1, WithinNone
  <2>2. Cardinality({a}) = 1
    BY FS_Singleton
  <2> QED
    BY <2>1, <2>2
<1>3. ASSUME NEW m \in Nat, m \in Good PROVE m + 1 \in Good
  <2>1. W(m) \subseteq W(m + 1) /\ W(m + 1) \in SUBSET A
        /\ IsFiniteSet(W(m + 1)) /\ Cardinality(W(m + 1)) \in Nat
        /\ W(m) \in SUBSET A /\ a \in W(m) /\ Cardinality(W(m)) \in Nat
    BY <1>1
  <2>2. CASE C \subseteq W(m)
    BY <2>1, <2>2
  <2>3. CASE ~(C \subseteq W(m))
    <3>1. ~Shut(E, W(m))
      BY <2>1, <2>3 DEF IsClosure
    <3>2. PICK i \in W(m) : \E b : <<i, b>> \in E /\ b \notin W(m)
      BY <3>1 DEF Shut
    <3>3. PICK b : <<i, b>> \in E /\ b \notin W(m)
      BY <3>2
    <3>4. b \in W(m + 1)
      <4>1. b \in A
        BY <3>3
      <4> QED
        BY <3>3, <4>1, WithinNext
    <3>5. W(m) # W(m + 1)
      BY <3>3, <3>4
    <3> HIDE DEF W
    <3>6. Cardinality(W(m)) <= Cardinality(W(m + 1)) /\ Cardinality(W(m)) # Cardinality(W(m + 1))
      BY <2>1, <3>5, FS_Subset
    <3>7. Cardinality(W(m)) > m
      BY <1>3, <2>3
    <3>8. Cardinality(W(m + 1)) > m + 1
      BY <2>1, <3>6, <3>7
    <3> QED
      BY <3>8
  <2> QED
    BY <2>2, <2>3
<1>4. k \in Good
  <2> HIDE DEF Good
  <2> QED
    BY <1>2, <1>3, NatStep
<1>5. Cardinality(A) \in Nat /\ Cardinality(W(k)) \in Nat
      /\ Cardinality(W(k)) <= Cardinality(A)
  BY <1>1, FS_CardinalityType
<1> QED
  BY <1>4, <1>5

\* Tightest, as a function of the assets, the edges and the mandates asked for
TightestIn(A, E, d, a) ==
  LET ds == {d[i] : i \in {x \in DependentsIn(A, E, a) : d[x] # None}}
  IN  IF ds = {} THEN None ELSE Min(ds)

LEMMA Unfolded ==
  ASSUME NEW a
  PROVE  /\ Dependents(a) = DependentsIn(inst.assets, ToSet(edges), a)
         /\ Dependents(a)' = DependentsIn(inst'.assets, ToSet(edges'), a)
         /\ Tightest(a) = TightestIn(inst.assets, ToSet(edges), asked, a)
         /\ Tightest(a)' = TightestIn(inst'.assets, ToSet(edges'), asked', a)
<1>1. /\ Dependents(a) = DependentsIn(inst.assets, ToSet(edges), a)
      /\ Dependents(a)' = DependentsIn(inst'.assets, ToSet(edges'), a)
  BY DEF Dependents, DependentsIn, FoldSet, MapThenFoldSet
<1> QED
  BY <1>1 DEF Tightest, TightestIn

\* x is d of some dependent of a, or no mandate.
Drawn(x, A, E, d, a) == x = None \/ \E i \in DependentsIn(A, E, a) : d[i] = x

\* What requires i requires what i requires.
LEMMA DependentsOrder ==
  ASSUME NEW A, IsFiniteSet(A), NEW E \in SUBSET (A \X A), NEW j, NEW i, <<j, i>> \in E
  PROVE  DependentsIn(A, E, i) \subseteq DependentsIn(A, E, j)
<1>1. i \in A /\ j \in A
  OBVIOUS
<1>2. IsClosure(DependentsIn(A, E, i), A, E, i) /\ IsClosure(DependentsIn(A, E, j), A, E, j)
  BY <1>1, DependentsFacts
<1>3. i \in DependentsIn(A, E, j)
  BY <1>2 DEF IsClosure, Shut
<1> QED
  BY <1>2, <1>3 DEF IsClosure

\* The tightest mandate is the only one that is asked by some dependent and
\* at most that of any.
LEMMA TightestFacts ==
  ASSUME NEW A, IsFiniteSet(A), NEW E \in SUBSET (A \X A), NEW d \in [A -> Mandates],
         NEW a \in A
  PROVE  /\ TightestIn(A, E, d, a) \in Mandates
         /\ Drawn(TightestIn(A, E, d, a), A, E, d, a)
         /\ \A i \in DependentsIn(A, E, a) : AtMost(TightestIn(A, E, d, a), d[i])
         /\ \A x \in Mandates :
              Drawn(x, A, E, d, a) /\ (\A i \in DependentsIn(A, E, a) : AtMost(x, d[i]))
                => x = TightestIn(A, E, d, a)
<1> DEFINE Dep == DependentsIn(A, E, a)
           ds == {d[i] : i \in {x \in Dep : d[x] # None}}
           t == TightestIn(A, E, d, a)
<1>1. Dep \subseteq A
  BY DependentsFacts DEF IsClosure
<1>2. t = IF ds = {} THEN None ELSE Min(ds)
  BY DEF TightestIn
<1>3. \A x \in Span : x \in Nat
  BY PolicyAssumption DEF Span
<1>4. ds \subseteq Span
  BY <1>1 DEF Mandates
<1>5. \A i \in Dep : d[i] # None => d[i] \in ds
  OBVIOUS
<1>6. \A x \in ds : x # None /\ \E i \in Dep : d[i] = x
  OBVIOUS
<1>7. None \notin Span
  BY NoneAssumption, PolicyAssumption DEF Span
<1>8. \A i \in Dep : d[i] \in Mandates
  BY <1>1
<1> HIDE DEF ds, t, Dep
<1>9. CASE ds = {}
  <2>1. t = None /\ \A i \in Dep : d[i] = None
    BY <1>2, <1>5, <1>9
  <2> QED
    BY <2>1 DEF Mandates, Drawn, AtMost, t, Dep
<1>10. CASE ds # {}
  <2>1. t \in ds /\ \A x \in ds : t <= x
    <3>1. ds \in SUBSET Nat
      BY <1>3, <1>4
    <3> QED
      BY <1>2, <1>10, <3>1, LeastNat
  <2>2. t \in Mandates /\ t # None /\ \E i \in Dep : d[i] = t
    BY <1>4, <1>6, <2>1 DEF Mandates
  <2>3. \A i \in Dep : AtMost(t, d[i])
    BY <1>5, <2>1, <2>2 DEF AtMost
  <2>4. ASSUME NEW x \in Mandates, Drawn(x, A, E, d, a), \A i \in Dep : AtMost(x, d[i])
        PROVE  x = t
    <3>1. PICK i \in Dep : d[i] = t
      BY <2>2
    <3>2. x # None /\ x <= t
      BY <2>2, <2>4, <3>1 DEF AtMost
    <3>3. PICK k \in Dep : d[k] = x
      BY <2>4, <3>2 DEF Drawn, Dep
    <3>4. t <= x
      BY <1>5, <2>1, <3>2, <3>3
    <3>5. x \in Nat /\ t \in Nat
      BY <1>3, <1>4, <2>1, <2>2, <3>2 DEF Mandates
    <3> QED
      BY <3>2, <3>4, <3>5
  <2> QED
    BY <2>2, <2>3, <2>4 DEF Drawn, Dep, t
<1> QED
  BY <1>9, <1>10

\* A prerequisite's is at most that of what requires it.
LEMMA TightestOrder ==
  ASSUME NEW A, IsFiniteSet(A), NEW E \in SUBSET (A \X A), NEW d \in [A -> Mandates],
         NEW j, NEW i, <<j, i>> \in E
  PROVE  AtMost(TightestIn(A, E, d, j), TightestIn(A, E, d, i))
<1>1. i \in A /\ j \in A
  OBVIOUS
<1> DEFINE t(a) == TightestIn(A, E, d, a)
<1>2. /\ Drawn(t(i), A, E, d, i) /\ t(i) \in Mandates
      /\ \A k \in DependentsIn(A, E, j) : AtMost(t(j), d[k])
  BY <1>1, TightestFacts
<1>3. DependentsIn(A, E, i) \subseteq DependentsIn(A, E, j)
  BY DependentsOrder
<1> HIDE DEF t
<1>4. AtMost(t(j), t(i))
  BY <1>2, <1>3 DEF Drawn, AtMost
<1> QED
  BY <1>4 DEF t

-----------------------------------------------------------------------------
(* The reconciliation, step by step.                                       *)

\* x is at most the mandates of all of W.
Bound(x, d, W) == \A i \in W : AtMost(x, d[i])

\* the dependents of a at most k edges away
Near(k, a) == Within(inst.assets, ToSet(edges), k, a)

\* While the edges are visited: every deadline is one that a dependent asked
\* for, at most the asset's own, and at most those of the dependents as many
\* edges away as passes are over; across an edge visited in this pass, one
\* more.  Unless the pass has changed something, it is at most the deadline
\* across that edge.
Lowered ==
  /\ \A a \in inst.assets :
       /\ AtMost(inst.deadline[a], asked[a])
       /\ Drawn(inst.deadline[a], inst.assets, ToSet(edges), asked, a)
       /\ Bound(inst.deadline[a], asked, Near(pass, a))
  /\ \A q \in 1 .. pos - 1 :
       /\ q \in DOMAIN edges
       /\ Bound(inst.deadline[edges[q][1]], asked, Near(pass, edges[q][2]))
       /\ ~changed => AtMost(inst.deadline[edges[q][1]], inst.deadline[edges[q][2]])

\* What is left of the tightest mandate.
Remains(a) ==
  LET t == TightestIn(inst.assets, ToSet(edges), asked, a)
  IN  IF t # None /\ t < inst.earliest[a] THEN None ELSE t

\* What the reconciliation has reached at each of its stages.
RInv ==
  /\ pc = "pass" => Lowered
  /\ pc = "drop" => \A a \in inst.assets :
       inst.deadline[a] = TightestIn(inst.assets, ToSet(edges), asked, a)
  /\ pc \in {"budget", "done"} => \A a \in inst.assets : inst.deadline[a] = Remains(a)
  /\ pc = "done" =>
       /\ inst.deps = ToSet(edges)
       /\ policy.tightness[1] >= policy.tightness[2] =>
            \A p \in Periods(inst) :
              CostOf(inst.cost, {a \in inst.assets : Alap[a] = p}) <= inst.budget[p]

\* A step that rewrites deadlines and budget only.
LEMMA StepKeeps ==
  ASSUME EstateOK, UNCHANGED <<policy, edges, asked>>, UNCHANGED resolverVars,
         IsInstance(inst'), inst'.assets = inst.assets, inst'.T = inst.T,
         inst'.clusters = inst.clusters, inst'.earliest = inst.earliest,
         \A a \in inst.assets : inst'.deadline[a] \in Span \cup {None},
         pos' \in Nat \ {0}, pass' \in Nat
  PROVE  EstateOK'
<1>1. Kept' = Kept /\ Resolved'
  BY DEF Kept, Known, Resolved, resolverVars, EstateOK
<1>2. /\ IsInstance(inst') /\ inst'.T = Horizon /\ inst'.clusters = <<>>
      /\ inst'.assets = Kept' /\ policy' \in Policies
      /\ edges' \in Seq(inst'.assets \X inst'.assets)
      /\ asked' \in [inst'.assets -> Span \cup {None}]
  BY <1>1 DEF EstateOK
<1>3. \A a \in inst'.assets : /\ inst'.earliest[a] \in Span
                              /\ inst'.deadline[a] \in Span \cup {None}
  BY DEF EstateOK
<1> QED
  BY <1>1, <1>2, <1>3 DEF EstateOK

LEMMA EstateFacts ==
  ASSUME EstateOK
  PROVE  /\ IsFiniteSet(inst.assets) /\ ToSet(edges) \in SUBSET (inst.assets \X inst.assets)
         /\ asked \in [inst.assets -> Mandates]
         /\ \A a \in inst.assets : inst.deadline[a] \in Mandates /\ asked[a] \in Mandates
         /\ \A q \in DOMAIN edges :
              /\ edges[q][1] \in inst.assets /\ edges[q][2] \in inst.assets
              /\ <<edges[q][1], edges[q][2]>> \in ToSet(edges)
         /\ \A e \in ToSet(edges) : \E q \in DOMAIN edges : e = edges[q]
         /\ pos \in Nat \ {0} /\ pass \in Nat
<1>1. IsFiniteSet(inst.assets) /\ asked \in [inst.assets -> Mandates]
  BY DEF EstateOK, IsInstance, Mandates
<1>2. \A q \in DOMAIN edges : edges[q] \in inst.assets \X inst.assets
  BY DEF EstateOK
<1> QED
  BY <1>1, <1>2 DEF EstateOK, Mandates, ToSet

\* One edge: deadlines move down only, and j's to at most i's.
LEMMA RelaxKeeps ==
  ASSUME EstateOK, Lowered, RelaxEdge, UNCHANGED resolverVars
  PROVE  EstateOK' /\ Lowered'
<1> DEFINE A == inst.assets
           E == ToSet(edges)
           D == inst.deadline
           j == edges[pos][1]
           i == edges[pos][2]
<1>1. /\ pos \in DOMAIN edges /\ i \in A /\ j \in A /\ edges[pos] = <<j, i>>
      /\ \/ /\ Tightens(j, i) /\ changed'
            /\ inst'.deadline[j] = D[i]
            /\ \A a \in A \ {j} : inst'.deadline[a] = D[a]
         \/ ~Tightens(j, i) /\ inst' = inst /\ changed' = changed
      /\ IsInstance(inst')
      /\ inst'.assets = A /\ inst'.T = inst.T
      /\ inst'.clusters = inst.clusters /\ inst'.earliest = inst.earliest
      /\ \A a \in A : inst'.deadline[a] \in Span \cup {None}
  BY RelaxFacts
<1>2. /\ pc' = pc /\ pass' = pass /\ pos' = pos + 1
      /\ UNCHANGED <<policy, edges, asked>> /\ pos \in Nat \ {0} /\ pass \in Nat
  BY DEF RelaxEdge, EstateOK
<1>3. EstateOK'
  <2>1. pos' \in Nat \ {0} /\ pass' \in Nat
    BY <1>2
  <2> QED
    BY <1>1, <1>2, <2>1, StepKeeps
<1>4. /\ IsFiniteSet(A) /\ E \in SUBSET (A \X A) /\ asked \in [A -> Mandates]
      /\ \A a \in A : D[a] \in Mandates /\ asked[a] \in Mandates
      /\ \A q \in DOMAIN edges : edges[q][1] \in A /\ edges[q][2] \in A
      /\ <<j, i>> \in E
  BY <1>1, EstateFacts
<1>5. \A a \in A : inst'.deadline[a] \in Mandates
  BY <1>1 DEF Mandates
\* only downwards, and j below i
<1>6. /\ \A a \in A : AtMost(inst'.deadline[a], D[a])
      /\ AtMost(inst'.deadline[j], D[i])
      /\ inst'.deadline[j] \in {D[j], D[i]}
      /\ \A a \in A \ {j} : inst'.deadline[a] = D[a]
      /\ ~changed' => ~changed /\ \A a \in A : inst'.deadline[a] = D[a]
  <2>1. \A x \in Mandates : x # None => x \in Int
    BY PolicyAssumption DEF Mandates, Span
  <2>2. \A a \in A : AtMost(D[a], D[a])
    BY <1>4, <2>1 DEF AtMost
  <2>3. D[i] \in Mandates /\ D[j] \in Mandates
    BY <1>1, <1>4
  <2>4. CASE Tightens(j, i)
    <3>1. /\ inst'.deadline[j] = D[i] /\ changed'
          /\ \A a \in A \ {j} : inst'.deadline[a] = D[a]
      BY <1>1, <2>4
    <3>2. AtMost(D[i], D[j])
      BY <2>1, <2>3, <2>4 DEF Tightens, AtMost
    <3> HIDE DEF i, j, D
    <3> QED
      BY <1>1, <2>2, <3>1, <3>2
  <2>5. CASE ~Tightens(j, i)
    <3>1. inst' = inst /\ changed' = changed
      BY <1>1, <2>5
    <3>2. AtMost(D[j], D[i])
      BY <2>1, <2>3, <2>5 DEF Tightens, AtMost
    <3> QED
      BY <1>1, <2>2, <3>1, <3>2
  <2> QED
    BY <2>4, <2>5
<1> DEFINE D1 == inst'.deadline
<1>7. /\ inst'.assets = A /\ ToSet(edges') = E /\ asked' = asked /\ edges' = edges
  BY <1>1, <1>2
<1>8. \A k, a : Near(k, a) \subseteq A
  BY DEF Near, Within
<1>9. ASSUME NEW x \in Mandates, NEW y \in Mandates, NEW k, NEW a,
             AtMost(x, y), Bound(y, asked, Near(k, a))
      PROVE  Bound(x, asked, Near(k, a))
  BY <1>4, <1>8, <1>9, AtMostTrans DEF Bound
<1>10. ASSUME NEW a \in A
       PROVE  /\ AtMost(D1[a], asked[a])
              /\ Drawn(D1[a], A, E, asked, a)
              /\ Bound(D1[a], asked, Near(pass, a))
  <2>1. /\ AtMost(D[a], asked[a]) /\ Drawn(D[a], A, E, asked, a)
        /\ Bound(D[a], asked, Near(pass, a))
    BY DEF Lowered
  <2>2. AtMost(D1[a], D[a]) /\ D1[a] \in Mandates /\ D[a] \in Mandates /\ asked[a] \in Mandates
    BY <1>4, <1>5, <1>6
  <2>3. Drawn(D1[a], A, E, asked, a)
    <3>1. CASE D1[a] = D[a]
      BY <2>1, <3>1
    <3>2. CASE a = j /\ D1[a] = D[i]
      <4>1. Drawn(D[i], A, E, asked, i)
        BY <1>1 DEF Lowered
      <4>2. DependentsIn(A, E, i) \subseteq DependentsIn(A, E, j)
        BY <1>4, DependentsOrder
      <4> HIDE DEF i, j, D, D1, A, E
      <4> QED
        BY <3>2, <4>1, <4>2 DEF Drawn
    <3> QED
      BY <1>6, <3>1, <3>2
  <2> HIDE DEF D, D1, A, E
  <2> QED
    BY <1>9, <2>1, <2>2, <2>3, AtMostTrans
<1>11. ASSUME NEW q \in 1 .. pos' - 1
       PROVE  /\ q \in DOMAIN edges
              /\ Bound(D1[edges[q][1]], asked, Near(pass, edges[q][2]))
              /\ ~changed' => AtMost(D1[edges[q][1]], D1[edges[q][2]])
  <2>1. CASE q = pos
    <3>1. Bound(D[i], asked, Near(pass, i))
      BY <1>1 DEF Lowered
    <3>2. D1[j] \in Mandates /\ D[i] \in Mandates /\ AtMost(D1[j], D[i])
      BY <1>1, <1>4, <1>5, <1>6
    <3>3. Bound(D1[j], asked, Near(pass, i))
      <4> HIDE DEF D, D1, i, j
      <4> QED
        BY <1>9, <3>1, <3>2
    <3>4. ~changed' => AtMost(D1[j], D1[i])
      BY <1>1, <1>6
    <3> QED
      BY <1>1, <2>1, <3>3, <3>4
  <2>2. CASE q # pos
    <3>1. q \in 1 .. pos - 1
      BY <1>2, <2>2
    <3> DEFINE b == edges[q][1]
               c == edges[q][2]
    <3>2. /\ q \in DOMAIN edges
          /\ Bound(D[b], asked, Near(pass, c))
          /\ ~changed => AtMost(D[b], D[c])
      BY <3>1 DEF Lowered
    <3>3. b \in A /\ c \in A
      BY <1>4, <3>2
    <3> HIDE DEF b, c
    <3>4. D1[b] \in Mandates /\ D[b] \in Mandates /\ AtMost(D1[b], D[b])
          /\ (~changed' => ~changed /\ D1[b] = D[b] /\ D1[c] = D[c])
      BY <1>4, <1>5, <1>6, <3>3
    <3> HIDE DEF D, D1
    <3>5. Bound(D1[b], asked, Near(pass, c))
      BY <1>9, <3>2, <3>4
    <3> QED
      BY <3>2, <3>4, <3>5 DEF b, c
  <2> QED
    BY <2>1, <2>2
<1>12. Lowered'
  BY <1>2, <1>7, <1>10, <1>11 DEF Lowered, Near
<1> QED
  BY <1>3, <1>12

\* Before the first pass every asset has the deadline it asked for.
LEMMA ConvertStarts ==
  ASSUME IInv, VInv, EInv, Convert
  PROVE  EstateOK' /\ Lowered' /\ pc' = "pass" /\ UNCHANGED resolverVars
<1>1. EstateOK' /\ pc' = "pass" /\ asked' = inst'.deadline /\ pos' = 1 /\ pass' = 0
      /\ UNCHANGED resolverVars
  BY ConvertFacts
<1> DEFINE A == inst'.assets
           E == ToSet(edges')
           D == asked'
<1>2. IsFiniteSet(A) /\ E \in SUBSET (A \X A) /\ \A a \in A : D[a] \in Mandates
  <2>1. IsFiniteSet(A) /\ edges' \in Seq(A \X A) /\ \A a \in A : D[a] \in Mandates
    BY <1>1 DEF EstateOK, IsInstance, Mandates
  <2> QED
    BY <2>1 DEF ToSet
<1>3. \A a \in A : AtMost(D[a], D[a])
  BY <1>2, PolicyAssumption DEF AtMost, Mandates, Span
<1> HIDE DEF A, E, D
<1>4. ASSUME NEW a \in A
      PROVE  AtMost(D[a], D[a]) /\ Drawn(D[a], A, E, D, a) /\ Bound(D[a], D, Within(A, E, 0, a))
  <2>1. a \in DependentsIn(A, E, a)
    BY <1>2, DependentsFacts DEF IsClosure
  <2>2. Within(A, E, 0, a) \subseteq {a}
    BY WithinNone
  <2> QED
    BY <1>3, <2>1, <2>2 DEF Drawn, Bound
<1>5. Lowered'
  BY <1>1, <1>4 DEF Lowered, Near, A, E, D
<1> QED
  BY <1>1, <1>5

\* Either a pass changed nothing, or there was one pass per asset.
LEMMA EndPassKeeps ==
  ASSUME EstateOK, Lowered, EndPass, UNCHANGED resolverVars
  PROVE  /\ EstateOK' /\ UNCHANGED <<inst, edges, asked>>
         /\ pc' \in {"pass", "drop"}
         /\ pc' = "pass" => Lowered'
         /\ pc' = "drop" => \A a \in inst.assets :
              inst.deadline[a] = TightestIn(inst.assets, ToSet(edges), asked, a)
<1> DEFINE A == inst.assets
           E == ToSet(edges)
           D == inst.deadline
<1>1. /\ UNCHANGED <<policy, inst, edges, asked>> /\ pass' = pass + 1 /\ pos' = 1
      /\ pos > Len(edges)
      /\ pc' = IF changed /\ pass + 1 < Cardinality(A) THEN "pass" ELSE "drop"
  BY DEF EndPass
<1>2. /\ IsFiniteSet(A) /\ E \in SUBSET (A \X A) /\ asked \in [A -> Mandates]
      /\ \A a \in A : D[a] \in Mandates /\ asked[a] \in Mandates
      /\ \A q \in DOMAIN edges : edges[q][1] \in A /\ edges[q][2] \in A
      /\ \A e \in E : \E q \in DOMAIN edges : e = edges[q]
      /\ pos \in Nat \ {0} /\ pass \in Nat
      /\ \A q \in DOMAIN edges : <<edges[q][1], edges[q][2]>> \in E
  BY EstateFacts
<1>3. EstateOK'
  <2>1. pos' \in Nat \ {0} /\ pass' \in Nat
    BY <1>1, <1>2
  <2> QED
    BY <1>1, <2>1, StepKeeps DEF EstateOK
<1>4. ASSUME NEW j, NEW i, <<j, i>> \in E
      PROVE  /\ Bound(D[j], asked, Within(A, E, pass, i))
             /\ ~changed => AtMost(D[j], D[i])
  <2>1. PICK q \in DOMAIN edges : <<j, i>> = edges[q]
    BY <1>2, <1>4
  <2>2. q \in 1 .. pos - 1
    <3>1. q \in 1 .. Len(edges) /\ Len(edges) \in Nat
      BY <2>1 DEF EstateOK
    <3> QED
      BY <1>1, <1>2, <3>1
  <2>3. edges[q][1] = j /\ edges[q][2] = i
    BY <2>1
  <2> QED
    BY <2>2, <2>3 DEF Lowered, Near
<1>5. ASSUME NEW a \in A
      PROVE  /\ AtMost(D[a], asked[a]) /\ Drawn(D[a], A, E, asked, a)
             /\ Bound(D[a], asked, Within(A, E, pass + 1, a))
  <2>1. /\ AtMost(D[a], asked[a]) /\ Drawn(D[a], A, E, asked, a)
        /\ Bound(D[a], asked, Within(A, E, pass, a))
    BY DEF Lowered, Near
  <2> HIDE DEF A, E, D
  <2>2. ASSUME NEW i \in Within(A, E, pass + 1, a) PROVE AtMost(D[a], asked[i])
    <3>1. CASE i \in Within(A, E, pass, a)
      BY <2>1, <3>1 DEF Bound
    <3>2. CASE i \notin Within(A, E, pass, a)
      <4>1. PICK x \in A : <<a, x>> \in E /\ i \in Within(A, E, pass, x)
        BY <1>2, <3>2, WithinFirst
      <4> QED
        BY <1>4, <4>1 DEF Bound
    <3> QED
      BY <3>1, <3>2
  <2> QED
    BY <2>1, <2>2 DEF Bound
<1> HIDE DEF A, E, D
<1>6. ASSUME pc' = "drop", NEW a \in A PROVE D[a] = TightestIn(A, E, asked, a)
  <2>1. IsClosure(DependentsIn(A, E, a), A, E, a)
    BY <1>2, DependentsFacts
  <2>2. \A i \in DependentsIn(A, E, a) : AtMost(D[a], asked[i])
    <3>1. CASE ~changed
      <4> DEFINE S == {i \in A : AtMost(D[a], D[i])}
      <4>1. AtMost(D[a], D[a])
        BY <1>2, PolicyAssumption DEF AtMost, Mandates, Span
      <4>2. Shut(E, S)
        <5> SUFFICES ASSUME NEW j \in S, NEW i, <<j, i>> \in E PROVE i \in S
          BY DEF Shut
        <5>1. i \in A /\ j \in A /\ AtMost(D[j], D[i]) /\ AtMost(D[a], D[j])
          BY <1>2, <1>4, <3>1
        <5> QED
          BY <1>2, <5>1, AtMostTrans
      <4>3. DependentsIn(A, E, a) \subseteq S
        BY <2>1, <4>1, <4>2 DEF IsClosure
      <4> QED
        BY <1>2, <1>5, <4>3, AtMostTrans
    <3>2. CASE changed
      <4>1. pass + 1 \in Nat /\ pass + 1 >= Cardinality(A)
        <5>1. ~(pass + 1 < Cardinality(A)) /\ Cardinality(A) \in Nat
          BY <1>1, <1>2, <1>6, <3>2, FS_CardinalityType DEF A
        <5> QED
          BY <1>2, <5>1
      <4>2. DependentsIn(A, E, a) \subseteq Within(A, E, pass + 1, a)
        BY <1>2, <2>1, <4>1, WithinAll
      <4> QED
        BY <1>5, <4>2 DEF Bound
    <3> QED
      BY <3>1, <3>2
  <2> QED
    BY <1>2, <1>5, <2>2, TightestFacts
<1>7. ASSUME pc' = "pass" PROVE Lowered'
  <2>1. 1 .. pos' - 1 = {}
    BY <1>1
  <2>2. \A a \in A : /\ AtMost(D[a], asked[a]) /\ Drawn(D[a], A, E, asked, a)
                     /\ Bound(D[a], asked, Within(A, E, pass + 1, a))
    BY <1>5
  <2> QED
    BY <1>1, <2>1, <2>2 DEF Lowered, Near, A, E, D
<1> QED
  BY <1>1, <1>3, <1>6, <1>7 DEF A, E, D

\* The estate and its reconciliation, action by action.
LEMMA RInvPreserved ==
  IInv /\ VInv /\ EInv /\ RInv /\ [Next]_vars => EInv' /\ RInv'
<1> SUFFICES ASSUME IInv, VInv, EInv, RInv, [Next]_vars PROVE EInv' /\ RInv'
  OBVIOUS
<1>1. CASE Resolve
  <2>1. pc' = "resolve"
    BY <1>1 DEF Resolve, reconcileVars
  <2> QED
    BY <2>1 DEF EInv, RInv
<1>2. CASE Convert
  BY <1>2, ConvertStarts DEF EInv, RInv
<1>3. CASE RelaxEdge /\ UNCHANGED resolverVars
  <2>1. pc = "pass" /\ pc' = "pass"
    BY <1>3 DEF RelaxEdge
  <2>2. EstateOK /\ Lowered
    BY <2>1 DEF EInv, RInv
  <2>3. EstateOK' /\ Lowered'
    BY <1>3, <2>2, RelaxKeeps
  <2> QED
    BY <2>1, <2>3 DEF EInv, RInv
<1>4. CASE EndPass /\ UNCHANGED resolverVars
  <2>1. EstateOK /\ Lowered
    BY <1>4 DEF EInv, RInv, EndPass
  <2>2. /\ EstateOK' /\ UNCHANGED <<inst, edges, asked>>
        /\ pc' \in {"pass", "drop"}
        /\ pc' = "pass" => Lowered'
        /\ pc' = "drop" => \A a \in inst.assets :
             inst.deadline[a] = TightestIn(inst.assets, ToSet(edges), asked, a)
    BY <1>4, <2>1, EndPassKeeps
  <2> QED
    BY <2>2 DEF EInv, RInv
<1>5. CASE DropImpossible /\ UNCHANGED resolverVars
  <2>1. /\ pc = "drop" /\ pc' = "budget" /\ pos' = pos /\ pass' = pass
        /\ UNCHANGED <<policy, edges, asked>>
    BY <1>5 DEF DropImpossible
  <2>2. EstateOK /\ \A a \in inst.assets :
          inst.deadline[a] = TightestIn(inst.assets, ToSet(edges), asked, a)
    BY <2>1 DEF EInv, RInv
  <2>3. /\ IsInstance(inst')
        /\ inst'.assets = inst.assets /\ inst'.T = inst.T
        /\ inst'.clusters = inst.clusters /\ inst'.earliest = inst.earliest
        /\ \A a \in inst.assets :
             inst'.deadline[a] = IF Impossible(a) THEN None ELSE inst.deadline[a]
    BY <1>5, <2>2, DropFacts
  <2>4. \A a \in inst.assets : inst'.deadline[a] \in Span \cup {None}
    BY <2>2, <2>3 DEF EstateOK
  <2>5. EstateOK'
    <3>1. pos' \in Nat \ {0} /\ pass' \in Nat
      BY <2>1, <2>2 DEF EstateOK
    <3> QED
      BY <1>5, <2>1, <2>2, <2>3, <2>4, <3>1, StepKeeps
  <2>6. \A a \in inst'.assets : inst'.deadline[a] = Remains(a)'
    BY <2>1, <2>2, <2>3 DEF Remains, Impossible
  <2> QED
    BY <2>1, <2>5, <2>6 DEF EInv, RInv
<1>6. CASE SizeBudget /\ UNCHANGED resolverVars
  <2>1. /\ pc = "budget" /\ pc' = "done" /\ pos' = pos /\ pass' = pass
        /\ UNCHANGED <<policy, edges, asked>>
    BY <1>6 DEF SizeBudget
  <2>2. EstateOK /\ \A a \in inst.assets : inst.deadline[a] = Remains(a)
    BY <2>1 DEF EInv, RInv
  <2>3. /\ IsInstance(inst')
        /\ inst'.assets = inst.assets /\ inst'.T = inst.T
        /\ inst'.clusters = inst.clusters /\ inst'.earliest = inst.earliest
        /\ inst'.deadline = inst.deadline /\ inst'.cost = inst.cost
        /\ inst'.deps = ToSet(edges)
        /\ policy.tightness[1] >= policy.tightness[2] =>
             \A p \in Periods(inst) :
               CostOf(inst.cost, {a \in inst.assets : Alap[a] = p}) <= inst'.budget[p]
    BY <1>6, <2>2, BudgetFacts
  <2>4. \A a \in inst.assets : inst'.deadline[a] \in Span \cup {None}
    BY <2>2, <2>3 DEF EstateOK
  <2>5. EstateOK'
    <3>1. pos' \in Nat \ {0} /\ pass' \in Nat
      BY <2>1, <2>2 DEF EstateOK
    <3> QED
      BY <1>6, <2>1, <2>2, <2>3, <2>4, <3>1, StepKeeps
  <2>6. \A a \in inst'.assets : inst'.deadline[a] = Remains(a)'
    BY <2>1, <2>2, <2>3 DEF Remains
  <2>7. Alap' = Alap /\ Periods(inst') = Periods(inst)
    BY <2>3 DEF Alap, Periods
  <2>8. policy'.tightness[1] >= policy'.tightness[2] =>
          \A p \in Periods(inst') :
            CostOf(inst'.cost, {a \in inst'.assets : Alap'[a] = p}) <= inst'.budget[p]
    <3>1. policy' = policy /\ inst'.assets = inst.assets /\ inst'.cost = inst.cost
      BY <2>1, <2>3
    <3> QED
      BY <2>3, <2>7, <3>1
  <2> QED
    BY <2>1, <2>3, <2>5, <2>6, <2>8 DEF EInv, RInv
<1>7. CASE UNCHANGED vars
  <2>1. UNCHANGED <<bom, polled, stack, memo, policy, inst, edges, asked, pc, pass, pos, changed>>
    BY <1>7 DEF vars
  <2>2. EstateOK => EstateOK'
    BY <2>1 DEF EstateOK, Kept, Known, Resolved
  <2>3. Alap' = Alap
    BY <2>1 DEF Alap
  <2> QED
    BY <2>1, <2>2, <2>3 DEF EInv, RInv, Lowered, Remains, Near
<1> QED
  BY <1>1, <1>2, <1>3, <1>4, <1>5, <1>6, <1>7 DEF Next, Adjust, Terminated

LEMMA Initially == Init => IInv /\ VInv /\ EInv /\ RInv
<1>1. Init => IInv
  BY DEF Init, NothingResolved, IInv, StackOK, NoFalseAlarm
<1>2. Init => VInv
  BY DEF Init, NothingResolved, VInv, Path, Polled, Supported, Searched, Clean
<1>3. Init => EInv /\ RInv
  BY DEF Init, EInv, RInv
<1> QED
  BY <1>1, <1>2, <1>3

\* At the end, if no mandate had to be dropped: the deadlines are ordered as
\* the edges, and the budget holds the peak.
LEMMA AlapFeasible == EInv /\ RInv => AlapIsFeasible
<1> SUFFICES ASSUME EInv, RInv, pc = "done", policy.tightness[1] >= policy.tightness[2],
                    \A a \in inst.assets : Tightest(a) # None => Tightest(a) >= inst.earliest[a]
             PROVE  Feasible(inst, Alap)
  BY DEF AlapIsFeasible
<1> DEFINE A == inst.assets
           E == ToSet(edges)
           t(a) == TightestIn(A, E, asked, a)
           H == Horizon - 1
<1>1. EstateOK
  BY DEF EInv
<1>2. /\ IsFiniteSet(A) /\ E \in SUBSET (A \X A) /\ asked \in [A -> Mandates]
      /\ inst.T = Horizon /\ inst.clusters = <<>>
      /\ \A a \in A : inst.earliest[a] \in Span
  BY <1>1, EstateFacts DEF EstateOK
<1>3. /\ inst.deps = E
      /\ \A p \in Periods(inst) :
           CostOf(inst.cost, {a \in A : Alap[a] = p}) <= inst.budget[p]
  BY DEF RInv
<1>4. ASSUME NEW a \in A
      PROVE  inst.deadline[a] = t(a) /\ (t(a) # None => t(a) >= inst.earliest[a])
  <2>1. Tightest(a) = t(a)
    BY Unfolded
  <2>2. t(a) # None => t(a) >= inst.earliest[a]
    BY <2>1
  <2>3. inst.deadline[a] = Remains(a)
    BY DEF RInv
  <2>4. t(a) \in Mandates
    BY <1>2, TightestFacts
  <2>5. inst.earliest[a] \in Int /\ (t(a) # None => t(a) \in Int)
    BY <1>2, <2>4, PolicyAssumption DEF Mandates, Span
  <2>6. Remains(a) = IF t(a) # None /\ t(a) < inst.earliest[a] THEN None ELSE t(a)
    BY DEF Remains
  <2> HIDE DEF t
  <2> QED
    BY <2>2, <2>3, <2>5, <2>6
<1>5. ASSUME NEW a \in A PROVE t(a) \in Mandates
  BY <1>2, TightestFacts
<1>6. \A e \in E : AtMost(t(e[1]), t(e[2])) /\ e[1] \in A /\ e[2] \in A
  <2> SUFFICES ASSUME NEW e \in E PROVE AtMost(t(e[1]), t(e[2])) /\ e[1] \in A /\ e[2] \in A
    OBVIOUS
  <2>1. e \in A \X A
    BY <1>2
  <2>2. e[1] \in A /\ e[2] \in A /\ <<e[1], e[2]>> \in E
    BY <2>1
  <2> QED
    BY <1>2, <2>2, TightestOrder
<1> HIDE DEF t
<1>7. /\ DOMAIN Alap = A
      /\ \A a \in A : Alap[a] = IF t(a) # None THEN t(a) ELSE H
  BY <1>2, <1>4 DEF Alap
<1>8. H \in Int /\ \A x \in Span : x \in Int /\ x <= H
  BY PolicyAssumption DEF Span
<1>9. \A a \in A : /\ Alap[a] \in Int /\ inst.earliest[a] \in Int
                   /\ Alap[a] <= H /\ inst.earliest[a] <= H
                   /\ inst.earliest[a] <= Alap[a]
  <2> SUFFICES ASSUME NEW a \in A
               PROVE  /\ Alap[a] \in Int /\ inst.earliest[a] \in Int
                      /\ Alap[a] <= H /\ inst.earliest[a] <= H
                      /\ inst.earliest[a] <= Alap[a]
    OBVIOUS
  <2>1. inst.earliest[a] \in Int /\ inst.earliest[a] <= H
    BY <1>2, <1>8
  <2>2. CASE t(a) = None
    BY <1>7, <1>8, <2>1, <2>2
  <2>3. CASE t(a) # None
    <3>1. t(a) \in Span /\ Alap[a] = t(a) /\ t(a) >= inst.earliest[a]
      BY <1>4, <1>5, <1>7, <2>3 DEF Mandates
    <3> QED
      BY <1>8, <2>1, <3>1
  <2> QED
    BY <2>2, <2>3
<1>10. DeadlineViolations(inst, Alap) = {}
  <2> SUFFICES ASSUME NEW a \in A, inst.deadline[a] # None
               PROVE  ~(Alap[a] > inst.deadline[a])
    BY <1>7 DEF DeadlineViolations, Mandated
  <2>1. Alap[a] = inst.deadline[a]
    BY <1>4, <1>7
  <2> QED
    BY <1>9, <2>1
<1>11. BudgetViolations(inst, Alap) = {}
  <2>1. \A p : {a \in A \cap DOMAIN Alap : Alap[a] = p} = {a \in A : Alap[a] = p}
    BY <1>7
  <2> QED
    BY <1>3, <2>1 DEF BudgetViolations, Spend
<1>12. PrecedenceViolations(inst, Alap) = {}
  <2> SUFFICES ASSUME NEW e \in E PROVE ~(Alap[e[1]] > Alap[e[2]])
    BY <1>3, <1>6, <1>7 DEF PrecedenceViolations
  <2> DEFINE j == e[1]
             i == e[2]
  <2>1. j \in A /\ i \in A /\ AtMost(t(j), t(i))
    BY <1>6
  <2> HIDE DEF i, j
  <2>2. Alap[j] <= Alap[i]
    <3>1. CASE t(i) = None
      BY <1>7, <1>9, <2>1, <3>1
    <3>2. CASE t(i) # None
      BY <1>7, <1>9, <2>1, <3>2 DEF AtMost
    <3> QED
      BY <3>1, <3>2
  <2> QED
    BY <1>9, <2>1, <2>2 DEF i, j
<1>13. ClusterViolations(inst, Alap) = {}
  BY <1>2 DEF ClusterViolations, Range
<1>14. EarliestViolations(inst, Alap) = {}
  BY <1>7, <1>9 DEF EarliestViolations
<1> QED
  BY <1>10, <1>11, <1>12, <1>13, <1>14 DEF Feasible

\* An asset's verdict has a reason, and a rating above 0 is none.
LEMMA NothingRated == IInv /\ VInv /\ EInv => NoAssetRestsOnRatedAlone
<1> SUFFICES ASSUME IInv, VInv, EInv, pc # "resolve", NEW r \in inst.assets
             PROVE  \E x \in Reach(r) :
                      \/ /\ bom.comp[x].type = "algorithm"
                         /\ bom.comp[x].level = None \/ bom.comp[x].level < 1
                      \/ bom.comp[x].type = "unknown"
  BY DEF NoAssetRestsOnRatedAlone
<1>1. bom \in Files /\ Resolved /\ inst.assets = Kept
  BY DEF IInv, EInv, EstateOK
<1>2. r \in Known /\ r \in DOMAIN memo /\ memo[r]
  BY <1>1, KeptFacts
<1>3. PICK x \in Reach(r) : Weak(bom, x)
  BY <1>2 DEF VInv, Supported
<1>4. x \in Known
  BY <1>1, <1>2, ReachThrough
<1>5. bom.comp[x].level \in Int \cup {None}
  BY <1>1, <1>4, FilesAssumption DEF Known, KnownIn
<1> QED
  BY <1>3, <1>5 DEF Weak, AlgoIsVulnerable

-----------------------------------------------------------------------------
(* The theorems.                                                           *)

(***************************************************************************)
(* Every component that is kept either is weak itself or refers to one     *)
(* that is kept: whatever cutting a cycle may lose, it invents nothing.    *)
(***************************************************************************)
THEOREM ResolutionRaisesNoFalseAlarm == Spec => []NoFalseAlarm
<1>1. IInv => NoFalseAlarm
  BY DEF IInv
<1> QED
  BY <1>1, Initially, NextPreserves, PTL DEF Spec

(***************************************************************************)
(* In a file without reference cycles every verdict that is_vulnerable     *)
(* remembers is the transitive one, whatever was asked first.              *)
(***************************************************************************)
THEOREM VerdictsAreTransitive == Spec => []MemoIsTransitive
<1>1. IInv /\ VInv => MemoIsTransitive
  BY DEF IInv, VInv, Supported, Clean, Harmless, MemoIsTransitive
<1> QED
  BY <1>1, Initially, NextPreserves, VerdictsPreserved, PTL DEF Spec

(***************************************************************************)
(* No asset of an instance is there for components with a rating above 0   *)
(* alone.                                                                  *)
(***************************************************************************)
THEOREM RatedAloneIsNoReason == Spec => []NoAssetRestsOnRatedAlone
BY NothingRated, Initially, NextPreserves, VerdictsPreserved, RInvPreserved, PTL DEF Spec

(***************************************************************************)
(* What cbom_to_instance builds, from its first draft on, is an instance   *)
(* whose assets are the components kept: the windows lie inside the        *)
(* horizon, the edges between the assets, and every function is total.     *)
(***************************************************************************)
THEOREM EstatesAreInstances ==
  Spec => [](pc # "resolve" => IsInstance(inst) /\ inst.assets = Kept)
<1>1. EInv => (pc # "resolve" => IsInstance(inst) /\ inst.assets = Kept)
  BY DEF EInv, EstateOK
<1> QED
  BY <1>1, Initially, NextPreserves, VerdictsPreserved, RInvPreserved, PTL DEF Spec

(***************************************************************************)
(* _reconcile_deadlines ends with the tightest deadline among all          *)
(* transitive dependents, in whatever order the edges come and with or     *)
(* without cycles among them: one pass per asset is enough.                *)
(***************************************************************************)
THEOREM RelaxationFindsTightest == Spec => []RelaxationIsExact
<1>1. RInv => RelaxationIsExact
  BY Unfolded DEF RInv, RelaxationIsExact
<1> QED
  BY <1>1, Initially, NextPreserves, VerdictsPreserved, RInvPreserved, PTL DEF Spec

(***************************************************************************)
(* Unless a mandate had to be dropped, a budget of tightness 1 or more     *)
(* leaves the schedule that migrates everything as late as possible        *)
(* feasible.                                                               *)
(***************************************************************************)
THEOREM LatestIsFeasible == Spec => []AlapIsFeasible
BY AlapFeasible, Initially, NextPreserves, VerdictsPreserved, RInvPreserved, PTL DEF Spec

=============================================================================
