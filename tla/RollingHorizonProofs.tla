------------------------ MODULE RollingHorizonProofs ------------------------
(***************************************************************************)
(* Proofs about RollingHorizon, for every set of instances and every       *)
(* tuning.  The inductive invariant Sound says that what the windows froze *)
(* respects the capacity, the windows and the couplings, and that whatever *)
(* is left behind starts too late to join it; a sub-solve preserves it     *)
(* because the frozen assets are pinned in it.  Exact adds that with one   *)
(* window over the horizon the frozen schedule is an optimal one, and the  *)
(* last theorem shows that the sweep implements Anytime.                   *)
(***************************************************************************)
EXTENDS RollingHorizon, InstancesProofs

\* two frozen partners share their period
Together(s) ==
  \A c \in Range(inst.clusters) :
    {c[1], c[2]} \subseteq DOMAIN s => s[c[1]] = s[c[2]]

Coupled(i, j) ==
  <<i, j>> \in Range(inst.clusters) \/ <<j, i>> \in Range(inst.clusters)

\* a partner left behind by s could not have joined the other one
LatePartners(s) ==
  \A i, j \in inst.assets :
    Coupled(i, j) /\ i \in DOMAIN s /\ j \notin DOMAIN s =>
      inst.earliest[j] > s[i]

Sound(s) ==
  /\ s \in Schedules(inst)
  /\ BudgetViolations(inst, s) = {}
  /\ OnTime(s) /\ InOrder(s) /\ Together(s)
  /\ LatePredecessors(s) /\ LatePartners(s)

IInv ==
  /\ inst \in InstanceSet
  /\ tuning \in Int \X Int
  /\ w \in Nat
  /\ greedy \in FeasibleSchedules(inst) \cup {None}
  /\ Sound(committed)
  /\ pc # "done" => result = None

-----------------------------------------------------------------------------
(* The window *)

LEMMA WindowFacts ==
  ASSUME tuning \in Int \X Int
  PROVE  /\ window \in Int /\ window >= 1
         /\ step \in Int /\ step >= 1 /\ step <= window
<1>1. window \in {1, tuning[1]} /\ \A y \in {1, tuning[1]} : window >= y
  <2>1. \E x \in {1, tuning[1]} : \A y \in {1, tuning[1]} : x >= y
    OBVIOUS
  <2> QED
    BY <2>1 DEF window, Max
<1>2. window \in Int /\ window >= 1
  BY <1>1
<1> DEFINE m == Min({tuning[2], window})
<1>3. m \in {tuning[2], window} /\ \A y \in {tuning[2], window} : m <= y
  <2>1. \E x \in {tuning[2], window} : \A y \in {tuning[2], window} : x <= y
    BY <1>2
  <2> QED
    BY <2>1 DEF Min
<1>4. m \in Int /\ m <= window
  BY <1>2, <1>3
<1>5. step \in {1, m} /\ \A y \in {1, m} : step >= y
  <2> HIDE DEF m
  <2>1. \E x \in {1, m} : \A y \in {1, m} : x >= y
    BY <1>4
  <2> QED
    BY <2>1 DEF step, Max, m
<1> QED
  BY <1>2, <1>4, <1>5

\* What a window freezes is what it sees: nothing past hi, and all before.
LEMMA FrozenFacts ==
  ASSUME tuning \in Int \X Int, w \in Nat, inst.T \in Nat \ {0}
  PROVE  /\ hi \in Int
         /\ \E m \in Int : Frozen = 0 .. m /\ m <= hi
<1>1. /\ window \in Int /\ window >= 1
      /\ step \in Int /\ step >= 1 /\ step <= window
  BY WindowFacts
<1>2. /\ hi \in {w + window - 1, inst.T - 1}
      /\ \A y \in {w + window - 1, inst.T - 1} : hi <= y
  <2>1. \E x \in {w + window - 1, inst.T - 1} :
          \A y \in {w + window - 1, inst.T - 1} : x <= y
    BY <1>1
  <2> QED
    BY <2>1 DEF hi, Min
<1>3. hi \in Int
  BY <1>1, <1>2
<1>4. CASE hi = inst.T - 1
  BY <1>3, <1>4 DEF Frozen, Periods
<1>5. CASE hi # inst.T - 1
  <2>1. w + step - 1 \in Int /\ w + step - 1 <= hi
    BY <1>1, <1>2, <1>5
  <2> QED
    BY <1>3, <1>5, <2>1 DEF Frozen
<1> QED
  BY <1>3, <1>4, <1>5

-----------------------------------------------------------------------------
(* Sub-instances *)

\* A set listed as a sequence has the set as its range.
LEMMA SetToSeqRange ==
  ASSUME NEW S, IsFiniteSet(S)
  PROVE  Range(SetToSeq(S)) = S
<1> DEFINE D == 1 .. Cardinality(S)
           q == SetToSeq(S)
<1>1. Cardinality(S) \in Nat /\ Bijection(D, S) # {}
  BY FS_CardinalityType DEF ExistsBijection
<1>2. \E f \in [D -> S] : IsInjective(f)
  BY <1>1 DEF Bijection, Injection
<1>3. q \in [D -> S] /\ IsInjective(q)
  BY <1>2 DEF SetToSeq
<1>4. q \in Injection(D, S)
  BY <1>3 DEF Injection
<1> HIDE DEF q
<1>5. IsFiniteSet(D) /\ Cardinality(D) = Cardinality(S)
  <2>1. 1 \in Int /\ Cardinality(S) \in Int
    BY <1>1
  <2>2. Cardinality(D) = IF 1 > Cardinality(S) THEN 0
                         ELSE Cardinality(S) - 1 + 1
    BY <2>1, FS_Interval
  <2> QED
    BY <1>1, <2>1, <2>2, FS_Interval
<1>6. q \in Surjection(D, S)
  BY <1>4, <1>5, FS_Injection
<1> QED
  BY <1>3, <1>6 DEF Range, Surjection, q

\* The clusters of an instance are finitely many pairs of its assets.
LEMMA ClusterFacts ==
  ASSUME IsInstance(inst)
  PROVE  /\ IsFiniteSet(Range(inst.clusters))
         /\ \A c \in Range(inst.clusters) : /\ c[1] \in inst.assets
                                            /\ c[2] \in inst.assets
                                            /\ c = <<c[1], c[2]>>
<1> DEFINE q == inst.clusters
           R == Range(q)
<1>1. q \in Seq(inst.assets \X inst.assets)
  BY DEF IsInstance
<1> HIDE DEF q
<1>2. Len(q) \in Nat /\ q \in [1 .. Len(q) -> inst.assets \X inst.assets]
  BY <1>1
<1>3. q \in Surjection(1 .. Len(q), R)
  BY <1>2 DEF Surjection, Range
<1>4. IsFiniteSet(1 .. Len(q))
  <2>1. 1 \in Int /\ Len(q) \in Int
    BY <1>2
  <2> QED
    BY <2>1, FS_Interval
<1>5. IsFiniteSet(R)
  BY <1>3, <1>4, FS_Surjection
<1>6. \A c \in R : c \in inst.assets \X inst.assets
  BY <1>2 DEF Range
<1> QED
  BY <1>5, <1>6 DEF q

LEMMA SubInstanceFields ==
  ASSUME IsInstance(inst), NEW keep, NEW due
  PROVE  LET J == SubInstance(keep, due)
         IN  /\ J.assets = keep /\ J.T = inst.T /\ J.budget = inst.budget
             /\ J.crit = Restrict(inst.crit, keep)
             /\ J.shelf = Restrict(inst.shelf, keep)
             /\ J.cost = Restrict(inst.cost, keep)
             /\ J.crqc = inst.crqc /\ J.rm = inst.rm
             /\ J.deps = {e \in inst.deps : e[1] \in keep /\ e[2] \in keep}
             /\ Range(J.clusters) = {c \in Range(inst.clusters) :
                                       c[1] \in keep /\ c[2] \in keep}
             /\ J.earliest = [a \in keep |->
                  IF a \in DOMAIN committed THEN committed[a]
                  ELSE inst.earliest[a]]
             /\ J.deadline = [a \in keep |->
                  IF a \in DOMAIN committed THEN committed[a] ELSE due[a]]
<1> DEFINE J == SubInstance(keep, due)
           C == {c \in Range(inst.clusters) : c[1] \in keep /\ c[2] \in keep}
<1>1. DOMAIN inst = InstanceFields
  BY DEF IsInstance
<1>2. J.clusters = SetToSeq(C)
  BY <1>1 DEF SubInstance, InstanceFields
<1>3. IsFiniteSet(C)
  <2>1. C \subseteq Range(inst.clusters)
    OBVIOUS
  <2> QED
    BY <2>1, ClusterFacts, FS_Subset
<1>4. Range(J.clusters) = C
  <2> HIDE DEF C, J
  <2> QED
    BY <1>2, <1>3, SetToSeqRange
<1> QED
  BY <1>1, <1>4 DEF SubInstance, InstanceFields

\* A schedule of kept assets spends the same in the sub-instance.
LEMMA SameSpend ==
  ASSUME IsInstance(inst), NEW keep \in SUBSET inst.assets, NEW due,
         NEW s, DOMAIN s \subseteq keep, NEW t
  PROVE  Spend(SubInstance(keep, due), s, t) = Spend(inst, s, t)
<1> DEFINE J == SubInstance(keep, due)
           B == {a \in inst.assets \cap DOMAIN s : s[a] = t}
<1>1. J.assets = keep /\ J.cost = Restrict(inst.cost, keep)
  BY SubInstanceFields
<1> HIDE DEF J
<1>2. {a \in J.assets \cap DOMAIN s : s[a] = t} = B
  BY <1>1
<1>3. B \subseteq keep /\ B \subseteq inst.assets
  OBVIOUS
<1> HIDE DEF B
<1>4. /\ IsFiniteSet(B) /\ IntValued(inst.cost, B)
      /\ \A a \in B : inst.cost[a] = J.cost[a]
  BY <1>1, <1>3, FS_Subset DEF IsInstance, IntValued, Restrict
<1>5. SumFunctionOnSet(inst.cost, B) = SumFunctionOnSet(J.cost, B)
  BY <1>4, SumEqual
<1>6. Spend(inst, s, t) = SumFunctionOnSet(inst.cost, B)
  BY DEF Spend, CostOf, B
<1>7. Spend(J, s, t) = SumFunctionOnSet(J.cost, B)
  BY <1>2, Zenon DEF Spend, CostOf
<1> QED
  BY <1>5, <1>6, <1>7 DEF J

\* A sub-solve moves no frozen asset, keeps the windows it was given and
\* the dependencies inside it.
LEMMA SubSolveFacts ==
  ASSUME IsInstance(inst), committed \in Schedules(inst),
         NEW keep \in SUBSET inst.assets, DOMAIN committed \subseteq keep,
         NEW due \in [inst.assets -> Int \cup {None}],
         NEW s \in FeasibleSchedules(SubInstance(keep, due))
  PROVE  /\ s \in Schedules(inst) /\ DOMAIN s \subseteq keep
         /\ \A a \in DOMAIN s : s[a] \in Periods(inst)
         /\ \A a \in DOMAIN committed : a \in DOMAIN s /\ s[a] = committed[a]
         /\ \A a \in DOMAIN s \ DOMAIN committed :
              s[a] >= inst.earliest[a] /\ (due[a] # None => s[a] <= due[a])
         /\ \A e \in inst.deps :
              e[1] \in keep /\ e[2] \in DOMAIN s =>
                e[1] \in DOMAIN s /\ s[e[1]] <= s[e[2]]
         /\ \A t \in Periods(inst) : Spend(inst, s, t) <= inst.budget[t]
         /\ \A c \in Range(inst.clusters) :
              c[1] \in keep /\ c[2] \in keep => Slot(s, c[1]) = Slot(s, c[2])
<1> DEFINE J == SubInstance(keep, due)
<1>1. /\ J.assets = keep /\ J.T = inst.T /\ J.budget = inst.budget
      /\ J.deps = {e \in inst.deps : e[1] \in keep /\ e[2] \in keep}
      /\ Range(J.clusters) = {c \in Range(inst.clusters) :
                                c[1] \in keep /\ c[2] \in keep}
      /\ J.earliest = [a \in keep |->
           IF a \in DOMAIN committed THEN committed[a] ELSE inst.earliest[a]]
      /\ J.deadline = [a \in keep |->
           IF a \in DOMAIN committed THEN committed[a] ELSE due[a]]
  BY SubInstanceFields
<1>2. s \in Schedules(J) /\ Feasible(J, s)
  BY DEF FeasibleSchedules
<1> HIDE DEF J
<1>3. /\ Periods(J) = Periods(inst) /\ Periods(inst) \subseteq Nat
      /\ inst.earliest \in [inst.assets -> Nat]
  BY <1>1 DEF Periods, IsInstance
<1>4. s \in Schedules(inst) /\ DOMAIN s \subseteq keep
  BY <1>1, <1>2, <1>3 DEF Schedules
<1>5. \A a \in DOMAIN s : s[a] \in Periods(inst) /\ s[a] \in Nat
  BY <1>3, <1>4 DEF Schedules
<1>6. ASSUME NEW a \in DOMAIN committed
      PROVE  a \in DOMAIN s /\ s[a] = committed[a]
  <2>1. a \in keep /\ committed[a] \in Nat /\ committed[a] # None
    BY <1>3, NoneAssumption DEF Schedules
  <2>2. J.earliest[a] = committed[a] /\ J.deadline[a] = committed[a]
    BY <2>1, <1>1
  <2>3. a \in DOMAIN s /\ ~(s[a] > committed[a])
    BY <2>1, <2>2, <1>1, <1>2 DEF Feasible, DeadlineViolations, Mandated
  <2>4. ~(s[a] < committed[a])
    BY <2>1, <2>2, <2>3, <1>1, <1>2 DEF Feasible, EarliestViolations
  <2> QED
    BY <2>1, <2>3, <2>4, <1>5
<1>7. ASSUME NEW a \in DOMAIN s \ DOMAIN committed
      PROVE  s[a] >= inst.earliest[a] /\ (due[a] # None => s[a] <= due[a])
  <2>1. a \in keep /\ a \in inst.assets /\ s[a] \in Nat
        /\ inst.earliest[a] \in Nat /\ due[a] \in Int \cup {None}
    BY <1>3, <1>4, <1>5
  <2>2. J.earliest[a] = inst.earliest[a] /\ J.deadline[a] = due[a]
    BY <2>1, <1>1
  <2>3. ~(s[a] < inst.earliest[a])
    BY <2>1, <2>2, <1>1, <1>2 DEF Feasible, EarliestViolations
  <2>4. due[a] # None => ~(s[a] > due[a])
    BY <2>1, <2>2, <1>1, <1>2 DEF Feasible, DeadlineViolations, Mandated
  <2> QED
    BY <2>1, <2>3, <2>4
<1>8. ASSUME NEW e \in inst.deps, e[1] \in keep, e[2] \in DOMAIN s
      PROVE  e[1] \in DOMAIN s /\ s[e[1]] <= s[e[2]]
  <2>1. e \in J.deps
    BY <1>1, <1>4, <1>8
  <2>2. e[1] \in DOMAIN s /\ ~(s[e[1]] > s[e[2]])
    BY <2>1, <1>2, <1>8 DEF Feasible, PrecedenceViolations
  <2> QED
    BY <2>2, <1>5, <1>8
<1>9. ASSUME NEW t \in Periods(inst)
      PROVE  Spend(inst, s, t) <= inst.budget[t]
  <2>1. Spend(J, s, t) <= inst.budget[t]
    BY <1>1, <1>2, <1>3 DEF Feasible, BudgetViolations
  <2>2. Spend(J, s, t) = Spend(inst, s, t)
    BY <1>4, SameSpend DEF J
  <2> QED
    BY <2>1, <2>2
<1>10. ASSUME NEW c \in Range(inst.clusters), c[1] \in keep, c[2] \in keep
       PROVE  Slot(s, c[1]) = Slot(s, c[2])
  BY <1>1, <1>2, <1>10 DEF Feasible, ClusterViolations
<1> QED
  BY <1>4, <1>5, <1>6, <1>7, <1>8, <1>9, <1>10

(***************************************************************************)
(* Freezing what a sub-solve placed before m keeps the frozen set sound,   *)
(* if the sub-instance held every asset that can start by m and respected  *)
(* every deadline up to m.                                                 *)
(***************************************************************************)
LEMMA FreezeIsSound ==
  ASSUME IsInstance(inst), Sound(committed),
         NEW S \in SUBSET free, NEW m \in Int,
         NEW due \in [inst.assets -> Int \cup {None}],
         \A j \in free \ S : inst.earliest[j] > m,
         \A a \in inst.assets : inst.deadline[a] # None =>
            due[a] = inst.deadline[a] \/ inst.deadline[a] > m,
         NEW s \in FeasibleSchedules(
                     SubInstance(DOMAIN committed \cup S, due))
  PROVE  Sound(Freeze(S, s, 0 .. m))
<1> DEFINE keep == DOMAIN committed \cup S
           c == Freeze(S, s, 0 .. m)
<1>1. /\ committed \in Schedules(inst) /\ OnTime(committed)
      /\ InOrder(committed) /\ LatePredecessors(committed)
      /\ LatePartners(committed)
  BY DEF Sound
<1>2. /\ DOMAIN committed \subseteq inst.assets
      /\ S \subseteq inst.assets /\ S \cap DOMAIN committed = {}
      /\ keep \in SUBSET inst.assets /\ DOMAIN committed \subseteq keep
  BY <1>1 DEF Schedules, free
<1>3. /\ s \in Schedules(inst) /\ DOMAIN s \subseteq keep
      /\ \A a \in DOMAIN s : s[a] \in Periods(inst)
      /\ \A a \in DOMAIN committed : a \in DOMAIN s /\ s[a] = committed[a]
      /\ \A a \in DOMAIN s \ DOMAIN committed :
           s[a] >= inst.earliest[a] /\ (due[a] # None => s[a] <= due[a])
      /\ \A e \in inst.deps :
           e[1] \in keep /\ e[2] \in DOMAIN s =>
             e[1] \in DOMAIN s /\ s[e[1]] <= s[e[2]]
      /\ \A t \in Periods(inst) : Spend(inst, s, t) <= inst.budget[t]
      /\ \A p \in Range(inst.clusters) :
           p[1] \in keep /\ p[2] \in keep => Slot(s, p[1]) = Slot(s, p[2])
  BY <1>1, <1>2, SubSolveFacts
<1>4. /\ Periods(inst) \subseteq Nat
      /\ inst.earliest \in [inst.assets -> Nat]
      /\ inst.deadline \in [inst.assets -> Int \cup {None}]
      /\ inst.deps \subseteq inst.assets \X inst.assets
  BY DEF IsInstance, Periods
<1>5. /\ DOMAIN c = DOMAIN committed
                    \cup {a \in S \cap DOMAIN s : s[a] \in 0 .. m}
      /\ \A a \in DOMAIN c : c[a] = s[a] /\ a \in DOMAIN s
  BY <1>3 DEF Freeze
<1> HIDE DEF c, keep
<1>6. c \in Schedules(inst)
  <2>1. DOMAIN c \in SUBSET inst.assets
    BY <1>2, <1>5
  <2>2. c \in [DOMAIN c -> Periods(inst)]
    <3>1. c = [a \in DOMAIN c |-> c[a]]
      BY DEF c, Freeze
    <3> QED
      BY <3>1, <1>3, <1>5
  <2> QED
    BY <2>1, <2>2 DEF Schedules
<1>7. OnTime(c)
  <2>1. ASSUME NEW a \in DOMAIN c
        PROVE  /\ ~(c[a] < inst.earliest[a])
               /\ inst.deadline[a] # None => c[a] <= inst.deadline[a]
    <3>0. a \in inst.assets /\ c[a] = s[a] /\ s[a] \in Nat
          /\ inst.earliest[a] \in Nat
      BY <1>2, <1>3, <1>4, <1>5
    <3>1. CASE a \in DOMAIN committed
      BY <3>0, <3>1, <1>1, <1>3 DEF OnTime, EarliestViolations
    <3>2. CASE a \notin DOMAIN committed
      <4>1. s[a] >= inst.earliest[a] /\ (due[a] # None => s[a] <= due[a])
            /\ s[a] <= m
        BY <3>2, <1>3, <1>5, <3>0
      <4>2. inst.deadline[a] # None =>
              \/ due[a] = inst.deadline[a]
              \/ inst.deadline[a] > m /\ inst.deadline[a] \in Int
        BY <3>0, <1>4
      <4> QED
        BY <3>0, <4>1, <4>2
    <3> QED
      BY <3>1, <3>2
  <2> QED
    BY <2>1 DEF OnTime, EarliestViolations
<1>8. InOrder(c)
  <2> SUFFICES ASSUME NEW e \in inst.deps, e[1] \in DOMAIN c, e[2] \in DOMAIN c
               PROVE  c[e[1]] <= c[e[2]]
    BY DEF InOrder
  <2>1. e[1] \in keep /\ e[2] \in DOMAIN s
    BY <1>5 DEF keep
  <2> QED
    BY <2>1, <1>3, <1>5
<1>9. LatePredecessors(c)
  <2> SUFFICES ASSUME NEW e \in inst.deps,
                      e[2] \in DOMAIN c, e[1] \notin DOMAIN c
               PROVE  inst.earliest[e[1]] > c[e[2]]
    BY DEF LatePredecessors
  <2>1. /\ e[1] \in inst.assets /\ e[1] \notin DOMAIN committed
        /\ e[2] \in DOMAIN s /\ c[e[2]] = s[e[2]]
        /\ s[e[2]] \in Nat /\ inst.earliest[e[1]] \in Nat
    BY <1>3, <1>4, <1>5
  <2>2. CASE e[2] \in DOMAIN committed
    BY <2>1, <2>2, <1>1, <1>3 DEF LatePredecessors
  <2>3. CASE e[2] \notin DOMAIN committed
    <3>1. s[e[2]] <= m
      BY <2>3, <1>5
    <3>2. e[1] \notin S
      <4> SUFFICES ASSUME e[1] \in S PROVE FALSE
        OBVIOUS
      <4>1. e[1] \in DOMAIN s /\ s[e[1]] <= s[e[2]] /\ s[e[1]] \in Nat
        BY <2>1, <1>3, <1>4 DEF keep
      <4>2. s[e[1]] \in 0 .. m
        BY <2>1, <3>1, <4>1
      <4> QED
        BY <4>1, <4>2, <1>5
    <3>3. inst.earliest[e[1]] > m
      BY <2>1, <3>2 DEF free
    <3> QED
      BY <2>1, <3>1, <3>3
  <2> QED
    BY <2>2, <2>3
<1>10. BudgetViolations(inst, c) = {}
  <2> SUFFICES ASSUME NEW t \in Periods(inst)
               PROVE  Spend(inst, c, t) <= inst.budget[t]
    BY DEF BudgetViolations
  <2> DEFINE C == {a \in inst.assets \cap DOMAIN c : c[a] = t}
             B == {a \in inst.assets \cap DOMAIN s : s[a] = t}
  <2>1. C \subseteq B /\ B \subseteq inst.assets
    BY <1>5
  <2>2. Spend(inst, c, t) = CostOf(inst.cost, C)
        /\ Spend(inst, s, t) = CostOf(inst.cost, B)
    BY DEF Spend
  <2> HIDE DEF C, B
  <2>3. /\ CostOf(inst.cost, C) <= CostOf(inst.cost, B)
        /\ CostOf(inst.cost, C) \in Nat /\ CostOf(inst.cost, B) \in Nat
    BY <2>1, CostSubset, CostNat
  <2>4. CostOf(inst.cost, B) <= inst.budget[t] /\ inst.budget[t] \in Nat
    BY <1>3, <2>2 DEF IsInstance
  <2> QED
    BY <2>2, <2>3, <2>4
<1>11. Together(c)
  <2> SUFFICES ASSUME NEW p \in Range(inst.clusters),
                      p[1] \in DOMAIN c, p[2] \in DOMAIN c
               PROVE  c[p[1]] = c[p[2]]
    BY DEF Together
  <2>1. /\ p[1] \in keep /\ p[2] \in keep
        /\ p[1] \in DOMAIN s /\ p[2] \in DOMAIN s
        /\ c[p[1]] = s[p[1]] /\ c[p[2]] = s[p[2]]
    BY <1>5 DEF keep
  <2> QED
    BY <2>1, <1>3 DEF Slot
<1>12. LatePartners(c)
  <2> SUFFICES ASSUME NEW i \in inst.assets, NEW j \in inst.assets,
                      Coupled(i, j), i \in DOMAIN c, j \notin DOMAIN c
               PROVE  inst.earliest[j] > c[i]
    BY DEF LatePartners
  <2>1. /\ j \notin DOMAIN committed /\ i \in DOMAIN s /\ c[i] = s[i]
        /\ s[i] \in Nat /\ inst.earliest[j] \in Nat
    BY <1>3, <1>4, <1>5
  <2>2. CASE i \in DOMAIN committed
    BY <2>1, <2>2, <1>1, <1>3 DEF LatePartners
  <2>3. CASE i \notin DOMAIN committed
    <3>1. i \in keep /\ s[i] \in 0 .. m
      BY <2>1, <2>3, <1>5 DEF keep
    <3>2. j \notin S
      <4> SUFFICES ASSUME j \in S PROVE FALSE
        OBVIOUS
      <4>1. Slot(s, i) = Slot(s, j)
        <5>1. i \in keep /\ j \in keep
          BY <3>1 DEF keep
        <5>2. CASE <<i, j>> \in Range(inst.clusters)
          BY <5>1, <5>2, <1>3
        <5>3. CASE <<j, i>> \in Range(inst.clusters)
          BY <5>1, <5>3, <1>3
        <5> QED
          BY <5>2, <5>3 DEF Coupled
      <4>2. s[i] # None
        BY <2>1, NoneAssumption
      <4>3. j \in DOMAIN s /\ s[j] = s[i]
        BY <2>1, <4>1, <4>2 DEF Slot
      <4> QED
        BY <3>1, <4>3, <1>5
    <3>3. inst.earliest[j] > m
      BY <2>1, <3>2 DEF free
    <3> QED
      BY <2>1, <3>1, <3>3
  <2> QED
    BY <2>2, <2>3
<1> QED
  BY <1>6, <1>7, <1>8, <1>9, <1>10, <1>11, <1>12 DEF Sound, c

-----------------------------------------------------------------------------
\* What a reply of the solver carries.
LEMMA ReplyFacts ==
  ASSUME NEW I, NEW r \in Replies(I), Usable(r)
  PROVE  r.schedule \in FeasibleSchedules(I)
<1> DEFINE found == IF NoWindow(I) = {} THEN FeasibleSchedules(I) ELSE {}
<1>1. \/ \E s \in found : \/ r = Reply("FEASIBLE", Risk(I, s), s)
                           \/ r = Reply("OPTIMAL", Risk(I, s), s)
      \/ r = Reply("UNKNOWN", None, None)
      \/ r = Reply("INFEASIBLE", None, None)
  BY DEF Replies
<1>2. found \subseteq FeasibleSchedules(I)
  OBVIOUS
<1> QED
  BY <1>1, <1>2 DEF Reply, Usable

LEMMA WindowIsSound ==
  ASSUME IInv, SolveWindow
  PROVE  Sound(committed')
<1>1. PICK r \in Replies(WindowInstance) :
        committed' = IF Usable(r) THEN Freeze(visible, r.schedule, Frozen)
                     ELSE committed
  BY DEF SolveWindow
<1>2. Sound(committed) /\ IsInstance(inst)
  BY InstanceAssumption DEF IInv
<1>3. CASE Usable(r)
  <2>1. inst.T \in Nat \ {0} /\ inst.earliest \in [inst.assets -> Nat]
        /\ inst.deadline \in [inst.assets -> Int \cup {None}]
    BY <1>2 DEF IsInstance
  <2>2. hi \in Int /\ \E m \in Int : Frozen = 0 .. m /\ m <= hi
    BY <2>1, FrozenFacts DEF IInv
  <2>3. PICK m \in Int : Frozen = 0 .. m /\ m <= hi
    BY <2>2
  <2>4. /\ visible \in SUBSET free
        /\ \A j \in free \ visible : inst.earliest[j] > m
    BY <2>1, <2>2, <2>3 DEF visible, free
  <2>5. /\ WindowDeadline \in [inst.assets -> Int \cup {None}]
        /\ \A a \in inst.assets : inst.deadline[a] # None =>
             WindowDeadline[a] = inst.deadline[a] \/ inst.deadline[a] > m
    BY <2>1, <2>2, <2>3 DEF WindowDeadline
  <2>6. r.schedule \in FeasibleSchedules(
                         SubInstance(DOMAIN committed \cup visible,
                                     WindowDeadline))
    BY <1>3, ReplyFacts DEF WindowInstance
  <2>7. Sound(Freeze(visible, r.schedule, 0 .. m))
    BY <1>2, <2>4, <2>5, <2>6, FreezeIsSound
  <2> QED
    BY <1>1, <1>3, <2>3, <2>7
<1>4. CASE ~Usable(r)
  BY <1>1, <1>2, <1>4
<1> QED
  BY <1>3, <1>4

LEMMA RepairIsSound ==
  ASSUME IInv, FinalRepair
  PROVE  Sound(committed')
<1>1. PICK r \in Replies(RepairInstance) :
        committed' = IF Usable(r) THEN Freeze(free, r.schedule, Periods(inst))
                     ELSE committed
  BY DEF FinalRepair
<1>2. Sound(committed) /\ IsInstance(inst)
  BY InstanceAssumption DEF IInv
<1>3. CASE Usable(r)
  <2>1. /\ inst.T - 1 \in Int /\ Periods(inst) = 0 .. inst.T - 1
        /\ inst.deadline \in [inst.assets -> Int \cup {None}]
    BY <1>2 DEF IsInstance, Periods
  <2>2. DOMAIN committed \cup free = inst.assets
    BY <1>2 DEF Sound, Schedules, free
  <2>3. r.schedule \in FeasibleSchedules(
                         SubInstance(DOMAIN committed \cup free, inst.deadline))
    BY <1>3, <2>2, ReplyFacts DEF RepairInstance
  <2>4. Sound(Freeze(free, r.schedule, 0 .. inst.T - 1))
    BY <1>2, <2>1, <2>3, FreezeIsSound
  <2> QED
    BY <1>1, <1>3, <2>1, <2>4
<1>4. CASE ~Usable(r)
  BY <1>1, <1>2, <1>4
<1> QED
  BY <1>3, <1>4

LEMMA InductiveInvariant == Spec => []IInv
<1>1. Init => IInv
  <2> SUFFICES ASSUME Init PROVE IInv
    OBVIOUS
  <2>1. inst \in InstanceSet /\ IsInstance(inst)
    BY InstanceAssumption DEF Init
  <2>2. committed \in [{} -> Periods(inst)] /\ DOMAIN committed = {}
    BY DEF Init
  <2>3. BudgetViolations(inst, committed) = {}
    <3> SUFFICES ASSUME NEW t \in Periods(inst)
                 PROVE  Spend(inst, committed, t) <= inst.budget[t]
      BY DEF BudgetViolations
    <3>1. {a \in inst.assets \cap DOMAIN committed : committed[a] = t} = {}
      BY <2>2
    <3>2. Spend(inst, committed, t) = 0
      BY <3>1, SumEmpty, Zenon DEF Spend, CostOf
    <3> QED
      BY <2>1, <3>2 DEF IsInstance
  <2>4. Sound(committed)
    BY <2>2, <2>3 DEF Sound, Schedules, OnTime, InOrder, Together,
                      LatePredecessors, LatePartners, EarliestViolations
  <2> QED
    BY <2>1, <2>4, TuningAssumption DEF Init, IInv
<1>2. IInv /\ [Next]_vars => IInv'
  <2> SUFFICES ASSUME IInv, [Next]_vars PROVE IInv'
    OBVIOUS
  <2>0. w + step \in Nat
    BY WindowFacts DEF IInv
  <2>1. Sound(committed')
    <3>1. CASE SolveWindow
      BY <3>1, WindowIsSound
    <3>2. CASE FinalRepair
      BY <3>2, RepairIsSound
    <3>3. CASE committed' = committed
      BY <3>3 DEF IInv
    <3> QED
      BY <3>1, <3>2, <3>3
      DEF Next, SkipWindow, AllCommitted, Return, Terminated, vars
  <2>2. inst' = inst
    BY DEF Next, SolveWindow, SkipWindow, AllCommitted, FinalRepair, Return,
           Terminated, vars
  <2>3. Sound(committed)'
    BY <2>1, <2>2
    DEF Sound, OnTime, InOrder, Together, LatePredecessors, LatePartners, Coupled
  <2> QED
    BY <2>0, <2>2, <2>3
    DEF IInv, Next, SolveWindow, SkipWindow, AllCommitted, FinalRepair, Return,
        Terminated, vars
<1> QED
  BY <1>1, <1>2, PTL DEF Spec

(***************************************************************************)
(* Whatever the windows, the solver's replies and the failures among them, *)
(* the frozen assets respect the capacity, their own windows and every     *)
(* dependency and cluster among them.                                      *)
(***************************************************************************)
THEOREM CommittedIsSound == Spec => []CommittedSound
<1>1. IInv => CommittedSound
  BY DEF IInv, Sound, Together, CommittedSound
<1> QED
  BY <1>1, InductiveInvariant, PTL

(***************************************************************************)
(* And an asset is frozen without its predecessor or its cluster partner   *)
(* only if the other one starts too late to join it.                       *)
(***************************************************************************)
THEOREM LeftBehindStartLate == Spec => []OnlyLateStartersAreLeftBehind
<1>1. IInv => OnlyLateStartersAreLeftBehind
  <2> SUFFICES ASSUME IInv,
                      NEW c \in Range(inst.clusters),
                      NEW i \in {c[1], c[2]}, NEW j \in {c[1], c[2]},
                      <<i, j>> = <<c[1], c[2]>> \/ <<j, i>> = <<c[1], c[2]>>,
                      i \in DOMAIN committed, j \notin DOMAIN committed
               PROVE  inst.earliest[j] > committed[i]
    BY DEF IInv, Sound, OnlyLateStartersAreLeftBehind
  <2>1. c = <<c[1], c[2]>> /\ i \in inst.assets /\ j \in inst.assets
    BY ClusterFacts, InstanceAssumption DEF IInv
  <2>2. Coupled(i, j)
    BY <2>1 DEF Coupled
  <2> QED
    BY <2>1, <2>2 DEF IInv, Sound, LatePartners
<1> QED
  BY <1>1, InductiveInvariant, PTL

-----------------------------------------------------------------------------
(* One window over the whole horizon. *)

OneWindow ==
  /\ window >= inst.T
  /\ NoWindow(inst) = {} /\ FeasibleSchedules(inst) # {}
  /\ \A a \in Mandated(inst) : inst.deadline[a] < inst.T

\* Nothing is frozen before the first solve; from then on, and while every
\* solve ends with a proof, what is frozen is an optimal schedule.
Exact ==
  OneWindow /\ proved =>
    \/ pc = "sweep" /\ w = 0 /\ DOMAIN committed = {}
    \/ /\ committed \in OptimalSchedules(inst)
       /\ pc = "done" => result.schedule = committed

Extends(s) ==
  \A a \in DOMAIN committed : a \in DOMAIN s /\ s[a] = committed[a]

\* The whole instance with the frozen assets pinned.
Pinned == SubInstance(inst.assets, inst.deadline)

LEMMA PinnedFields ==
  ASSUME IsInstance(inst)
  PROVE  /\ Pinned.assets = inst.assets /\ Pinned.T = inst.T
         /\ Pinned.budget = inst.budget
         /\ Pinned.deps = inst.deps
         /\ Range(Pinned.clusters) = Range(inst.clusters)
         /\ Periods(Pinned) = Periods(inst)
         /\ Schedules(Pinned) = Schedules(inst)
         /\ SameRisks(Pinned, inst)
         /\ \A a \in inst.assets :
              /\ a \in DOMAIN committed => /\ Pinned.earliest[a] = committed[a]
                                           /\ Pinned.deadline[a] = committed[a]
              /\ a \notin DOMAIN committed =>
                   /\ Pinned.earliest[a] = inst.earliest[a]
                   /\ Pinned.deadline[a] = inst.deadline[a]
<1> DEFINE J == Pinned
<1>1. /\ J.assets = inst.assets /\ J.T = inst.T /\ J.budget = inst.budget
      /\ J.crit = Restrict(inst.crit, inst.assets)
      /\ J.shelf = Restrict(inst.shelf, inst.assets)
      /\ J.crqc = inst.crqc /\ J.rm = inst.rm
      /\ J.deps = {e \in inst.deps : e[1] \in inst.assets /\ e[2] \in inst.assets}
      /\ Range(J.clusters) = {c \in Range(inst.clusters) :
                                c[1] \in inst.assets /\ c[2] \in inst.assets}
      /\ J.earliest = [a \in inst.assets |->
           IF a \in DOMAIN committed THEN committed[a] ELSE inst.earliest[a]]
      /\ J.deadline = [a \in inst.assets |->
           IF a \in DOMAIN committed THEN committed[a] ELSE inst.deadline[a]]
  BY SubInstanceFields DEF Pinned
<1> HIDE DEF J
<1>2. J.crit = inst.crit /\ J.shelf = inst.shelf
  BY <1>1 DEF Restrict, IsInstance
<1>3. J.deps = inst.deps
  BY <1>1 DEF IsInstance
<1>4. Range(J.clusters) = Range(inst.clusters)
  BY <1>1, ClusterFacts
<1>5. Periods(J) = Periods(inst) /\ Schedules(J) = Schedules(inst)
  BY <1>1 DEF Periods, Schedules
<1>6. SameRisks(J, inst)
  BY <1>1, <1>2 DEF SameRisks
<1> QED
  BY <1>1, <1>3, <1>4, <1>5, <1>6 DEF J

\* Its feasible schedules are those of the instance that extend what is
\* frozen, and every asset still has a window.
LEMMA PinnedFeasible ==
  ASSUME IsInstance(inst), Sound(committed)
  PROVE  FeasibleSchedules(Pinned) = {s \in FeasibleSchedules(inst) : Extends(s)}
<1>1. /\ committed \in Schedules(inst) /\ OnTime(committed)
      /\ DOMAIN committed \subseteq inst.assets
      /\ \A a \in DOMAIN committed : committed[a] \in Nat /\ committed[a] # None
      /\ \A a \in DOMAIN committed :
           /\ inst.earliest[a] <= committed[a]
           /\ inst.deadline[a] # None => committed[a] <= inst.deadline[a]
  <2>1. committed \in Schedules(inst) /\ OnTime(committed)
    BY DEF Sound
  <2>2. /\ DOMAIN committed \subseteq inst.assets
        /\ \A a \in DOMAIN committed : committed[a] \in Nat
    BY <2>1 DEF Schedules, Periods, IsInstance
  <2>3. \A a \in DOMAIN committed : ~(committed[a] < inst.earliest[a])
    BY <2>1, <2>2 DEF OnTime, EarliestViolations
  <2>4. \A a \in DOMAIN committed : inst.earliest[a] <= committed[a]
    BY <2>2, <2>3 DEF IsInstance
  <2> QED
    BY <2>1, <2>2, <2>4, NoneAssumption DEF OnTime
<1> DEFINE J == Pinned
<1>2. /\ J.assets = inst.assets /\ J.deps = inst.deps /\ J.budget = inst.budget
      /\ Range(J.clusters) = Range(inst.clusters)
      /\ Periods(J) = Periods(inst) /\ Schedules(J) = Schedules(inst)
      /\ \A a \in inst.assets :
           /\ a \in DOMAIN committed => /\ J.earliest[a] = committed[a]
                                        /\ J.deadline[a] = committed[a]
           /\ a \notin DOMAIN committed => /\ J.earliest[a] = inst.earliest[a]
                                           /\ J.deadline[a] = inst.deadline[a]
  BY PinnedFields
<1>3. ASSUME NEW s \in Schedules(inst)
      PROVE  /\ DOMAIN s \subseteq inst.assets
             /\ \A a \in DOMAIN s : s[a] \in Nat
             /\ BudgetViolations(J, s) = BudgetViolations(inst, s)
             /\ PrecedenceViolations(J, s) = PrecedenceViolations(inst, s)
             /\ ClusterViolations(J, s) = ClusterViolations(inst, s)
  <2>1. DOMAIN s \subseteq inst.assets /\ \A a \in DOMAIN s : s[a] \in Nat
    BY DEF Schedules, Periods, IsInstance
  <2>2. \A t : Spend(J, s, t) = Spend(inst, s, t)
    BY <2>1, SameSpend DEF Pinned
  <2> HIDE DEF J
  <2> QED
    BY <2>1, <2>2, <1>2
    DEF BudgetViolations, PrecedenceViolations, ClusterViolations
<1> HIDE DEF J
<1>4. ASSUME NEW s \in FeasibleSchedules(J)
      PROVE  s \in FeasibleSchedules(inst) /\ Extends(s)
  <2>1. s \in Schedules(inst) /\ Feasible(J, s)
    BY <1>2 DEF FeasibleSchedules
  <2>2. Extends(s)
    <3>1. /\ inst.assets \in SUBSET inst.assets
          /\ inst.deadline \in [inst.assets -> Int \cup {None}]
      BY DEF IsInstance
    <3>2. s \in FeasibleSchedules(SubInstance(inst.assets, inst.deadline))
      BY DEF J, Pinned
    <3>3. \A a \in DOMAIN committed : a \in DOMAIN s /\ s[a] = committed[a]
      BY <3>1, <3>2, <1>1, SubSolveFacts
    <3> QED
      BY <3>3 DEF Extends
  <2>3. EarliestViolations(inst, s) = {}
    <3> SUFFICES ASSUME NEW a \in inst.assets, a \in DOMAIN s,
                        s[a] < inst.earliest[a]
                 PROVE  FALSE
      BY DEF EarliestViolations
    <3>1. CASE a \in DOMAIN committed
      BY <3>1, <2>2, <1>1 DEF Extends, IsInstance
    <3>2. CASE a \notin DOMAIN committed
      BY <3>2, <2>1, <1>2 DEF Feasible, EarliestViolations
    <3> QED
      BY <3>1, <3>2
  <2>4. DeadlineViolations(inst, s) = {}
    <3> SUFFICES ASSUME NEW a \in inst.assets, inst.deadline[a] # None,
                        a \in DOMAIN s => s[a] > inst.deadline[a]
                 PROVE  FALSE
      BY DEF DeadlineViolations, Mandated
    <3>1. CASE a \in DOMAIN committed
      <4>1. committed[a] > inst.deadline[a] /\ committed[a] <= inst.deadline[a]
        BY <3>1, <2>2, <1>1 DEF Extends
      <4>2. committed[a] \in Int /\ inst.deadline[a] \in Int
        BY <3>1, <1>1 DEF IsInstance
      <4> QED
        BY <4>1, <4>2
    <3>2. CASE a \notin DOMAIN committed
      BY <3>2, <2>1, <1>2 DEF Feasible, DeadlineViolations, Mandated
    <3> QED
      BY <3>1, <3>2
  <2> QED
    BY <2>1, <2>2, <2>3, <2>4, <1>3 DEF Feasible, FeasibleSchedules
<1>5. ASSUME NEW s \in FeasibleSchedules(inst), Extends(s)
      PROVE  s \in FeasibleSchedules(J)
  <2>1. s \in Schedules(inst) /\ Feasible(inst, s)
    BY DEF FeasibleSchedules
  <2>2. EarliestViolations(J, s) = {}
    <3> SUFFICES ASSUME NEW a \in inst.assets, a \in DOMAIN s,
                        s[a] < J.earliest[a]
                 PROVE  FALSE
      BY <1>2 DEF EarliestViolations
    <3>1. CASE a \in DOMAIN committed
      BY <3>1, <1>1, <1>2, <1>5 DEF Extends
    <3>2. CASE a \notin DOMAIN committed
      BY <3>2, <2>1, <1>2 DEF Feasible, EarliestViolations
    <3> QED
      BY <3>1, <3>2
  <2>3. DeadlineViolations(J, s) = {}
    <3> SUFFICES ASSUME NEW a \in inst.assets, J.deadline[a] # None,
                        a \in DOMAIN s => s[a] > J.deadline[a]
                 PROVE  FALSE
      BY <1>2 DEF DeadlineViolations, Mandated
    <3>1. CASE a \in DOMAIN committed
      BY <3>1, <1>1, <1>2, <1>5 DEF Extends
    <3>2. CASE a \notin DOMAIN committed
      BY <3>2, <2>1, <1>2 DEF Feasible, DeadlineViolations, Mandated
    <3> QED
      BY <3>1, <3>2
  <2> QED
    BY <2>1, <2>2, <2>3, <1>2, <1>3 DEF Feasible, FeasibleSchedules
<1> QED
  BY <1>4, <1>5 DEF J

LEMMA PinnedHasWindows ==
  ASSUME IsInstance(inst), Sound(committed), NoWindow(inst) = {}
  PROVE  NoWindow(Pinned) = {}
<1>1. /\ Pinned.assets = inst.assets /\ Periods(Pinned) = Periods(inst)
      /\ \A a \in inst.assets :
           /\ a \in DOMAIN committed => /\ Pinned.earliest[a] = committed[a]
                                        /\ Pinned.deadline[a] = committed[a]
           /\ a \notin DOMAIN committed =>
                /\ Pinned.earliest[a] = inst.earliest[a]
                /\ Pinned.deadline[a] = inst.deadline[a]
  BY PinnedFields
<1> SUFFICES ASSUME NEW a \in inst.assets PROVE Window(Pinned, a) # {}
  BY <1>1 DEF NoWindow
<1>2. CASE a \in DOMAIN committed
  <2>1. committed[a] \in Periods(inst) /\ committed[a] \in Int
    BY <1>2 DEF Sound, Schedules, Periods, IsInstance
  <2>2. committed[a] \in Window(Pinned, a)
    BY <2>1, <1>1, <1>2 DEF Window
  <2> QED
    BY <2>2
<1>3. CASE a \notin DOMAIN committed
  <2>1. Window(Pinned, a) = Window(inst, a)
    BY <1>1, <1>3 DEF Window
  <2> QED
    BY <2>1 DEF NoWindow
<1> QED
  BY <1>2, <1>3

(***************************************************************************)
(* A proof about the whole instance is an optimal schedule of it that      *)
(* extends what is frozen, if nothing or an optimal schedule is frozen.    *)
(***************************************************************************)
LEMMA ExactSolve ==
  ASSUME IsInstance(inst), Sound(committed), OneWindow,
         DOMAIN committed = {} \/ committed \in OptimalSchedules(inst),
         inst \in InstanceSet,
         NEW r \in Replies(Pinned), Proof(r)
  PROVE  /\ Usable(r)
         /\ r.schedule \in OptimalSchedules(inst) /\ Extends(r.schedule)
<1> DEFINE J == Pinned
           found == FeasibleSchedules(J)
           risks == {Risk(J, z) : z \in found}
           least == Min(risks)
<1>1. found = {z \in FeasibleSchedules(inst) : Extends(z)}
  BY PinnedFeasible
<1>2. NoWindow(J) = {}
  BY PinnedHasWindows DEF OneWindow
<1>3. PICK o \in found :
        DOMAIN committed = {} \/ \A z \in FeasibleSchedules(inst) :
                                   Risk(inst, o) <= Risk(inst, z)
  <2>1. CASE DOMAIN committed = {}
    BY <2>1, <1>1 DEF OneWindow, Extends
  <2>2. CASE committed \in OptimalSchedules(inst)
    BY <2>2, <1>1 DEF OptimalSchedules, Extends
  <2> QED
    BY <2>1, <2>2
<1>4. \A z : Risk(J, z) = Risk(inst, z)
  BY PinnedFields, RiskCongruence
<1>5. \A z \in FeasibleSchedules(inst) : Risk(inst, z) \in Nat
  BY RiskNat DEF FeasibleSchedules
<1> HIDE DEF J
<1>6. \E z \in found : r = Reply("OPTIMAL", Risk(J, z), z) /\ Risk(J, z) = least
  <2>1. (IF NoWindow(J) = {} THEN FeasibleSchedules(J) ELSE {}) = found
    BY <1>2
  <2>2. found # {}
    BY <1>3
  <2> HIDE DEF found
  <2>3. \/ \E z \in found : r = Reply("FEASIBLE", Risk(J, z), z)
        \/ \E z \in found : /\ r = Reply("OPTIMAL", Risk(J, z), z)
                             /\ Risk(J, z) = least
        \/ r = Reply("UNKNOWN", None, None)
    BY <1>2, <2>1, <2>2, Zenon DEF Replies, J
  <2>4. \A status, objective, schedule :
          Reply(status, objective, schedule).status = status
    BY DEF Reply
  <2>5. r.status # "FEASIBLE" /\ r.status # "UNKNOWN"
    BY DEF Proof
  <2> HIDE DEF risks, least
  <2> QED
    BY <2>3, <2>4, <2>5, Zenon
<1>7. PICK s \in found : /\ r = Reply("OPTIMAL", Risk(J, s), s)
                         /\ Risk(J, s) = least
  BY <1>6
<1>8. s \in FeasibleSchedules(inst) /\ Extends(s)
  BY <1>1
<1>9. risks \in SUBSET Nat /\ risks # {}
  BY <1>1, <1>3, <1>4, <1>5
<1>10. \A x \in risks : least <= x
  <2> HIDE DEF risks
  <2> QED
    BY <1>9, LeastNat
<1>11. ASSUME NEW z \in FeasibleSchedules(inst)
       PROVE  Risk(inst, s) <= Risk(inst, z)
  <2>1. Risk(inst, s) <= Risk(inst, o)
    <3>1. Risk(J, o) \in risks
      OBVIOUS
    <3> QED
      BY <3>1, <1>4, <1>7, <1>10
  <2>2. CASE DOMAIN committed = {}
    <3>1. Risk(J, z) \in risks
      BY <1>1, <2>2 DEF Extends
    <3> QED
      BY <3>1, <1>4, <1>7, <1>10
  <2>3. CASE Risk(inst, o) <= Risk(inst, z)
    <3>1. Risk(inst, s) \in Nat /\ Risk(inst, o) \in Nat /\ Risk(inst, z) \in Nat
      BY <1>1, <1>5, <1>8
    <3> QED
      BY <2>1, <2>3, <3>1
  <2> QED
    BY <1>3, <2>2, <2>3
<1>12. s \in OptimalSchedules(inst)
  BY <1>8, <1>11 DEF OptimalSchedules
<1>13. s # None
  BY <1>8, ScheduleAssumption DEF FeasibleSchedules
<1> QED
  BY <1>7, <1>8, <1>12, <1>13 DEF Usable, Reply

\* Freezing all of an extending schedule yields that schedule.
LEMMA FreezeAll ==
  ASSUME NEW s \in Schedules(inst), Extends(s),
         DOMAIN committed \subseteq inst.assets
  PROVE  Freeze(free, s, Periods(inst)) = s
<1> DEFINE c == Freeze(free, s, Periods(inst))
<1>1. PICK D \in SUBSET inst.assets : s \in [D -> Periods(inst)]
  BY DEF Schedules
<1>2. {a \in free \cap DOMAIN s : s[a] \in Periods(inst)} = D \ DOMAIN committed
  BY <1>1 DEF free
<1>3. c = [a \in D |-> IF a \in DOMAIN committed THEN committed[a] ELSE s[a]]
  <2>1. DOMAIN committed \cup (D \ DOMAIN committed) = D
    BY <1>1 DEF Extends
  <2> QED
    BY <1>2, <2>1, Zenon DEF Freeze
<1>4. \A a \in D : c[a] = s[a]
  BY <1>1, <1>3 DEF Extends
<1> QED
  BY <1>1, <1>3, <1>4

\* The window at w sees everything and defers nothing.
LEMMA WholeHorizon ==
  ASSUME IsInstance(inst), tuning \in Int \X Int, w \in Nat, OneWindow
  PROVE  /\ hi = inst.T - 1
         /\ visible = free
         /\ Frozen = Periods(inst)
         /\ WindowDeadline = inst.deadline
<1>1. /\ inst.T \in Nat \ {0} /\ inst.earliest \in [inst.assets -> Nat]
      /\ inst.deadline \in [inst.assets -> Int \cup {None}]
  BY DEF IsInstance
<1>2. window \in Int /\ window >= inst.T
  BY WindowFacts DEF OneWindow
<1>3. hi = inst.T - 1
  <2>1. inst.T - 1 <= w + window - 1 /\ inst.T - 1 \in Int
        /\ w + window - 1 \in Int
    BY <1>1, <1>2
  <2>2. \E x \in {w + window - 1, inst.T - 1} :
          \A y \in {w + window - 1, inst.T - 1} : x <= y
    BY <2>1
  <2>3. hi \in {w + window - 1, inst.T - 1}
        /\ \A y \in {w + window - 1, inst.T - 1} : hi <= y
    BY <2>2 DEF hi, Min
  <2> QED
    BY <2>1, <2>3
<1>4. \A a \in inst.assets : inst.earliest[a] <= inst.T - 1
  <2> TAKE a \in inst.assets
  <2>1. PICK p \in Periods(inst) : p >= inst.earliest[a]
    BY DEF OneWindow, NoWindow, Window
  <2> QED
    BY <2>1, <1>1 DEF Periods
<1>5. visible = free
  BY <1>3, <1>4 DEF visible, free
<1>6. WindowDeadline = inst.deadline
  <2>1. \A a \in inst.assets : inst.deadline[a] # None => inst.deadline[a] <= hi
    BY <1>1, <1>3 DEF OneWindow, Mandated
  <2> QED
    BY <1>1, <2>1 DEF WindowDeadline
<1> QED
  BY <1>3, <1>5, <1>6 DEF Frozen

LEMMA ExactStep ==
  ASSUME IInv, Exact, [Next]_vars
  PROVE  Exact'
<1>1. /\ IsInstance(inst) /\ Sound(committed) /\ tuning \in Int \X Int
      /\ w \in Nat /\ inst.T \in Nat \ {0} /\ inst \in InstanceSet
      /\ DOMAIN committed \subseteq inst.assets
  <2>1. IsInstance(inst) /\ Sound(committed)
    BY InstanceAssumption DEF IInv
  <2>2. DOMAIN committed \subseteq inst.assets
    BY <2>1 DEF Sound, Schedules
  <2>3. inst.T \in Nat \ {0}
    BY <2>1 DEF IsInstance
  <2> QED
    BY <2>1, <2>2, <2>3 DEF IInv
<1>2. inst' = inst /\ tuning' = tuning /\ window' = window
  BY DEF Next, SolveWindow, SkipWindow, AllCommitted, FinalRepair, Return,
         Terminated, vars, window
<1>3. OneWindow' <=> OneWindow
  BY <1>2 DEF OneWindow
<1>4. proved' => proved
  BY DEF Next, SolveWindow, SkipWindow, AllCommitted, FinalRepair, Return,
         Terminated, vars
<1> SUFFICES ASSUME OneWindow, proved'
             PROVE  \/ pc' = "sweep" /\ w' = 0 /\ DOMAIN committed' = {}
                    \/ /\ committed' \in OptimalSchedules(inst)
                       /\ pc' = "done" => result'.schedule = committed'
  BY <1>2, <1>3 DEF Exact
<1>5. \/ pc = "sweep" /\ w = 0 /\ DOMAIN committed = {}
      \/ /\ committed \in OptimalSchedules(inst)
         /\ pc = "done" => result.schedule = committed
  BY <1>4 DEF Exact
<1>6. DOMAIN committed = {} \/ committed \in OptimalSchedules(inst)
  BY <1>5
<1>7. DOMAIN committed \cup free = inst.assets
  BY <1>1 DEF free
<1>8. visible = free /\ Frozen = Periods(inst) /\ WindowDeadline = inst.deadline
  BY <1>1, WholeHorizon
<1>9. ASSUME NEW r \in Replies(Pinned), Proof(r)
      PROVE  /\ Usable(r) /\ r.schedule \in OptimalSchedules(inst)
             /\ Freeze(free, r.schedule, Periods(inst)) = r.schedule
  <2>1. /\ Usable(r) /\ r.schedule \in OptimalSchedules(inst)
        /\ Extends(r.schedule)
    BY <1>1, <1>6, <1>9, ExactSolve
  <2>2. r.schedule \in Schedules(inst)
    BY <2>1 DEF OptimalSchedules, FeasibleSchedules
  <2> QED
    BY <1>1, <2>1, <2>2, FreezeAll
<1>10. CASE SolveWindow
  <2>1. WindowInstance = Pinned
    BY <1>7, <1>8 DEF WindowInstance, Pinned
  <2>2. PICK r \in Replies(WindowInstance) :
          /\ committed' = IF Usable(r) THEN Freeze(visible, r.schedule, Frozen)
                          ELSE committed
          /\ proved' = (proved /\ Proof(r))
    BY <1>10 DEF SolveWindow
  <2>3. r \in Replies(Pinned) /\ Proof(r)
    BY <2>1, <2>2
  <2>4. committed' = r.schedule /\ r.schedule \in OptimalSchedules(inst)
    BY <1>8, <1>9, <2>2, <2>3
  <2>5. pc' = "sweep"
    BY <1>10 DEF SolveWindow
  <2> QED
    BY <2>4, <2>5
<1>11. CASE SkipWindow
  BY <1>8, <1>11 DEF SkipWindow
<1>12. CASE AllCommitted
  <2>1. free = {} /\ pc' = "floor" /\ committed' = committed
    BY <1>12 DEF AllCommitted
  <2>2. CASE DOMAIN committed = {}
    <3>1. inst.assets = {}
      BY <1>7, <2>1, <2>2
    <3>2. \A s, z \in Schedules(inst) : s = z
      BY <3>1 DEF Schedules
    <3>3. committed \in FeasibleSchedules(inst)
      BY <3>2, <1>1 DEF OneWindow, FeasibleSchedules, Sound
    <3>4. ASSUME NEW z \in FeasibleSchedules(inst)
          PROVE  Risk(inst, committed) <= Risk(inst, z)
      <4>1. z = committed
        BY <3>2, <3>3 DEF FeasibleSchedules
      <4>2. Risk(inst, committed) \in Nat
        BY <1>1, RiskNat DEF Sound
      <4> QED
        BY <4>1, <4>2
    <3> QED
      BY <2>1, <3>3, <3>4 DEF OptimalSchedules
  <2> QED
    BY <1>6, <2>1, <2>2
<1>13. CASE FinalRepair
  <2>1. PICK r \in Replies(RepairInstance) :
          /\ committed' = IF Usable(r)
                          THEN Freeze(free, r.schedule, Periods(inst))
                          ELSE committed
          /\ proved' = (proved /\ Proof(r))
    BY <1>13 DEF FinalRepair
  <2>2. r \in Replies(Pinned) /\ Proof(r)
    BY <2>1 DEF RepairInstance, Pinned
  <2>3. committed' = r.schedule /\ r.schedule \in OptimalSchedules(inst)
    BY <1>9, <2>1, <2>2
  <2>4. pc' = "floor"
    BY <1>13 DEF FinalRepair
  <2> QED
    BY <2>3, <2>4
<1>14. CASE Return
  <2>1. committed \in OptimalSchedules(inst) /\ committed' = committed
    BY <1>5, <1>14 DEF Return
  <2>2. Feasible(inst, committed)
    BY <2>1 DEF OptimalSchedules, FeasibleSchedules
  <2>3. result'.schedule = committed
    BY <2>2, <1>14 DEF Return, Reply
  <2> QED
    BY <2>1, <2>3
<1>15. CASE Terminated \/ UNCHANGED vars
  BY <1>5, <1>15 DEF Terminated, vars
<1> QED
  BY <1>10, <1>11, <1>12, <1>13, <1>14, <1>15 DEF Next

(***************************************************************************)
(* With one window over the horizon and proven answers, the sweep returns  *)
(* an optimal schedule: for every instance whose assets all have a window  *)
(* and whose deadlines lie in the horizon, if any schedule is feasible.    *)
(***************************************************************************)
THEOREM ExactWithOneWindow == Spec => []OneWindowIsExact
<1>1. Init => Exact
  BY DEF Init, Exact
<1>2. IInv /\ Exact /\ [Next]_vars => Exact'
  BY ExactStep
<1>3. Exact => OneWindowIsExact
  BY DEF Exact, OneWindow, OneWindowIsExact
<1> QED
  BY <1>1, <1>2, <1>3, InductiveInvariant, PTL DEF Spec

(***************************************************************************)
(* The sweep implements the abstract planner Anytime: nothing it freezes   *)
(* changes what it promises, and the one reply is honest and feasible      *)
(* whenever some greedy schedule is.                                       *)
(***************************************************************************)
THEOREM RollingHorizonRefinesAnytime == Spec => RefinesAnytime
<1>1. Init => A!Init
  BY DEF Init, A!Init, FeasibleSchedules
<1>2. IInv /\ [Next]_vars => [A!Next]_(A!vars)
  <2> SUFFICES ASSUME IInv, [Next]_vars PROVE [A!Next]_(A!vars)
    OBVIOUS
  <2>1. CASE SolveWindow \/ SkipWindow \/ AllCommitted \/ FinalRepair
    BY <2>1 DEF SolveWindow, SkipWindow, AllCommitted, FinalRepair, A!vars
  <2>2. CASE Return
    <3> DEFINE s == IF Feasible(inst, committed) \/ greedy = None
                    THEN committed ELSE greedy
    <3>1. /\ result' = Reply(IF Feasible(inst, s)
                             THEN "FEASIBLE" ELSE "UNKNOWN",
                             Risk(inst, s), s)
          /\ inst' = inst /\ greedy' = greedy /\ result = None
      BY <2>2 DEF Return, IInv
    <3>2. committed # None
      BY ScheduleAssumption DEF IInv, Sound
    <3>3. s # None /\ (greedy # None => Feasible(inst, s))
      BY <3>2 DEF IInv, FeasibleSchedules
    <3> HIDE DEF s
    <3>4. A!Honest(result') /\ (greedy # None => result'.status = "FEASIBLE")
      BY <3>1, <3>3 DEF A!Honest, Reply
    <3> QED
      BY <3>1, <3>4 DEF A!Next, A!Deliver, A!vars
  <2>3. CASE Terminated \/ UNCHANGED vars
    BY <2>3 DEF Terminated, vars, A!vars
  <2> QED
    BY <2>1, <2>2, <2>3 DEF Next
<1> QED
  BY <1>1, <1>2, InductiveInvariant, PTL DEF Spec, RefinesAnytime, A!Spec

=============================================================================
