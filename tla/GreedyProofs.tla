---------------------------- MODULE GreedyProofs ----------------------------
(***************************************************************************)
(* Proofs about Greedy, for every set of instances, and about Plan, the    *)
(* route that runs it for comparison.  The greedy's first inductive        *)
(* invariant says that the union-find has put every processed co-migration *)
(* pair under one root, that a group and its members are scheduled         *)
(* together, and that the groups done are closed under predecessors with   *)
(* non-increasing periods; the scorer's structural constraints follow.     *)
(***************************************************************************)
EXTENDS Plan, InstancesProofs

\* The union-find: every pair processed so far is under one root.
PairsMerged ==
  /\ \A i \in 1 .. k :
       root[inst.clusters[i][1]] = root[inst.clusters[i][2]]
  /\ pc # "union" => k = Len(inst.clusters)

\* Nothing is scheduled before the sweep starts.
NothingYet ==
  pc = "union" => /\ t = 0
                  /\ pending = {}
                  /\ DOMAIN done = {}
                  /\ DOMAIN schedule = {}

\* A group is done when its members are scheduled, in its period.
GroupsWhole ==
  /\ DOMAIN schedule = {a \in inst.assets : root[a] \in DOMAIN done}
  /\ \A a \in DOMAIN schedule : schedule[a] = done[root[a]]

StartsRespected == \A a \in DOMAIN schedule : inst.earliest[a] <= schedule[a]

\* The groups done are closed under predecessors.
DoneClosed ==
  \A g \in DOMAIN done : \A p \in PredGroups(g) :
    p \in DOMAIN done /\ done[p] <= done[g]

\* During the sweep every group is pending or done.
GroupsSplit == pc # "union" => Groups = pending \cup DOMAIN done

\* The union-find only merges what a schedule that keeps the pairs together
\* keeps together.
RootsSound ==
  \A s \in Schedules(inst) : ClusterViolations(inst, s) = {} =>
    \A x, y \in inst.assets : root[x] = root[y] => Slot(s, x) = Slot(s, y)

\* The running capacity is the scorer's ledger, and never negative.
LedgerKept ==
  /\ pc = "sweep" => b = inst.budget[t] - Spend(inst, schedule, t) /\ b >= 0
  /\ \A p \in Periods(inst) : Spend(inst, schedule, p) <= inst.budget[p]

WellFormed == schedule \in Schedules(inst)

\* The sweep has left period p for good.
Passed(p) == p < t \/ (p = t /\ pc = "done")

\* No group could have gone into a period the sweep has left.
NothingLeftBehind ==
  \A g \in Groups, p \in Periods(inst) :
    Passed(p) /\ (g \in DOMAIN done => p < done[g]) => ~CouldMigrateAt(g, p)

IInv ==
  /\ TypeOK
  /\ PairsMerged
  /\ NothingYet
  /\ GroupsWhole
  /\ StartsRespected
  /\ DoneClosed

\* What capacity adds to it.
CInv ==
  /\ GroupsSplit
  /\ RootsSound
  /\ LedgerKept
  /\ NothingLeftBehind
  /\ WellFormed
  /\ pc = "done" => t + 1 = inst.T

-----------------------------------------------------------------------------
LEMMA ElementsOfSeq ==
  ASSUME NEW S, NEW s \in Seq(S)
  PROVE  Len(s) \in Nat /\ \A i \in 1 .. Len(s) : s[i] \in S
OBVIOUS

(* An instance, with the types the other proofs use. *)
LEMMA InstanceFacts ==
  ASSUME NEW I \in InstanceSet
  PROVE  /\ I.assets \subseteq Nat
         /\ I.T \in Nat \ {0}
         /\ I.earliest \in [I.assets -> Nat]
         /\ I.deps \subseteq I.assets \X I.assets
         /\ I.clusters \in Seq(I.assets \X I.assets)
         /\ Len(I.clusters) \in Nat
         /\ \A i \in 1 .. Len(I.clusters) :
              I.clusters[i][1] \in I.assets /\ I.clusters[i][2] \in I.assets
         /\ 0 \in Periods(I)
<1>1. IsInstance(I)
  BY InstanceAssumption
<1>2. I.clusters \in Seq(I.assets \X I.assets)
  BY <1>1 DEF IsInstance
<1>3. /\ Len(I.clusters) \in Nat
      /\ \A i \in 1 .. Len(I.clusters) :
           I.clusters[i] \in I.assets \X I.assets
  BY <1>2, ElementsOfSeq
<1>4. \A i \in 1 .. Len(I.clusters) :
        I.clusters[i][1] \in I.assets /\ I.clusters[i][2] \in I.assets
  BY <1>3
<1> QED
  BY <1>1, <1>2, <1>3, <1>4 DEF IsInstance, Periods

LEMMA InitIInv == Init => IInv
<1> SUFFICES ASSUME Init PROVE IInv
  OBVIOUS
<1>1. inst \in InstanceSet
  BY DEF Init
<1>2. TypeOK
  <2>1. 0 \in Periods(inst) /\ Len(inst.clusters) \in Nat
    BY <1>1, InstanceFacts
  <2>2. 0 \in 0 .. Len(inst.clusters)
    BY <2>1
  <2> QED
    BY <1>1, <2>1, <2>2 DEF Init, TypeOK
<1>3. PairsMerged /\ NothingYet /\ GroupsWhole /\ StartsRespected /\ DoneClosed
  BY <1>1, InstanceFacts
  DEF Init, PairsMerged, NothingYet, GroupsWhole, StartsRespected, DoneClosed
<1> QED
  BY <1>2, <1>3 DEF IInv

-----------------------------------------------------------------------------
(* The union-find step keeps every merged pair together. *)
LEMMA UnionIInv == IInv /\ Union => IInv'
<1> SUFFICES ASSUME IInv, Union PROVE IInv'
  OBVIOUS
<1> DEFINE c == inst.clusters[k + 1]
<1>1. /\ inst \in InstanceSet /\ k \in Nat /\ k < Len(inst.clusters)
      /\ Len(inst.clusters) \in Nat
  BY InstanceFacts DEF IInv, TypeOK, Union
<1>2. /\ c[1] \in inst.assets /\ c[2] \in inst.assets
      /\ \A i \in 1 .. k + 1 : /\ inst.clusters[i][1] \in inst.assets
                                /\ inst.clusters[i][2] \in inst.assets
  <2>1. \A i \in 1 .. Len(inst.clusters) :
          /\ inst.clusters[i][1] \in inst.assets
          /\ inst.clusters[i][2] \in inst.assets
    BY <1>1, InstanceFacts
  <2> QED
    BY <1>1, <2>1
<1>3. root \in [inst.assets -> inst.assets]
  BY DEF IInv, TypeOK
<1>4. root' = [a \in inst.assets |->
                 IF root[a] = root[c[1]] THEN root[c[2]] ELSE root[a]]
  BY DEF Union
<1>5. TypeOK'
  BY <1>1, <1>2, <1>3, <1>4, InstanceFacts DEF IInv, TypeOK, Union
<1>6. PairsMerged'
  <2>1. ASSUME NEW i \in 1 .. k + 1
        PROVE  root'[inst.clusters[i][1]] = root'[inst.clusters[i][2]]
    <3>1. CASE i = k + 1
      BY <3>1, <1>2, <1>4
    <3>2. CASE i \in 1 .. k
      BY <3>2, <1>2, <1>4 DEF IInv, PairsMerged
    <3> QED
      BY <3>1, <3>2, <1>1
  <2> QED
    BY <2>1 DEF PairsMerged, Union
<1>7. NothingYet' /\ GroupsWhole' /\ StartsRespected' /\ DoneClosed'
  BY DEF IInv, NothingYet, GroupsWhole, StartsRespected, DoneClosed, Union
<1> QED
  BY <1>5, <1>6, <1>7 DEF IInv

LEMMA StartSweepIInv == IInv /\ StartSweep => IInv'
<1> SUFFICES ASSUME IInv, StartSweep PROVE IInv'
  OBVIOUS
<1>1. Groups \subseteq inst.assets
  BY DEF IInv, TypeOK, Groups
<1>2. TypeOK'
  BY <1>1 DEF IInv, TypeOK, NothingYet, StartSweep
<1>3. /\ PairsMerged' /\ NothingYet' /\ GroupsWhole'
      /\ StartsRespected' /\ DoneClosed'
  BY DEF IInv, PairsMerged, NothingYet, GroupsWhole, StartsRespected,
         DoneClosed, PredGroups, StartSweep
<1> QED
  BY <1>2, <1>3 DEF IInv

(* Migrating a group: its members enter the schedule at t, and it joins    *)
(* the groups done after all its predecessors.                             *)
LEMMA MigrateIInv == ASSUME NEW g \in pending PROVE IInv /\ Migrate(g) => IInv'
<1> SUFFICES ASSUME IInv, Migrate(g) PROVE IInv'
  OBVIOUS
<1>1. /\ inst \in InstanceSet /\ inst' = inst /\ root' = root /\ t' = t
      /\ k' = k /\ pc' = pc /\ pc = "sweep"
      /\ pending' = pending \ {g}
      /\ done' = [h \in DOMAIN done \cup {g} |-> IF h = g THEN t ELSE done[h]]
      /\ schedule' = [a \in DOMAIN schedule \cup Members(g) |->
                        IF a \in Members(g) THEN t ELSE schedule[a]]
  BY DEF IInv, TypeOK, Migrate
<1>2. /\ t \in Nat
      /\ \A h \in DOMAIN done : done[h] \in 0 .. t
      /\ \A a \in DOMAIN schedule : schedule[a] \in 0 .. t
      /\ g \in inst.assets /\ g \notin DOMAIN done
      /\ Members(g) \subseteq inst.assets
  BY <1>1, InstanceFacts DEF IInv, TypeOK, Periods, Members
<1>3. /\ \A a \in Members(g) : inst.earliest[a] <= t
      /\ \A p \in PredGroups(g) : p \in DOMAIN done /\ done[p] <= t
  BY DEF Migrate, Eligible, DepsReady
<1>4. TypeOK'
  <2>1. /\ DOMAIN done' \subseteq inst.assets \ pending'
        /\ \A h \in DOMAIN done' : done'[h] \in 0 .. t
    BY <1>1, <1>2 DEF IInv, TypeOK
  <2>2. /\ DOMAIN schedule' \subseteq inst.assets
        /\ \A a \in DOMAIN schedule' : schedule'[a] \in 0 .. t
    BY <1>1, <1>2 DEF IInv, TypeOK
  <2> QED
    BY <2>1, <2>2, <1>1 DEF IInv, TypeOK, Migrate
<1>5. PairsMerged' /\ NothingYet'
  BY <1>1 DEF IInv, PairsMerged, NothingYet
<1>6. GroupsWhole'
  BY <1>1, <1>2 DEF IInv, GroupsWhole, Members
<1>7. StartsRespected'
  BY <1>1, <1>3 DEF IInv, StartsRespected
<1>8. DoneClosed'
  <2>1. ASSUME NEW h \in DOMAIN done', NEW p \in PredGroups(h)
        PROVE  p \in DOMAIN done' /\ done'[p] <= done'[h]
    <3>1. CASE h = g
      <4>1. p # g
        BY <3>1 DEF PredGroups
      <4> QED
        BY <4>1, <3>1, <1>1, <1>3
    <3>2. CASE h # g
      BY <3>2, <1>1, <1>2 DEF IInv, DoneClosed
    <3> QED
      BY <3>1, <3>2
  <2>2. \A h : PredGroups(h)' = PredGroups(h)
    BY <1>1 DEF PredGroups
  <2> QED
    BY <2>1, <2>2 DEF DoneClosed
<1> QED
  BY <1>4, <1>5, <1>6, <1>7, <1>8 DEF IInv

LEMMA NextPeriodIInv == IInv /\ NextPeriod => IInv'
<1> SUFFICES ASSUME IInv, NextPeriod PROVE IInv'
  OBVIOUS
<1>1. inst \in InstanceSet /\ t \in Nat /\ t + 1 \in Periods(inst)
  <2>1. inst \in InstanceSet /\ t \in Periods(inst) /\ t + 1 < inst.T
    BY DEF IInv, TypeOK, NextPeriod
  <2>2. inst.T \in Nat
    BY <2>1, InstanceFacts
  <2> QED
    BY <2>1, <2>2 DEF Periods
<1>2. TypeOK'
  BY <1>1 DEF IInv, TypeOK, NextPeriod
<1>3. /\ PairsMerged' /\ NothingYet' /\ GroupsWhole'
      /\ StartsRespected' /\ DoneClosed'
  BY DEF IInv, PairsMerged, NothingYet, GroupsWhole, StartsRespected,
         DoneClosed, PredGroups, NextPeriod
<1> QED
  BY <1>2, <1>3 DEF IInv

LEMMA IdleIInv == IInv /\ (Return \/ UNCHANGED vars) => IInv'
<1>1. IInv /\ Return => IInv'
  BY DEF IInv, TypeOK, PairsMerged, NothingYet, GroupsWhole, StartsRespected,
         DoneClosed, PredGroups, Return
<1>2. ASSUME IInv, UNCHANGED vars PROVE IInv'
  <2>1. TypeOK' /\ PairsMerged' /\ NothingYet'
    BY <1>2 DEF IInv, TypeOK, PairsMerged, NothingYet, vars
  <2>2. GroupsWhole' /\ StartsRespected'
    BY <1>2 DEF IInv, GroupsWhole, StartsRespected, vars
  <2>3. DoneClosed'
    BY <1>2 DEF IInv, DoneClosed, PredGroups, vars
  <2> QED
    BY <2>1, <2>2, <2>3 DEF IInv
<1> QED
  BY <1>1, <1>2

LEMMA NextIInv == IInv /\ [Next]_vars => IInv'
<1> SUFFICES ASSUME IInv, [Next]_vars PROVE IInv'
  OBVIOUS
<1>1. CASE Union
  BY <1>1, UnionIInv
<1>2. CASE StartSweep
  BY <1>2, StartSweepIInv
<1>3. ASSUME NEW g \in pending, Migrate(g) PROVE IInv'
  BY <1>3, MigrateIInv
<1>4. CASE NextPeriod
  BY <1>4, NextPeriodIInv
<1>5. CASE Return \/ Terminated \/ UNCHANGED vars
  BY <1>5, IdleIInv DEF Terminated
<1> QED
  BY <1>1, <1>2, <1>3, <1>4, <1>5 DEF Next

LEMMA InductiveInvariant == Spec => []IInv
<1> QED
  BY InitIInv, NextIInv, PTL DEF Spec

(***************************************************************************)
(* Type correctness of the greedy machine.                                 *)
(***************************************************************************)
THEOREM TypeCorrect == Spec => []TypeOK
<1>1. IInv => TypeOK
  BY DEF IInv
<1> QED
  BY <1>1, InductiveInvariant, PTL

(* The scorer's structural constraints, from the groups. *)
LEMMA IInvStructure == IInv => StructureKept
<1> SUFFICES ASSUME IInv PROVE StructureKept
  OBVIOUS
<1>1. /\ inst \in InstanceSet
      /\ \A a \in DOMAIN schedule : schedule[a] \in Nat
      /\ \A g \in DOMAIN done : done[g] \in Nat
  BY InstanceFacts DEF IInv, TypeOK
<1>2. /\ inst.deps \subseteq inst.assets \X inst.assets
      /\ inst.earliest \in [inst.assets -> Nat]
  BY <1>1, InstanceFacts
<1>3. EarliestViolations(inst, schedule) = {}
  BY <1>1, <1>2 DEF IInv, StartsRespected, EarliestViolations
<1>4. PrecedenceViolations(inst, schedule) = {}
  <2>1. SUFFICES ASSUME NEW e \in inst.deps, e[2] \in DOMAIN schedule
                 PROVE  /\ e[1] \in DOMAIN schedule
                        /\ schedule[e[1]] <= schedule[e[2]]
    <3>1. \A e \in inst.deps : e[1] \in DOMAIN schedule =>
            schedule[e[1]] \in Nat
      BY <1>1
    <3> QED
      BY <1>1, <3>1 DEF PrecedenceViolations
  <2>2. /\ e[1] \in inst.assets
        /\ root[e[2]] \in DOMAIN done /\ schedule[e[2]] = done[root[e[2]]]
    BY <2>1, <1>2 DEF IInv, GroupsWhole
  <2>3. /\ root[e[1]] \in DOMAIN done
        /\ done[root[e[1]]] <= done[root[e[2]]]
    <3>1. CASE root[e[1]] = root[e[2]]
      BY <3>1, <2>2, <1>1
    <3>2. CASE root[e[1]] # root[e[2]]
      <4>1. root[e[1]] \in PredGroups(root[e[2]])
        BY <3>2 DEF PredGroups
      <4> QED
        BY <4>1, <2>2 DEF IInv, DoneClosed
    <3> QED
      BY <3>1, <3>2
  <2> QED
    BY <2>2, <2>3 DEF IInv, GroupsWhole
<1>5. ClusterViolations(inst, schedule) = {}
  <2>1. CASE pc = "union"
    BY <2>1 DEF IInv, NothingYet, ClusterViolations, Slot
  <2>2. CASE pc # "union"
    <3>1. /\ k = Len(inst.clusters)
          /\ inst.clusters \in Seq(inst.assets \X inst.assets)
      BY <2>2, <1>1, InstanceFacts DEF IInv, PairsMerged
    <3>2. ASSUME NEW c \in Range(inst.clusters)
          PROVE  Slot(schedule, c[1]) = Slot(schedule, c[2])
      <4>1. PICK i \in 1 .. k : c = inst.clusters[i]
        BY <3>1 DEF Range
      <4>2. /\ c[1] \in inst.assets /\ c[2] \in inst.assets
            /\ root[c[1]] = root[c[2]]
        BY <4>1, <3>1, <1>1, InstanceFacts DEF IInv, PairsMerged
      <4> QED
        BY <4>2 DEF IInv, GroupsWhole, Slot
    <3> QED
      BY <3>2 DEF ClusterViolations
  <2> QED
    BY <2>1, <2>2
<1> QED
  BY <1>3, <1>4, <1>5 DEF StructureKept

(***************************************************************************)
(* Whatever the ranking, the budgets and the order of the clusters: no     *)
(* asset is ever migrated early, before a predecessor, or apart from its   *)
(* cluster.                                                                *)
(***************************************************************************)
THEOREM StructureIsKept == Spec => []StructureKept
BY IInvStructure, InductiveInvariant, PTL

-----------------------------------------------------------------------------
(* Capacity: what each step does to the ledger, and to what was possible. *)

At(s, p) == {a \in inst.assets \cap DOMAIN s : s[a] = p}

LEMMA SpendNat ==
  ASSUME IsInstance(inst), NEW s, NEW p
  PROVE  Spend(inst, s, p) \in Nat /\ Spend(inst, s, p) = CostOf(inst.cost, At(s, p))
<1>1. At(s, p) \in SUBSET inst.assets
  BY DEF At
<1> QED
  BY <1>1, CostNat DEF Spend, At

LEMMA GroupCostNat ==
  ASSUME IsInstance(inst), NEW g
  PROVE  GroupCost(g) \in Nat
<1>1. Members(g) \in SUBSET inst.assets
  BY DEF Members
<1> QED
  BY <1>1, CostNat DEF GroupCost

(* The period after everything scheduled, and an empty one, are free. *)
LEMMA SpendNothing ==
  ASSUME NEW s, NEW p, \A a \in DOMAIN s : s[a] # p
  PROVE  Spend(inst, s, p) = 0
<1>1. At(s, p) = {}
  BY DEF At
<1>2. Spend(inst, s, p) = CostOf(inst.cost, {})
  BY <1>1 DEF Spend, At
<1> QED
  BY <1>2, SumEmpty DEF CostOf

(* Facts that every step of the proofs below starts from. *)
LEMMA StateFacts ==
  ASSUME IInv
  PROVE  /\ IsInstance(inst)
         /\ inst.T \in Nat \ {0} /\ t \in Nat /\ t < inst.T
         /\ \A p \in Periods(inst) : p \in Nat /\ p < inst.T /\ inst.budget[p] \in Nat
         /\ t \in Periods(inst)
         /\ \A g \in DOMAIN done : done[g] \in Nat /\ done[g] <= t
         /\ \A a \in DOMAIN schedule : schedule[a] \in Nat /\ schedule[a] <= t
<1>1. IsInstance(inst) /\ t \in Periods(inst)
  BY InstanceAssumption DEF IInv, TypeOK
<1>2. /\ \A g \in DOMAIN done : done[g] \in 0 .. t
      /\ \A a \in DOMAIN schedule : schedule[a] \in 0 .. t
  BY DEF IInv, TypeOK
<1>3. /\ inst.T \in Nat \ {0} /\ t \in Nat /\ t < inst.T
      /\ \A p \in Periods(inst) :
           p \in Nat /\ p < inst.T /\ inst.budget[p] \in Nat
  <2>1. inst.T \in Nat \ {0} /\ inst.budget \in [Periods(inst) -> Nat]
    BY <1>1 DEF IsInstance
  <2> QED
    BY <1>1, <2>1 DEF Periods
<1>4. /\ \A g \in DOMAIN done : done[g] \in Nat /\ done[g] <= t
      /\ \A a \in DOMAIN schedule : schedule[a] \in Nat /\ schedule[a] <= t
  BY <1>2, <1>3
<1> QED
  BY <1>1, <1>3, <1>4

LEMMA InitCInv == Init => CInv
<1> SUFFICES ASSUME Init PROVE CInv
  OBVIOUS
<1>1. IInv
  BY InitIInv
<1>2. GroupsSplit /\ WellFormed /\ (pc = "done" => t + 1 = inst.T)
  BY DEF Init, GroupsSplit, WellFormed, Schedules
<1>3. RootsSound
  BY DEF Init, RootsSound
<1>4. LedgerKept
  <2>1. \A p : Spend(inst, schedule, p) = 0
    BY SpendNothing DEF Init
  <2> QED
    BY <2>1, <1>1, StateFacts DEF Init, LedgerKept
<1>5. NothingLeftBehind
  BY <1>1, StateFacts DEF Init, NothingLeftBehind, Passed
<1> QED
  BY <1>2, <1>3, <1>4, <1>5 DEF CInv

(* Merging the roots of a pair joins groups that a sound schedule joins. *)
LEMMA UnionCInv == IInv /\ CInv /\ Union => CInv'
<1> SUFFICES ASSUME IInv, CInv, Union PROVE CInv'
  OBVIOUS
<1> DEFINE c == inst.clusters[k + 1]
<1>1. /\ inst' = inst /\ schedule' = schedule /\ t' = t /\ t = 0
      /\ pc = "union" /\ pc' = pc
  BY DEF IInv, NothingYet, Union
<1>2. RootsSound'
  <2>1. c[1] \in inst.assets /\ c[2] \in inst.assets /\ c \in Range(inst.clusters)
    <3>1. /\ inst \in InstanceSet /\ k \in Nat /\ k < Len(inst.clusters)
      BY InstanceFacts DEF IInv, TypeOK, Union
    <3>2. k + 1 \in 1 .. Len(inst.clusters)
      BY <3>1, InstanceFacts
    <3>3. /\ inst.clusters \in Seq(inst.assets \X inst.assets)
          /\ c[1] \in inst.assets /\ c[2] \in inst.assets
      BY <3>1, <3>2, InstanceFacts
    <3> QED
      BY <3>2, <3>3 DEF Range
  <2>2. root' = [a \in inst.assets |->
                   IF root[a] = root[c[1]] THEN root[c[2]] ELSE root[a]]
    BY DEF Union
  <2>3. ASSUME NEW s \in Schedules(inst), ClusterViolations(inst, s) = {},
               NEW x \in inst.assets, NEW y \in inst.assets, root'[x] = root'[y]
        PROVE  Slot(s, x) = Slot(s, y)
    <3>1. Slot(s, c[1]) = Slot(s, c[2])
      BY <2>1, <2>3 DEF ClusterViolations
    <3>2. \A z \in inst.assets : root[z] = root[c[1]] => Slot(s, z) = Slot(s, c[1])
      BY <2>1, <2>3 DEF CInv, RootsSound
    <3>3. \A z \in inst.assets : root[z] = root[c[2]] => Slot(s, z) = Slot(s, c[2])
      BY <2>1, <2>3 DEF CInv, RootsSound
    <3>4. root[x] = root[y] => Slot(s, x) = Slot(s, y)
      BY <2>3 DEF CInv, RootsSound
    <3> HIDE DEF c
    <3> QED
      BY <2>2, <2>3, <3>1, <3>2, <3>3, <3>4
  <2> QED
    BY <2>3, <1>1 DEF RootsSound
<1>3. /\ GroupsSplit' /\ LedgerKept' /\ WellFormed'
      /\ (pc = "done" => t + 1 = inst.T)'
  BY <1>1 DEF CInv, GroupsSplit, LedgerKept, WellFormed
<1>4. NothingLeftBehind'
  BY <1>1, StateFacts DEF NothingLeftBehind, Passed
<1> QED
  BY <1>2, <1>3, <1>4 DEF CInv

LEMMA StartSweepCInv == IInv /\ CInv /\ StartSweep => CInv'
<1> SUFFICES ASSUME IInv, CInv, StartSweep PROVE CInv'
  OBVIOUS
<1>1. /\ inst' = inst /\ schedule' = schedule /\ t' = t /\ t = 0
      /\ pc' = "sweep" /\ root' = root /\ done' = done
      /\ DOMAIN done = {} /\ DOMAIN schedule = {} /\ b' = inst.budget[0]
      /\ pending' = Groups
  BY DEF IInv, NothingYet, StartSweep
<1>2. /\ GroupsSplit' /\ RootsSound' /\ WellFormed'
      /\ (pc = "done" => t + 1 = inst.T)'
  BY <1>1 DEF CInv, GroupsSplit, Groups, RootsSound, WellFormed
<1>3. LedgerKept'
  <2>1. \A p : Spend(inst, schedule, p) = 0
    BY <1>1, SpendNothing
  <2> QED
    BY <2>1, <1>1, StateFacts DEF LedgerKept
<1>4. NothingLeftBehind'
  BY <1>1, StateFacts DEF NothingLeftBehind, Passed
<1> QED
  BY <1>2, <1>3, <1>4 DEF CInv

(* Migrating g spends its cost in period t and nothing elsewhere; it makes *)
(* no other group admissible in a period that the sweep has left.          *)
LEMMA MigrateCInv ==
  ASSUME NEW g \in pending
  PROVE  IInv /\ CInv /\ Migrate(g) => CInv'
<1> SUFFICES ASSUME IInv, CInv, Migrate(g) PROVE CInv'
  OBVIOUS
<1>1. /\ inst' = inst /\ root' = root /\ t' = t /\ pc' = pc /\ pc = "sweep"
      /\ b' = b - GroupCost(g) /\ GroupCost(g) <= b
      /\ pending' = pending \ {g}
      /\ done' = [h \in DOMAIN done \cup {g} |-> IF h = g THEN t ELSE done[h]]
      /\ schedule' = [a \in DOMAIN schedule \cup Members(g) |->
                        IF a \in Members(g) THEN t ELSE schedule[a]]
      /\ g \notin DOMAIN done
  BY DEF IInv, TypeOK, Migrate, Eligible
<1>2. /\ Members(g) \in SUBSET inst.assets
      /\ Members(g) \cap DOMAIN schedule = {}
      /\ At(schedule, t) \in SUBSET inst.assets
  BY <1>1 DEF IInv, GroupsWhole, Members, At
<1>3. /\ At(schedule', t) = At(schedule, t) \cup Members(g)
      /\ At(schedule, t) \cap Members(g) = {}
      /\ \A p : p # t => At(schedule', p) = At(schedule, p)
  BY <1>1, <1>2 DEF At
<1>4. Spend(inst, schedule', t) = Spend(inst, schedule, t) + GroupCost(g)
  <2>1. CostOf(inst.cost, At(schedule, t) \cup Members(g))
          = CostOf(inst.cost, At(schedule, t)) + CostOf(inst.cost, Members(g))
    BY <1>2, <1>3, StateFacts, CostUnion
  <2>2. CostOf(inst.cost, At(schedule', t))
          = CostOf(inst.cost, At(schedule, t) \cup Members(g))
    BY <1>3, Zenon
  <2> QED
    BY <2>1, <2>2, StateFacts, SpendNat DEF GroupCost
<1>5. \A p : p # t => Spend(inst, schedule', p) = Spend(inst, schedule, p)
  <2>1. \A p : p # t => CostOf(inst.cost, At(schedule', p))
                          = CostOf(inst.cost, At(schedule, p))
    BY <1>3, Zenon
  <2> QED
    BY <2>1, StateFacts, SpendNat
<1>6. GroupsSplit' /\ RootsSound' /\ (pc = "done" => t + 1 = inst.T)'
  <2>1. Groups' = Groups
    BY <1>1 DEF Groups
  <2>2. Groups = pending \cup DOMAIN done
    BY <1>1 DEF CInv, GroupsSplit
  <2> QED
    BY <1>1, <2>1, <2>2 DEF CInv, GroupsSplit, RootsSound
<1>7. LedgerKept'
  <2>1. /\ b = inst.budget[t] - Spend(inst, schedule, t)
        /\ \A p \in Periods(inst) : Spend(inst, schedule, p) <= inst.budget[p]
    BY <1>1 DEF CInv, LedgerKept
  <2>2. /\ inst.budget[t] \in Nat /\ GroupCost(g) \in Nat
        /\ Spend(inst, schedule, t) \in Nat
    BY StateFacts, SpendNat, GroupCostNat
  <2>3. b' = inst.budget[t] - Spend(inst, schedule', t) /\ b' >= 0
    BY <1>1, <1>4, <2>1, <2>2
  <2>4. Spend(inst, schedule', t) <= inst.budget[t]
    BY <1>1, <1>4, <2>1, <2>2
  <2> QED
    BY <1>1, <1>5, <2>1, <2>3, <2>4 DEF LedgerKept
<1>8. NothingLeftBehind'
  <2>1. ASSUME NEW h \in Groups, NEW p \in Periods(inst), p < t,
               h \in DOMAIN done' => p < done'[h], CouldMigrateAt(h, p)'
        PROVE  FALSE
    <3>1. h \in DOMAIN done => p < done[h]
      BY <1>1, <2>1
    <3>2. p # t /\ p \in Nat /\ t \in Nat
      BY <2>1, StateFacts
    <3>3. /\ \A a \in Members(h) : inst.earliest[a] <= p
          /\ \A q \in PredGroups(h) : q \in DOMAIN done' /\ done'[q] <= p
          /\ Spend(inst, schedule', p) + GroupCost(h) <= inst.budget[p]
      <4>1. CouldMigrateAt(h, p)'
        BY <2>1
      <4>2. /\ \A a \in Members(h)' : inst'.earliest[a] <= p
            /\ \A q \in PredGroups(h)' : q \in DOMAIN done' /\ done'[q] <= p
            /\ Spend(inst', schedule', p) + GroupCost(h)' <= inst'.budget[p]
        BY <4>1 DEF CouldMigrateAt
      <4>3. /\ Members(h)' = Members(h) /\ PredGroups(h)' = PredGroups(h)
            /\ GroupCost(h)' = GroupCost(h)
        BY <1>1 DEF Members, PredGroups, GroupCost
      <4> QED
        BY <1>1, <4>2, <4>3
    <3>4. ASSUME NEW q \in PredGroups(h)
          PROVE  q \in DOMAIN done /\ done[q] <= p
      <4>1. q \in DOMAIN done' /\ done'[q] <= p
        BY <3>3
      <4>2. q # g
        BY <1>1, <2>1, <3>2, <4>1
      <4> QED
        BY <1>1, <4>1, <4>2
    <3>5. CouldMigrateAt(h, p)
      BY <1>5, <3>2, <3>3, <3>4 DEF CouldMigrateAt
    <3> QED
      BY <2>1, <3>1, <3>5 DEF CInv, NothingLeftBehind, Passed
  <2>2. Groups' = Groups
    BY <1>1 DEF Groups
  <2> QED
    BY <1>1, <2>1, <2>2 DEF NothingLeftBehind, Passed
<1>9. WellFormed'
  <2>1. PICK D \in SUBSET inst.assets : schedule \in [D -> Periods(inst)]
    BY DEF CInv, WellFormed, Schedules
  <2>2. t \in Periods(inst)
    BY StateFacts
  <2>3. schedule' \in [D \cup Members(g) -> Periods(inst)]
    BY <1>1, <2>1, <2>2
  <2>4. D \cup Members(g) \in SUBSET inst.assets
    BY <1>2, <2>1
  <2> QED
    BY <1>1, <2>3, <2>4 DEF WellFormed, Schedules
<1> QED
  BY <1>6, <1>7, <1>8, <1>9 DEF CInv

(* Leaving period t because nothing is eligible: no group could go there.  *)
LEMMA NothingEligible ==
  ASSUME IInv, CInv, pc = "sweep", Eligible = {},
         NEW g \in Groups, NEW p \in Periods(inst), p <= t,
         g \in DOMAIN done => p < done[g]
  PROVE  ~CouldMigrateAt(g, p)
<1>1. CASE p < t
  BY <1>1 DEF CInv, NothingLeftBehind, Passed
<1>2. CASE p = t
  <2>1. g \in pending
    BY <1>2, StateFacts DEF CInv, GroupsSplit
  <2>2. /\ inst.budget[t] \in Nat /\ GroupCost(g) \in Nat
        /\ Spend(inst, schedule, t) \in Nat
        /\ b = inst.budget[t] - Spend(inst, schedule, t)
    BY StateFacts, SpendNat, GroupCostNat DEF CInv, LedgerKept
  <2>3. SUFFICES ASSUME CouldMigrateAt(g, p) PROVE g \in Eligible
    OBVIOUS
  <2>4. GroupCost(g) <= b
    BY <1>2, <2>2, <2>3 DEF CouldMigrateAt
  <2> QED
    BY <1>2, <2>1, <2>3, <2>4 DEF CouldMigrateAt, Eligible, DepsReady
<1> QED
  BY <1>1, <1>2, StateFacts

LEMMA NextPeriodCInv == IInv /\ CInv /\ NextPeriod => CInv'
<1> SUFFICES ASSUME IInv, CInv, NextPeriod PROVE CInv'
  OBVIOUS
<1>1. /\ inst' = inst /\ root' = root /\ t' = t + 1 /\ t + 1 < inst.T
      /\ pc' = pc /\ pc = "sweep" /\ Eligible = {}
      /\ b' = inst.budget[t + 1] /\ pending' = pending
      /\ done' = done /\ schedule' = schedule
  BY DEF NextPeriod
<1>2. /\ GroupsSplit' /\ RootsSound' /\ WellFormed'
      /\ (pc = "done" => t + 1 = inst.T)'
  BY <1>1 DEF CInv, GroupsSplit, Groups, RootsSound, WellFormed
<1>3. LedgerKept'
  <2>1. /\ \A a \in DOMAIN schedule : schedule[a] # t + 1
        /\ t + 1 \in Periods(inst)
    BY <1>1, StateFacts DEF Periods
  <2>2. Spend(inst, schedule, t + 1) = 0
    BY <2>1, SpendNothing
  <2> QED
    BY <1>1, <2>1, <2>2, StateFacts DEF CInv, LedgerKept
<1>4. NothingLeftBehind'
  <2>1. ASSUME NEW h \in Groups, NEW p \in Periods(inst), p < t + 1,
               h \in DOMAIN done => p < done[h]
        PROVE  ~CouldMigrateAt(h, p)
    <3>1. p <= t
      BY <2>1, StateFacts
    <3> QED
      BY <1>1, <2>1, <3>1, NothingEligible
  <2>2. /\ Groups' = Groups
        /\ \A h, p : CouldMigrateAt(h, p)' = CouldMigrateAt(h, p)
    BY <1>1 DEF Groups, CouldMigrateAt, Members, PredGroups, GroupCost
  <2> QED
    BY <1>1, <2>1, <2>2 DEF NothingLeftBehind, Passed
<1> QED
  BY <1>2, <1>3, <1>4 DEF CInv

LEMMA ReturnCInv == IInv /\ CInv /\ Return => CInv'
<1> SUFFICES ASSUME IInv, CInv, Return PROVE CInv'
  OBVIOUS
<1>1. /\ inst' = inst /\ root' = root /\ t' = t /\ t + 1 = inst.T
      /\ pc' = "done" /\ pc = "sweep" /\ Eligible = {}
      /\ pending' = pending /\ done' = done /\ schedule' = schedule
  BY DEF Return
<1>2. /\ GroupsSplit' /\ RootsSound' /\ LedgerKept' /\ WellFormed'
      /\ (pc = "done" => t + 1 = inst.T)'
  BY <1>1 DEF CInv, GroupsSplit, Groups, RootsSound, LedgerKept, WellFormed
<1>3. NothingLeftBehind'
  <2>1. ASSUME NEW h \in Groups, NEW p \in Periods(inst), p <= t,
               h \in DOMAIN done => p < done[h]
        PROVE  ~CouldMigrateAt(h, p)
    BY <1>1, <2>1, NothingEligible
  <2>2. /\ Groups' = Groups
        /\ \A h, p : CouldMigrateAt(h, p)' = CouldMigrateAt(h, p)
    BY <1>1 DEF Groups, CouldMigrateAt, Members, PredGroups, GroupCost
  <2>3. \A p \in Periods(inst) : Passed(p)' => p <= t
    BY <1>1, StateFacts DEF Passed
  <2> QED
    BY <1>1, <2>1, <2>2, <2>3 DEF NothingLeftBehind
<1> QED
  BY <1>2, <1>3 DEF CInv

LEMMA IdleCInv == CInv /\ UNCHANGED vars => CInv'
<1> SUFFICES ASSUME CInv, UNCHANGED vars PROVE CInv'
  OBVIOUS
<1>1. /\ GroupsSplit' /\ RootsSound' /\ LedgerKept' /\ WellFormed'
      /\ (pc = "done" => t + 1 = inst.T)'
  BY DEF CInv, GroupsSplit, Groups, RootsSound, LedgerKept, WellFormed, vars
<1>2. NothingLeftBehind'
  <2>1. /\ Groups' = Groups
        /\ \A h, p : CouldMigrateAt(h, p)' = CouldMigrateAt(h, p)
    BY DEF Groups, CouldMigrateAt, Members, PredGroups, GroupCost, vars
  <2> QED
    BY <2>1 DEF CInv, NothingLeftBehind, Passed, vars
<1> QED
  BY <1>1, <1>2 DEF CInv

LEMMA NextCInv == IInv /\ CInv /\ [Next]_vars => (IInv /\ CInv)'
<1> SUFFICES ASSUME IInv, CInv, [Next]_vars PROVE CInv'
  BY NextIInv
<1>1. ASSUME NEW g \in pending, Migrate(g) PROVE CInv'
  BY <1>1, MigrateCInv
<1> QED
  BY <1>1, UnionCInv, StartSweepCInv, NextPeriodCInv, ReturnCInv, IdleCInv
  DEF Next, Terminated

LEMMA CapacityInvariant == Spec => [](IInv /\ CInv)
<1>1. Init => IInv /\ CInv
  BY InitIInv, InitCInv
<1> QED
  BY <1>1, NextCInv, PTL DEF Spec

(***************************************************************************)
(* The running capacity agrees with the scorer's ledger, and no period is  *)
(* overspent, whatever the ranking.                                        *)
(***************************************************************************)
THEOREM CapacityIsKept == Spec => []CapacityKept
<1>1. CInv => CapacityKept
  BY DEF CInv, LedgerKept, CapacityKept, BudgetViolations
<1> QED
  BY <1>1, CapacityInvariant, PTL

LEMMA CInvNoLeftShift == IInv /\ CInv => NoLeftShift
<1> SUFFICES ASSUME IInv, CInv, pc = "done", NEW g \in Groups,
                    NEW p \in Periods(inst), g \in DOMAIN done => p < done[g]
             PROVE  ~CouldMigrateAt(g, p)
  BY DEF NoLeftShift
<1>1. Passed(p)
  BY StateFacts DEF CInv, Passed
<1> QED
  BY <1>1 DEF CInv, NothingLeftBehind

(***************************************************************************)
(* Work conservation: the schedule returned leaves no group that could     *)
(* have been migrated alone in an earlier period.                          *)
(***************************************************************************)
THEOREM NothingShiftsLeft == Spec => []NoLeftShift
BY CInvNoLeftShift, CapacityInvariant, PTL

-----------------------------------------------------------------------------
(* Ample capacity: the schedule returned is pointwise the earliest. *)

StructurallySound(s) ==
  /\ EarliestViolations(inst, s) = {}
  /\ PrecedenceViolations(inst, s) = {}
  /\ ClusterViolations(inst, s) = {}

(* A sound schedule gives a whole group one period, after its             *)
(* predecessors.                                                          *)
LEMMA GroupInOnePeriod ==
  ASSUME IInv, CInv, NEW s \in Schedules(inst), StructurallySound(s),
         NEW a \in DOMAIN s, NEW x \in inst.assets, root[x] = root[a]
  PROVE  /\ x \in DOMAIN s /\ s[x] = s[a]
         /\ inst.earliest[x] <= s[a]
         /\ \A e \in inst.deps : e[2] = x => e[1] \in DOMAIN s /\ s[e[1]] <= s[a]
<1>1. /\ DOMAIN s \subseteq inst.assets
      /\ \A y \in DOMAIN s : s[y] \in Nat
  <2>1. PICK D \in SUBSET inst.assets : s \in [D -> Periods(inst)]
    BY DEF Schedules
  <2> QED
    BY <2>1, StateFacts
<1>2. Slot(s, x) = Slot(s, a)
  BY <1>1 DEF CInv, RootsSound, StructurallySound
<1>3. x \in DOMAIN s /\ s[x] = s[a]
  BY <1>1, <1>2, NoneAssumption DEF Slot
<1>4. inst.earliest[x] \in Nat
  BY StateFacts DEF IsInstance
<1>5. inst.earliest[x] <= s[a]
  BY <1>1, <1>3, <1>4 DEF StructurallySound, EarliestViolations
<1>6. ASSUME NEW e \in inst.deps, e[2] = x
      PROVE  e[1] \in DOMAIN s /\ s[e[1]] <= s[a]
  BY <1>1, <1>3, <1>6 DEF StructurallySound, PrecedenceViolations
<1> QED
  BY <1>3, <1>5, <1>6

LEMMA EarliestOfAll ==
  ASSUME IInv, CInv, pc = "done", AmpleBudget, AcyclicGroups,
         NEW s \in Schedules(inst), StructurallySound(s)
  PROVE  \A a \in DOMAIN s : a \in DOMAIN schedule /\ schedule[a] <= s[a]
<1> DEFINE Late(a) == ~ (root[a] \in DOMAIN done /\ done[root[a]] <= s[a])
           Bad == {g \in Groups : \E a \in DOMAIN s : root[a] = g /\ Late(a)}
<1>1. /\ DOMAIN s \subseteq inst.assets
      /\ \A y \in DOMAIN s : s[y] \in Nat /\ s[y] \in Periods(inst)
  <2>1. PICK D \in SUBSET inst.assets : s \in [D -> Periods(inst)]
    BY DEF Schedules
  <2> QED
    BY <2>1, StateFacts
<1>2. ASSUME NEW g \in Bad, PredGroups(g) \cap Bad = {}
      PROVE  FALSE
  <2>1. PICK a \in DOMAIN s : root[a] = g /\ Late(a)
    BY <1>2
  <2> DEFINE p == s[a]
  <2>2. p \in Periods(inst) /\ p \in Nat /\ (g \in DOMAIN done => p < done[g])
    BY <1>1, <2>1, StateFacts
  <2>3. \A x \in Members(g) : inst.earliest[x] <= p
    BY <2>1, GroupInOnePeriod DEF Members
  <2>4. ASSUME NEW q \in PredGroups(g)
        PROVE  q \in DOMAIN done /\ done[q] <= p
    <3>1. PICK e \in inst.deps : root[e[2]] = g /\ root[e[1]] = q
      BY DEF PredGroups
    <3>2. e[1] \in inst.assets /\ e[2] \in inst.assets
      BY StateFacts DEF IsInstance
    <3>3. e[1] \in DOMAIN s /\ s[e[1]] <= p
      BY <2>1, <3>1, <3>2, GroupInOnePeriod
    <3>4. q \in Groups /\ q \notin Bad
      BY <1>2, <3>1, <3>2 DEF Groups
    <3>5. q \in DOMAIN done /\ done[q] <= s[e[1]]
      BY <3>1, <3>3, <3>4
    <3> QED
      BY <1>1, <2>2, <3>3, <3>5, StateFacts
  <2>5. Spend(inst, schedule, p) + GroupCost(g) <= inst.budget[p]
    <3>1. /\ At(schedule, p) \in SUBSET inst.assets
          /\ Members(g) \in SUBSET inst.assets
          /\ At(schedule, p) \cap Members(g) = {}
      BY <2>2, StateFacts DEF IInv, GroupsWhole, At, Members
    <3>2. CostOf(inst.cost, At(schedule, p) \cup Members(g))
            = Spend(inst, schedule, p) + GroupCost(g)
      <4>1. CostOf(inst.cost, At(schedule, p) \cup Members(g))
              = CostOf(inst.cost, At(schedule, p)) + CostOf(inst.cost, Members(g))
        BY <3>1, StateFacts, CostUnion
      <4>2. Spend(inst, schedule, p) = CostOf(inst.cost, At(schedule, p))
        BY StateFacts, SpendNat
      <4> QED
        BY <4>1, <4>2 DEF GroupCost
    <3>3. CostOf(inst.cost, At(schedule, p) \cup Members(g))
            <= CostOf(inst.cost, inst.assets)
      BY <3>1, StateFacts, CostSubset
    <3>4. CostOf(inst.cost, inst.assets) <= inst.budget[p]
      BY <2>2 DEF AmpleBudget
    <3>5. CostOf(inst.cost, inst.assets) \in Nat /\ inst.budget[p] \in Nat
      BY <2>2, StateFacts, CostNat
    <3>6. Spend(inst, schedule, p) \in Nat /\ GroupCost(g) \in Nat
      BY StateFacts, SpendNat, GroupCostNat
    <3> QED
      BY <3>2, <3>3, <3>4, <3>5, <3>6
  <2>6. CouldMigrateAt(g, p)
    BY <2>3, <2>4, <2>5 DEF CouldMigrateAt
  <2> QED
    BY <2>2, <2>6, CInvNoLeftShift DEF NoLeftShift
<1>3. Bad = {}
  BY <1>2 DEF AcyclicGroups
<1>4. ASSUME NEW a \in DOMAIN s PROVE ~Late(a)
  BY <1>1, <1>3 DEF Groups
<1> QED
  BY <1>1, <1>4 DEF IInv, GroupsWhole

(***************************************************************************)
(* With ample capacity and groups that form a DAG, the schedule returned   *)
(* has the least risk of all that keep the structural constraints, and is  *)
(* feasible if any schedule is, for every ranking.                         *)
(***************************************************************************)
THEOREM AmpleBudgetOptimal == Spec => []AmpleBudgetIsOptimal
<1>1. IInv /\ CInv => AmpleBudgetIsOptimal
  <2> SUFFICES ASSUME IInv, CInv, pc = "done", AmpleBudget, AcyclicGroups
               PROVE  /\ \A s \in Schedules(inst) : StructurallySound(s) =>
                           Risk(inst, schedule) <= Risk(inst, s)
                      /\ FeasibleSchedules(inst) # {} => Feasible(inst, schedule)
    BY DEF AmpleBudgetIsOptimal, StructurallySound
  <2>1. schedule \in Schedules(inst)
    BY DEF CInv, WellFormed
  <2>2. ASSUME NEW s \in Schedules(inst), StructurallySound(s)
        PROVE  Risk(inst, schedule) <= Risk(inst, s)
    <3>1. \A a \in DOMAIN s : a \in DOMAIN schedule /\ schedule[a] <= s[a]
      BY <2>2, EarliestOfAll
    <3> QED
      BY <2>1, <3>1, StateFacts, RiskMonotone
  <2>3. ASSUME NEW z \in FeasibleSchedules(inst)
        PROVE  Feasible(inst, schedule)
    <3>1. z \in Schedules(inst) /\ StructurallySound(z) /\ DeadlineViolations(inst, z) = {}
      BY DEF FeasibleSchedules, Feasible, StructurallySound
    <3>2. \A a \in DOMAIN z : a \in DOMAIN schedule /\ schedule[a] <= z[a]
      BY <3>1, EarliestOfAll
    <3>3. DeadlineViolations(inst, schedule) = {}
      <4>1. ASSUME NEW a \in Mandated(inst)
            PROVE  a \in DOMAIN schedule /\ schedule[a] <= inst.deadline[a]
        <5>1. a \in DOMAIN z /\ ~ (z[a] > inst.deadline[a])
          BY <3>1 DEF DeadlineViolations
        <5>2. inst.deadline[a] \in Int
          BY StateFacts DEF Mandated, IsInstance
        <5>3. z[a] \in Int
          <6>1. PICK D \in SUBSET inst.assets : z \in [D -> Periods(inst)]
            BY <3>1 DEF Schedules
          <6> QED
            BY <5>1, <6>1, StateFacts
        <5>4. a \in DOMAIN schedule /\ schedule[a] <= z[a] /\ schedule[a] \in Nat
          BY <3>2, <5>1, StateFacts
        <5> QED
          BY <5>1, <5>2, <5>3, <5>4
      <4>2. \A a \in Mandated(inst) : inst.deadline[a] \in Int
        BY StateFacts DEF Mandated, IsInstance
      <4> QED
        BY <4>1, <4>2, StateFacts DEF DeadlineViolations
    <3>4. StructureKept
      BY IInvStructure
    <3>5. BudgetViolations(inst, schedule) = {}
      BY DEF CInv, LedgerKept, BudgetViolations
    <3> QED
      BY <3>3, <3>4, <3>5 DEF Feasible, StructureKept
  <2> QED
    BY <2>2, <2>3
<1> QED
  BY <1>1, CapacityInvariant, PTL

-----------------------------------------------------------------------------
(* A migrated group is an admissible batch. *)
LEMMA MigrateCommits ==
  ASSUME IInv, NEW g \in pending, Migrate(g)
  PROVE  C!Commit
<1>1. /\ inst \in InstanceSet /\ inst' = inst /\ t' = t
      /\ pc # "union" /\ g \notin DOMAIN done
      /\ Members(g) \subseteq inst.assets
  BY DEF IInv, TypeOK, Migrate, Members
<1>2. /\ k = Len(inst.clusters)
      /\ inst.clusters \in Seq(inst.assets \X inst.assets)
      /\ inst.deps \subseteq inst.assets \X inst.assets
  BY <1>1, InstanceFacts DEF IInv, PairsMerged
<1>3. /\ \A a \in Members(g) : inst.earliest[a] <= t
      /\ \A p \in PredGroups(g) : p \in DOMAIN done
  BY DEF Migrate, Eligible, DepsReady
<1>4. Members(g) \subseteq inst.assets \ DOMAIN schedule
  BY <1>1 DEF IInv, GroupsWhole, Members
<1>5. ASSUME NEW e \in inst.deps, e[2] \in Members(g)
      PROVE  e[1] \in Members(g) \cup DOMAIN schedule
  <2>1. e[1] \in inst.assets /\ root[e[2]] = g
    BY <1>2, <1>5 DEF Members
  <2>2. CASE root[e[1]] = g
    BY <2>1, <2>2 DEF Members
  <2>3. CASE root[e[1]] # g
    <3>1. root[e[1]] \in PredGroups(g)
      BY <2>1, <2>3 DEF PredGroups
    <3> QED
      BY <3>1, <2>1, <1>3 DEF IInv, GroupsWhole
  <2> QED
    BY <2>2, <2>3
<1>6. ASSUME NEW c \in Range(inst.clusters)
      PROVE  c[1] \in Members(g) <=> c[2] \in Members(g)
  <2>1. PICK i \in 1 .. k : c = inst.clusters[i]
    BY <1>2 DEF Range
  <2>2. /\ c[1] \in inst.assets /\ c[2] \in inst.assets
        /\ root[c[1]] = root[c[2]]
    BY <2>1, <1>1, <1>2, InstanceFacts DEF IInv, PairsMerged
  <2> QED
    BY <2>2 DEF Members
<1>7. C!Admissible(Members(g))
  BY <1>3, <1>4, <1>5, <1>6 DEF C!Admissible, C!Range, Range
<1>8. schedule' = [a \in Members(g) \cup DOMAIN schedule |->
                     IF a \in Members(g) THEN t ELSE schedule[a]]
  BY DEF Migrate
<1> QED
  BY <1>1, <1>7, <1>8 DEF C!Commit

(***************************************************************************)
(* The greedy implements the abstract constructor: every step is an        *)
(* admissible commitment to the current period, a tick, or a stutter.      *)
(***************************************************************************)
THEOREM GreedyRefinesCommitments == Spec => RefinesCommitments
<1>1. Init => C!Init
  BY DEF Init, C!Init
<1>2. IInv /\ [Next]_vars => [C!Next]_(C!vars)
  <2> SUFFICES ASSUME IInv, [Next]_vars PROVE [C!Next]_(C!vars)
    OBVIOUS
  <2>1. CASE Union \/ StartSweep \/ Return \/ Terminated \/ UNCHANGED vars
    BY <2>1 DEF Union, StartSweep, Return, Terminated, vars, C!vars
  <2>2. ASSUME NEW g \in pending, Migrate(g) PROVE C!Next
    BY <2>2, MigrateCommits DEF C!Next
  <2>3. CASE NextPeriod
    BY <2>3 DEF NextPeriod, C!Next, C!Tick
  <2> QED
    BY <2>1, <2>2, <2>3 DEF Next
<1> QED
  BY <1>1, <1>2, InductiveInvariant, PTL DEF Spec, RefinesCommitments, C!Spec

-----------------------------------------------------------------------------
(* /plan: the solver's answer, and the greedy run for comparison *)

NaiveIsTrue ==
  stage = "answered" /\ ~reply.error =>
    /\ reply.naive.feasible <=> Feasible(inst, schedule)
    /\ reply.naive.missed = Missed(schedule)

(***************************************************************************)
(* The route works on the estate of its request; what it has is an answer  *)
(* of the solver for that estate; and what it says of the greedy is said   *)
(* of the schedule the greedy returned.                                    *)
(***************************************************************************)
PlanInv ==
  /\ IInv /\ CInv
  /\ request \in Requests /\ Admitted(request) /\ inst = Effective(request)
  /\ stage \in {"solve", "compare", "answered"}
  /\ stage # "solve" => opt \in Replies(inst)
  /\ NaiveIsTrue

LEMMA PlanInitInv == PlanInit => PlanInv
BY InitIInv, InitCInv DEF PlanInit, PlanInv, NaiveIsTrue

LEMMA InstUnchanged == [Next]_vars => inst' = inst
BY DEF Next, Union, StartSweep, Migrate, NextPeriod, Return, Terminated, vars

LEMMA PlanNextInv == PlanInv /\ [PlanNext]_planVars => PlanInv'
<1> SUFFICES ASSUME PlanInv, [PlanNext]_planVars PROVE PlanInv'
  OBVIOUS
<1>1. [Next]_vars /\ request' = request
  BY DEF PlanNext, Solve, Compare, Answer, PlanTerminated, planVars, ownVars
<1>2. (IInv /\ CInv)' /\ inst' = inst
  BY <1>1, NextCInv, InstUnchanged DEF PlanInv
<1>3. /\ request' \in Requests /\ Admitted(request') /\ inst' = Effective(request')
      /\ stage' \in {"solve", "compare", "answered"}
      /\ stage' # "solve" => opt' \in Replies(inst')
  BY <1>1, <1>2
  DEF PlanInv, PlanNext, Solve, Compare, Answer, PlanTerminated, planVars, ownVars
<1>4. NaiveIsTrue'
  <2>1. CASE Solve \/ Compare
    BY <2>1 DEF Solve, Compare, ownVars, NaiveIsTrue
  <2>2. CASE Answer
    <3> SUFFICES ASSUME ~reply'.error
                 PROVE  /\ reply'.naive.feasible <=> Feasible(inst, schedule)'
                        /\ reply'.naive.missed = Missed(schedule)'
      BY DEF NaiveIsTrue
    <3>1. UNCHANGED <<inst, schedule>>
      BY <2>2 DEF Answer, vars
    <3>2. reply'.naive = Naive
      BY <2>2 DEF Answer
    <3>3. Feasible(inst, schedule)' = Feasible(inst, schedule)
      BY <3>1
    <3>4. Missed(schedule)' = Missed(schedule)
      BY <3>1 DEF Missed
    <3>5. /\ Naive.feasible = Feasible(inst, schedule)
          /\ Naive.missed = Missed(schedule)
      BY DEF Naive
    <3> QED
      BY <3>2, <3>3, <3>4, <3>5
  <2>3. CASE PlanTerminated \/ UNCHANGED planVars
    <3>1. UNCHANGED <<stage, reply, inst, schedule>>
      BY <2>3 DEF PlanTerminated, planVars, ownVars, vars
    <3>2. /\ Feasible(inst, schedule)' = Feasible(inst, schedule)
          /\ Missed(schedule)' = Missed(schedule)
      BY <3>1 DEF Missed
    <3> QED
      BY <3>1, <3>2 DEF PlanInv, NaiveIsTrue
  <2> QED
    BY <2>1, <2>2, <2>3 DEF PlanNext
<1> QED
  BY <1>2, <1>3, <1>4 DEF PlanInv

LEMMA PlanInvariant == PlanSpec => []PlanInv
BY PlanInitInv, PlanNextInv, PTL DEF PlanSpec

(***************************************************************************)
(* api.py:294-298: the two flags /plan sends about the greedy agree. Its   *)
(* schedule keeps the couplings, the starts and the budgets at every step, *)
(* so it is feasible exactly when no mandate is missed.                    *)
(***************************************************************************)
THEOREM NaiveOnlyMisses == PlanSpec => []NaiveFailsByMissingOnly
<1>1. PlanInv => NaiveFailsByMissingOnly
  <2> SUFFICES ASSUME PlanInv, Planned
               PROVE  reply.naive.feasible <=> reply.naive.missed = {}
    BY DEF NaiveFailsByMissingOnly
  <2>1. /\ StructureKept /\ BudgetViolations(inst, schedule) = {}
        /\ reply.naive.feasible <=> Feasible(inst, schedule)
        /\ reply.naive.missed = Missed(schedule)
    BY IInvStructure
    DEF PlanInv, CInv, LedgerKept, BudgetViolations, NaiveIsTrue, Planned
  <2>2. Missed(schedule) = DeadlineViolations(inst, schedule)
    BY DEF Missed, DeadlineViolations
  <2> QED
    BY <2>1, <2>2 DEF Feasible, StructureKept
<1> QED
  BY <1>1, PlanInvariant, PTL

-----------------------------------------------------------------------------
(* What an INFEASIBLE reply means, and when the budget can be raised. *)

LEMMA InfeasibleReply ==
  ASSUME NEW I, NEW r \in Replies(I), r.status = "INFEASIBLE", NoWindow(I) = {}
  PROVE  FeasibleSchedules(I) = {}
<1> SUFFICES ASSUME FeasibleSchedules(I) # {} PROVE FALSE
  OBVIOUS
<1>1. \/ \E s \in FeasibleSchedules(I) : r = Reply("FEASIBLE", Risk(I, s), s)
      \/ \E s \in FeasibleSchedules(I) : r = Reply("OPTIMAL", Risk(I, s), s)
      \/ r = Reply("UNKNOWN", None, None)
  BY DEF Replies
<1> QED
  BY <1>1 DEF Reply

LEMMA FlatFields ==
  ASSUME NEW I, IsInstance(I), NEW amount
  PROVE  /\ \A f \in InstanceFields \ {"budget"} : Flat(I, amount)[f] = I[f]
         /\ Flat(I, amount).budget = [p \in Periods(I) |-> amount]
BY DEF Flat, IsInstance, InstanceFields

\* what is feasible stays so when every period's budget pays for it
LEMMA RaisedBudget ==
  ASSUME NEW I, IsInstance(I), NEW amount \in Int,
         \A p \in Periods(I) : I.budget[p] <= amount,
         NEW s \in FeasibleSchedules(I)
  PROVE  s \in FeasibleSchedules(Flat(I, amount))
<1> DEFINE J == Flat(I, amount)
<1>1. /\ J.assets = I.assets /\ J.T = I.T /\ J.cost = I.cost
      /\ J.earliest = I.earliest /\ J.deadline = I.deadline
      /\ J.deps = I.deps /\ J.clusters = I.clusters
      /\ J.budget = [p \in Periods(I) |-> amount]
  <2>1. /\ \A f \in InstanceFields \ {"budget"} : J[f] = I[f]
        /\ J.budget = [p \in Periods(I) |-> amount]
    BY FlatFields
  <2> HIDE DEF J
  <2> QED
    BY <2>1 DEF InstanceFields
<1> HIDE DEF J
<1>2. s \in Schedules(J)
  BY <1>1 DEF FeasibleSchedules, Schedules, Periods
<1>3. /\ DeadlineViolations(J, s) = {} /\ PrecedenceViolations(J, s) = {}
      /\ ClusterViolations(J, s) = {} /\ EarliestViolations(J, s) = {}
  BY <1>1 DEF FeasibleSchedules, Feasible, DeadlineViolations, Mandated,
              PrecedenceViolations, ClusterViolations, EarliestViolations
<1>4. ASSUME NEW p \in Periods(J)
      PROVE  Spend(J, s, p) <= J.budget[p]
  <2>1. Spend(J, s, p) = Spend(I, s, p)
    BY <1>1 DEF Spend
  <2>2. p \in Periods(I) /\ J.budget[p] = amount
    BY <1>1 DEF Periods
  <2>3. Spend(I, s, p) <= I.budget[p]
    BY <2>2 DEF FeasibleSchedules, Feasible, BudgetViolations
  <2>4. {a \in I.assets \cap DOMAIN s : s[a] = p} \in SUBSET I.assets
    OBVIOUS
  <2>5. Spend(I, s, p) \in Nat /\ I.budget[p] \in Nat /\ I.budget[p] <= amount
    BY <2>2, <2>4, CostNat DEF Spend, IsInstance
  <2> QED
    BY <2>1, <2>2, <2>3, <2>5
<1> QED
  BY <1>2, <1>3, <1>4 DEF FeasibleSchedules, Feasible, BudgetViolations, J

\* the floor under a requested capacity
LEMMA FloorFacts ==
  ASSUME NEW I, IsInstance(I), NEW c \in Nat
  PROVE  /\ Max({c} \cup Range(I.cost)) \in Nat
         /\ c <= Max({c} \cup Range(I.cost))
         /\ \A a \in I.assets : I.cost[a] <= Max({c} \cup Range(I.cost))
<1> DEFINE S == {c} \cup Range(I.cost)
<1>1. Range(I.cost) = {I.cost[a] : a \in I.assets}
  BY DEF IsInstance, Range
<1>2. IsFiniteSet(Range(I.cost)) /\ Range(I.cost) \in SUBSET Nat
  BY RangeFacts
<1>3. IsFiniteSet({c}) /\ {c} \in SUBSET Int
  BY FS_Singleton
<1>5. IsFiniteSet(S) /\ S # {} /\ S \in SUBSET Int
  <2>1. IsFiniteSet(S)
    BY <1>2, <1>3, FS_Union
  <2> QED
    BY <1>2, <2>1
<1>4. Max(S) \in S /\ \A x \in S : x <= Max(S)
  BY <1>5, GreatestOf
<1> QED
  BY <1>1, <1>2, <1>4

(***************************************************************************)
(* api.py:394: raising the capacity to what the periods of the estate      *)
(* offer, or beyond, never turns a feasible estate into an infeasible one, *)
(* whatever floor the dearest asset puts under it: every schedule that     *)
(* kept the old budgets keeps the new one, and a solver that answers       *)
(* INFEASIBLE says that there is none.                                     *)
(***************************************************************************)
THEOREM MoreCapacityHelps == PlanSpec => []MoreCapacityKeepsThePlan
<1>1. PlanInv => MoreCapacityKeepsThePlan
  <2> SUFFICES ASSUME PlanInv, stage = "answered", request.capacity # None,
                      \A p \in Periods(inst) :
                        EstateOf(request).budget[p] <= request.capacity,
                      FeasibleSchedules(EstateOf(request)) # {},
                      NoWindow(inst) = {}, opt.status = "INFEASIBLE"
               PROVE  FALSE
    BY DEF MoreCapacityKeepsThePlan
  <2> DEFINE I == EstateOf(request)
             amount == Max({request.capacity} \cup Range(I.cost))
  <2>1. IsInstance(I) /\ request.capacity \in Nat
    BY RequestAssumption DEF PlanInv
  <2>2. inst = Flat(I, amount)
    BY DEF PlanInv, Effective
  <2>3. amount \in Nat /\ request.capacity <= amount
    BY <2>1, FloorFacts
  <2>4. PICK s \in FeasibleSchedules(I) : TRUE
    OBVIOUS
  <2>5. \A p \in Periods(I) : I.budget[p] <= request.capacity
    <3> HIDE DEF amount, I
    <3>1. Flat(I, amount).T = I.T
      <4>1. "T" \in InstanceFields \ {"budget"}
        BY DEF InstanceFields
      <4>2. \A f \in InstanceFields \ {"budget"} : Flat(I, amount)[f] = I[f]
        BY <2>1, FlatFields
      <4> QED
        BY <4>1, <4>2
    <3> QED
      BY <2>2, <3>1 DEF Periods, I
  <2>6. \A p \in Periods(I) : I.budget[p] <= amount
    <3>1. \A p \in Periods(I) : I.budget[p] \in Nat
      BY <2>1 DEF IsInstance
    <3> HIDE DEF amount, I
    <3> QED
      BY <2>1, <2>3, <2>5, <3>1
  <2>7. s \in FeasibleSchedules(inst)
    <3> HIDE DEF amount, I
    <3> QED
      BY <2>1, <2>2, <2>3, <2>6, RaisedBudget
  <2>8. FeasibleSchedules(inst) = {}
    BY InfeasibleReply DEF PlanInv
  <2> QED
    BY <2>7, <2>8
<1> QED
  BY <1>1, PlanInvariant, PTL

-----------------------------------------------------------------------------
(* Packing *)

\* What S puts into period p under s.
Load(I, S, s, p) == CostOf(I.cost, {a \in S : s[a] = p})

Packs(I, S, B, s) ==
  s \in [S -> Periods(I)] /\ \A p \in Periods(I) : Load(I, S, s, p) <= B

\* Periods that all carry half of W carry, together, at least half of it
\* as often as there are periods.
LEMMA LoadsAddUp ==
  ASSUME NEW I, IsInstance(I), NEW S \in SUBSET I.assets,
         NEW s \in [S -> Periods(I)], NEW W \in Nat,
         \A p \in Periods(I) : 2 * Load(I, S, s, p) >= W
  PROVE  2 * CostOf(I.cost, S) >= I.T * W
<1> DEFINE Before(n) == {a \in S : s[a] < n}
           Good == {n \in Nat : n <= I.T => 2 * CostOf(I.cost, Before(n)) >= n * W}
<1>1. I.T \in Nat /\ \A a \in S : s[a] \in 0 .. I.T - 1
  BY DEF IsInstance, Periods
<1>2. 0 \in Good
  <2>1. Before(0) = {}
    BY <1>1
  <2>2. CostOf(I.cost, Before(0)) = 0
    BY <2>1, SumEmpty DEF CostOf
  <2>3. 0 * W = 0
    OBVIOUS
  <2> HIDE DEF Before
  <2> QED
    BY <2>2, <2>3
<1>3. ASSUME NEW n \in Nat, n \in Good PROVE n + 1 \in Good
  <2> SUFFICES ASSUME n + 1 <= I.T
               PROVE  2 * CostOf(I.cost, Before(n + 1)) >= (n + 1) * W
    <3> HIDE DEF Before
    <3> QED
      OBVIOUS
  <2> DEFINE here == {a \in S : s[a] = n}
  <2>1. /\ Before(n + 1) = Before(n) \cup here /\ Before(n) \cap here = {}
        /\ Before(n) \in SUBSET I.assets /\ here \in SUBSET I.assets
    BY <1>1
  <2>2. n \in Periods(I) /\ n <= I.T
    BY <1>1 DEF Periods
  <2>3. 2 * CostOf(I.cost, here) >= W
    BY <2>2 DEF Load
  <2>4. 2 * CostOf(I.cost, Before(n)) >= n * W
    BY <1>3, <2>2
  <2> HIDE DEF Before, here
  <2>5. CostOf(I.cost, Before(n + 1))
          = CostOf(I.cost, Before(n)) + CostOf(I.cost, here)
    BY <2>1, CostUnion
  <2>6. CostOf(I.cost, Before(n)) \in Nat /\ CostOf(I.cost, here) \in Nat
    BY <2>1, CostNat
  <2>7. n * W \in Nat /\ (n + 1) * W = n * W + W
    OBVIOUS
  <2> QED
    BY <2>3, <2>4, <2>5, <2>6, <2>7
<1>4. I.T \in Good
  <2> HIDE DEF Good
  <2> QED
    BY <1>1, <1>2, <1>3, NatStep
<1>5. Before(I.T) = S
  BY <1>1
<1> HIDE DEF Before
<1> QED
  BY <1>1, <1>4, <1>5

\* If the cheapest asset of S fits nowhere, every period is over half full.
LEMMA HalfFull ==
  ASSUME NEW I, IsInstance(I), NEW S \in SUBSET I.assets, NEW B \in Nat,
         NEW x \in S, \A y \in S : I.cost[x] <= I.cost[y], I.cost[x] <= B,
         NEW s \in [S \ {x} -> Periods(I)], NEW p \in Periods(I),
         ~ (Load(I, S \ {x}, s, p) + I.cost[x] <= B)
  PROVE  2 * Load(I, S \ {x}, s, p) >= B + 1
<1> DEFINE bin == {a \in S \ {x} : s[a] = p}
           load == CostOf(I.cost, bin)
           c == I.cost[x]
<1>1. bin \in SUBSET I.assets /\ load = Load(I, S \ {x}, s, p)
  BY DEF Load
<1>2. load \in Nat /\ c \in Nat
  BY <1>1, CostNat DEF IsInstance
<1>3. load + c > B /\ c <= B
  BY <1>1, <1>2
<1>4. CASE 2 * c <= B
  <2> HIDE DEF load, c
  <2> QED
    BY <1>1, <1>2, <1>3, <1>4
<1>5. CASE ~ (2 * c <= B)
  <2>1. bin # {}
    <3>1. ASSUME bin = {} PROVE FALSE
      <4>1. load = 0
        BY <3>1, SumEmpty DEF CostOf
      <4> HIDE DEF load, c
      <4> QED
        BY <1>2, <1>3, <4>1
    <3> QED
      BY <3>1
  <2>2. PICK y \in bin : TRUE
    BY <2>1
  <2>3. I.cost[y] \in Nat /\ c <= I.cost[y]
    BY <1>1, <2>2 DEF IsInstance
  <2>4. I.cost[y] <= load
    <3>1. /\ IsFiniteSet(bin) /\ IntValued(I.cost, bin)
          /\ {y} \in SUBSET bin /\ bin \ {y} \in SUBSET I.assets
      BY <1>1, <2>2, FS_Subset DEF IsInstance, IntValued
    <3>2. SumFunctionOnSet(I.cost, bin)
            = I.cost[y] + SumFunctionOnSet(I.cost, bin \ {y})
      <4> HIDE DEF bin
      <4> QED
        BY <2>2, <3>1, SumRemove
    <3>3. CostOf(I.cost, bin \ {y}) \in Nat
      BY <3>1, CostNat
    <3> DEFINE rest == CostOf(I.cost, bin \ {y})
    <3>4. load = I.cost[y] + rest /\ rest \in Nat
      BY <3>2, <3>3 DEF CostOf
    <3> HIDE DEF load, rest
    <3> QED
      BY <2>3, <3>4
  <2> HIDE DEF load, c
  <2> QED
    BY <1>1, <1>2, <1>5, <2>3, <2>4
<1> QED
  BY <1>4, <1>5

\* One more asset into a period that has room for it.
LEMMA PackOneMore ==
  ASSUME NEW I, IsInstance(I), NEW S \in SUBSET I.assets, NEW B \in Nat,
         NEW x \in S, NEW s, Packs(I, S \ {x}, B, s), NEW p \in Periods(I),
         Load(I, S \ {x}, s, p) + I.cost[x] <= B
  PROVE  \E z : Packs(I, S, B, z)
<1> DEFINE z == [a \in S |-> IF a = x THEN p ELSE s[a]]
<1>1. s \in [S \ {x} -> Periods(I)] /\ z \in [S -> Periods(I)]
  BY DEF Packs
<1>2. ASSUME NEW q \in Periods(I) PROVE Load(I, S, z, q) <= B
  <2>1. CASE q = p
    <3> DEFINE bin == {a \in S \ {x} : s[a] = p}
               full == {a \in S : z[a] = p}
    <3>1. x \in full /\ full \ {x} = bin /\ full \in SUBSET I.assets
      BY <1>1
    <3>2. IsFiniteSet(full) /\ IntValued(I.cost, full)
      <4>1. IsFiniteSet(I.assets) /\ \A a \in I.assets : I.cost[a] \in Int
        BY DEF IsInstance
      <4> HIDE DEF full
      <4> QED
        BY <3>1, <4>1, FS_Subset DEF IntValued
    <3>3. CostOf(I.cost, full) = I.cost[x] + CostOf(I.cost, bin)
      <4> HIDE DEF full, bin
      <4> QED
        BY <3>1, <3>2, SumRemove DEF CostOf
    <3>4. /\ CostOf(I.cost, full) = Load(I, S, z, q)
          /\ CostOf(I.cost, bin) = Load(I, S \ {x}, s, p)
      BY <2>1 DEF Load
    <3>5. CostOf(I.cost, bin) \in Nat /\ I.cost[x] \in Nat
      BY <3>1, CostNat DEF IsInstance
    <3> HIDE DEF full, bin, z
    <3> QED
      BY <3>3, <3>4, <3>5
  <2>2. CASE q # p
    <3>1. {a \in S : z[a] = q} = {a \in S \ {x} : s[a] = q}
      BY <1>1, <2>2
    <3> QED
      BY <3>1 DEF Load, Packs
  <2> QED
    BY <2>1, <2>2
<1>3. Packs(I, S, B, z)
  BY <1>1, <1>2 DEF Packs
<1> QED
  BY <1>3

\* A set of assets has a cheapest one.
LEMMA Cheapest ==
  ASSUME NEW I, IsInstance(I), NEW S \in SUBSET I.assets, S # {}
  PROVE  \E x \in S : \A y \in S : I.cost[x] <= I.cost[y]
<1> DEFINE costs == {I.cost[a] : a \in S}
<1>1. costs \in SUBSET Nat /\ costs # {}
  BY DEF IsInstance
<1>2. Min(costs) \in costs /\ \A c \in costs : Min(costs) <= c
  BY <1>1, LeastNat
<1> QED
  BY <1>2

(***************************************************************************)
(* Efforts that fill at most half of all the periods, and none of which is *)
(* more than one holds, can be packed: take the cheapest away, pack the    *)
(* others, and put it back.  If it fits nowhere, every period is more than *)
(* half full: if it takes at most half a period, because less room than    *)
(* that is left everywhere; if it takes more, because every period holds   *)
(* something, which takes as much.                                         *)
(***************************************************************************)
LEMMA HalfPacks ==
  ASSUME NEW I, IsInstance(I), NEW B \in Nat,
         \A a \in I.assets : I.cost[a] <= B,
         2 * CostOf(I.cost, I.assets) <= I.T * B
  PROVE  \E s : Packs(I, I.assets, B, s)
<1> DEFINE Good == {S \in SUBSET I.assets : \E s : Packs(I, S, B, s)}
<1>1. {} \in Good
  <2> DEFINE s == [a \in {} |-> 0]
  <2>1. s \in [{} -> Periods(I)]
    OBVIOUS
  <2>2. ASSUME NEW p \in Periods(I) PROVE Load(I, {}, s, p) <= B
    <3>1. {a \in {} : s[a] = p} = {}
      OBVIOUS
    <3> QED
      BY <3>1, SumEmpty DEF Load, CostOf
  <2> QED
    BY <2>1, <2>2 DEF Packs
<1>2. ASSUME NEW S \in SUBSET I.assets, S # {}, \A x \in S : S \ {x} \in Good
      PROVE  S \in Good
  <2>1. PICK x \in S : \A y \in S : I.cost[x] <= I.cost[y]
    BY <1>2, Cheapest
  <2>2. PICK s : Packs(I, S \ {x}, B, s)
    BY <1>2
  <2>3. CASE \E p \in Periods(I) : Load(I, S \ {x}, s, p) + I.cost[x] <= B
    BY <2>2, <2>3, PackOneMore
  <2>4. CASE ~ \E p \in Periods(I) : Load(I, S \ {x}, s, p) + I.cost[x] <= B
    <3>1. s \in [S \ {x} -> Periods(I)] /\ S \ {x} \in SUBSET I.assets
      BY <2>2 DEF Packs
    <3>2. \A p \in Periods(I) : 2 * Load(I, S \ {x}, s, p) >= B + 1
      BY <2>1, <2>4, <3>1, HalfFull
    <3>3. 2 * CostOf(I.cost, S \ {x}) >= I.T * (B + 1)
      BY <3>1, <3>2, LoadsAddUp
    <3>4. CostOf(I.cost, S \ {x}) <= CostOf(I.cost, I.assets)
      BY <3>1, CostSubset
    <3>5. /\ CostOf(I.cost, S \ {x}) \in Nat /\ CostOf(I.cost, I.assets) \in Nat
          /\ I.T \in Nat \ {0}
      BY <3>1, CostNat DEF IsInstance
    <3>6. I.T * B \in Nat /\ I.T * (B + 1) = I.T * B + I.T
      BY <3>5
    <3> QED
      BY <3>3, <3>4, <3>5, <3>6
  <2> QED
    BY <2>3, <2>4
<1>3. I.assets \in Good
  <2> HIDE DEF Good
  <2>1. IsFiniteSet(I.assets)
    BY DEF IsInstance
  <2> QED
    BY <1>1, <1>2, <2>1, SubsetStep
<1> QED
  BY <1>3

\* A loose estate whose efforts fill half of a flat budget is feasible.
LEMMA LooseIsFeasible ==
  ASSUME NEW I, IsInstance(I), Loose(I), NEW B \in Nat,
         \A p \in Periods(I) : I.budget[p] = B,
         \A a \in I.assets : I.cost[a] <= B,
         2 * CostOf(I.cost, I.assets) <= I.T * B
  PROVE  FeasibleSchedules(I) # {} /\ NoWindow(I) = {}
<1>1. PICK s : Packs(I, I.assets, B, s)
  BY HalfPacks
<1>2. I.T \in Nat \ {0} /\ \A p \in Periods(I) : p \in Nat /\ p <= I.T - 1
  BY DEF IsInstance, Periods
<1>3. s \in [I.assets -> Periods(I)] /\ DOMAIN s = I.assets
  BY <1>1 DEF Packs
<1>4. s \in Schedules(I)
  BY <1>3 DEF Schedules
<1>5. ASSUME NEW a \in I.assets
      PROVE  /\ s[a] \in Nat /\ s[a] <= I.T - 1 /\ I.earliest[a] = 0
             /\ I.deadline[a] \in {None, I.T - 1}
  BY <1>2, <1>3 DEF Loose
<1>6. DeadlineViolations(I, s) = {} /\ EarliestViolations(I, s) = {}
  BY <1>2, <1>3, <1>5 DEF DeadlineViolations, EarliestViolations, Mandated
<1>7. PrecedenceViolations(I, s) = {} /\ ClusterViolations(I, s) = {}
  BY DEF Loose, PrecedenceViolations, ClusterViolations, Range
<1>8. ASSUME NEW p \in Periods(I) PROVE Spend(I, s, p) <= I.budget[p]
  <2>1. {a \in I.assets \cap DOMAIN s : s[a] = p} = {a \in I.assets : s[a] = p}
    BY <1>3
  <2> QED
    BY <1>1, <2>1 DEF Packs, Load, Spend
<1>9. NoWindow(I) = {}
  <2> SUFFICES ASSUME NEW a \in I.assets PROVE Window(I, a) # {}
    BY DEF NoWindow
  <2>1. 0 \in Periods(I) /\ (I.deadline[a] # None => 0 <= I.deadline[a])
    BY <1>2, <1>5 DEF Periods
  <2> QED
    BY <1>5, <2>1 DEF Window
<1> QED
  BY <1>4, <1>6, <1>7, <1>8, <1>9
  DEF FeasibleSchedules, Feasible, BudgetViolations

\* The mean load over at most half the capacity fills at most half of it.
LEMMA CeilHalf ==
  ASSUME NEW total \in Nat, NEW T \in Nat \ {0}, NEW num \in Nat \ {0},
         NEW den \in Nat, den >= 2 * num
  PROVE  /\ (total * den + num * T - 1) \div (num * T) \in Int
         /\ 2 * total <= T * ((total * den + num * T - 1) \div (num * T))
<1> DEFINE d == num * T
           X == total * den
           q == (X + d - 1) \div d
<1>1. d \in Nat /\ d >= 1 /\ X \in Nat
  OBVIOUS
<1>2. q \in Int /\ q * d >= X
  <2> HIDE DEF d, X
  <2> QED
    BY <1>1
<1>3. X >= total * (2 * num)
  OBVIOUS
<1> HIDE DEF q
<1>4. num * (T * q) >= num * (2 * total)
  BY <1>1, <1>2, <1>3
<1>5. T * q \in Int /\ 2 * total \in Int
  BY <1>2
<1>6. T * q >= 2 * total
  <2> DEFINE y == T * q
             w == 2 * total
  <2>1. y \in Int /\ w \in Int /\ num * y >= num * w
    BY <1>4, <1>5
  <2> HIDE DEF y, w
  <2>2. y >= w
    BY <2>1
  <2> QED
    BY <2>2 DEF y, w
<1> QED
  BY <1>2, <1>6 DEF q


\* PerPeriod at a tightness of one half or less
LEMMA HalfPerPeriod ==
  ASSUME NEW total \in Nat, NEW dearest \in Nat, NEW T \in Nat \ {0},
         NEW x \in (Nat \ {0}) \X (Nat \ {0}), 2 * x[1] <= x[2]
  PROVE  /\ PerPeriod(total, dearest, T, x) \in Nat
         /\ dearest <= PerPeriod(total, dearest, T, x)
         /\ 2 * total <= T * PerPeriod(total, dearest, T, x)
<1> DEFINE num == Tight(x)[1]
           den == Tight(x)[2]
           q == (total * den + num * T - 1) \div (num * T)
<1>1. /\ num \in Nat \ {0} /\ den \in Nat /\ den >= 2 * num
  <2>1. Tight(x) = IF 1000 * x[1] < x[2] THEN <<1, 1000>> ELSE x
    BY DEF Tight
  <2> QED
    BY <2>1
<1>2. q \in Int /\ 2 * total <= T * q
  <2> HIDE DEF num, den
  <2> QED
    BY <1>1, CeilHalf
<1>3. PerPeriod(total, dearest, T, x) = Max({q, dearest})
  BY DEF PerPeriod
<1> HIDE DEF q
<1> DEFINE m == Max({q, dearest})
<1>4. m \in {q, dearest} /\ m >= q /\ m >= dearest
  <2>1. q \in Int /\ dearest \in Int
    BY <1>2
  <2>2. /\ Max({q, dearest}) \in {q, dearest}
        /\ Max({q, dearest}) >= q /\ Max({q, dearest}) >= dearest
    BY <2>1, MaxOfTwo
  <2> QED
    BY <2>2
<1> HIDE DEF m
<1>5. m \in Nat
  BY <1>2, <1>4
<1>6. T * m >= T * q
  BY <1>2, <1>4, <1>5
<1>7. T * m \in Int /\ T * q \in Int /\ 2 * total \in Int
  BY <1>2, <1>5
<1>8. 2 * total <= T * m
  BY <1>2, <1>6, <1>7
<1> QED
  BY <1>3, <1>4, <1>5, <1>8 DEF m

\* the budget of a sample
LEMMA SampleBudget ==
  ASSUME NEW q \in Requests, q.sample # None,
         2 * q.tightness[1] <= q.tightness[2]
  PROVE  LET I == EstateOf(q)
         IN  \E P \in Nat :
               /\ I.budget = [p \in Periods(I) |-> P]
               /\ \A a \in I.assets : I.cost[a] <= P
               /\ 2 * CostOf(I.cost, I.assets) <= I.T * P
<1> DEFINE I == EstateOf(q)
           total == CostOf(I.cost, I.assets)
           dearest == Max(Range(I.cost))
           P == PerPeriod(total, dearest, I.T, q.tightness)
<1>1. IsInstance(I) /\ Kept(q.sample) # {}
      /\ q.tightness \in (Nat \ {0}) \X (Nat \ {0})
  BY RequestAssumption
<1>2. I = EstateFromJson(q.sample, q.tightness, Crqc, RiskModel)
  BY DEF EstateOf
<1>3. I.assets # {} /\ I.budget = [p \in Periods(I) |-> P]
  <2> HIDE DEF I
  <2> QED
    BY <1>1, <1>2 DEF EstateFromJson, Periods
<1> HIDE DEF I
<1>4. I.T \in Nat \ {0} /\ total \in Nat
  BY <1>1, CostNat DEF IsInstance
<1>5. /\ Range(I.cost) = {I.cost[a] : a \in I.assets}
      /\ IsFiniteSet(Range(I.cost)) /\ Range(I.cost) \in SUBSET Nat
  BY <1>1, RangeFacts
<1>6. Range(I.cost) \in SUBSET Int /\ Range(I.cost) # {}
  BY <1>3, <1>5
<1>7. dearest \in Range(I.cost) /\ \A c \in Range(I.cost) : c <= dearest
  BY <1>5, <1>6, GreatestOf
<1>8. dearest \in Nat /\ \A a \in I.assets : I.cost[a] \in Nat /\ I.cost[a] <= dearest
  BY <1>5, <1>7
<1> HIDE DEF total, dearest
<1>9. P \in Nat /\ dearest <= P /\ 2 * total <= I.T * P
  BY <1>1, <1>4, <1>8, HalfPerPeriod
<1> HIDE DEF P
<1>10. \A a \in I.assets : I.cost[a] <= P
  BY <1>8, <1>9
<1> QED
  BY <1>3, <1>9, <1>10 DEF total, I

(***************************************************************************)
(* scenarios.py:131-132: the capacity of a sample sized at a tightness of  *)
(* one half or less, or any capacity asked for above it, packs its         *)
(* efforts, for any number of usages, any efforts and any horizon; without *)
(* couplings and with every mandate at the end, the sample is never        *)
(* answered with the error for want of capacity.                           *)
(***************************************************************************)
THEOREM HalfIsEnough == PlanSpec => []HalfTightnessPacks
<1>1. PlanInv => HalfTightnessPacks
  <2> SUFFICES ASSUME PlanInv, stage = "answered", request.sample # None,
                      2 * request.tightness[1] <= request.tightness[2],
                      Loose(inst), inst.budget[0] >= EstateOf(request).budget[0],
                      opt.status = "INFEASIBLE"
               PROVE  FALSE
    BY DEF HalfTightnessPacks
  <2> DEFINE I == EstateOf(request)
  <2>1. request \in Requests /\ inst = Effective(request) /\ IsInstance(I)
        /\ request.capacity \in Nat \cup {None} /\ IsInstance(inst)
    BY RequestAssumption, StateFacts DEF PlanInv
  <2>2. PICK P \in Nat : /\ I.budget = [p \in Periods(I) |-> P]
                         /\ \A a \in I.assets : I.cost[a] <= P
                         /\ 2 * CostOf(I.cost, I.assets) <= I.T * P
    BY <2>1, SampleBudget
  <2> HIDE DEF I
  <2>3. PICK B \in Nat : /\ inst.budget = [p \in Periods(I) |-> B]
                         /\ inst.assets = I.assets /\ inst.T = I.T
                         /\ inst.cost = I.cost
    <3>1. CASE request.capacity = None
      BY <2>1, <2>2, <3>1 DEF Effective, I
    <3>2. CASE request.capacity # None
      <4> DEFINE amount == Max({request.capacity} \cup Range(I.cost))
      <4>1. inst = Flat(I, amount)
        BY <2>1, <3>2 DEF Effective, I
      <4>2. amount \in Nat
        BY <2>1, <3>2, FloorFacts
      <4> HIDE DEF amount
      <4>3. /\ \A f \in InstanceFields \ {"budget"} : inst[f] = I[f]
            /\ inst.budget = [p \in Periods(I) |-> amount]
        <5>1. /\ \A f \in InstanceFields \ {"budget"} :
                   Flat(I, amount)[f] = I[f]
              /\ Flat(I, amount).budget = [p \in Periods(I) |-> amount]
          BY <2>1, FlatFields
        <5> HIDE DEF I
        <5> QED
          BY <4>1, <5>1
      <4> QED
        BY <4>2, <4>3 DEF InstanceFields
    <3> QED
      BY <3>1, <3>2
  <2>4. I.T \in Nat \ {0} /\ 0 \in Periods(I)
    BY <2>1 DEF IsInstance, Periods
  <2>5. B >= P
    <3>1. inst.budget[0] = B /\ I.budget[0] = P
      BY <2>2, <2>3, <2>4
    <3> QED
      BY <3>1 DEF I
  <2>6. \A a \in inst.assets : inst.cost[a] <= B
    <3>1. \A a \in I.assets : I.cost[a] \in Nat
      BY <2>1 DEF IsInstance
    <3> QED
      BY <2>2, <2>3, <2>5, <3>1
  <2>7. 2 * CostOf(inst.cost, inst.assets) <= inst.T * B
    <3> DEFINE total == CostOf(I.cost, I.assets)
               T == I.T
    <3>1. total \in Nat /\ T \in Nat
      BY <2>1, <2>4, CostNat
    <3>2. 2 * total <= T * P
      BY <2>2
    <3> HIDE DEF total, T
    <3>3. T * P <= T * B /\ T * P \in Nat /\ T * B \in Nat
      BY <2>5, <3>1
    <3>4. 2 * total <= T * B
      BY <3>1, <3>2, <3>3
    <3> QED
      BY <2>3, <3>4 DEF total, T
  <2>8. FeasibleSchedules(inst) # {} /\ NoWindow(inst) = {}
    <3>1. \A p \in Periods(inst) : inst.budget[p] = B
      BY <2>3 DEF Periods
    <3> QED
      BY <2>1, <2>6, <2>7, <3>1, LooseIsFeasible
  <2>9. FeasibleSchedules(inst) = {}
    BY <2>8, InfeasibleReply DEF PlanInv
  <2> QED
    BY <2>8, <2>9
<1> QED
  BY <1>1, PlanInvariant, PTL

=============================================================================
