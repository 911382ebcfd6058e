------------------------- MODULE FormulationProofs -------------------------
(***************************************************************************)
(* Proofs about Formulation, for every instance, and about Pareto, which   *)
(* calls it under one cost cap after another.                              *)
(*                                                                         *)
(* The 0/1 model and the scorer accept the same schedules.  One direction  *)
(* says that what is read back from a solution is feasible, the other that *)
(* every feasible schedule is a solution, so that a solver that exhausts   *)
(* the model has exhausted the schedules; both go constraint by            *)
(* constraint.  With the objective equal to the scorer's risk, a call      *)
(* keeps the contract (Solver, and Answers of Pareto) its callers rely on. *)
(*                                                                         *)
(* The frontier: the search keeps a bracket, the sweep collects both ends  *)
(* of it, and the skyline, a fold over the sorted points, keeps the ends   *)
(* of what was collected.                                                  *)
(***************************************************************************)
EXTENDS Formulation, Pareto, InstancesProofs, SequenceTheorems

\* The parts of IsInstance the proofs use.
LEMMA InstanceFacts ==
  ASSUME NEW I, IsInstance(I)
  PROVE  /\ Periods(I) \subseteq Nat
         /\ I.earliest \in [I.assets -> Nat]
         /\ I.deadline \in [I.assets -> Int \cup {None}]
         /\ \A e \in I.deps : e[1] \in I.assets /\ e[2] \in I.assets
         /\ \A c \in Range(I.clusters) : c[1] \in I.assets /\ c[2] \in I.assets
<1>1. Periods(I) \subseteq Nat
  BY DEF Periods, IsInstance
<1>2. /\ I.earliest \in [I.assets -> Nat]
      /\ I.deadline \in [I.assets -> Int \cup {None}]
      /\ \A e \in I.deps : e[1] \in I.assets /\ e[2] \in I.assets
  BY DEF IsInstance
<1>3. ASSUME NEW c \in Range(I.clusters)
      PROVE  c[1] \in I.assets /\ c[2] \in I.assets
  <2>1. I.clusters \in Seq(I.assets \X I.assets)
    BY DEF IsInstance
  <2>2. c \in I.assets \X I.assets
    BY <2>1 DEF Range
  <2> QED
    BY <2>2
<1> QED
  BY <1>1, <1>2, <1>3

\* A period of the window meets the start and the deadline.
LEMMA WindowFacts ==
  ASSUME NEW I, IsInstance(I), NEW a \in I.assets, NEW p \in Window(I, a)
  PROVE  /\ p \in Periods(I) /\ p \in Nat
         /\ I.earliest[a] <= p
         /\ I.deadline[a] # None => p <= I.deadline[a]
BY InstanceFacts DEF Window

-----------------------------------------------------------------------------
\* What ReadBack returns: the period of the one variable of a that is 1.
LEMMA ExtractFacts ==
  ASSUME NEW I, IsInstance(I), NEW y \in SUBSET Vars(I), OncePerAsset(I, y)
  PROVE  /\ DOMAIN Extract(I, y) = {a \in I.assets : \E v \in y : v[1] = a}
         /\ \A a \in I.assets : \A t :
              <<a, t>> \in y <=> a \in DOMAIN Extract(I, y) /\ Extract(I, y)[a] = t
         /\ \A a \in DOMAIN Extract(I, y) : Extract(I, y)[a] \in Window(I, a)
<1> DEFINE s == Extract(I, y)
<1>1. DOMAIN s = {a \in I.assets : \E v \in y : v[1] = a}
  BY DEF Extract
<1>2. \A v \in y : /\ v = <<v[1], v[2]>> /\ v[1] \in I.assets
                   /\ v[2] \in Window(I, v[1]) /\ v[2] \in Nat
  BY InstanceFacts DEF Vars, Window
<1>3. ASSUME NEW a \in I.assets, NEW t, <<a, t>> \in y
      PROVE  a \in DOMAIN s /\ s[a] = t
  <2>1. a \in DOMAIN s /\ t \in Window(I, a) /\ t \in Nat
    BY <1>1, <1>2, <1>3
  <2>2. \A u : <<a, u>> \in y => u = t
    BY <1>3 DEF OncePerAsset
  <2>3. s[a] = CHOOSE x \in Window(I, a) :
                 /\ <<a, x>> \in y
                 /\ \A u \in Window(I, a) : <<a, u>> \in y => x <= u
    BY <2>1, <1>1 DEF Extract
  <2>4. t <= t
    BY <2>1
  <2>5. \E x \in Window(I, a) :
          /\ <<a, x>> \in y
          /\ \A u \in Window(I, a) : <<a, u>> \in y => x <= u
    BY <2>1, <2>2, <2>4, <1>3
  <2> QED
    BY <2>1, <2>2, <2>3, <2>5
<1>4. ASSUME NEW a \in DOMAIN s
      PROVE  <<a, s[a]>> \in y /\ s[a] \in Window(I, a)
  <2>1. PICK v \in y : v[1] = a
    BY <1>1
  <2>2. a \in I.assets /\ <<a, v[2]>> \in y /\ v[2] \in Window(I, a)
    BY <2>1, <1>2
  <2> QED
    BY <2>2, <1>3
<1> QED
  BY <1>1, <1>3, <1>4

(***************************************************************************)
(* The schedule read back from a solution of the model violates no check   *)
(* of the scorer.                                                          *)
(***************************************************************************)
THEOREM ExtractedIsFeasible ==
  ASSUME NEW I, IsInstance(I), NEW y \in SUBSET Vars(I), Solution(I, y)
  PROVE  Feasible(I, Extract(I, y)) /\ Extract(I, y) \in Schedules(I)
<1> DEFINE s == Extract(I, y)
<1>1. /\ DOMAIN s = {a \in I.assets : \E v \in y : v[1] = a}
      /\ \A a \in I.assets : \A t :
           <<a, t>> \in y <=> a \in DOMAIN s /\ s[a] = t
      /\ \A a \in DOMAIN s : s[a] \in Window(I, a)
  BY ExtractFacts DEF Solution
<1> HIDE DEF s
<1>2. DOMAIN s \subseteq I.assets
  BY <1>1
<1>3. \A a \in DOMAIN s : /\ s[a] \in Periods(I) /\ s[a] \in Nat
                          /\ I.earliest[a] <= s[a]
                          /\ I.deadline[a] # None => s[a] <= I.deadline[a]
  BY <1>1, <1>2, WindowFacts
<1>4. s \in Schedules(I)
  <2>1. s = [a \in DOMAIN s |-> s[a]]
    <3> DEFINE D == {a \in I.assets : \E v \in y : v[1] = a}
               First(a) == CHOOSE t \in Window(I, a) :
                             /\ <<a, t>> \in y
                             /\ \A u \in Window(I, a) : <<a, u>> \in y => t <= u
    <3>1. s = [a \in D |-> First(a)]
      BY DEF s, Extract
    <3> HIDE DEF First, D
    <3> QED
      BY <3>1
  <2>2. s \in [DOMAIN s -> Periods(I)]
    BY <2>1, <1>3
  <2> QED
    BY <2>2, <1>2 DEF Schedules
<1>5. EarliestViolations(I, s) = {}
  BY <1>2, <1>3, InstanceFacts DEF EarliestViolations
<1>6. DeadlineViolations(I, s) = {}
  <2> SUFFICES ASSUME NEW a \in Mandated(I)
               PROVE  a \in DOMAIN s /\ ~(s[a] > I.deadline[a])
    BY DEF DeadlineViolations
  <2>1. a \in DOMAIN s
    BY <1>1 DEF Solution, OncePerAsset, Mandated
  <2>2. I.deadline[a] \in Int /\ s[a] \in Nat /\ s[a] <= I.deadline[a]
    BY <2>1, <1>3, InstanceFacts DEF Mandated
  <2> QED
    BY <2>1, <2>2
<1>7. BudgetViolations(I, s) = {}
  <2>1. ASSUME NEW t \in Periods(I)
        PROVE  {a \in I.assets \cap DOMAIN s : s[a] = t} =
                 {a \in I.assets : <<a, t>> \in y}
    BY <1>1
  <2>2. \A t \in Periods(I) : Spend(I, s, t) <= I.budget[t]
    <3> SUFFICES ASSUME NEW t \in Periods(I)
                 PROVE  Spend(I, s, t) <= I.budget[t]
      OBVIOUS
    <3>1. Spend(I, s, t) = CostOf(I.cost, {a \in I.assets : <<a, t>> \in y})
      BY <2>1 DEF Spend
    <3> QED
      BY <3>1 DEF Solution, WithinBudget
  <2> QED
    BY <2>2 DEF BudgetViolations
<1>8. PrecedenceViolations(I, s) = {}
  <2> SUFFICES ASSUME NEW e \in I.deps, e[2] \in DOMAIN s
               PROVE  e[1] \in DOMAIN s /\ ~(s[e[1]] > s[e[2]])
    BY DEF PrecedenceViolations
  <2>1. e[1] \in I.assets /\ e[2] \in I.assets
    BY InstanceFacts
  <2>2. s[e[2]] \in Periods(I) /\ s[e[2]] \in Nat /\ <<e[2], s[e[2]]>> \in y
    BY <2>1, <1>1, <1>3
  <2>3. Done(y, e[2], s[e[2]])
    BY <2>2 DEF Done
  <2>4. Done(y, e[1], s[e[2]])
    BY <2>2, <2>3 DEF Solution, InOrder
  <2>5. PICK v \in y : v[1] = e[1] /\ v[2] <= s[e[2]]
    BY <2>4 DEF Done
  <2>6. v = <<e[1], v[2]>>
    BY <2>5 DEF Vars
  <2>7. e[1] \in DOMAIN s /\ s[e[1]] = v[2]
    BY <2>1, <2>6, <1>1
  <2> QED
    BY <2>2, <2>5, <2>7, <1>3
<1>9. ClusterViolations(I, s) = {}
  <2> SUFFICES ASSUME NEW c \in Range(I.clusters)
               PROVE  Slot(s, c[1]) = Slot(s, c[2])
    BY DEF ClusterViolations
  <2>1. c[1] \in I.assets /\ c[2] \in I.assets
    BY InstanceFacts
  <2>2. ASSUME c[1] \in DOMAIN s
        PROVE  c[2] \in DOMAIN s /\ s[c[2]] = s[c[1]]
    <3>1. s[c[1]] \in Window(I, c[1]) /\ <<c[1], s[c[1]]>> \in y
      BY <2>1, <2>2, <1>1
    <3>2. <<c[2], s[c[1]]>> \in y
      BY <3>1 DEF Solution, Together
    <3> QED
      BY <3>2, <2>1, <1>1
  <2>3. ASSUME c[2] \in DOMAIN s
        PROVE  c[1] \in DOMAIN s /\ s[c[1]] = s[c[2]]
    <3>1. s[c[2]] \in Window(I, c[2]) /\ <<c[2], s[c[2]]>> \in y
      BY <2>1, <2>3, <1>1
    <3>2. <<c[1], s[c[2]]>> \in y
      BY <3>1 DEF Solution, Together
    <3> QED
      BY <3>2, <2>1, <1>1
  <2> QED
    BY <2>2, <2>3 DEF Slot
<1> QED
  BY <1>4, <1>5, <1>6, <1>7, <1>8, <1>9 DEF Feasible, s

-----------------------------------------------------------------------------
\* The variables that are 1 in the encoding of a schedule.
LEMMA EncodeFacts ==
  ASSUME NEW I, IsInstance(I), NEW s \in FeasibleSchedules(I)
  PROVE  /\ DOMAIN s \subseteq I.assets
         /\ \A a \in DOMAIN s : s[a] \in Window(I, a) /\ s[a] \in Nat
         /\ \A a, t : <<a, t>> \in Encode(I, s) <=> a \in DOMAIN s /\ s[a] = t
         /\ \A v \in Encode(I, s) : v = <<v[1], v[2]>>
<1>1. DOMAIN s \subseteq I.assets /\ \A a \in DOMAIN s : s[a] \in Periods(I)
  BY DEF FeasibleSchedules, Schedules
<1>2. Periods(I) \subseteq Nat
  BY InstanceFacts
<1>3. ASSUME NEW a \in DOMAIN s
      PROVE  s[a] \in Window(I, a)
  <2>1. s[a] >= I.earliest[a]
    BY <1>1, <1>2, InstanceFacts
    DEF FeasibleSchedules, Feasible, EarliestViolations
  <2>2. ASSUME I.deadline[a] # None PROVE s[a] <= I.deadline[a]
    <3>1. a \in I.assets /\ I.deadline[a] \in Int /\ s[a] \in Nat
      BY <1>1, <1>2, <2>2, InstanceFacts
    <3>2. ~(s[a] > I.deadline[a])
      BY <3>1, <2>2 DEF FeasibleSchedules, Feasible, DeadlineViolations, Mandated
    <3> QED
      BY <3>1, <3>2
  <2> QED
    BY <1>1, <2>1, <2>2 DEF Window
<1>4. \A a, t : <<a, t>> \in Encode(I, s) <=> a \in DOMAIN s /\ s[a] = t
  BY <1>1, <1>3 DEF Encode, Vars
<1>5. \A v \in Encode(I, s) : v = <<v[1], v[2]>>
  BY DEF Encode, Vars
<1> QED
  BY <1>1, <1>2, <1>3, <1>4, <1>5

(***************************************************************************)
(* Conversely, every schedule the scorer accepts is a solution of the 0/1  *)
(* model: the windows and the forced zeros lose none.                      *)
(***************************************************************************)
THEOREM FeasibleIsEncoded ==
  ASSUME NEW I, IsInstance(I), NEW s \in FeasibleSchedules(I)
  PROVE  Encode(I, s) \in SUBSET Vars(I) /\ Solution(I, Encode(I, s))
<1> DEFINE y == Encode(I, s)
<1>1. /\ DOMAIN s \subseteq I.assets
      /\ \A a \in DOMAIN s : s[a] \in Window(I, a) /\ s[a] \in Nat
      /\ \A a, t : <<a, t>> \in y <=> a \in DOMAIN s /\ s[a] = t
      /\ \A v \in y : v = <<v[1], v[2]>>
  BY EncodeFacts
<1>2. y \in SUBSET Vars(I)
  BY DEF Encode
<1>3. Feasible(I, s)
  BY DEF FeasibleSchedules
<1> HIDE DEF y
<1>4. OncePerAsset(I, y)
  <2>1. ASSUME NEW v \in y, NEW w \in y, v[1] = w[1]
        PROVE  v = w
    BY <1>1, <2>1
  <2>2. ASSUME NEW a \in Mandated(I)
        PROVE  \E v \in y : v[1] = a
    <3>1. a \in DOMAIN s
      BY <1>3 DEF Feasible, DeadlineViolations
    <3>2. <<a, s[a]>> \in y
      BY <3>1, <1>1
    <3> QED
      BY <3>2
  <2> QED
    BY <2>1, <2>2 DEF OncePerAsset
<1>5. WithinBudget(I, y)
  <2> SUFFICES ASSUME NEW t \in Periods(I)
               PROVE  CostOf(I.cost, {a \in I.assets : <<a, t>> \in y}) <= I.budget[t]
    BY DEF WithinBudget
  <2>1. {a \in I.assets \cap DOMAIN s : s[a] = t} =
          {a \in I.assets : <<a, t>> \in y}
    BY <1>1
  <2>2. Spend(I, s, t) <= I.budget[t]
    BY <1>3 DEF Feasible, BudgetViolations
  <2> QED
    BY <2>1, <2>2 DEF Spend
<1>6. InOrder(I, y)
  <2> SUFFICES ASSUME NEW e \in I.deps, NEW t \in Periods(I), Done(y, e[2], t)
               PROVE  Done(y, e[1], t)
    BY DEF InOrder
  <2>1. PICK v \in y : v[1] = e[2] /\ v[2] <= t
    BY DEF Done
  <2>2. e[2] \in DOMAIN s /\ s[e[2]] <= t /\ t \in Nat
    BY <2>1, <1>1, InstanceFacts
  <2>3. e[1] \in DOMAIN s /\ ~(s[e[1]] > s[e[2]])
    BY <2>2, <1>3 DEF Feasible, PrecedenceViolations
  <2>4. <<e[1], s[e[1]]>> \in y /\ s[e[1]] <= t
    BY <2>2, <2>3, <1>1
  <2> QED
    BY <2>4 DEF Done
<1>7. Together(I, y)
  <2> SUFFICES ASSUME NEW c \in Range(I.clusters), NEW t
               PROVE  <<c[1], t>> \in y <=> <<c[2], t>> \in y
    <3>1. \A a, t : <<a, t>> \in y => t \in Window(I, a)
      BY <1>1
    <3> QED
      BY <3>1 DEF Together
  <2>1. Slot(s, c[1]) = Slot(s, c[2])
    BY <1>3 DEF Feasible, ClusterViolations
  <2>2. \A a \in DOMAIN s : s[a] # None
    BY <1>1, NoneAssumption
  <2> QED
    BY <2>1, <2>2, <1>1 DEF Slot
<1> QED
  BY <1>2, <1>4, <1>5, <1>6, <1>7 DEF Solution, y

-----------------------------------------------------------------------------
\* The assignment y and the schedule s say the same.
Agree(I, y, s) ==
  \A a \in I.assets : \A t : <<a, t>> \in y <=> a \in DOMAIN s /\ s[a] = t

LEMMA ExtractAgrees ==
  ASSUME NEW I, IsInstance(I), NEW y \in SUBSET Vars(I), OncePerAsset(I, y)
  PROVE  /\ Agree(I, y, Extract(I, y))
         /\ DOMAIN Extract(I, y) = {a \in I.assets : \E v \in y : v[1] = a}
BY ExtractFacts DEF Agree

LEMMA EncodeAgrees ==
  ASSUME NEW I, IsInstance(I), NEW s \in FeasibleSchedules(I)
  PROVE  Agree(I, Encode(I, s), s)
BY EncodeFacts DEF Agree

\* The variables that are not done are the periods in which s leaves a risk.
LEMMA ObjectiveIsRisk ==
  ASSUME NEW I, IsInstance(I), NEW y \in SUBSET Vars(I), NEW s \in Schedules(I),
         Agree(I, y, s)
  PROVE  Objective(I, y) = Risk(I, s)
<1> USE DEF Agree
<1> DEFINE Open(a) == {u \in Periods(I) : ~Done(y, a, u)}
           Summed(a, P) == SumFunction([t \in P |-> IntWeight(I, a, t)])
<1>1. ASSUME NEW a \in I.assets
      PROVE  Open(a) = 0 .. End(I, s, a) - 1
  <2>1. /\ End(I, s, a) \in Nat /\ End(I, s, a) <= I.T /\ I.T \in Nat
        /\ Periods(I) = 0 .. I.T - 1
    BY EndFacts DEF IsInstance, Periods
  <2>2. \A v \in y : v = <<v[1], v[2]>> /\ v[1] \in I.assets
    BY DEF Vars
  <2>3. ASSUME NEW u \in Periods(I)
        PROVE  Done(y, a, u) <=> End(I, s, a) <= u
    <3>1. Done(y, a, u) <=> a \in DOMAIN s /\ s[a] <= u
      <4>1. ASSUME Done(y, a, u) PROVE a \in DOMAIN s /\ s[a] <= u
        <5>1. PICK v \in y : v[1] = a /\ v[2] <= u
          BY <4>1 DEF Done
        <5>2. <<a, v[2]>> \in y
          BY <5>1, <2>2
        <5> QED
          BY <5>1, <5>2
      <4>2. ASSUME a \in DOMAIN s, s[a] <= u PROVE Done(y, a, u)
        <5>1. <<a, s[a]>> \in y
          BY <4>2
        <5> QED
          BY <4>2, <5>1 DEF Done
      <4> QED
        BY <4>1, <4>2
    <3>2. a \notin DOMAIN s => ~ (End(I, s, a) <= u)
      BY <2>1 DEF End
    <3> QED
      BY <3>1, <3>2 DEF End
  <2> QED
    BY <2>1, <2>3
<1>2. \A a \in I.assets : Summed(a, Open(a)) = Summed(a, 0 .. End(I, s, a) - 1)
  <2> HIDE DEF Open, Summed
  <2> QED
    BY <1>1, Zenon
<1>3. [a \in I.assets |-> Summed(a, Open(a))] = AssetRisks(I, s)
  <2>1. AssetRisks(I, s)
          = [a \in I.assets |-> Summed(a, 0 .. End(I, s, a) - 1)]
    BY DEF AssetRisks, Exposure
  <2> HIDE DEF Open, Summed
  <2> QED
    BY <1>2, <2>1
<1>4. Objective(I, y) = SumFunction([a \in I.assets |-> Summed(a, Open(a))])
  BY DEF Objective
<1>5. Risk(I, s) = SumFunction(AssetRisks(I, s))
  BY DEF Risk, AssetRisks, End
<1> HIDE DEF Open, Summed
<1> QED
  BY <1>3, <1>4, <1>5, Zenon

-----------------------------------------------------------------------------
(* The call.  CallInv adds to the type invariant what the call knows about *)
(* its result at each stage.                                               *)
NoReply(r) ==
  \E st \in {"INFEASIBLE", "UNKNOWN", "MODEL_INVALID"} : r = Reply(st, None, None)

WithReply(r) ==
  \E st \in {"OPTIMAL", "FEASIBLE"} :
    r = Reply(st, Objective(inst, chosen), Extract(inst, chosen))

CallInv ==
  /\ inst \in InstanceSet
  /\ chosen \in SUBSET Vars(inst)
  /\ pc \in {"build", "solve", "extract", "done"}
  /\ pc = "extract" => chosen \in Solutions(inst, eps) /\ result.schedule = None
                        /\ result.status \in {"OPTIMAL", "FEASIBLE"}
  /\ pc \in {"build", "solve"} => result = Reply("UNKNOWN", None, None)
  /\ result.schedule # None => /\ chosen \in Solutions(inst, eps)
                               /\ result.schedule = Extract(inst, chosen)
                               /\ result.objective = Objective(inst, chosen)
  /\ pc = "done" => WithReply(result) \/ NoReply(result)
  /\ pc = "done" /\ result.status \in {"OPTIMAL", "FEASIBLE"} =>
       chosen \in Solutions(inst, eps)
  /\ pc \in {"solve", "extract"} => NoWindow(inst) = {}
  /\ pc = "done" /\ result.status # "INFEASIBLE" => NoWindow(inst) = {}
  /\ pc \in {"extract", "done"} /\ result.status = "OPTIMAL" =>
       \A x \in Solutions(inst, eps) :
         Objective(inst, chosen) <= Objective(inst, x)
  /\ result.status = "INFEASIBLE" /\ NoWindow(inst) = {} =>
       Solutions(inst, eps) = {}

LEMMA CallInductive == Spec => []CallInv
<1>1. Init => CallInv
  BY DEF Init, CallInv, Reply
<1>2. CallInv /\ [Next]_vars => CallInv'
  <2> SUFFICES ASSUME CallInv, [Next]_vars PROVE CallInv'
    OBVIOUS
  <2>1. CASE BuildFails
    BY <2>1 DEF CallInv, BuildFails, Reply, NoReply
  <2>2. CASE Build
    BY <2>2 DEF CallInv, Build, Reply
  <2>3. CASE SolveOptimal
    <3>1. /\ chosen' \in Solutions(inst, eps) /\ inst' = inst /\ eps' = eps
          /\ \A x \in Solutions(inst, eps) :
               Objective(inst, chosen') <= Objective(inst, x)
      BY <2>3 DEF SolveOptimal
    <3> QED
      BY <2>3, <3>1 DEF CallInv, SolveOptimal, Reply, Solutions
  <2>4. CASE SolveFeasible
    BY <2>4 DEF CallInv, SolveFeasible, Reply, Solutions
  <2>5. CASE SolveEmpty
    BY <2>5 DEF CallInv, SolveEmpty, Reply, NoReply
  <2>6. CASE ReadBack
    <3>1. /\ inst' = inst /\ eps' = eps /\ chosen' = chosen /\ pc' = "done"
          /\ pc = "extract" /\ result.status \in {"OPTIMAL", "FEASIBLE"}
          /\ result' = Reply(result.status, Objective(inst, chosen),
                             Extract(inst, chosen))
      BY <2>6 DEF CallInv, ReadBack
    <3>2. WithReply(result)'
      BY <3>1 DEF WithReply
    <3> QED
      BY <3>1, <3>2 DEF CallInv, Reply
  <2>7. CASE Terminated \/ UNCHANGED vars
    BY <2>7 DEF CallInv, Terminated, NoReply, WithReply, vars
  <2> QED
    BY <2>1, <2>2, <2>3, <2>4, <2>5, <2>6, <2>7 DEF Next
<1> QED
  BY <1>1, <1>2, PTL DEF Spec

(***************************************************************************)
(* Every schedule a solver call returns, proven optimal or not, passes     *)
(* every check of the scorer and costs at most eps.                        *)
(***************************************************************************)
THEOREM RepliesAreScoreClean == Spec => []RepliesScoreClean
<1>1. CallInv => RepliesScoreClean
  <2> SUFFICES ASSUME CallInv, result.schedule # None
               PROVE  Feasible(inst, result.schedule) /\ InBudget(result.schedule)
    BY DEF RepliesScoreClean
  <2>1. /\ IsInstance(inst) /\ chosen \in SUBSET Vars(inst) /\ Solution(inst, chosen)
        /\ WithinEps(inst, chosen, eps) /\ result.schedule = Extract(inst, chosen)
    BY InstanceAssumption DEF CallInv, Solutions
  <2>2. Feasible(inst, Extract(inst, chosen))
    BY <2>1, ExtractedIsFeasible
  <2>3. inst.assets \cap DOMAIN Extract(inst, chosen) =
          {a \in inst.assets : \E v \in chosen : v[1] = a}
    <3>1. DOMAIN Extract(inst, chosen) = {a \in inst.assets : \E v \in chosen : v[1] = a}
      BY DEF Extract
    <3> QED
      BY <3>1
  <2>4. InBudget(Extract(inst, chosen))
    BY <2>1, <2>3 DEF InBudget, WithinEps, Cost
  <2> QED
    BY <2>1, <2>2, <2>4
<1> QED
  BY <1>1, CallInductive, PTL

\* A feasible schedule within the cost bound stands among the solutions.
LEMMA EncodedWithinEps ==
  ASSUME IsInstance(inst), NEW s \in FeasibleSchedules(inst), InBudget(s)
  PROVE  Encode(inst, s) \in Solutions(inst, eps)
<1>1. /\ Encode(inst, s) \in SUBSET Vars(inst)
      /\ Solution(inst, Encode(inst, s))
  BY FeasibleIsEncoded
<1>2. {a \in inst.assets : \E v \in Encode(inst, s) : v[1] = a} =
        inst.assets \cap DOMAIN s
  <2>1. \A a, t : <<a, t>> \in Encode(inst, s) <=> a \in DOMAIN s /\ s[a] = t
    BY EncodeFacts
  <2>2. \A v \in Encode(inst, s) : v[1] \in DOMAIN s
    BY DEF Encode
  <2>3. \A a \in DOMAIN s : <<a, s[a]>> \in Encode(inst, s)
    BY <2>1
  <2> QED
    BY <2>2, <2>3
<1>3. WithinEps(inst, Encode(inst, s), eps)
  BY <1>2 DEF WithinEps, InBudget, Cost
<1> QED
  BY <1>1, <1>3 DEF Solutions

(***************************************************************************)
(* When every asset has a period, a call that answers INFEASIBLE is right: *)
(* no schedule the scorer accepts fits the cost bound.                     *)
(***************************************************************************)
THEOREM InfeasibleAnswerIsReal == Spec => []InfeasibleIsReal
<1>1. CallInv => InfeasibleIsReal
  <2> SUFFICES ASSUME CallInv, result.status = "INFEASIBLE", NoWindow(inst) = {},
                      NEW s \in FeasibleSchedules(inst), InBudget(s)
               PROVE  FALSE
    BY DEF InfeasibleIsReal
  <2>1. IsInstance(inst) /\ Solutions(inst, eps) = {}
    BY InstanceAssumption DEF CallInv
  <2> QED
    BY <2>1, EncodedWithinEps
<1> QED
  BY <1>1, CallInductive, PTL

\* What a call with a schedule has found, in the scorer's terms.
LEMMA FoundFacts ==
  ASSUME CallInv, pc = "done", result.status \in {"OPTIMAL", "FEASIBLE"}
  PROVE  \E s \in FeasibleSchedules(inst) :
           /\ InBudget(s)
           /\ result = Reply(result.status, Risk(inst, s), s)
           /\ result.status = "OPTIMAL" =>
                \A z \in FeasibleSchedules(inst) :
                  InBudget(z) => Risk(inst, s) <= Risk(inst, z)
<1>1. /\ IsInstance(inst) /\ chosen \in Solutions(inst, eps)
      /\ chosen \in SUBSET Vars(inst) /\ Solution(inst, chosen)
      /\ WithinEps(inst, chosen, eps) /\ OncePerAsset(inst, chosen)
  BY InstanceAssumption DEF CallInv, Solutions, Solution
<1> DEFINE s == Extract(inst, chosen)
<1>2. s \in Schedules(inst) /\ Feasible(inst, s)
  BY <1>1, ExtractedIsFeasible
<1>3. /\ Agree(inst, chosen, s)
      /\ DOMAIN s = {a \in inst.assets : \E v \in chosen : v[1] = a}
  BY <1>1, ExtractAgrees
<1> HIDE DEF s
<1>4. Objective(inst, chosen) = Risk(inst, s)
  BY <1>1, <1>2, <1>3, ObjectiveIsRisk
<1>5. InBudget(s)
  <2>1. inst.assets \cap DOMAIN s =
          {a \in inst.assets : \E v \in chosen : v[1] = a}
    BY <1>3
  <2> QED
    BY <1>1, <2>1 DEF InBudget, WithinEps, Cost
<1>6. result = Reply(result.status, Risk(inst, s), s)
  <2>1. ~NoReply(result)
    BY DEF NoReply, Reply
  <2>2. PICK st \in {"OPTIMAL", "FEASIBLE"} :
          result = Reply(st, Objective(inst, chosen), Extract(inst, chosen))
    BY <2>1 DEF CallInv, WithReply
  <2> QED
    BY <2>2, <1>4 DEF Reply, s
<1>7. ASSUME result.status = "OPTIMAL", NEW z \in FeasibleSchedules(inst),
             InBudget(z)
      PROVE  Risk(inst, s) <= Risk(inst, z)
  <2>1. Encode(inst, z) \in Solutions(inst, eps)
    BY <1>1, <1>7, EncodedWithinEps
  <2>2. Objective(inst, chosen) <= Objective(inst, Encode(inst, z))
    BY <1>7, <2>1 DEF CallInv
  <2>3. Objective(inst, Encode(inst, z)) = Risk(inst, z)
    <3>1. /\ Agree(inst, Encode(inst, z), z)
          /\ z \in Schedules(inst)
          /\ Encode(inst, z) \in SUBSET Vars(inst)
      BY <1>1, EncodeAgrees DEF FeasibleSchedules, Encode
    <3> QED
      BY <1>1, <3>1, ObjectiveIsRisk
  <2> QED
    BY <1>4, <2>2, <2>3
<1> QED
  BY <1>2, <1>5, <1>6, <1>7 DEF FeasibleSchedules

(***************************************************************************)
(* An OPTIMAL reply is optimal among all schedules the scorer accepts: the *)
(* objective of the 0/1 model is the scorer's risk, and the model has lost *)
(* no schedule.                                                            *)
(***************************************************************************)
THEOREM OptimalReplyIsGlobal == Spec => []OptimalIsGlobal
<1>1. CallInv => OptimalIsGlobal
  BY FoundFacts DEF OptimalIsGlobal, Reply
<1> QED
  BY <1>1, CallInductive, PTL

(***************************************************************************)
(* The call keeps the contract the heuristics are built on: without a cost *)
(* bound it ends with one of Solver's Replies, risk of the schedule        *)
(* included, or with MODEL_INVALID.                                        *)
(***************************************************************************)
THEOREM CallKeepsContract ==
  Spec => [](pc = "done" /\ eps = None =>
               \/ result \in Replies(inst)
               \/ result = Reply("MODEL_INVALID", None, None))
<1>1. ASSUME CallInv, pc = "done", eps = None
      PROVE  \/ result \in Replies(inst)
             \/ result = Reply("MODEL_INVALID", None, None)
  <2> DEFINE found == IF NoWindow(inst) = {} THEN FeasibleSchedules(inst) ELSE {}
             least == Min({Risk(inst, s) : s \in found})
  <2>1. IsInstance(inst) /\ \A s : InBudget(s)
    BY <1>1, InstanceAssumption DEF CallInv, InBudget
  <2>2. CASE result.status \in {"OPTIMAL", "FEASIBLE"}
    <3>1. NoWindow(inst) = {}
      BY <1>1, <2>2 DEF CallInv
    <3>2. PICK s \in FeasibleSchedules(inst) :
            /\ result = Reply(result.status, Risk(inst, s), s)
            /\ result.status = "OPTIMAL" =>
                 \A z \in FeasibleSchedules(inst) : Risk(inst, s) <= Risk(inst, z)
      BY <1>1, <2>1, <2>2, FoundFacts
    <3>3. CASE result.status = "FEASIBLE"
      BY <3>1, <3>2, <3>3 DEF Replies
    <3>4. CASE result.status = "OPTIMAL"
      <4>1. \A z \in FeasibleSchedules(inst) : Risk(inst, z) \in Nat
        BY <2>1, RiskNat DEF FeasibleSchedules
      <4>2. Risk(inst, s) = least
        <5> DEFINE R == {Risk(inst, z) : z \in found}
        <5>1. Risk(inst, s) \in R /\ \A r \in R : r \in Nat /\ Risk(inst, s) <= r
          BY <3>1, <3>2, <3>4, <4>1
        <5> HIDE DEF R
        <5>2. Min(R) = Risk(inst, s)
          BY <5>1 DEF Min
        <5> QED
          BY <5>2 DEF R
      <4>3. Reply("OPTIMAL", Risk(inst, s), s) \in Replies(inst)
        BY <3>1, <3>2, <4>2 DEF Replies
      <4> QED
        BY <3>2, <3>4, <4>3
    <3> QED
      BY <2>2, <3>3, <3>4
  <2>3. CASE NoReply(result)
    <3>1. CASE result = Reply("INFEASIBLE", None, None)
      <4>1. found = {}
        BY <1>1, <2>1, <3>1, EncodedWithinEps DEF CallInv, Reply
      <4> QED
        BY <3>1, <4>1 DEF Replies
    <3>2. CASE result = Reply("UNKNOWN", None, None)
      <4>1. NoWindow(inst) = {}
        BY <1>1, <3>2 DEF CallInv, Reply
      <4> QED
        BY <3>2, <4>1 DEF Replies
    <3> QED
      BY <2>3, <3>1, <3>2 DEF NoReply
  <2> QED
    BY <1>1, <2>2, <2>3 DEF CallInv, WithReply, Reply
<1> QED
  BY <1>1, CallInductive, PTL

-----------------------------------------------------------------------------
(* The call as the sweep sees it. *)

\* What pareto.py reads off a reply: the score of the schedule, if any.
AsAnswer(r) ==
  IF Answered(r) THEN Point(<<Cost(inst, r.schedule), r.objective>>, r.status)
  ELSE NoAnswer(IF r.status = "MODEL_INVALID" THEN "UNKNOWN" ELSE r.status)

(***************************************************************************)
(* A call under a cap answers as the frontier assumes: with the cost and   *)
(* the risk of a feasible schedule within the cap, of the least risk if it *)
(* says OPTIMAL; with INFEASIBLE only if none is within it; or not at all. *)
(***************************************************************************)
THEOREM CallAnswersTheSweep ==
  Spec => [](/\ pc = "done"
             /\ offers = IF NoWindow(inst) = {} THEN Offers(inst) ELSE {}
             => AsAnswer(result) \in Answers(eps))
<1>1. ASSUME CallInv, pc = "done",
             offers = IF NoWindow(inst) = {} THEN Offers(inst) ELSE {}
      PROVE  AsAnswer(result) \in Answers(eps)
  <2>1. CASE result.status \in {"OPTIMAL", "FEASIBLE"}
    <3>1. offers = Offers(inst)
      BY <1>1, <2>1 DEF CallInv
    <3>2. PICK s \in FeasibleSchedules(inst) :
            /\ InBudget(s)
            /\ result = Reply(result.status, Risk(inst, s), s)
            /\ result.status = "OPTIMAL" =>
                 \A z \in FeasibleSchedules(inst) :
                   InBudget(z) => Risk(inst, s) <= Risk(inst, z)
      BY <1>1, <2>1, FoundFacts
    <3> DEFINE o == <<Cost(inst, s), Risk(inst, s)>>
    <3>3. AsAnswer(result) = Point(o, result.status)
      <4>1. result.schedule = s /\ result.objective = Risk(inst, s)
        BY <3>2 DEF Reply
      <4> QED
        BY <2>1, <4>1 DEF AsAnswer, Answered
    <3>4. o \in Within(eps) /\ o[2] = Risk(inst, s)
      BY <3>1, <3>2 DEF Offers, Within, InBudget
    <3>5. ASSUME result.status = "OPTIMAL", NEW x \in Within(eps)
          PROVE  o[2] <= x[2]
      <4>1. PICK z \in FeasibleSchedules(inst) :
              x = <<Cost(inst, z), Risk(inst, z)>>
        BY <3>1 DEF Within, Offers
      <4>2. InBudget(z) /\ x[2] = Risk(inst, z)
        BY <4>1 DEF Within, InBudget
      <4> QED
        BY <3>2, <3>5, <4>2
    <3> HIDE DEF o
    <3> QED
      BY <2>1, <3>3, <3>4, <3>5 DEF Answers
  <2>2. CASE NoReply(result)
    <3>1. CASE result.status = "INFEASIBLE"
      <4>1. Within(eps) = {}
        <5> SUFFICES ASSUME NEW o \in Within(eps) PROVE FALSE
          OBVIOUS
        <5>1. NoWindow(inst) = {} /\ o \in Offers(inst) /\ (eps # None => o[1] <= eps)
          BY <1>1 DEF Within
        <5>2. PICK s \in FeasibleSchedules(inst) :
                o = <<Cost(inst, s), Risk(inst, s)>>
          BY <5>1 DEF Offers
        <5>3. InBudget(s)
          BY <5>1, <5>2 DEF InBudget
        <5>4. IsInstance(inst) /\ Solutions(inst, eps) = {}
          BY <1>1, <3>1, <5>1, InstanceAssumption DEF CallInv
        <5> QED
          BY <5>3, <5>4, EncodedWithinEps
      <4>2. AsAnswer(result) = NoAnswer("INFEASIBLE")
        BY <3>1 DEF AsAnswer, Answered
      <4> QED
        BY <4>1, <4>2 DEF Answers
    <3>2. CASE result.status \in {"UNKNOWN", "MODEL_INVALID"}
      <4>1. AsAnswer(result) = NoAnswer("UNKNOWN")
        BY <3>2 DEF AsAnswer, Answered
      <4> QED
        BY <4>1 DEF Answers
    <3> QED
      BY <2>2, <3>1, <3>2 DEF NoReply, Reply
  <2> QED
    BY <1>1, <2>1, <2>2 DEF CallInv, WithReply, Reply
<1> QED
  BY <1>1, CallInductive, PTL


-----------------------------------------------------------------------------
(* The sort and the skyline, for any sequence of points. *)

Points == [cost : Nat, risk : Nat, status : {"OPTIMAL", "FEASIBLE"}]

LEMMA BeforeIsOrder ==
  ASSUME NEW P \in Seq(Points)
  PROVE  \A i, j, k \in DOMAIN P :
           /\ ~Before(P, i, i)
           /\ Before(P, i, j) /\ Before(P, j, k) => Before(P, i, k)
           /\ i # j => Before(P, i, j) \/ Before(P, j, i)
<1>1. \A i \in DOMAIN P : P[i].cost \in Nat /\ P[i].risk \in Nat /\ i \in Nat
  <2>1. \A i \in DOMAIN P : P[i] \in Points /\ i \in Nat
    OBVIOUS
  <2> QED
    BY <2>1 DEF Points
<1> QED
  BY <1>1 DEF Before

\* Every rank below the length is taken by exactly one position.
LEMMA RankFacts ==
  ASSUME NEW P \in Seq(Points)
  PROVE  /\ \A i \in DOMAIN P : Rank(P, i) \in 0 .. Len(P) - 1
         /\ \A i, j \in DOMAIN P : Before(P, i, j) => Rank(P, i) < Rank(P, j)
         /\ \A k \in DOMAIN P : \E i \in DOMAIN P : Rank(P, i) = k - 1
<1> DEFINE D == DOMAIN P
           R == {e \in D \X D : Before(P, e[1], e[2])}
<1>1. /\ Len(P) \in Nat /\ D = 1 .. Len(P) /\ IsFiniteSet(D)
      /\ Cardinality(D) = Len(P)
  <2>1. Len(P) \in Nat /\ D = 1 .. Len(P) /\ 1 \in Int /\ Len(P) \in Int
    OBVIOUS
  <2>2. IsFiniteSet(1 .. Len(P))
        /\ Cardinality(1 .. Len(P)) = IF 1 > Len(P) THEN 0 ELSE Len(P) - 1 + 1
    BY <2>1, FS_Interval
  <2> QED
    BY <2>1, <2>2
<1>2. \A i, j \in D : <<i, j>> \in R <=> Before(P, i, j)
  OBVIOUS
<1>3. Orders(R, D)
  <2> HIDE DEF R
  <2> QED
    BY <1>2, BeforeIsOrder DEF Orders
<1>4. \A i \in D : Rank(P, i) = RankIn(R, D, i)
  <2> SUFFICES ASSUME NEW i \in D
               PROVE  {j \in D : Before(P, j, i)} = {j \in D : <<j, i>> \in R}
    BY DEF Rank, RankIn
  <2> HIDE DEF R
  <2> QED
    BY <1>2
<1> HIDE DEF D, R
<1>5. /\ \A i \in D : RankIn(R, D, i) \in 0 .. Cardinality(D) - 1
      /\ \A i, j \in D : <<i, j>> \in R => RankIn(R, D, i) < RankIn(R, D, j)
      /\ \A k \in 1 .. Cardinality(D) : \E i \in D : RankIn(R, D, i) = k - 1
  <2>1. Ranked(R, D)
    BY <1>1, <1>3, Ranking
  <2> QED
    BY <2>1 DEF Ranked
<1>6. \A i, j \in D : Before(P, i, j) => Rank(P, i) < Rank(P, j)
  BY <1>2, <1>4, <1>5
<1>7. /\ \A i \in D : Rank(P, i) \in 0 .. Len(P) - 1
      /\ \A k \in D : \E i \in D : Rank(P, i) = k - 1
  BY <1>1, <1>4, <1>5
<1> QED
  BY <1>6, <1>7 DEF D

\* q comes no later than p in the sort
NoLater(q, p) == q.cost < p.cost \/ (q.cost = p.cost /\ q.risk <= p.risk)

LEMMA SortedFacts ==
  ASSUME NEW P \in Seq(Points)
  PROVE  /\ Sorted(P) \in Seq(Points) /\ Len(Sorted(P)) = Len(P)
         /\ \A k \in DOMAIN P : \E i \in DOMAIN P : Sorted(P)[k] = P[i]
         /\ \A i \in DOMAIN P : \E k \in DOMAIN P : Sorted(P)[k] = P[i]
         /\ \A k, l \in DOMAIN P : k <= l => NoLater(Sorted(P)[k], Sorted(P)[l])
<1> DEFINE at(k) == CHOOSE i \in DOMAIN P : Rank(P, i) = k - 1
<1>1. Len(P) \in Nat /\ DOMAIN P = 1 .. Len(P) /\ \A i \in DOMAIN P : P[i] \in Points
  OBVIOUS
<1>2. ASSUME NEW k \in DOMAIN P
      PROVE  at(k) \in DOMAIN P /\ Rank(P, at(k)) = k - 1 /\ Sorted(P)[k] = P[at(k)]
  <2>1. \E i \in DOMAIN P : Rank(P, i) = k - 1
    BY RankFacts
  <2>2. at(k) \in DOMAIN P /\ Rank(P, at(k)) = k - 1
    BY <2>1
  <2> QED
    BY <2>2 DEF Sorted
<1> HIDE DEF at
<1>3. DOMAIN Sorted(P) = 1 .. Len(P) /\ Sorted(P) = [k \in 1 .. Len(P) |-> Sorted(P)[k]]
  BY <1>1 DEF Sorted
<1>4. Sorted(P) \in Seq(Points) /\ Len(Sorted(P)) = Len(P)
  <2>1. \A k \in 1 .. Len(P) : Sorted(P)[k] \in Points
    BY <1>1, <1>2
  <2> HIDE DEF Points
  <2> QED
    BY <1>1, <1>3, <2>1
<1>5. ASSUME NEW i \in DOMAIN P PROVE \E k \in DOMAIN P : Sorted(P)[k] = P[i]
  <2>1. Rank(P, i) \in 0 .. Len(P) - 1
    BY RankFacts
  <2>2. Rank(P, i) + 1 \in DOMAIN P
    BY <1>1, <2>1
  <2> DEFINE k == Rank(P, i) + 1
  <2>3. at(k) \in DOMAIN P /\ Rank(P, at(k)) = k - 1 /\ Sorted(P)[k] = P[at(k)]
    BY <1>2, <2>2
  <2>4. Rank(P, at(k)) = Rank(P, i)
    BY <2>1, <2>3
  <2>5. at(k) = i
    <3> SUFFICES ASSUME at(k) # i PROVE FALSE
      OBVIOUS
    <3> HIDE DEF k
    <3>1. Before(P, at(k), i) \/ Before(P, i, at(k))
      BY <2>3, BeforeIsOrder
    <3>2. Rank(P, at(k)) < Rank(P, i) \/ Rank(P, i) < Rank(P, at(k))
      BY <2>3, <3>1, RankFacts
    <3> QED
      BY <1>1, <2>1, <2>4, <3>2
  <2> QED
    BY <2>2, <2>3, <2>5
<1>6. ASSUME NEW k \in DOMAIN P, NEW l \in DOMAIN P, k <= l
      PROVE  NoLater(Sorted(P)[k], Sorted(P)[l])
  <2>1. /\ at(k) \in DOMAIN P /\ Rank(P, at(k)) = k - 1 /\ Sorted(P)[k] = P[at(k)]
        /\ at(l) \in DOMAIN P /\ Rank(P, at(l)) = l - 1 /\ Sorted(P)[l] = P[at(l)]
    BY <1>2
  <2>2. /\ P[at(k)].cost \in Nat /\ P[at(k)].risk \in Nat
        /\ P[at(l)].cost \in Nat /\ P[at(l)].risk \in Nat
    BY <1>1, <2>1 DEF Points
  <2>3. ~Before(P, at(l), at(k))
    <3> SUFFICES ASSUME Before(P, at(l), at(k)) PROVE FALSE
      OBVIOUS
    <3>1. Rank(P, at(l)) < Rank(P, at(k))
      BY <2>1, RankFacts
    <3> QED
      BY <1>1, <1>6, <2>1, <3>1
  <2>4. at(k) = at(l) \/ Before(P, at(k), at(l))
    BY <2>1, <2>3, BeforeIsOrder
  <2> QED
    BY <2>1, <2>2, <2>4 DEF NoLater, Before
<1> QED
  BY <1>1, <1>2, <1>4, <1>5, <1>6

\* kept[k] is the list after the first k points of the sorted sequence s.
Kept(kept, s) ==
  /\ kept[0] = <<>>
  /\ \A k \in 1 .. Len(s) : kept[k] = Keep(kept[k - 1], s[k])

LEMMA KeepType ==
  ASSUME NEW kept \in Seq(Points), NEW p \in Points
  PROVE  Keep(kept, p) \in Seq(Points)
<1>1. CASE kept # <<>> /\ Last(kept).risk <= p.risk
  BY <1>1 DEF Keep
<1>2. CASE ~(kept # <<>> /\ Last(kept).risk <= p.risk)
           /\ kept # <<>> /\ Last(kept).cost = p.cost
  <2>1. Front(kept) \in Seq(Points)
    <3> HIDE DEF Points
    <3> QED
      BY <1>2 DEF Front
  <2>2. Append(Front(kept), p) \in Seq(Points)
    BY <2>1
  <2> QED
    BY <1>2, <2>2 DEF Keep
<1>3. CASE ~(kept # <<>> /\ Last(kept).risk <= p.risk)
           /\ ~(kept # <<>> /\ Last(kept).cost = p.cost)
  <2>1. Append(kept, p) \in Seq(Points)
    OBVIOUS
  <2> QED
    BY <1>3, <2>1 DEF Keep
<1> QED
  BY <1>1, <1>2, <1>3

\* The fold of _skyline runs through such lists.
LEMMA SkylineIsLoop ==
  ASSUME NEW P \in Seq(Points)
  PROVE  \E kept : Kept(kept, Sorted(P)) /\ Skyline(P) = kept[Len(P)]
<1> DEFINE s == Sorted(P)
           D == DOMAIN s
           V == Seq(Points)
           pick == [T \in SUBSET D |-> Max(T)]
           h == [T \in SUBSET D |->
                   [v \in V |-> IF T = {} THEN v ELSE Keep(v, s[pick[T]])]]
           IsFold(g) == g = [T \in SUBSET D |->
                               IF T = {} THEN <<>>
                               ELSE Keep(g[T \ {Max(T)}], s[Max(T)])]
<1>1. /\ s \in Seq(Points) /\ Len(s) = Len(P) /\ Len(s) \in Nat
      /\ D = 1 .. Len(s) /\ IsFiniteSet(D) /\ \A i \in D : s[i] \in Points
  <2>1. s \in Seq(Points) /\ Len(s) = Len(P)
    BY SortedFacts
  <2> HIDE DEF s
  <2>2. Len(s) \in Nat /\ D = 1 .. Len(s) /\ \A i \in D : s[i] \in Points
    BY <2>1
  <2> QED
    BY <2>1, <2>2, FS_Interval
<1> HIDE DEF s
<1>2. \A T \in SUBSET D : T # {} => /\ Max(T) \in T
                                    /\ \A x \in T : x <= Max(T)
  <2>1. ASSUME NEW T \in SUBSET D, T # {}
        PROVE  Max(T) \in T /\ \A x \in T : x <= Max(T)
    <3>1. T \in SUBSET (0 .. Len(s))
      BY <1>1
    <3> QED
      BY <1>1, <2>1, <3>1, GreatestUpTo
  <2> QED
    BY <2>1
<1>3. Picks(pick, D)
  BY <1>2 DEF Picks
<1>4. Accumulates(h, D, V)
  <2>1. ASSUME NEW T \in SUBSET D, NEW v \in V, T # {}
        PROVE  h[T][v] \in V
    <3>1. s[pick[T]] \in Points
      BY <1>1, <1>2, <2>1
    <3>2. Keep(v, s[pick[T]]) \in Seq(Points)
      BY <3>1, KeepType
    <3> QED
      BY <2>1, <3>2
  <2>2. \A v \in V : h[{}][v] \in V
    OBVIOUS
  <2> QED
    BY <2>1, <2>2 DEF Accumulates
<1>5. PICK e \in [SUBSET D -> V] : Folds(e, <<>>, pick, h, D)
  <2>1. <<>> \in V
    OBVIOUS
  <2> HIDE DEF pick, h, V, D
  <2> QED
    BY <1>1, <1>3, <1>4, <2>1, FoldExists
<1>6. IsFold(e)
  <2>1. \A T \in SUBSET D : T # {} => T \ {Max(T)} \in SUBSET D
    OBVIOUS
  <2>2. \A T \in SUBSET D : T # {} =>
          h[T][e[T \ {pick[T]}]] = Keep(e[T \ {Max(T)}], s[Max(T)])
    BY <1>5, <2>1
  <2> HIDE DEF pick, h, V
  <2> QED
    BY <1>5, <2>2 DEF Folds
<1> DEFINE g == CHOOSE g : IsFold(g)
<1>7. IsFold(g)
  BY <1>6
<1>8. Skyline(P) = g[D]
  BY DEF Skyline, FoldLeft, MapThenFoldSet, s
<1> HIDE DEF g
<1> DEFINE kept == [k \in 0 .. Len(s) |-> g[1 .. k]]
<1>9. kept[0] = <<>>
  <2>1. 1 .. 0 = {} /\ {} \in SUBSET D /\ 0 \in 0 .. Len(s)
    BY <1>1
  <2>2. kept[0] = g[1 .. 0]
    BY <2>1
  <2>3. g[{}] = <<>>
    BY <1>7, <2>1
  <2> QED
    BY <2>1, <2>2, <2>3
<1>10. ASSUME NEW k \in 1 .. Len(s)
       PROVE  kept[k] = Keep(kept[k - 1], s[k])
  <2>1. 1 .. k \in SUBSET D /\ 1 .. k # {} /\ k \in 1 .. k
    BY <1>1
  <2>2. Max(1 .. k) = k
    <3>1. Max(1 .. k) \in 1 .. k /\ k <= Max(1 .. k)
      BY <1>2, <2>1
    <3> QED
      BY <3>1
  <2>3. (1 .. k) \ {k} = 1 .. k - 1
    OBVIOUS
  <2>4. g[1 .. k] = Keep(g[(1 .. k) \ {k}], s[k])
    BY <1>7, <2>1, <2>2
  <2>5. g[1 .. k] = Keep(g[1 .. k - 1], s[k])
    BY <2>3, <2>4, Zenon
  <2>6. k \in 0 .. Len(s) /\ k - 1 \in 0 .. Len(s)
    BY <1>1
  <2> QED
    BY <2>5, <2>6
<1>11. Kept(kept, s)
  <2> HIDE DEF kept
  <2> QED
    BY <1>9, <1>10 DEF Kept
<1>12. Skyline(P) = kept[Len(P)]
  BY <1>1, <1>8
<1> QED
  BY <1>11, <1>12 DEF s

Dominates(p, q) == p.cost <= q.cost /\ p.risk <= q.risk

\* What _skyline promises, of the list kept after k points of s.
IsSkyline(kept, s, k) ==
  /\ kept \in Seq(Points)
  /\ \A a \in DOMAIN kept : \E i \in 1 .. k : kept[a] = s[i]
  /\ k >= 1 => /\ kept # <<>>
               /\ \A i \in 1 .. k : /\ Last(kept).risk <= s[i].risk
                                    /\ kept[1].cost <= s[i].cost
  /\ \A i \in 1 .. k : \E a \in DOMAIN kept : Dominates(kept[a], s[i])
  /\ \A a, b \in DOMAIN kept :
       a < b => kept[a].cost < kept[b].cost /\ kept[a].risk > kept[b].risk

LEMMA KeepStep ==
  ASSUME NEW s \in Seq(Points), NEW k \in Nat, k < Len(s),
         \A i, j \in DOMAIN s : i <= j => NoLater(s[i], s[j]),
         NEW kept, IsSkyline(kept, s, k)
  PROVE  IsSkyline(Keep(kept, s[k + 1]), s, k + 1)
<1> DEFINE p == s[k + 1]
           m == Len(kept)
           new == Keep(kept, p)
<1>a. \A x \in DOMAIN kept : \E i \in 1 .. k : kept[x] = s[i]
  BY DEF IsSkyline
<1>b. k >= 1 => /\ kept # <<>>
                /\ \A i \in 1 .. k : /\ Last(kept).risk <= s[i].risk
                                     /\ kept[1].cost <= s[i].cost
  BY DEF IsSkyline
<1>c. \A i \in 1 .. k : \E x \in DOMAIN kept : Dominates(kept[x], s[i])
  BY DEF IsSkyline
<1>d. \A x, y \in DOMAIN kept :
        x < y => kept[x].cost < kept[y].cost /\ kept[x].risk > kept[y].risk
  BY DEF IsSkyline
<1>1. /\ \A i \in 1 .. k + 1 : i \in DOMAIN s /\ s[i].cost \in Nat /\ s[i].risk \in Nat
      /\ p \in Points /\ p.cost \in Nat /\ p.risk \in Nat
  <2>1. \A i \in 1 .. k + 1 : i \in DOMAIN s /\ s[i] \in Points
    OBVIOUS
  <2> QED
    BY <2>1 DEF Points
<1>2. /\ kept \in Seq(Points) /\ m \in Nat /\ DOMAIN kept = 1 .. m
      /\ \A a \in DOMAIN kept : kept[a].cost \in Nat /\ kept[a].risk \in Nat
      /\ kept # <<>> => m >= 1 /\ Last(kept) = kept[m]
  <2>1. kept \in Seq(Points)
    BY DEF IsSkyline
  <2>2. \A a \in DOMAIN kept : kept[a] \in Points
    BY <2>1
  <2> QED
    BY <2>1, <2>2 DEF Points, Last
<1>3. ASSUME kept # <<>> PROVE NoLater(Last(kept), p)
  <2>1. PICK i \in 1 .. k : Last(kept) = s[i]
    BY <1>2, <1>3, <1>a
  <2>2. i \in DOMAIN s /\ k + 1 \in DOMAIN s /\ i <= k + 1
    BY <1>1
  <2> QED
    BY <2>1, <2>2
<1>4. kept = <<>> => k = 0
  <2>1. k \in Nat
    OBVIOUS
  <2> QED
    BY <2>1, <1>b
<1> HIDE DEF p
<1>5. CASE kept # <<>> /\ Last(kept).risk <= p.risk
  <2>1. new = kept
    BY <1>5 DEF Keep
  <2>2. ASSUME NEW i \in 1 .. k + 1
        PROVE  Last(kept).risk <= s[i].risk /\ kept[1].cost <= s[i].cost
    <3>1. CASE i \in 1 .. k
      BY <3>1, <1>b
    <3>2. CASE i = k + 1
      <4>1. CASE k = 0
        <5>1. \A a \in DOMAIN kept : FALSE
          BY <4>1, <1>a
        <5> QED
          BY <1>2, <1>5, <5>1
      <4>2. CASE k >= 1
        <5>1. kept[1].cost <= s[k].cost /\ NoLater(s[k], s[k + 1])
          BY <1>1, <4>2, <1>b
        <5>2. kept[1].cost <= s[k + 1].cost
          <6>1. /\ kept[1].cost \in Nat /\ s[k].cost \in Nat
                /\ s[k + 1].cost \in Nat
            <7>1. 1 \in DOMAIN kept
              BY <1>2, <1>5
            <7>2. k \in 1 .. k + 1 /\ k + 1 \in 1 .. k + 1
              BY <4>2
            <7> QED
              BY <1>1, <1>2, <7>1, <7>2
          <6> QED
            BY <5>1, <6>1 DEF NoLater
        <5> QED
          BY <1>5, <3>2, <5>2 DEF p
      <4> QED
        BY <4>1, <4>2
    <3> QED
      BY <3>1, <3>2
  <2>3. ASSUME NEW i \in 1 .. k + 1
        PROVE  \E a \in DOMAIN kept : Dominates(kept[a], s[i])
    <3>1. CASE i \in 1 .. k
      BY <3>1, <1>c
    <3>2. CASE i = k + 1
      <4>1. m \in DOMAIN kept /\ kept[m] = Last(kept)
        BY <1>2, <1>5
      <4>2. Last(kept).cost <= p.cost
        BY <1>1, <1>2, <1>3, <1>5, <4>1 DEF NoLater
      <4>3. Dominates(kept[m], s[i])
        BY <1>5, <3>2, <4>1, <4>2 DEF Dominates, p
      <4> QED
        BY <4>1, <4>3
    <3> QED
      BY <3>1, <3>2
  <2> QED
    BY <1>5, <2>1, <2>2, <2>3 DEF IsSkyline, p
<1>6. CASE ~(kept # <<>> /\ Last(kept).risk <= p.risk)
  <2>1. kept # <<>> => Last(kept).cost < p.cost /\ Last(kept).risk > p.risk
    BY <1>1, <1>2, <1>3, <1>6 DEF NoLater
  <2>2. new = Append(kept, p)
    <3>1. ASSUME kept # <<>> PROVE Last(kept).cost # p.cost
      <4>1. Last(kept).cost \in Nat /\ p.cost \in Nat /\ Last(kept).cost < p.cost
        BY <1>1, <1>2, <2>1, <3>1
      <4> QED
        BY <4>1
    <3> QED
      BY <1>6, <3>1 DEF Keep
  <2>3. /\ new \in Seq(Points) /\ Len(new) = m + 1 /\ DOMAIN new = 1 .. m + 1
        /\ \A a \in 1 .. m : new[a] = kept[a]
        /\ new[m + 1] = p /\ new # <<>> /\ Last(new) = p
    <3> HIDE DEF Points, new
    <3> QED
      BY <1>1, <1>2, <2>2 DEF Last
  <2> HIDE DEF new
  <2>4. \A a \in DOMAIN new : \E i \in 1 .. k + 1 : new[a] = s[i]
    <3>1. ASSUME NEW a \in 1 .. m PROVE \E i \in 1 .. k + 1 : new[a] = s[i]
      <4>1. PICK i \in 1 .. k : kept[a] = s[i]
        BY <1>2, <1>a
      <4> QED
        BY <2>3, <4>1
    <3>2. new[m + 1] = s[k + 1] /\ k + 1 \in 1 .. k + 1
      BY <2>3 DEF p
    <3>3. ASSUME NEW a \in DOMAIN new PROVE a \in 1 .. m \/ a = m + 1
      BY <1>2, <2>3
    <3> QED
      BY <3>1, <3>2, <3>3, Zenon
  <2>5. ASSUME NEW i \in 1 .. k + 1
        PROVE  Last(new).risk <= s[i].risk /\ new[1].cost <= s[i].cost
    <3>1. CASE kept = <<>>
      <4>1. i = k + 1 /\ m = 0
        BY <1>4, <3>1
      <4> QED
        BY <1>1, <2>3, <4>1 DEF p
    <3>2. CASE kept # <<>>
      <4>1. k >= 1 /\ new[1] = kept[1]
        <5>1. \E j \in 1 .. k : kept[1] = s[j]
          BY <1>2, <3>2, <1>a
        <5> QED
          BY <5>1, <1>2, <2>3, <3>2
      <4>2. CASE i \in 1 .. k
        <5>1. Last(kept).risk <= s[i].risk /\ kept[1].cost <= s[i].cost
          BY <4>1, <4>2, <1>b
        <5>2. Last(kept).risk \in Nat /\ Last(kept).risk > p.risk
          BY <1>2, <2>1, <3>2
        <5> QED
          BY <1>1, <2>3, <4>1, <5>1, <5>2
      <4>3. CASE i = k + 1
        <5>1. kept[1].cost <= s[k].cost /\ NoLater(s[k], s[k + 1])
          BY <1>1, <4>1, <1>b
        <5>2. kept[1].cost <= s[k + 1].cost
          <6>1. /\ kept[1].cost \in Nat /\ s[k].cost \in Nat
                /\ s[k + 1].cost \in Nat
            <7>1. 1 \in DOMAIN kept
              BY <1>2, <3>2
            <7>2. k \in 1 .. k + 1 /\ k + 1 \in 1 .. k + 1
              BY <4>1
            <7> QED
              BY <1>1, <1>2, <7>1, <7>2
          <6> QED
            BY <5>1, <6>1 DEF NoLater
        <5> QED
          BY <1>1, <2>3, <4>1, <4>3, <5>2 DEF p
      <4> QED
        BY <4>2, <4>3
    <3> QED
      BY <3>1, <3>2
  <2>6. ASSUME NEW a \in DOMAIN new, NEW b \in DOMAIN new, a < b
        PROVE  new[a].cost < new[b].cost /\ new[a].risk > new[b].risk
    <3>1. a \in 1 .. m /\ new[a] = kept[a] /\ kept # <<>>
      BY <1>2, <2>3, <2>6
    <3>2. CASE b \in 1 .. m
      BY <1>2, <2>3, <2>6, <3>1, <3>2, <1>d
    <3>3. CASE b = m + 1
      <4>1. Last(kept) = kept[m] /\ m \in DOMAIN kept
        BY <1>2, <3>1
      <4>2. a = m \/ (kept[a].cost < kept[m].cost /\ kept[a].risk > kept[m].risk)
        BY <1>2, <3>1, <4>1, <1>d
      <4> QED
        BY <1>1, <1>2, <2>1, <2>3, <3>1, <3>3, <4>1, <4>2
    <3> QED
      BY <1>2, <2>3, <3>2, <3>3
  <2>7. ASSUME NEW i \in 1 .. k + 1
        PROVE  \E a \in DOMAIN new : Dominates(new[a], s[i])
    <3>1. CASE i \in 1 .. k
      <4>1. PICK a \in DOMAIN kept : Dominates(kept[a], s[i])
        BY <3>1, <1>c
      <4>2. a \in DOMAIN new /\ new[a] = kept[a]
        BY <1>2, <2>3
      <4> QED
        BY <4>1, <4>2
    <3>2. CASE i = k + 1
      <4>1. m + 1 \in DOMAIN new /\ new[m + 1] = s[i]
        BY <1>2, <2>3, <3>2 DEF p
      <4>2. Dominates(s[i], s[i])
        BY <1>1, <3>2 DEF Dominates
      <4> QED
        BY <4>1, <4>2
    <3> QED
      BY <3>1, <3>2
  <2>8. IsSkyline(new, s, k + 1)
    BY <2>3, <2>4, <2>5, <2>6, <2>7 DEF IsSkyline
  <2> QED
    BY <2>8 DEF new, p
<1> QED
  BY <1>5, <1>6 DEF p

(***************************************************************************)
(* _skyline, whatever points it is given: it returns some of them, costs   *)
(* strictly rising and risks strictly falling, the first as cheap as any   *)
(* and the last as safe as any; and no point is lost that none of those    *)
(* returned equals or betters in both.                                     *)
(***************************************************************************)
THEOREM SkylineIsStrict ==
  ASSUME NEW P \in Seq(Points)
  PROVE  IsSkyline(Skyline(P), P, Len(P))
<1> DEFINE s == Sorted(P)
<1>1. /\ s \in Seq(Points) /\ Len(s) = Len(P) /\ Len(P) \in Nat
      /\ \A k \in DOMAIN P : \E i \in DOMAIN P : s[k] = P[i]
      /\ \A i \in DOMAIN P : \E k \in DOMAIN P : s[k] = P[i]
      /\ DOMAIN P = 1 .. Len(P) /\ DOMAIN s = 1 .. Len(P)
  <2>1. Len(P) \in Nat /\ DOMAIN P = 1 .. Len(P)
    OBVIOUS
  <2>2. /\ s \in Seq(Points) /\ Len(s) = Len(P)
        /\ \A k \in DOMAIN P : \E i \in DOMAIN P : s[k] = P[i]
        /\ \A i \in DOMAIN P : \E k \in DOMAIN P : s[k] = P[i]
    BY SortedFacts
  <2> HIDE DEF s
  <2> QED
    BY <2>1, <2>2
<1>2. \A k, l \in DOMAIN s : k <= l => NoLater(s[k], s[l])
  BY <1>1, SortedFacts
<1>3. PICK kept : Kept(kept, s) /\ Skyline(P) = kept[Len(P)]
  BY SkylineIsLoop
<1> HIDE DEF s
<1> DEFINE Good == {k \in Nat : k <= Len(P) => IsSkyline(kept[k], s, k)}
<1>4. 0 \in Good
  <2>1. kept[0] = <<>> /\ <<>> \in Seq(Points) /\ DOMAIN <<>> = {}
    BY <1>3 DEF Kept
  <2>2. IsSkyline(kept[0], s, 0)
    BY <2>1 DEF IsSkyline
  <2> QED
    BY <2>2
<1>5. ASSUME NEW k \in Nat, k \in Good
      PROVE  k + 1 \in Good
  <2> SUFFICES ASSUME k + 1 <= Len(P) PROVE IsSkyline(kept[k + 1], s, k + 1)
    OBVIOUS
  <2>1. k < Len(s) /\ IsSkyline(kept[k], s, k)
    BY <1>1, <1>5
  <2>2. kept[k + 1] = Keep(kept[k], s[k + 1])
    <3>1. k + 1 \in 1 .. Len(s) /\ (k + 1) - 1 = k
      BY <2>1, <1>1
    <3> QED
      BY <1>3, <3>1 DEF Kept
  <2>3. IsSkyline(Keep(kept[k], s[k + 1]), s, k + 1)
    BY <1>1, <1>2, <2>1, KeepStep
  <2> QED
    BY <2>2, <2>3
<1>6. Len(P) \in Good
  <2> HIDE DEF Good
  <2> QED
    BY <1>1, <1>4, <1>5, NatStep
<1>7. IsSkyline(Skyline(P), s, Len(P))
  BY <1>3, <1>6
<1>8. Skyline(P) \in Seq(Points)
  BY <1>7 DEF IsSkyline
<1>9. \A a \in DOMAIN Skyline(P) : \E i \in 1 .. Len(P) : Skyline(P)[a] = P[i]
  <2>1. \A a \in DOMAIN Skyline(P) : \E k \in 1 .. Len(P) : Skyline(P)[a] = s[k]
    BY <1>7 DEF IsSkyline
  <2>2. \A k \in 1 .. Len(P) : \E i \in 1 .. Len(P) : s[k] = P[i]
    BY <1>1
  <2> QED
    BY <2>1, <2>2
<1>10. ASSUME Len(P) >= 1
       PROVE  /\ Skyline(P) # <<>>
              /\ \A i \in 1 .. Len(P) : /\ Last(Skyline(P)).risk <= P[i].risk
                                        /\ Skyline(P)[1].cost <= P[i].cost
  <2>1. /\ Skyline(P) # <<>>
        /\ \A k \in 1 .. Len(P) : /\ Last(Skyline(P)).risk <= s[k].risk
                                  /\ Skyline(P)[1].cost <= s[k].cost
    BY <1>7, <1>10 DEF IsSkyline
  <2>2. ASSUME NEW i \in 1 .. Len(P)
        PROVE  /\ Last(Skyline(P)).risk <= P[i].risk
               /\ Skyline(P)[1].cost <= P[i].cost
    <3>1. PICK k \in 1 .. Len(P) : s[k] = P[i]
      BY <1>1
    <3> QED
      BY <2>1, <3>1
  <2> QED
    BY <2>1, <2>2
<1>11. \A a, b \in DOMAIN Skyline(P) :
         a < b => /\ Skyline(P)[a].cost < Skyline(P)[b].cost
                  /\ Skyline(P)[a].risk > Skyline(P)[b].risk
  BY <1>7 DEF IsSkyline
<1>12. ASSUME NEW i \in 1 .. Len(P)
       PROVE  \E a \in DOMAIN Skyline(P) : Dominates(Skyline(P)[a], P[i])
  <2>1. PICK k \in 1 .. Len(P) : s[k] = P[i]
    BY <1>1
  <2>2. \E a \in DOMAIN Skyline(P) : Dominates(Skyline(P)[a], s[k])
    BY <1>7 DEF IsSkyline
  <2> QED
    BY <2>1, <2>2
<1> QED
  BY <1>8, <1>9, <1>10, <1>11, <1>12 DEF IsSkyline

LEMMA RoundFacts ==
  ASSUME NEW d \in Nat \ {0}
  PROVE  /\ \A a \in Nat : Round(a, d) \in Nat
         /\ \A q \in Int : Round(q * d, d) = q
<1>1. ASSUME NEW a \in Nat PROVE Round(a, d) \in Nat
  <2>1. a \div d \in Int /\ a \div d >= 0
    BY DivBetween
  <2> QED
    BY <2>1 DEF Round
<1>2. ASSUME NEW q \in Int PROVE Round(q * d, d) = q
  <2>1. (q * d) \div d = q
    OBVIOUS
  <2>2. (q * d) % d = 0
    OBVIOUS
  <2>3. ~ (2 * 0 > d) /\ ~ (2 * 0 = d)
    OBVIOUS
  <2> QED
    BY <2>1, <2>2, <2>3 DEF Round
<1> QED
  BY <1>1, <1>2

\* The caps of a sweep end at its top and, from two points on, start at its
\* bottom.
LEMMA SweepFacts ==
  ASSUME NEW low \in Nat, NEW top \in Nat, low <= top, NEW count \in Int
  PROVE  /\ Sweep(low, top, count) \subseteq Nat
         /\ top \in Sweep(low, top, count)
         /\ count >= 2 => low \in Sweep(low, top, count)
<1> DEFINE m == Max({1, count})
           caps == {low + Round((top - low) * j, m - 1) : j \in 0 .. m - 1}
<1>1. m \in Int /\ m >= 1 /\ (count >= 2 => m >= 2)
  <2>1. 1 \in Int
    OBVIOUS
  <2>2. m \in {1, count} /\ m >= 1 /\ m >= count
    BY <2>1, MaxOfTwo
  <2> QED
    BY <2>2
<1>2. Sweep(low, top, count) = IF top <= low \/ m = 1 THEN {top} ELSE caps
  BY DEF Sweep
<1> HIDE DEF m
<1>3. CASE top <= low \/ m = 1
  BY <1>1, <1>2, <1>3
<1>4. CASE ~(top <= low \/ m = 1)
  <2> DEFINE d == m - 1
  <2>1. d \in Nat \ {0} /\ 0 \in 0 .. m - 1 /\ d \in 0 .. m - 1
    BY <1>1, <1>4
  <2>2. ASSUME NEW j \in 0 .. m - 1
        PROVE  low + Round((top - low) * j, d) \in Nat
    <3>1. top - low \in Nat /\ j \in Nat
      BY <1>1
    <3>2. (top - low) * j \in Nat
      BY <3>1
    <3> HIDE DEF d
    <3>3. Round((top - low) * j, d) \in Nat
      BY <2>1, <3>2, RoundFacts
    <3> QED
      BY <3>3
  <2>3. Round((top - low) * d, d) = top - low
    <3> HIDE DEF d
    <3> QED
      BY <2>1, RoundFacts
  <2>4. Round((top - low) * 0, d) = 0
    <3> HIDE DEF d
    <3>1. (top - low) * 0 = 0 * d
      BY <2>1
    <3>2. Round(0 * d, d) = 0
      BY <2>1, RoundFacts
    <3> QED
      BY <3>1, <3>2
  <2>5. low + Round((top - low) * d, d) = top /\ low + Round((top - low) * 0, d) = low
    BY <2>3, <2>4
  <2>6. top \in caps /\ low \in caps
    BY <2>1, <2>5
  <2> QED
    BY <1>2, <1>4, <2>2, <2>6
<1> QED
  BY <1>3, <1>4


-----------------------------------------------------------------------------
(* The frontier.                                                           *)

\* A point stands for a schedule on offer; if it is proven, then no schedule
\* that costs as little has less risk.
HonestPoints ==
  {p \in Points :
     /\ <<p.cost, p.risk>> \in offers
     /\ p.status = "OPTIMAL" =>
          \A o \in offers : o[1] <= p.cost => p.risk <= o[2]}

\* What a solve under a cap can say about the offers.
LEMMA AnswerFacts ==
  ASSUME offers \in OfferSets, NEW cap \in Int \cup {None}, NEW r \in Answers(cap)
  PROVE  /\ Answered(r) =>
              /\ r \in HonestPoints /\ (cap # None => r.cost <= cap)
              /\ r.status = "OPTIMAL" => \A o \in Within(cap) : r.risk <= o[2]
         /\ r.status = "INFEASIBLE" => Within(cap) = {}
         /\ r.status \in {"OPTIMAL", "FEASIBLE", "UNKNOWN", "INFEASIBLE"}
<1>1. offers \subseteq Nat \X Nat
  BY OfferAssumption
<1>2. ASSUME NEW o \in Within(cap), NEW st \in {"OPTIMAL", "FEASIBLE"},
             r = Point(o, st),
             st = "OPTIMAL" => \A z \in Within(cap) : o[2] <= z[2]
      PROVE  /\ r \in HonestPoints /\ (cap # None => r.cost <= cap)
             /\ r.status = "OPTIMAL" => \A z \in Within(cap) : r.risk <= z[2]
             /\ r.status \in {"OPTIMAL", "FEASIBLE"}
  <2>1. /\ o \in offers /\ o = <<o[1], o[2]>> /\ o[1] \in Nat /\ o[2] \in Nat
        /\ (cap # None => o[1] <= cap)
    BY <1>1 DEF Within
  <2>2. r.cost = o[1] /\ r.risk = o[2] /\ r.status = st /\ r \in Points
    BY <1>2, <2>1 DEF Point, Points
  <2>3. ASSUME st = "OPTIMAL", NEW z \in offers, z[1] <= o[1]
        PROVE  o[2] <= z[2]
    <3>1. z[1] \in Nat
      BY <1>1
    <3>2. z \in Within(cap)
      BY <2>1, <2>3, <3>1 DEF Within
    <3> QED
      BY <1>2, <2>3, <3>2
  <2> QED
    BY <1>2, <2>1, <2>2, <2>3 DEF HonestPoints
<1>3. CASE \E o \in Within(cap) :
             \/ r = Point(o, "FEASIBLE")
             \/ r = Point(o, "OPTIMAL") /\ \A z \in Within(cap) : o[2] <= z[2]
  <2>1. PICK o \in Within(cap) :
             \/ r = Point(o, "FEASIBLE")
             \/ r = Point(o, "OPTIMAL") /\ \A z \in Within(cap) : o[2] <= z[2]
    BY <1>3
  <2>2. \E st \in {"OPTIMAL", "FEASIBLE"} :
          /\ r = Point(o, st)
          /\ st = "OPTIMAL" => \A z \in Within(cap) : o[2] <= z[2]
    BY <2>1
  <2> QED
    BY <1>2, <2>2
<1>4. CASE r = NoAnswer("UNKNOWN") \/ (r = NoAnswer("INFEASIBLE") /\ Within(cap) = {})
  BY <1>4 DEF NoAnswer, Answered
<1> QED
  BY <1>3, <1>4 DEF Answers

\* The search: the bracket, and the anchor it starts from.
Bracket ==
  /\ lo \in Nat /\ hi \in Nat
  /\ phase = "anchor" => lo = 0
  /\ phase \in {"search", "sweep"} =>
       /\ lo <= hi /\ \E o \in offers : o[1] <= hi
       /\ anchor \in HonestPoints /\ hi <= anchor.cost
       /\ anchor.status = "OPTIMAL" => \A o \in offers : anchor.risk <= o[2]
       /\ anchor.status \in replies
  /\ Conclusive => \A o \in offers : o[1] >= lo

\* The sweep: the top of the range is still to come or collected, and so is
\* its bottom unless a solve ended without a proof.
Collected ==
  /\ raw \in Seq(HonestPoints)
  /\ phase = "sweep" =>
       /\ lo = hi /\ todo \subseteq Nat
       /\ anchor.cost \in todo \/ \E k \in DOMAIN raw : raw[k] = anchor
       /\ Proved /\ n >= 2 =>
            lo \in todo \/ \E k \in DOMAIN raw : raw[k].cost <= lo

PInv ==
  /\ offers \in OfferSets /\ n \in Int
  /\ Bracket
  /\ Collected
  /\ phase \in {"anchor", "search", "sweep", "done"}
  /\ frontier \in Seq(HonestPoints)
  /\ phase # "done" => frontier = <<>>
  /\ SpansTheTradeOff

LEMMA ParetoInitPInv == ParetoInit => PInv
<1> SUFFICES ASSUME ParetoInit PROVE PInv
  OBVIOUS
<1>1. offers \in OfferSets /\ n \in Int /\ offers \subseteq Nat \X Nat
  BY OfferAssumption, PointAssumption DEF ParetoInit
<1>2. /\ phase = "anchor" /\ lo = 0 /\ hi = 0 /\ raw = <<>> /\ frontier = <<>>
  BY DEF ParetoInit
<1>3. Bracket
  BY <1>1, <1>2 DEF Bracket
<1>4. Collected
  BY <1>2 DEF Collected
<1> QED
  BY <1>1, <1>2, <1>3, <1>4 DEF PInv, SpansTheTradeOff

LEMMA AnchorPInv == PInv /\ (AnchorFails \/ AnchorSolved) => PInv'
<1> SUFFICES ASSUME PInv, AnchorFails \/ AnchorSolved PROVE PInv'
  OBVIOUS
<1>1. PICK r \in Answers(None) :
        /\ replies' = replies \cup {r.status}
        /\ \/ AnchorFails /\ ~Answered(r)
           \/ AnchorSolved /\ Answered(r) /\ anchor' = r /\ hi' = r.cost
  BY DEF AnchorFails, AnchorSolved
<1>2. /\ offers' = offers /\ n' = n /\ lo' = lo /\ todo' = todo /\ raw' = raw
      /\ frontier' = frontier /\ phase = "anchor" /\ lo = 0 /\ frontier = <<>>
      /\ offers \in OfferSets /\ offers \subseteq Nat \X Nat
  BY OfferAssumption DEF AnchorFails, AnchorSolved, PInv, Bracket
<1>3. HonestPoints' = HonestPoints
  BY <1>2 DEF HonestPoints
<1>4. /\ Within(None) = offers
      /\ Answered(r) => /\ r \in HonestPoints
                        /\ r.status = "OPTIMAL" => \A o \in offers : r.risk <= o[2]
      /\ r.status = "INFEASIBLE" => offers = {}
      /\ r.status \in {"OPTIMAL", "FEASIBLE", "UNKNOWN", "INFEASIBLE"}
  <2>1. Within(None) = offers
    BY DEF Within
  <2> QED
    BY <1>2, <2>1, AnswerFacts
<1>5. CASE AnchorFails
  <2>1. /\ phase' = "done" /\ hi' = hi /\ anchor' = anchor /\ ~Answered(r)
    BY <1>1, <1>5, <1>2 DEF AnchorFails, AnchorSolved
  <2>2. Bracket'
    BY <1>2, <2>1 DEF PInv, Bracket
  <2>3. Collected'
    BY <1>2, <1>3, <2>1 DEF PInv, Collected
  <2>4. SpansTheTradeOff'
    BY <1>1, <1>2, <1>4, <2>1 DEF SpansTheTradeOff, Proved, Answered
  <2> QED
    BY <1>2, <1>3, <2>1, <2>2, <2>3, <2>4 DEF PInv
<1>6. CASE AnchorSolved
  <2>1. /\ phase' = "search" /\ anchor' = r /\ hi' = r.cost /\ Answered(r)
    BY <1>1, <1>6, <1>2 DEF AnchorFails, AnchorSolved
  <2>2. r \in HonestPoints /\ r.cost \in Nat
    BY <1>4, <2>1 DEF HonestPoints, Points
  <2>3. \E o \in offers : o[1] <= r.cost
    <3>1. <<r.cost, r.risk>> \in offers /\ <<r.cost, r.risk>>[1] <= r.cost
      BY <2>2 DEF HonestPoints
    <3> QED
      BY <3>1
  <2>4. Bracket'
    BY <1>1, <1>2, <1>3, <1>4, <2>1, <2>2, <2>3 DEF Bracket
  <2>5. Collected'
    BY <1>2, <1>3, <2>1 DEF PInv, Collected
  <2> QED
    BY <1>2, <1>3, <2>1, <2>4, <2>5 DEF PInv, SpansTheTradeOff
<1> QED
  BY <1>5, <1>6

LEMMA SearchPInv == PInv /\ Search => PInv'
<1> SUFFICES ASSUME PInv, Search PROVE PInv'
  OBVIOUS
<1>1. PICK r \in Answers(Mid) :
        /\ IF Answered(r) THEN hi' = Mid /\ lo' = lo
                          ELSE lo' = Mid + 1 /\ hi' = hi
        /\ replies' = replies \cup {r.status}
  BY DEF Search
<1>2. /\ lo \in Nat /\ hi \in Nat /\ lo < hi /\ phase = "search"
      /\ offers \in OfferSets /\ offers \subseteq Nat \X Nat
      /\ \E o \in offers : o[1] <= hi
      /\ anchor \in HonestPoints /\ anchor.cost \in Nat /\ hi <= anchor.cost
      /\ frontier = <<>>
  BY OfferAssumption DEF PInv, Bracket, Search, HonestPoints, Points
<1>3. /\ offers' = offers /\ n' = n /\ phase' = phase /\ anchor' = anchor
      /\ todo' = todo /\ raw' = raw /\ frontier' = frontier
      /\ HonestPoints' = HonestPoints
  BY DEF Search, HonestPoints
<1>4. Mid \in Nat /\ lo <= Mid /\ Mid < hi /\ Mid # None
  BY <1>2, NoneAssumption DEF Mid
<1> HIDE DEF Mid
<1>5. /\ Answered(r) => r \in HonestPoints /\ r.cost <= Mid
      /\ r.status = "INFEASIBLE" => Within(Mid) = {}
      /\ r.status \in {"OPTIMAL", "FEASIBLE", "UNKNOWN", "INFEASIBLE"}
  BY <1>2, <1>4, AnswerFacts
<1>6. Conclusive' => Conclusive
  BY <1>1 DEF Conclusive
<1>7. Bracket'
  <2>1. CASE Answered(r)
    <3>1. hi' = Mid /\ lo' = lo
      BY <1>1, <2>1
    <3>2. \E o \in offers : o[1] <= Mid
      <4>1. <<r.cost, r.risk>> \in offers /\ <<r.cost, r.risk>>[1] <= Mid
        BY <1>5, <2>1 DEF HonestPoints
      <4> QED
        BY <4>1
    <3>3. Mid <= anchor.cost
      BY <1>2, <1>4
    <3> QED
      BY <1>1, <1>2, <1>3, <1>4, <1>6, <3>1, <3>2, <3>3 DEF PInv, Bracket
  <2>2. CASE ~Answered(r)
    <3>1. lo' = Mid + 1 /\ hi' = hi
      BY <1>1, <2>2
    <3>2. ASSUME Conclusive', NEW o \in offers
          PROVE  o[1] >= Mid + 1
      <4>1. r.status = "INFEASIBLE"
        BY <1>1, <2>2, <3>2 DEF Conclusive, Answered
      <4>2. Within(Mid) = {}
        BY <1>5, <4>1
      <4>3. ~(o[1] <= Mid) /\ o[1] \in Nat
        BY <4>2, <1>2, <1>4 DEF Within
      <4> QED
        BY <4>3, <1>4
    <3>3. lo' \in Nat /\ lo' <= hi'
      BY <1>2, <1>4, <3>1
    <3> QED
      BY <1>1, <1>2, <1>3, <3>1, <3>2, <3>3 DEF PInv, Bracket
  <2> QED
    BY <2>1, <2>2
<1>8. Collected'
  BY <1>2, <1>3 DEF PInv, Collected
<1> QED
  BY <1>2, <1>3, <1>7, <1>8 DEF PInv, SpansTheTradeOff

LEMMA StartSweepPInv == PInv /\ StartSweep => PInv'
<1> SUFFICES ASSUME PInv, StartSweep PROVE PInv'
  OBVIOUS
<1>1. /\ offers' = offers /\ n' = n /\ anchor' = anchor /\ raw' = raw
      /\ lo' = lo /\ hi' = hi /\ frontier' = frontier /\ replies' = replies
      /\ phase = "search" /\ phase' = "sweep" /\ lo >= hi
      /\ todo' = Sweep(lo, anchor.cost, n)
  BY DEF StartSweep
<1>2. /\ HonestPoints' = HonestPoints /\ n \in Int /\ frontier = <<>>
      /\ lo \in Nat /\ hi \in Nat /\ lo <= hi
      /\ anchor.cost \in Nat /\ hi <= anchor.cost
  BY <1>1 DEF PInv, Bracket, HonestPoints, Points
<1>3. lo = hi /\ lo <= anchor.cost
  BY <1>1, <1>2
<1>4. /\ todo' \subseteq Nat /\ anchor.cost \in todo' /\ (n >= 2 => lo \in todo')
  BY <1>1, <1>2, <1>3, SweepFacts
<1>5. Bracket'
  BY <1>1, <1>2 DEF PInv, Bracket, Conclusive
<1>6. Collected'
  BY <1>1, <1>2, <1>3, <1>4 DEF PInv, Collected
<1> QED
  BY <1>1, <1>2, <1>5, <1>6 DEF PInv, SpansTheTradeOff

LEMMA SweepStepPInv == PInv /\ SweepStep => PInv'
<1> SUFFICES ASSUME PInv, SweepStep PROVE PInv'
  OBVIOUS
<1> DEFINE cap == Min(todo)
<1>1. PICK r \in IF cap >= anchor.cost THEN {anchor} ELSE Answers(cap) :
        /\ raw' = IF Answered(r) THEN Append(raw, r) ELSE raw
        /\ todo' = todo \ {cap}
        /\ replies' = replies \cup {r.status}
  BY DEF SweepStep
<1>2. /\ offers' = offers /\ n' = n /\ phase' = phase /\ anchor' = anchor
      /\ lo' = lo /\ hi' = hi /\ frontier' = frontier /\ phase = "sweep"
      /\ HonestPoints' = HonestPoints /\ todo # {}
  BY DEF SweepStep, HonestPoints
<1>3. /\ offers \in OfferSets /\ lo \in Nat /\ lo = hi /\ todo \subseteq Nat
      /\ \E o \in offers : o[1] <= hi
      /\ anchor \in HonestPoints /\ anchor.cost \in Nat /\ hi <= anchor.cost
      /\ anchor.status \in replies /\ raw \in Seq(HonestPoints)
      /\ frontier = <<>>
  BY <1>2 DEF PInv, Bracket, Collected, HonestPoints, Points
<1>4. cap \in todo /\ cap \in Nat /\ cap # None
  <2>1. todo \in SUBSET Nat /\ todo # {}
    BY <1>2, <1>3
  <2>2. cap \in todo
    BY <2>1, LeastNat
  <2> HIDE DEF cap
  <2> QED
    BY <2>1, <2>2, NoneAssumption
<1> HIDE DEF cap
<1>5. Answered(anchor)
  BY <1>3 DEF HonestPoints, Points, Answered
<1>6. CASE cap >= anchor.cost
  <2>1. r = anchor /\ raw' = Append(raw, anchor)
    BY <1>1, <1>5, <1>6
  <2>2. /\ raw' \in Seq(HonestPoints) /\ \E k \in DOMAIN raw' : raw'[k] = anchor
        /\ \A k \in DOMAIN raw : k \in DOMAIN raw' /\ raw'[k] = raw[k]
    <3> HIDE DEF HonestPoints
    <3>1. raw' \in Seq(HonestPoints) /\ Len(raw') = Len(raw) + 1 /\ Len(raw) \in Nat
          /\ raw'[Len(raw) + 1] = anchor
          /\ \A k \in 1 .. Len(raw) : raw'[k] = raw[k]
      BY <1>3, <2>1
    <3> QED
      BY <1>3, <3>1
  <2>3. replies' = replies
    BY <1>1, <1>3, <2>1
  <2>4. Bracket'
    BY <1>2, <2>3 DEF PInv, Bracket, Conclusive
  <2>5. ASSUME Proved', n >= 2
        PROVE  lo \in todo' \/ \E k \in DOMAIN raw' : raw'[k].cost <= lo
    <3>1. CASE cap = lo
      <4>1. anchor.cost <= lo
        BY <1>3, <1>6, <3>1
      <4> QED
        BY <2>2, <4>1
    <3>2. CASE cap # lo
      <4>1. lo \in todo \/ \E k \in DOMAIN raw : raw[k].cost <= lo
        BY <1>2, <2>3, <2>5 DEF PInv, Collected, Proved
      <4>2. CASE lo \in todo
        BY <1>1, <3>2, <4>2
      <4>3. CASE \E k \in DOMAIN raw : raw[k].cost <= lo
        BY <2>2, <4>3
      <4> QED
        BY <4>1, <4>2, <4>3
    <3> QED
      BY <3>1, <3>2
  <2>6. Collected'
    BY <1>1, <1>2, <1>3, <2>2, <2>5 DEF Collected
  <2> QED
    BY <1>2, <1>3, <2>4, <2>6 DEF PInv, SpansTheTradeOff
<1>7. CASE cap < anchor.cost
  <2>1. r \in Answers(cap)
    BY <1>1, <1>3, <1>4, <1>7
  <2>2. /\ Answered(r) => r \in HonestPoints /\ r.cost <= cap
        /\ r.status = "INFEASIBLE" => Within(cap) = {}
    BY <1>3, <1>4, <2>1, AnswerFacts
  <2>3. /\ raw' \in Seq(HonestPoints)
        /\ \A k \in DOMAIN raw : k \in DOMAIN raw' /\ raw'[k] = raw[k]
        /\ Answered(r) => \E k \in DOMAIN raw' : raw'[k] = r
    <3>1. CASE Answered(r)
      <4> HIDE DEF HonestPoints
      <4>1. raw' = Append(raw, r) /\ r \in HonestPoints
        BY <1>1, <2>2, <3>1
      <4>2. raw' \in Seq(HonestPoints) /\ Len(raw') = Len(raw) + 1
            /\ Len(raw) \in Nat /\ raw'[Len(raw) + 1] = r
            /\ \A k \in 1 .. Len(raw) : raw'[k] = raw[k]
        BY <1>3, <4>1
      <4> QED
        BY <1>3, <4>2
    <3>2. CASE ~Answered(r)
      BY <1>1, <1>3, <3>2
    <3> QED
      BY <3>1, <3>2
  <2>4. (Conclusive' => Conclusive) /\ (Proved' => Proved)
    BY <1>1 DEF Conclusive, Proved
  <2>5. Bracket'
    BY <1>1, <1>2, <2>4 DEF PInv, Bracket
  <2>6. anchor.cost \in todo' \/ \E k \in DOMAIN raw' : raw'[k] = anchor
    <3>1. CASE anchor.cost \in todo
      BY <1>1, <1>3, <1>4, <1>7, <3>1
    <3>2. CASE \E k \in DOMAIN raw : raw[k] = anchor
      BY <2>3, <3>2
    <3> QED
      BY <1>2, <3>1, <3>2 DEF PInv, Collected
  <2>7. ASSUME Proved', n >= 2
        PROVE  lo \in todo' \/ \E k \in DOMAIN raw' : raw'[k].cost <= lo
    <3>1. CASE cap = lo
      <4>1. Within(cap) # {}
        BY <1>3, <3>1 DEF Within
      <4>2. r.status \in {"OPTIMAL", "INFEASIBLE"}
        BY <1>1, <2>7 DEF Proved
      <4>3. Answered(r)
        BY <2>2, <4>1, <4>2 DEF Answered
      <4> QED
        BY <2>2, <2>3, <3>1, <4>3
    <3>2. CASE cap # lo
      <4>1. lo \in todo \/ \E k \in DOMAIN raw : raw[k].cost <= lo
        BY <1>2, <2>4, <2>7 DEF PInv, Collected
      <4>2. CASE lo \in todo
        BY <1>1, <3>2, <4>2
      <4>3. CASE \E k \in DOMAIN raw : raw[k].cost <= lo
        BY <2>3, <4>3
      <4> QED
        BY <4>1, <4>2, <4>3
    <3> QED
      BY <3>1, <3>2
  <2>8. Collected'
    BY <1>1, <1>2, <1>3, <2>3, <2>6, <2>7 DEF Collected
  <2> QED
    BY <1>2, <1>3, <2>5, <2>8 DEF PInv, SpansTheTradeOff
<1> QED
  BY <1>3, <1>4, <1>6, <1>7

LEMMA ReturnPInv == PInv /\ Return => PInv'
<1> SUFFICES ASSUME PInv, Return PROVE PInv'
  OBVIOUS
<1>1. /\ offers' = offers /\ n' = n /\ anchor' = anchor /\ raw' = raw
      /\ lo' = lo /\ hi' = hi /\ replies' = replies /\ todo' = todo
      /\ phase = "sweep" /\ phase' = "done" /\ todo = {}
      /\ frontier' = Skyline(raw)
  BY DEF Return
<1>2. HonestPoints' = HonestPoints /\ HonestPoints \subseteq Points
  BY <1>1 DEF HonestPoints
<1>3. /\ raw \in Seq(HonestPoints) /\ raw \in Seq(Points)
      /\ \E k \in DOMAIN raw : raw[k] = anchor
      /\ Proved /\ n >= 2 => \E k \in DOMAIN raw : raw[k].cost <= lo
  <2>1. /\ raw \in Seq(HonestPoints)
        /\ \E k \in DOMAIN raw : raw[k] = anchor
        /\ Proved /\ n >= 2 => \E k \in DOMAIN raw : raw[k].cost <= lo
    BY <1>1 DEF PInv, Collected
  <2>2. raw \in Seq(Points)
    <3> HIDE DEF HonestPoints, Points
    <3> QED
      BY <1>2, <2>1
  <2> QED
    BY <2>1, <2>2
<1> DEFINE f == Skyline(raw)
<1>4. Len(raw) \in Nat /\ Len(raw) >= 1 /\ DOMAIN raw = 1 .. Len(raw)
  BY <1>3
<1>5. /\ f \in Seq(Points) /\ f # <<>>
      /\ \A a \in DOMAIN f : \E i \in 1 .. Len(raw) : f[a] = raw[i]
      /\ \A i \in 1 .. Len(raw) : /\ Last(f).risk <= raw[i].risk
                                  /\ f[1].cost <= raw[i].cost
  <2>1. IsSkyline(f, raw, Len(raw))
    BY <1>3, SkylineIsStrict
  <2> HIDE DEF f
  <2> QED
    BY <1>4, <2>1 DEF IsSkyline
<1> HIDE DEF f
<1>6. f \in Seq(HonestPoints)
  <2>1. \A a \in 1 .. Len(f) : f[a] \in HonestPoints
    <3> HIDE DEF HonestPoints
    <3> QED
      BY <1>3, <1>5
  <2>2. f = [a \in 1 .. Len(f) |-> f[a]] /\ Len(f) \in Nat
    BY <1>5
  <2> HIDE DEF HonestPoints
  <2> QED
    BY <2>1, <2>2
<1>7. Bracket'
  BY <1>1 DEF PInv, Bracket, Conclusive
<1>8. Collected'
  BY <1>1, <1>2 DEF PInv, Collected
<1>9. SpansTheTradeOff'
  <2> SUFFICES ASSUME Proved
               PROVE  /\ f # <<>>
                      /\ \A o \in offers : Last(f).risk <= o[2]
                      /\ n >= 2 => \A o \in offers : f[1].cost <= o[1]
    BY <1>1 DEF SpansTheTradeOff, Proved, f
  <2>1. /\ offers \subseteq Nat \X Nat /\ lo \in Nat
        /\ \A o \in offers : o[1] >= lo
        /\ anchor.risk \in Nat /\ \A o \in offers : anchor.risk <= o[2]
    BY <1>1, OfferAssumption
    DEF PInv, Bracket, Proved, Conclusive, HonestPoints, Points
  <2>2. /\ Len(f) \in Nat /\ Len(f) >= 1
        /\ \A a \in DOMAIN f : f[a].cost \in Nat /\ f[a].risk \in Nat
        /\ Last(f) = f[Len(f)]
        /\ 1 \in DOMAIN f /\ Len(f) \in DOMAIN f
    <3>1. \A a \in DOMAIN f : f[a] \in Points
      BY <1>5
    <3>2. \A a \in DOMAIN f : f[a].cost \in Nat /\ f[a].risk \in Nat
      BY <3>1 DEF Points
    <3> HIDE DEF Points
    <3> QED
      BY <1>5, <3>2 DEF Last
  <2>3. ASSUME NEW o \in offers PROVE Last(f).risk <= o[2]
    <3>1. Last(f).risk <= anchor.risk
      BY <1>3, <1>4, <1>5
    <3>2. o[2] \in Nat /\ anchor.risk <= o[2] /\ Last(f).risk \in Nat
      BY <2>1, <2>2
    <3> QED
      BY <2>1, <3>1, <3>2
  <2>4. ASSUME n >= 2, NEW o \in offers PROVE f[1].cost <= o[1]
    <3>1. PICK k \in 1 .. Len(raw) : raw[k].cost <= lo
      BY <1>3, <1>4, <2>4
    <3>2. f[1].cost <= raw[k].cost /\ raw[k].cost \in Nat
      <4>1. raw[k] \in Points
        BY <1>3, <1>4
      <4> QED
        BY <1>5, <4>1 DEF Points
    <3>3. f[1].cost \in Nat /\ o[1] \in Nat /\ o[1] >= lo
      BY <2>1, <2>2
    <3> QED
      BY <2>1, <3>1, <3>2, <3>3
  <2> QED
    BY <1>5, <2>3, <2>4
<1> QED
  BY <1>1, <1>2, <1>6, <1>7, <1>8, <1>9 DEF PInv, f

LEMMA ParetoInvariant == ParetoSpec => []PInv
<1>1. PInv /\ [ParetoNext]_paretoVars => PInv'
  <2> SUFFICES ASSUME PInv, [ParetoNext]_paretoVars PROVE PInv'
    OBVIOUS
  <2>1. CASE Finished \/ UNCHANGED paretoVars
    BY <2>1 DEF Finished, paretoVars, PInv, Bracket, Collected, Conclusive, Proved,
                SpansTheTradeOff, HonestPoints
  <2> QED
    BY <2>1, AnchorPInv, SearchPInv, StartSweepPInv, SweepStepPInv, ReturnPInv
    DEF ParetoNext
<1> QED
  BY <1>1, ParetoInitPInv, PTL DEF ParetoSpec

(***************************************************************************)
(* The floor of the frontier is achievable under every sequence of solver  *)
(* answers, and exact when no answer was inconclusive.                     *)
(***************************************************************************)
THEOREM FloorIsBracketed == ParetoSpec => []FloorBracketed
<1>1. PInv => FloorBracketed
  BY DEF PInv, Bracket, FloorBracketed
<1> QED
  BY <1>1, ParetoInvariant, PTL

(***************************************************************************)
(* With proofs only, the frontier reaches from the least cost to the least *)
(* risk: the caps keep both ends of the range, and the skyline keeps the   *)
(* ends of what was collected.                                             *)
(***************************************************************************)
THEOREM FrontierSpansTheTradeOff == ParetoSpec => []SpansTheTradeOff
<1>1. PInv => SpansTheTradeOff
  BY DEF PInv
<1> QED
  BY <1>1, ParetoInvariant, PTL

(***************************************************************************)
(* A point of the frontier that is called OPTIMAL is not beaten by any     *)
(* schedule that costs no more, whatever cap it was found under.           *)
(***************************************************************************)
THEOREM OptimalPointsAreUnbeaten == ParetoSpec => []NoLessRiskForItsCost
<1>1. PInv => NoLessRiskForItsCost
  <2> SUFFICES ASSUME PInv, NEW p \in Range(frontier), p.status = "OPTIMAL",
                      NEW o \in offers, o[1] <= p.cost
               PROVE  o[2] >= p.risk
    BY DEF NoLessRiskForItsCost
  <2>1. p \in HonestPoints
    BY DEF PInv, Range
  <2>2. p.risk \in Nat /\ o[2] \in Nat
    BY <2>1, OfferAssumption DEF HonestPoints, Points, PInv
  <2> QED
    BY <2>1, <2>2 DEF HonestPoints
<1> QED
  BY <1>1, ParetoInvariant, PTL

=============================================================================
