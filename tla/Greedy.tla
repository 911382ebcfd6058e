------------------------------- MODULE Greedy -------------------------------
(***************************************************************************)
(* greedy.py: the risk-ranking baselines the optimiser is measured         *)
(* against.  greedy_schedule and greedy_current_risk share one loop and    *)
(* differ only in the key that ranks groups, so one machine models both:   *)
(* first the union-find over the co-migration pairs, then the sweep over   *)
(* the periods.                                                            *)
(***************************************************************************)
EXTENDS Instances

CONSTANTS
  InstanceSet,    \* the instances the callers may pass
  Baselines,      \* subset of AllBaselines
  RandomScores    \* the draws of the random baseline, as naturals

AllBaselines ==
  {"highest_risk", "risk_per_cost", "edf", "spt", "random", "current_risk"}

ASSUME InstanceAssumption == \A I \in InstanceSet : IsInstance(I)
ASSUME BaselineAssumption == Baselines \subseteq AllBaselines
ASSUME ScoreAssumption == RandomScores \subseteq Nat

VARIABLES
  inst,       \* the instance, never written
  baseline,   \* the ranking in use, never written
  score,      \* scores: the memoised random key of each group id
  pc,         \* "union", "sweep" or "done"
  k,          \* clusters merged so far
  root,       \* find(x) for every asset; the root is the group id
  t, b,       \* current period, capacity left in it
  pending,    \* group ids not yet migrated
  done,       \* done_group: group id -> period
  schedule

vars == <<inst, baseline, score, pc, k, root, t, b, pending, done, schedule>>

-----------------------------------------------------------------------------
(* Groups *)

Members(g) == {a \in inst.assets : root[a] = g}

Groups == {root[a] : a \in inst.assets}

GroupCost(g) == CostOf(inst.cost, Members(g))

GroupRisk(g) ==
  MapThenSumSet(LAMBDA a : AssetTotalRisk(inst, a), Members(g))

CurrentRisk(g, p) ==
  MapThenSumSet(LAMBDA a : IntWeight(inst, a, p), Members(g))

\* the tightest mandated deadline of the members; _BIG when there is none
GroupDeadline(g) ==
  LET ds == {inst.deadline[a] : a \in Members(g) \cap Mandated(inst)}
  IN  IF ds = {} THEN 2^30 ELSE Min(ds)

\* groups that must be migrated first; edges inside the group do not count
PredGroups(g) ==
  {root[e[1]] : e \in {d \in inst.deps : root[d[2]] = g}} \ {g}

-----------------------------------------------------------------------------
(* Ranking: a key is a fraction n/d and a second criterion. *)

Key(g) ==
  CASE baseline = "highest_risk"  -> [n |-> GroupRisk(g), d |-> 1, s |-> 0]
    [] baseline = "risk_per_cost" -> [n |-> GroupRisk(g),
                                      d |-> Max({GroupCost(g), 1}), s |-> 0]
    [] baseline = "edf"           -> [n |-> -GroupDeadline(g), d |-> 1, s |-> 0]
    [] baseline = "spt"           -> [n |-> -GroupCost(g), d |-> 1, s |-> 0]
    [] baseline = "random"        -> [n |-> score[g], d |-> 1, s |-> 0]
    [] baseline = "current_risk"  -> [n |-> CurrentRisk(g, t), d |-> 1,
                                      s |-> GroupRisk(g)]

\* max(elig, key=...): fraction, second criterion, then the group id
Outranks(g, h) ==
  LET x == Key(g)
      y == Key(h)
  IN  \/ x.n * y.d > y.n * x.d
      \/ x.n * y.d = y.n * x.d /\ x.s > y.s
      \/ x.n * y.d = y.n * x.d /\ x.s = y.s /\ g >= h

\* mutant: a predecessor must be done in an earlier period
DepsReady_Strict(g) == \A p \in PredGroups(g) : p \in DOMAIN done /\ done[p] < t

DepsReady(g) == \A p \in PredGroups(g) : p \in DOMAIN done /\ done[p] <= t

\* mutant: the capacity left is not compared with the group's cost
Eligible_NoCapacity ==
  {g \in pending : /\ \A a \in Members(g) : inst.earliest[a] <= t
                   /\ DepsReady(g)}

Eligible ==
  {g \in pending : /\ \A a \in Members(g) : inst.earliest[a] <= t
                   /\ GroupCost(g) <= b
                   /\ DepsReady(g)}

-----------------------------------------------------------------------------
Init ==
  /\ inst \in InstanceSet
  /\ baseline \in Baselines
  /\ score \in [inst.assets -> IF baseline = "random" THEN RandomScores ELSE {0}]
  /\ pc = "union"
  /\ k = 0
  /\ root = [a \in inst.assets |-> a]
  /\ t = 0
  /\ b = 0
  /\ pending = {}
  /\ done = [g \in {} |-> 0]
  /\ schedule = [a \in {} |-> 0]

\* union(i, j): the root of i's tree is hung under the root of j's
Union ==
  /\ pc = "union"
  /\ k < Len(inst.clusters)
  /\ LET c == inst.clusters[k + 1]
     IN  root' = [a \in inst.assets |->
                    IF root[a] = root[c[1]] THEN root[c[2]] ELSE root[a]]
  /\ k' = k + 1
  /\ UNCHANGED <<inst, baseline, score, pc, t, b, pending, done, schedule>>

StartSweep ==
  /\ pc = "union"
  /\ k = Len(inst.clusters)
  /\ pc' = "sweep"
  /\ pending' = Groups
  /\ b' = inst.budget[0]
  /\ UNCHANGED <<inst, baseline, score, k, root, t, done, schedule>>

\* mutant: only the asset that names the group is scheduled
Migrate_OnlyRoot(g) ==
  /\ pc = "sweep"
  /\ g \in Eligible
  /\ \A h \in Eligible : Outranks(g, h)
  /\ done' = [h \in DOMAIN done \cup {g} |-> IF h = g THEN t ELSE done[h]]
  /\ schedule' = [a \in DOMAIN schedule \cup {g} |->
                    IF a = g THEN t ELSE schedule[a]]
  /\ b' = b - GroupCost(g)
  /\ pending' = pending \ {g}
  /\ UNCHANGED <<inst, baseline, score, pc, k, root, t>>

Migrate(g) ==
  /\ pc = "sweep"
  /\ g \in Eligible
  /\ \A h \in Eligible : Outranks(g, h)
  /\ done' = [h \in DOMAIN done \cup {g} |-> IF h = g THEN t ELSE done[h]]
  /\ schedule' = [a \in DOMAIN schedule \cup Members(g) |->
                    IF a \in Members(g) THEN t ELSE schedule[a]]
  /\ b' = b - GroupCost(g)
  /\ pending' = pending \ {g}
  /\ UNCHANGED <<inst, baseline, score, pc, k, root, t>>

\* mutant: the sweep moves on while groups still fit
NextPeriod_Eager ==
  /\ pc = "sweep"
  /\ t + 1 < inst.T
  /\ t' = t + 1
  /\ b' = inst.budget[t + 1]
  /\ UNCHANGED <<inst, baseline, score, pc, k, root, pending, done, schedule>>

NextPeriod ==
  /\ pc = "sweep"
  /\ Eligible = {}
  /\ t + 1 < inst.T
  /\ t' = t + 1
  /\ b' = inst.budget[t + 1]
  /\ UNCHANGED <<inst, baseline, score, pc, k, root, pending, done, schedule>>

Return ==
  /\ pc = "sweep"
  /\ Eligible = {}
  /\ t + 1 = inst.T
  /\ pc' = "done"
  /\ UNCHANGED <<inst, baseline, score, k, root, t, b, pending, done, schedule>>

Terminated == pc = "done" /\ UNCHANGED vars

Next ==
  \/ Union
  \/ StartSweep
  \/ \E g \in pending : Migrate(g)
  \/ NextPeriod
  \/ Return
  \/ Terminated

Spec == Init /\ [][Next]_vars

-----------------------------------------------------------------------------
(* Properties *)

TypeOK ==
  /\ inst \in InstanceSet
  /\ baseline \in Baselines
  /\ pc \in {"union", "sweep", "done"}
  /\ k \in 0 .. Len(inst.clusters)
  /\ root \in [inst.assets -> inst.assets]
  /\ t \in Periods(inst)
  /\ pending \subseteq inst.assets
  /\ DOMAIN done \subseteq inst.assets \ pending
  /\ \A g \in DOMAIN done : done[g] \in 0 .. t
  /\ DOMAIN schedule \subseteq inst.assets
  /\ \A a \in DOMAIN schedule : schedule[a] \in 0 .. t

(***************************************************************************)
(* The module docstring's promise, first half: a greedy may miss a         *)
(* mandated deadline, but at no step has it migrated an asset early,       *)
(* overtaken a predecessor or split a cluster.                             *)
(***************************************************************************)
StructureKept ==
  /\ EarliestViolations(inst, schedule) = {}
  /\ PrecedenceViolations(inst, schedule) = {}
  /\ ClusterViolations(inst, schedule) = {}

(***************************************************************************)
(* Second half: the running capacity b, kept per group and per period,     *)
(* agrees with the scorer's ledger, which adds up single assets over the   *)
(* whole schedule, and no period is ever overspent.                        *)
(***************************************************************************)
CapacityKept ==
  /\ pc = "sweep" => b = inst.budget[t] - Spend(inst, schedule, t)
  /\ BudgetViolations(inst, schedule) = {}

(***************************************************************************)
(* Work conservation across the whole sweep: in the schedule returned no   *)
(* group could have been migrated, alone, in a period earlier than its own *)
(* (or at all, if it never was): some member was not yet available, a      *)
(* predecessor was missing, or the capacity left over was too small.       *)
(***************************************************************************)
CouldMigrateAt(g, p) ==
  /\ \A a \in Members(g) : inst.earliest[a] <= p
  /\ \A q \in PredGroups(g) : q \in DOMAIN done /\ done[q] <= p
  /\ Spend(inst, schedule, p) + GroupCost(g) <= inst.budget[p]

NoLeftShift ==
  pc = "done" =>
    \A g \in Groups, p \in Periods(inst) :
      (g \in DOMAIN done => p < done[g]) => ~CouldMigrateAt(g, p)

AmpleBudget ==
  \A p \in Periods(inst) : CostOf(inst.cost, inst.assets) <= inst.budget[p]

AcyclicGroups ==
  ~ \E S \in SUBSET Groups \ {{}} : \A g \in S : PredGroups(g) \cap S # {}

(***************************************************************************)
(* When capacity is no constraint and the groups form a DAG, every ranking *)
(* returns the pointwise earliest schedule: its risk is the least of all   *)
(* schedules that keep the structural constraints, and it meets every      *)
(* deadline if any schedule can.  This is why the optimality gap of the    *)
(* experiments measures contention for capacity and nothing else.          *)
(***************************************************************************)
AmpleBudgetIsOptimal ==
  pc = "done" /\ AmpleBudget /\ AcyclicGroups =>
    /\ \A s \in Schedules(inst) :
         (/\ EarliestViolations(inst, s) = {}
          /\ PrecedenceViolations(inst, s) = {}
          /\ ClusterViolations(inst, s) = {})
            => Risk(inst, schedule) <= Risk(inst, s)
    /\ FeasibleSchedules(inst) # {} => Feasible(inst, schedule)

(***************************************************************************)
(* greedy.py:170-173 says that dependency chains can complete within one   *)
(* period when the budget allows, "matching the MILP's capability": with   *)
(* ample budget, whatever some feasible schedule migrates completely the   *)
(* greedy migrates completely too.  A dependency path through a clustered  *)
(* pair makes two groups wait for each other, and refutes it.              *)
(***************************************************************************)
MatchesMilpCapability ==
  pc = "done" /\ AmpleBudget
    /\ (\E s \in FeasibleSchedules(inst) : DOMAIN s = inst.assets)
    => DOMAIN schedule = inst.assets

(***************************************************************************)
(* The sweep only ever appends admissible batches to the current period    *)
(* and never revises one: it implements Commitments with now as t.         *)
(***************************************************************************)
C == INSTANCE Commitments WITH now <- t

RefinesCommitments == C!Spec

=============================================================================
