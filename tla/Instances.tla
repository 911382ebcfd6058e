----------------------------- MODULE Instances -----------------------------
(***************************************************************************)
(* The migration-scheduling problem and its canonical scorer: model.py,    *)
(* risk.py and score.py.                                                   *)
(*                                                                         *)
(* An instance is a record; the risk model every entry point passes along  *)
(* with it is its field rm.  Asset ids are naturals: their order stands    *)
(* for the lexicographic order of the id strings, which only breaks ties.  *)
(* A schedule is a function whose domain is the set of migrated assets, as *)
(* the Python dict: an absent asset is never migrated.                     *)
(***************************************************************************)
EXTENDS Integers, FiniteSets, Sequences, FiniteSetsExt, SequencesExt

CONSTANT None   \* Python's None: no mandated deadline, no period

ASSUME NoneAssumption == None \notin Int

RiskModels ==
  [form : {"step", "linear"}, base : Nat, scale : Nat \ {0}]

Periods(I) == 0 .. I.T - 1

InstanceFields ==
  {"assets", "T", "budget", "crit", "shelf", "cost", "earliest", "deadline",
   "deps", "clusters", "crqc", "rm"}

(***************************************************************************)
(* What Instance.__post_init__ and the dataclass fields guarantee.  deps   *)
(* holds pairs <<j, i>>, "j no later than i"; clusters is a sequence,      *)
(* because the union-find of the greedy reads it in order.                 *)
(***************************************************************************)
IsInstance(I) ==
  /\ DOMAIN I = InstanceFields
  /\ I.assets \in SUBSET Nat /\ IsFiniteSet(I.assets)
  /\ I.T \in Nat \ {0}
  /\ I.budget \in [Periods(I) -> Nat]
  /\ I.crit \in [I.assets -> Nat]
  /\ I.shelf \in [I.assets -> Nat]
  /\ I.cost \in [I.assets -> Nat]
  /\ I.earliest \in [I.assets -> Nat]
  /\ I.deadline \in [I.assets -> Int \cup {None}]
  /\ I.deps \in SUBSET (I.assets \X I.assets)
  /\ I.clusters \in Seq(I.assets \X I.assets)
  /\ I.crqc \in Int
  /\ I.rm \in RiskModels

Schedules(I) == UNION {[D -> Periods(I)] : D \in SUBSET I.assets}

Mandated(I) == {a \in I.assets : I.deadline[a] # None}

\* schedule.get(a)
Slot(s, a) == IF a \in DOMAIN s THEN s[a] ELSE None

-----------------------------------------------------------------------------
(***************************************************************************)
(* Residual risk.  Data encrypted at t stays sensitive through             *)
(* t + shelf; the weight is the full criticality once that window reaches  *)
(* t_crqc, and a fixed-point fraction of it before.                        *)
(***************************************************************************)
IntWeight(I, a, t) ==
  LET deficit == I.crqc - (t + I.shelf[a])
      lead    == Max({I.shelf[a], 1})
      ramp    == IF I.rm.form = "step" THEN 0
                 ELSE ((I.rm.scale - I.rm.base) * Max({0, lead - deficit}))
                        \div lead
  IN  IF deficit <= 0 THEN I.crit[a]
      ELSE (I.crit[a] * (I.rm.base + ramp)) \div I.rm.scale

\* risk that accrues on a in the periods strictly before end
Exposure(I, a, end) ==
  SumFunction([t \in 0 .. end - 1 |-> IntWeight(I, a, t)])

AssetTotalRisk(I, a) == Exposure(I, a, I.T)

CostOf(cost, S) == SumFunctionOnSet(cost, S)

-----------------------------------------------------------------------------
(***************************************************************************)
(* The scorer: the objective, and for each constraint the set of its       *)
(* violations (score.py reports their numbers).                            *)
(***************************************************************************)
Risk(I, s) ==
  SumFunction([a \in I.assets |->
                 Exposure(I, a, IF a \in DOMAIN s THEN s[a] ELSE I.T)])

Cost(I, s) == CostOf(I.cost, I.assets \cap DOMAIN s)

EarliestViolations(I, s) ==
  {a \in I.assets \cap DOMAIN s : s[a] < I.earliest[a]}

\* an unmigrated mandated asset is a missed deadline
DeadlineViolations(I, s) ==
  {a \in Mandated(I) : a \in DOMAIN s => s[a] > I.deadline[a]}

Spend(I, s, t) == CostOf(I.cost, {a \in I.assets \cap DOMAIN s : s[a] = t})

BudgetViolations(I, s) == {t \in Periods(I) : ~(Spend(I, s, t) <= I.budget[t])}

PrecedenceViolations(I, s) ==
  {e \in I.deps : /\ e[2] \in DOMAIN s
                  /\ e[1] \in DOMAIN s => s[e[1]] > s[e[2]]}

ClusterViolations(I, s) ==
  {c \in Range(I.clusters) : Slot(s, c[1]) # Slot(s, c[2])}

Feasible(I, s) ==
  /\ DeadlineViolations(I, s) = {}
  /\ BudgetViolations(I, s) = {}
  /\ PrecedenceViolations(I, s) = {}
  /\ ClusterViolations(I, s) = {}
  /\ EarliestViolations(I, s) = {}

FeasibleSchedules(I) == {s \in Schedules(I) : Feasible(I, s)}

=============================================================================
