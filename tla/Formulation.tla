---------------------------- MODULE Formulation ----------------------------
(***************************************************************************)
(* solve_cpsat.py and solve_milp.py: the time-indexed 0/1 model both       *)
(* backends build, and one call of solve_cpsat / solve_milp around it.     *)
(* Both files build the same constraints; where they differ is the way a   *)
(* solver run ends.                                                        *)
(*                                                                         *)
(* y[(a, t)] exists for the periods of a's window only.  An assignment is  *)
(* the set of the variables that are 1.  A sum of variables that is at     *)
(* most 1 is the truth value of "one of them is 1", so done(a, t) is a     *)
(* predicate here and done(i, t) <= done(j, t) an implication.             *)
(***************************************************************************)
EXTENDS Solver

CONSTANTS
  InstanceSet,
  EpsBounds      \* values of eps_cost; None: no epsilon-constraint

ASSUME InstanceAssumption == \A I \in InstanceSet : IsInstance(I)
ASSUME EpsAssumption == EpsBounds \subseteq Int \cup {None}

-----------------------------------------------------------------------------
(* The model *)

Vars(I) == {v \in I.assets \X Periods(I) : v[2] \in Window(I, v[1])}

Done(y, a, t) == \E v \in y : v[1] = a /\ v[2] <= t

\* mutant: every asset must migrate, mandated or not
OncePerAsset_All(I, y) ==
  /\ \A v, w \in y : v[1] = w[1] => v = w
  /\ \A a \in I.assets : \E v \in y : v[1] = a

\* (1) at most once; a mandated asset exactly once
OncePerAsset(I, y) ==
  /\ \A v, w \in y : v[1] = w[1] => v = w
  /\ \A a \in Mandated(I) : \E v \in y : v[1] = a

\* (3) an empty sum is within every budget, so the code skips those periods
WithinBudget(I, y) ==
  \A t \in Periods(I) :
    CostOf(I.cost, {a \in I.assets : <<a, t>> \in y}) <= I.budget[t]

\* mutant: the predecessor must be done in an earlier period
InOrder_Strict(I, y) ==
  \A e \in I.deps : \A t \in Periods(I) : Done(y, e[2], t) => Done(y, e[1], t - 1)

\* (4)
InOrder(I, y) ==
  \A e \in I.deps : \A t \in Periods(I) : Done(y, e[2], t) => Done(y, e[1], t)

\* mutant: periods where only one of the pair can migrate are left free
Together_Overlap(I, y) ==
  \A c \in Range(I.clusters) :
    \A t \in Window(I, c[1]) \cap Window(I, c[2]) :
      <<c[1], t>> \in y <=> <<c[2], t>> \in y

\* (5) equal where both variables exist, zero where only one does
Together(I, y) ==
  \A c \in Range(I.clusters) :
    \A t \in Window(I, c[1]) \cup Window(I, c[2]) :
      /\ t \in Window(I, c[1]) \cap Window(I, c[2]) =>
           (<<c[1], t>> \in y <=> <<c[2], t>> \in y)
      /\ t \notin Window(I, c[2]) => <<c[1], t>> \notin y
      /\ t \notin Window(I, c[1]) => <<c[2], t>> \notin y

\* the epsilon-constraint of the Pareto sweep
WithinEps(I, y, eps) ==
  eps # None => CostOf(I.cost, {a \in I.assets : \E v \in y : v[1] = a}) <= eps

Solution(I, y) ==
  /\ OncePerAsset(I, y)
  /\ WithinBudget(I, y)
  /\ InOrder(I, y)
  /\ Together(I, y)

Solutions(I, eps) ==
  {y \in SUBSET Vars(I) : Solution(I, y) /\ WithinEps(I, y, eps)}

\* sum of w * (1 - done(a, t))
Objective(I, y) ==
  SumFunction([a \in I.assets |->
                 SumFunction([t \in {u \in Periods(I) : ~Done(y, a, u)} |->
                                IntWeight(I, a, t)])])

\* read the schedule back: the first period of the window whose variable is 1
Extract(I, y) ==
  [a \in {b \in I.assets : \E v \in y : v[1] = b} |->
     CHOOSE t \in Window(I, a) :
       /\ <<a, t>> \in y
       /\ \A u \in Window(I, a) : <<a, u>> \in y => t <= u]

\* the assignment that stands for a schedule
Encode(I, s) == {v \in Vars(I) : v[1] \in DOMAIN s /\ s[v[1]] = v[2]}

-----------------------------------------------------------------------------
(* One call *)

VARIABLES inst, eps, pc, chosen, result

vars == <<inst, eps, pc, chosen, result>>

Init ==
  /\ inst \in InstanceSet
  /\ eps \in EpsBounds
  /\ pc = "build"
  /\ chosen = {}
  /\ result = Reply("UNKNOWN", None, None)

\* an asset without a period ends the call before the solver is started
BuildFails ==
  /\ pc = "build"
  /\ NoWindow(inst) # {}
  /\ pc' = "done"
  /\ result' = Reply("INFEASIBLE", None, None)
  /\ UNCHANGED <<inst, eps, chosen>>

Build ==
  /\ pc = "build"
  /\ NoWindow(inst) = {}
  /\ pc' = "solve"
  /\ UNCHANGED <<inst, eps, chosen, result>>

\* The solver is external: it proves optimality, stops at the time limit
\* with or without an incumbent, proves infeasibility, or fails.
SolveOptimal ==
  /\ pc = "solve"
  /\ \E z \in Solutions(inst, eps) :
       /\ \A x \in Solutions(inst, eps) : Objective(inst, z) <= Objective(inst, x)
       /\ chosen' = z
  /\ result' = Reply("OPTIMAL", None, None)
  /\ pc' = "extract"
  /\ UNCHANGED <<inst, eps>>

SolveFeasible ==
  /\ pc = "solve"
  /\ chosen' \in Solutions(inst, eps)
  /\ result' = Reply("FEASIBLE", None, None)
  /\ pc' = "extract"
  /\ UNCHANGED <<inst, eps>>

SolveEmpty ==
  /\ pc = "solve"
  /\ \/ /\ Solutions(inst, eps) = {}
        /\ result' = Reply("INFEASIBLE", None, None)
     \/ \E st \in {"UNKNOWN", "MODEL_INVALID"} :
          result' = Reply(st, None, None)
  /\ pc' = "done"
  /\ UNCHANGED <<inst, eps, chosen>>

ReadBack ==
  /\ pc = "extract"
  /\ result' = Reply(result.status, Objective(inst, chosen), Extract(inst, chosen))
  /\ pc' = "done"
  /\ UNCHANGED <<inst, eps, chosen>>

Terminated == pc = "done" /\ UNCHANGED vars

Next ==
  \/ BuildFails \/ Build
  \/ SolveOptimal \/ SolveFeasible \/ SolveEmpty
  \/ ReadBack
  \/ Terminated

Spec == Init /\ [][Next]_vars

-----------------------------------------------------------------------------
(* Properties *)

InBudget(s) == eps = None \/ Cost(inst, s) <= eps

(***************************************************************************)
(* Solver/scorer parity: whatever assignment the solver stops with, the    *)
(* schedule read back from it passes every check of score.py and respects  *)
(* the epsilon-constraint.                                                 *)
(***************************************************************************)
RepliesScoreClean ==
  result.schedule # None =>
    Feasible(inst, result.schedule) /\ InBudget(result.schedule)

(***************************************************************************)
(* An OPTIMAL reply is optimal among all schedules the scorer accepts, not *)
(* only among those the 0/1 model can express.                             *)
(***************************************************************************)
OptimalIsGlobal ==
  result.status = "OPTIMAL" /\ pc = "done" =>
    \A s \in FeasibleSchedules(inst) : InBudget(s) => result.objective <= Risk(inst, s)

(***************************************************************************)
(* When every asset has a period, INFEASIBLE means that the scorer accepts *)
(* no schedule at all.                                                     *)
(***************************************************************************)
InfeasibleIsReal ==
  result.status = "INFEASIBLE" /\ NoWindow(inst) = {} =>
    \A s \in FeasibleSchedules(inst) : ~InBudget(s)

=============================================================================
