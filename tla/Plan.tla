-------------------------------- MODULE Plan --------------------------------
(***************************************************************************)
(* api.py, /plan: an estate becomes a roadmap.  The route builds one of    *)
(* the bundled estates, or takes an instance as it is, may replace the     *)
(* budget by a flat capacity, solves it, and, when there is a schedule,    *)
(* runs the usual highest-risk-first greedy on the same estate to show     *)
(* what it would miss.  Composes Estate, Solver's replies and the machine  *)
(* of Greedy; admission, semaphore and exceptions are ApiServer's, and an  *)
(* uploaded CBOM becomes an instance in Ingest.                            *)
(*                                                                         *)
(* Labels, reasons and the regulatory stamp are wording and left out.  The *)
(* relative gap is kept as its numerator.                                  *)
(***************************************************************************)
EXTENDS Solver, Estate, Greedy

CONSTANTS
  Requests,    \* [sample, tightness, instance, capacity]: an estate file or
               \* None, then an instance; the override or None
  Crqc, RiskModel,   \* t_crqc of the samples, RiskModel()
  MaxAssets, MaxT

\* the estate a request is about
EstateOf(q) ==
  IF q.sample = None THEN q.instance
  ELSE EstateFromJson(q.sample, q.tightness, Crqc, RiskModel)

ASSUME RequestAssumption ==
  \A q \in Requests :
    /\ q.sample # None => /\ Kept(q.sample) # {}
                          /\ q.tightness \in (Nat \ {0}) \X (Nat \ {0})
    /\ IsInstance(EstateOf(q)) /\ q.capacity \in (Nat \ {0}) \cup {None}

VARIABLES
  request,   \* never written
  stage,     \* "solve", "compare", "answered"
  opt,       \* res, the solver's reply
  reply      \* out

ownVars == <<request, stage, opt, reply>>
planVars == <<ownVars, vars>>

-----------------------------------------------------------------------------
\* the estates /plan goes on with
Admitted(q) ==
  LET I == EstateOf(q)
  IN  I.assets # {} /\ Cardinality(I.assets) <= MaxAssets /\ I.T <= MaxT

Flat(I, amount) == [I EXCEPT !.budget = [p \in Periods(I) |-> amount]]

\* mutant: the floor is taken for a ceiling
Effective_Ceiling(q) ==
  LET I == EstateOf(q)
  IN  IF q.capacity = None THEN I
      ELSE Flat(I, Min({q.capacity, Max(Range(I.cost))}))

\* a flat budget that lets every single asset fit
Effective(q) ==
  LET I == EstateOf(q)
  IN  IF q.capacity = None THEN I
      ELSE Flat(I, Max({q.capacity} \cup Range(I.cost)))

\* what the comparison calls the greedy with
ASSUME ComparisonAssumption ==
  /\ \A q \in Requests : Admitted(q) => Effective(q) \in InstanceSet
  /\ "highest_risk" \in Baselines

PlanInit ==
  /\ request \in {q \in Requests : Admitted(q)}
  /\ stage = "solve"
  /\ opt = None /\ reply = None
  /\ Init /\ inst = Effective(request) /\ baseline = "highest_risk"

Solve ==
  /\ stage = "solve"
  /\ opt' \in Replies(inst)
  /\ stage' = "compare"
  /\ UNCHANGED <<request, reply, vars>>

\* naive_comparison: the greedy's own run
Compare ==
  /\ stage = "compare" /\ opt.schedule # None
  /\ pc # "done" /\ Next
  /\ UNCHANGED ownVars

OnTime(s) ==
  {a \in inst.assets : inst.deadline[a] # None =>
                         a \in DOMAIN s /\ s[a] <= inst.deadline[a]}

\* build_roadmap: the assets of each period, and the audit of the mandates
Roadmap(s) ==
  [timeline |-> [p \in {s[a] : a \in inst.assets \cap DOMAIN s} |->
                   {a \in inst.assets \cap DOMAIN s : s[a] = p}],
   on_time  |-> OnTime(s),
   all_mandates_met |-> DeadlineViolations(inst, s) = {}]

\* mutant: an asset that is never migrated is not a missed one
Missed_IfScheduled(s) ==
  {a \in Mandated(inst) : a \in DOMAIN s /\ s[a] > inst.deadline[a]}

Missed(s) ==
  {a \in Mandated(inst) : a \notin DOMAIN s \/ s[a] > inst.deadline[a]}

\* extra_risk_vs_optimal
Extra(risk) ==
  IF opt.status = "OPTIMAL" /\ opt.objective # 0 THEN risk - opt.objective
  ELSE None

Naive ==
  [feasible |-> Feasible(inst, schedule),
   missed   |-> Missed(schedule),
   extra    |-> Extra(Risk(inst, schedule))]

Answer ==
  /\ stage = "compare" /\ (opt.schedule = None \/ pc = "done")
  /\ reply' = IF opt.schedule = None THEN [error |-> TRUE]
              ELSE [error |-> FALSE, roadmap |-> Roadmap(opt.schedule),
                    naive |-> Naive, capacity |-> inst.budget[0]]
  /\ stage' = "answered"
  /\ UNCHANGED <<request, opt, vars>>

PlanTerminated == stage = "answered" /\ UNCHANGED planVars

PlanNext == Solve \/ Compare \/ Answer \/ PlanTerminated

PlanSpec == PlanInit /\ [][PlanNext]_planVars

-----------------------------------------------------------------------------
(* Properties *)

Planned == stage = "answered" /\ ~reply.error

(***************************************************************************)
(* index.html:374 tells the reader that the greedy misses mandates when it *)
(* is infeasible and missed some, and otherwise that it fits.  The two     *)
(* flags /plan sends (api.py:294-298) never contradict each other: the     *)
(* greedy fails in no other way than by missing mandates, deadlines        *)
(* against the greedy's own run included.                                  *)
(***************************************************************************)
NaiveFailsByMissingOnly ==
  Planned => (reply.naive.feasible <=> reply.naive.missed = {})

(***************************************************************************)
(* api.py:394, "Increase the migration capacity per period": raising the   *)
(* capacity to what the estate's periods already offer, or beyond, never   *)
(* turns a feasible estate into an infeasible one.                         *)
(***************************************************************************)
MoreCapacityKeepsThePlan ==
  /\ stage = "answered" /\ request.capacity # None
  /\ \A p \in Periods(inst) : EstateOf(request).budget[p] <= request.capacity
  /\ FeasibleSchedules(EstateOf(request)) # {} /\ NoWindow(inst) = {}
  => opt.status # "INFEASIBLE"

\* no couplings, everything may start at once and nothing is due early
Loose(I) ==
  /\ I.deps = {} /\ I.clusters = <<>>
  /\ \A n \in I.assets :
       I.earliest[n] = 0 /\ I.deadline[n] \in {None, I.T - 1}

(***************************************************************************)
(* scenarios.py:99-100, 132: a sample sized at a tightness of one half or  *)
(* less, without couplings and with every mandate at the end, is never     *)
(* answered with the error: the dearest asset and the mean load are enough *)
(* to pack any efforts, and at any capacity asked for above them.          *)
(***************************************************************************)
HalfTightnessPacks ==
  /\ stage = "answered" /\ request.sample # None
  /\ 2 * request.tightness[1] <= request.tightness[2]
  /\ Loose(inst) /\ inst.budget[0] >= EstateOf(request).budget[0]
  => opt.status # "INFEASIBLE"

(***************************************************************************)
(* api.py:393, "No feasible plan at this capacity — even the optimum       *)
(* cannot meet every mandate": an error means that there is no plan.       *)
(***************************************************************************)
ErrorMeansInfeasible ==
  stage = "answered" /\ reply.error => FeasibleSchedules(inst) = {}

=============================================================================
