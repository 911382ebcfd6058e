# Verification of pqcsched

`pqcsched` (directory `src/src/pqcsched/`, paths below relative to it) plans
when each cryptographic asset of an organisation migrates to post-quantum
algorithms. An *instance* has assets with a cost, a criticality, a shelf life,
an earliest period and possibly a deadline; a budget per period; dependencies
`(j, i)` ("`j` before or with `i`"); and co-migration pairs. A *schedule* maps
assets to periods, or leaves them out. Its *risk* is the sum, over assets and
periods not yet migrated, of a fixed-point weight.

This directory holds TLA+ modules translated from that code, TLC
configurations that check them on small instances, and TLAPS proofs of what
matters most for all instances.

## 1. Inventory

| Component | State | Operations | Depends on |
|---|---|---|---|
| `model.py`, `risk.py`, `score.py` | none (pure) | weights, `score_schedule` | - |
| `greedy.py`, `heuristic.greedy_current_risk` | union-find, period, capacity, pending groups, schedule | group, rank, migrate, advance | model |
| `solve_cpsat.py`, `solve_milp.py`, `result.py` | one solver call | build, solve, extract | external solvers |
| `pareto.py` | binary-search bracket, sweep position, points | anchor, search, sweep, skyline | solver |
| `heuristic.lns` | incumbent, neighbourhood size, stall counter | warm start, pin, repair, accept, escalate | greedy, solver |
| `heuristic.rolling_horizon` | window position, committed placements, free assets | solve window, freeze, repair, floor | greedy, solver |
| `api.py` | semaphore, per-client request times, requests in flight | middleware, five routes | solver, pareto, cbom, generate |
| `experiment.py`, `cli.py study`, `scripts/run_main_study.py` | the CSV file of each study, the set of finished keys, the summary | load, header, evaluate, flush, stop; loop over studies, summarize, exit code | generate, greedy, solver |
| `cbom.py` | memo of resolved references, drafts, deadlines, budget | classify, resolve, convert, reconcile, size | model |
| `generate.py` | drawn attributes, starts, mandates, capacity | draw, propagate, pair, mandate, size | model |
| `scenarios.py` | usages kept, budget | read, couple, size | model |
| `static/index.html` | chosen estate, slider, timer, requests in flight, table, download | choose, slide, debounce, upload, render | `/plan` |
| `regulatory.py`, `.github/workflows/deploy.yml`, `regulatory-watchdog.yml` | the merged profile, deployments, the profile a process loaded, open issues | merge, deploy, restart, warn; evaluate, list, create | cbom, api |
| `cli.py main`, `solve`, `baselines`, `gen` | the output file, the exit code | dispatch; load, pick a backend, solve, compare, trace, write | solver, greedy, pareto, generate |
| `viz.py`, other scripts | none | plots, drivers on fixed parameters | all |

**How they interact.** `Instances` is the common language: every producer
(`cbom`, `generate`, API schemas) yields an instance, every planner takes one
and returns a schedule the scorer judges. The planners call the solver once
(`solve_*`), many times in sequence (`pareto`, `lns`, `rolling_horizon`), or
from concurrent requests (`api`). The solver may prove, time out with a
schedule, time out without one, or refute; every caller has to survive each of
these.

**What is hard.** Long sequential protocols whose later steps rest on earlier
ones (freezing, pinning, escalation, memoisation); solver replies that are
partial; agreement of two encodings of the same constraints, and of several
accounts of one result; a quota and a semaphore under interleaving; answers
that arrive in another order than they were asked for; files that survive a
kill; a dated file that is merged, deployed and loaded at different times.
`PROJECT.json` lists
these hazards line by line with the property that would notice each one.

**What makes each component correct.**

* scorer and solvers: the encoding and the scorer agree on feasibility and on
  value; OPTIMAL and INFEASIBLE are true statements.
* greedy: structural constraints and capacity hold at every step; nothing that
  fits is left for later.
* Pareto: the search brackets the cheapest cost; the list keeps both ends, and
  no point of it has more risk than its cost needs.
* LNS: the incumbent is only replaced by a better feasible one; a sub-problem is exactly
  the neighbourhood it stands for; giving up at full size means optimal.
* rolling horizon: what is frozen is sound; nothing is left behind without
  reason; never worse than infeasible when the greedy is feasible.
* service: permits are conserved, the quota is exact, requests are answered.
* experiment and study: rows are distinct instances, a finished study is
  complete; exit code, rows and summary tell the same story.
* ingestion, estates and generator: the verdict on a component does not depend
  on luck; derived deadlines, starts and budgets fit each other.
* `/plan` and the page: the accounts of the naive comparison agree with each
  other, more capacity never loses the plan; what is shown is what was chosen, and the page comes to rest.
* regulatory calendar: the warning on the plans and the watchdog agree on when
  the review is due, an overdue one is reported, and a merged profile is served
  in the end.
* command line: a claimed proof is one, the exit code tells what became of the
  output file.

## 2. Modules

| Module | Models | How it corresponds |
|---|---|---|
| `Instances` | `model.py`, `risk.py`, `score.py` | Pure operators: `IntWeight` with its two truncations, `Risk`, one violation set per kind, `Feasible`. A schedule is a function on the migrated assets. |
| `Commitments` | - (abstract) | A planner that in each period appends an admissible batch to the schedule and never revises one. |
| `Anytime` | - (abstract) | A planner with an incumbent that is only replaced by a better feasible schedule, and one honest reply, feasible whenever there was an incumbent. `Lns` and `RollingHorizon` implement it. |
| `Greedy` | `greedy.py` | `Union` per co-migration pair; `StartSweep`; `Migrate(g)` for the one group the ranking prefers; `NextPeriod`; `Return`. All five rankings and `greedy_current_risk` share it: they differ in `Key`. |
| `Formulation` | `solve_cpsat.py`, `solve_milp.py` | `BuildFails`/`Build`, then one of `SolveOptimal`, `SolveFeasible`, `SolveEmpty`, then `ReadBack`. A solution is a set of pairs `<<asset, period>>` whose variable is 1; each constraint is an operator on it. |
| `Solver` | the same, as the callers see it | `Replies(I)`: the set of replies one call may give. |
| `Pareto` | `pareto.py` | `AnchorFails`/`AnchorSolved`, `Search`, `StartSweep`, `SweepStep`, `Return`. An instance is reduced to `offers`, the pairs `<<cost, risk>>` its feasible schedules have, because nothing else reaches this code. |
| `Lns` | `heuristic.lns` | `Init` is the warm start; `Fallback`; one `Repair` per iteration with any set of released assets; `Stop` at any time (time limit). |
| `RollingHorizon` | `heuristic.rolling_horizon` | `SolveWindow`, `SkipWindow`, `AllCommitted`, `FinalRepair`, `Return`. |
| `Plan` | `/plan` in `api.py` | `EstateOf` a request, then `Solve`, `Compare` (one step of the `Greedy` machine at a time), `Answer`. Extends `Greedy`, whose variables it shares, `Estate` and `Solver`; the capacity override is in `Effective`. |
| `PlannerPage` | the script of `static/index.html` | One action per event handler (`PickSample`, `Slide`, `Debounced`, `ChooseFile`, `FileRead`) and one per continuation of an awaited request (`RenderPlan`, `RenderError`, `Unreachable`). |
| `ApiServer` | `api.py` | Per request: middleware, queue for a thread, wait for a permit, solve, answer. The middleware is one action because it runs on the event loop without an `await` between the clock and the append. |
| `Study` | `experiment.run_grid`, `summarize`, `cli.py study`, `run_main_study.py` | `Launch`, `OpenGrid` (with `LoadDone`), `WriteHeader`, `Item`, `GridDone`, `Summarize`, `Complete`; `Kill` and `DiskFloor` between any two. |
| `Command` | `cli.py solve`, `cli.py baselines`, backend choice of `solve_milp.py` | `Invoke`, `Load`, `PickBackend`, `SolveCpsat`/`SolveMilp`, `Compare`, `Trace`, `OpenFile`, `Dump`, `End`; `Kill` anywhere. Opening the output file truncates it or fails; the write after it ends, fails (no room on the disk) or is killed. |
| `Main` | `cli.py main` | The dispatch: a session is one of `Study`, `Command` and `Generator` (`gen`), the machines it does not use rest in a state in which they have ended. |
| `Components` | `cbom.py`, classification | Pure operators: what makes a component weak, a CA's, signature-side, and its kind. |
| `Resolver` | `cbom._resolve_vuln` | The recursion as an explicit stack of `Frame`s; one action per return or descent. |
| `Reconcile` | `cbom._reconcile_deadlines`, budget sizing | `RelaxEdge`, `EndPass`, `DropImpossible`, `SizeBudget`. |
| `Ingest` | `cbom.cbom_to_instance` | Composes the three: resolve every component, draft the assets with the policy's economics, windows and mandates, then reconcile and size. |
| `Estate` | `scenarios.estate_from_json` | Pure operators: which usages are kept, their economics and windows, the budget; `Plan` calls `EstateFromJson`. |
| `Regulatory` | `regulatory.py`, the two workflows | `Merge`, `StartDeploy`, `EndDeploy` (shipped, shipped with a failed smoke test, or not shipped), `Redeploy` (by hand, or a push that leaves the profile alone), `Restart`; `StaleFlag` is what `/plan` and `/regulatory` compute; `Evaluate`, `List`, `Create` per run of the watchdog; `NextDay`, `CloseIssue`. |
| `Generator` | `generate.generate` | `Propagate`, `DrawPair`, `Mandate`, `ShareDeadlines`, `SizeBudget`; the random draws are in `Init` or chosen by the actions. |

`MC<Module>` gives each machine its small instances. Eight modules hold the
theorems: `InstancesProofs` the lemmas about sums, instances and induction that
the others share, `GreedyProofs` what is proved of `Greedy` and `Plan`,
`FormulationProofs` of `Formulation` and `Pareto`, `LnsProofs`,
`RollingHorizonProofs`, `IngestProofs` of the machine they are named after,
`MainProofs` of `Study`, `Command` and `Generator` as `Main` runs them,
`ServiceProofs` of `ApiServer`, `PlannerPage` and `Regulatory`. Machines that
share a proof module name their specifications apart (`Spec` and `ParetoSpec`,
`PlanSpec`, `PageSpec`, `ProfileSpec`). Operators whose comment
starts with *mutant* are plausible wrong versions of the definition that
follows them, used to test the properties (`PROJECT.json`, `mutants`); no
specification uses them.

**Abstractions made throughout.** Asset identifiers are numbers whose order is
the lexicographic order of the ids (the greedy breaks ties by it). Identifiers
are unique and dependencies and pairs mention existing assets; `cbom.py` and
`generate.py` produce only such instances, and the solvers raise `KeyError` on
others (in `ApiServer`, `SolveRaises`). Criticality, shelf life and the CRQC
period enter only through the weights. Wall-clock limits are nondeterministic:
any solve may be cut short, any search may stop. `Sweep` rounds like Python's
`round` (half to even). `SolveFeasible` offers every solution, because nothing
bounds the quality of a schedule returned at the time limit.

## 3. Runs

All instances are small, but each set of values was chosen so that the cases
the code distinguishes occur (every action of every module fires).

| Run | Instances and bounds | Shows |
|---|---|---|
| `MCGreedy` | 3 assets, 3 periods; costs with ties and 0; scarce, ample and uneven budgets; chains, joins; disjoint and overlapping pairs; all six rankings. 83,000 states | `CapacityKept`, `NoLeftShift`, `AmpleBudgetIsOptimal`, refinement of `Commitments` |
| `MCFormulation` | 3 assets, 3 periods; windows that overlap, are disjoint or empty; both risk models; with and without a cost cap. 9,900 states | `RepliesScoreClean`, `OptimalIsGlobal`, `InfeasibleIsReal` |
| `MCPareto` | the `<<cost, risk>>` offers of 48 instances (3 assets, 2 periods, infeasible ones included), 0, 2 or 3 points, every reply. 251,000 states | `FloorBracketed`, `SpansTheTradeOff`, `NoLessRiskForItsCost` |
| `MCLns` | 3 assets, 2 periods; neighbourhoods of 0, 2, 4 (clamped by the code), patience 2, stalls capped at 3. 7,900 states | `PinsAreExact`, `StallAtFullSizeMeansOptimal`, refinement of `Anytime` |
| `MCRollingHorizon` | 3 assets, 4 periods, starts and deadlines inside, beyond and past the horizon; overlapping, abutting, degenerate, oversized windows. 62,000 states | `CommittedSound`, `OnlyLateStartersAreLeftBehind`, `OneWindowIsExact`, refinement of `Anytime` |
| `MCApiServer` | 3 requests of one client, 1 permit, 2 threads, quota 2 per window of 1 tick, clock to 2. 136,000 states | `PermitsConserved`, `QuotaIsExact`, `EveryRequestAnswered` |
| `MCIngest` | 4 components (protocol, certificate, key, algorithm) in two orders, with shared, dangling and cyclic references, rated, known and merely named algorithms, and a rated component of a type the code does not know; dependency sections with chains, a fork, a join and a cycle; 4 policies with deadlines before the start and beyond the horizon. 92,000 states | `MemoIsTransitive`, `NoFalseAlarm`, `RelaxationIsExact`, `AlapIsFeasible`, `NoAssetRestsOnRatedAlone` |
| `MCMain` | `study`: 2 studies (of 2 items and 1), or a grid file with a malformed entry; both front ends; 4 kinds of outcome, up to 1 infeasible draw per item, 2 kills or full disks. `solve`, `baselines`: Windows and POSIX, 3 sets of solver wrappers, 3 of optional modules; 2 invocations, readable, malformed and misshapen input; a kill anywhere, an output file that cannot be opened or not be written to the end. `gen`: 3 assets, 4 periods, 1 or 2 pairs, three pressures of mandates. 1,013,000 states | `SummaryTellsTheFile`, `InstancesDistinct`, `ScriptSuccessMeansComplete`, `StudiesComplete`; `ProofsAreProofs`, `ExitCodeTellsTheFile`; `OneSweepPropagates` |
| `MCPlan` | named estates of 3 usages (efforts 1 to 7, tightness 1/5000 to 3/2) and instances of 3 assets (mandates, a dependency, a pair, uneven budgets); no capacity asked for or one of 1 to 4. 65,000 states | `NaiveFailsByMissingOnly`, `MoreCapacityKeepsThePlan`, `HalfTightnessPacks` |
| `MCPlannerPage` | 2 samples and an upload, 2 slider positions, 4 gestures in any order with any number of requests in flight. 67,000 states | `SoloPlanMatchesControls`, `ComesToRest` |
| `MCRegulatory` | days 0 to 3, reviews due after 1 day, 2 merges, any number of deployments, 2 overlapping watchdog runs. 23,000 states | `WarningAgreesWithWatchdog`, `OverdueIsReported`, `HeadIsServed` |
| `MCIngest_NoPartialResultMemoized` | as `MCIngest` | a disagreement, see below |

Why the bounds are enough to be worth running: with three assets a chain, a
join, an overlapping pair of pairs, a cycle through a cluster and a group that
is blocked by another all exist; with three or four periods a window can be
interior, at either end, or empty; with three requests one solves, one waits
and one finds no thread; with two faults a study can be left by
one process, taken up by a second and stopped again;
with four gestures two answers cross while a third plan is asked for; with two
merges and two deployments an older one can finish last; with two invocations
the second meets the file the first has left.
Larger instances repeat these patterns; the theorems of section 6 remove the
bound for the properties they cover.

Type correctness is proved, not checked, for the two machines with the richest
state (`Greedy`, `ApiServer`); the inductive invariants of the others contain
the types their proofs use.

`CHECK_DEADLOCK` stays on everywhere: each module has an explicit `Terminated`
step, so a state with no way forward other than the intended end is an error.

### Fairness

Only where a run checks liveness. `Greedy`, `Formulation`, `Pareto`, `Lns`,
`RollingHorizon`, `Ingest`, `Plan` and the `solve` and `gen` parts of `Main` are
checked for safety, and that they never get stuck short of their end.

* `Study`, and `Main` with it: weak fairness of `Launch` (somebody starts the study again until it
  is done) and of `Works`, the steps of a running process. Kills and full disks
  are not fair and bounded by `MaxFaults`: they stop sooner or later.
* `PlannerPage`: weak fairness of the timer (`Debounced`), of reading a file
  and of *some* request's end, with a plan, an error or no answer at all. Which
  one ends first is free; gestures are the user's and not fair.
* `Regulatory`: weak fairness of `StartDeploy`, `EndDeploy` (which may fail)
  and of the three steps of each watchdog run: cron fires and jobs end. Nobody
  has to merge, redeploy, close an issue or restart.
* `ApiServer`: weak fairness of `Start(r)`, `Waiting(r)` and `Working(r)` per
  request. A queued request is taken by a free thread of the pool; a wait on
  the semaphore ends with the permit or after 15 seconds; every solve has a
  time limit. No fairness is assumed of the middleware, of the clock or of the
  arrival of requests, and none that a waiting request ever gets the permit.

## 4. Properties by hazard

`PROJECT.json` maps hazards to properties. The ones that carry the most:

* `AmpleBudgetIsOptimal`: with ample capacity and acyclic groups every ranking
  is optimal, so the gaps the experiments report measure contention only.
* `PinsAreExact`, `StallAtFullSizeMeansOptimal`: why LNS may trust a sub-solve
  and when its last failure is a proof. Pinning is exact in both directions: a
  pin that is too loose lets a spoilt schedule in, one that is too tight, or
  that contradicts a start, loses part of the neighbourhood.
* `OnlyLateStartersAreLeftBehind`, `RefinesAnytime`: what the rolling horizon
  guarantees although each of its solves may fail.
* `QuotaIsExact`: the sliding window neither lets a client exceed its quota nor
  refuses one that has not spent it.
* `MemoIsTransitive`, `NoFalseAlarm`: what is memoised without meeting a cycle
  is right in any order; with cycles it errs on one side only.
* `NaiveFailsByMissingOnly`, `MoreCapacityKeepsThePlan`: the comparison `/plan`
  sells and its advice to raise the capacity are right, although override,
  solver and greedy are three separate computations.
* `SoloPlanMatchesControls`, `ComesToRest`: what holds on the page as long as
  requests do not overlap, and what survives any order of answers.
* `SummaryTellsTheFile`, `ScriptSuccessMeansComplete`, `StudiesComplete`:
  what a study is worth after kills and full disks.
* `WarningAgreesWithWatchdog`, `HeadIsServed`: unless a deployment is pending or
  the last one failed, a process that loaded its profile long ago warns on the
  days on which the watchdog, on a fresh checkout, finds the review overdue; and
  deployments neither go backwards nor lose the last merge.
* `ExitCodeTellsTheFile`, `ProofsAreProofs`: the roadmap on disk and the word
  "optimal", over every backend and its terminations. A kill or a full disk in
  the middle of the write does destroy the earlier roadmap; the property says
  that nothing else does, and that no exit code hides it.
* `HalfTightnessPacks`: how far the claim that a sized estate is feasible holds.

## 5. Disagreements between the code and what it says

Met while modelling. Kind *bug*: the program misbehaves; *wording*: the
sentence is wrong or meant more loosely. The first one is among the runs of
`PROJECT.json`; the others with a configuration are run by hand in the same
way (`tlc -config <file> <module>`), and TLC must find the statement violated.

| Configuration (module) | Statement | What happens | Kind |
|---|---|---|---|
| `MCIngest_NoPartialResultMemoized.cfg` (`MCIngest`) | cbom.py:335 "do not memoize a partial result" | On a cycle only the component met again is not memoised; those between are, and one that reaches a weak algorithm may be left out. | bug |
| `MCMain_AlwaysResumable.cfg` (`MCMain`) | experiment.py:16 "Checkpoint + resume" | Killed between creating the file and flushing the header, a study leaves a file whose first data row later serves as header: no row is recognised, the work is done again, and `summarize` raises `KeyError` in every later launch. | bug |
| `MCPareto_FloorNotOverstated.cfg` (`MCPareto`) | pareto.py:79-81, UNKNOWN is "not treated as infeasible" | The code raises `lo` on UNKNOWN exactly as on INFEASIBLE. (Its inline comment, pareto.py:94-95, only claims the floor is not *under*stated, which `FloorBracketed` confirms.) | wording |
| `MCGreedy.cfg` with `INVARIANT MatchesMilpCapability` added (`MCGreedy`) | greedy.py:170-173 "matching the MILP's capability" | A dependency path through a cluster makes two groups wait for each other for ever. | wording |
| `MCRollingHorizonStraddle.cfg` (`MCRollingHorizon`) | heuristic.py:248-250, couplings across the commit boundary "are enforced" | An asset whose partner is not visible yet is frozen alone. | bug |
| `MCPlan_ErrorMeansInfeasible.cfg` (`MCPlan`) | api.py:392-393 "No feasible plan at this capacity" | Also said when the solve timed out. | bug |
| `MCPlannerPage_ChosenEstateIsShown.cfg` (`MCPlannerPage`) | index.html:236 "Choose a sample estate ... SAMAY solves it" | Answers in the other order leave another estate's plan. | bug |

The rest can be read off the definitions, and is told here so that nobody takes
the sentence for a property:

* cli.py:615 "0 == success": a study stopped at the disk floor ends `cli.py
  study` with 0, the script with 2 (`Study!Summarize`). Hence
  `ScriptSuccessMeansComplete` is about the script only. *Bug.*
* experiment.py:17 "keyed by the full cell": the cluster fraction, the delayed
  fraction and the seed are not in the key. *Wording.*
* pareto.py:124 "Empty only if the instance is infeasible": also when the
  anchor solve timed out (`Pareto!AnchorFails`). *Wording.*
* pareto.py:185 "you cannot get its risk for less cost": the solver minimises
  risk alone, so a point may cost more than its risk needs; only the other half
  is `NoLessRiskForItsCost`. *Wording.*
* solve_cpsat.py:90, no period means "instance infeasible": refused for an
  asset without a mandate too, which could stay unmigrated
  (`Formulation!BuildFails`; `InfeasibleIsReal` says so). *Wording.*
* index.html:371 "migrates everything by ...": an optional asset that the
  capacity leaves out is not mentioned. *Wording.*
* index.html:235, the label "computing": the first of two overlapping answers
  removes it (`PlannerPage!Ends`). *Bug.*
* api.py:11-12 "bounds simultaneous solves": `/gen` and `/health/ready` solve
  without the semaphore (`ApiServer`, stage `probing`). *Wording.*
* api.py:354 "could not parse this CBOM" (422): a `components` that is no list
  fails before it, in `len`, and ends in an unhandled `TypeError`, a 500
  (`ApiServer!Start`). *Bug.*
* api.py:15 headers "on every response": 413 and 429 leave the middleware
  without them (`ApiServer!Respond`). *Wording.*
* UPDATING_REGULATORY.md:47-48, an explicit deadline of a component "always
  wins": it is never read (`Ingest!DeadlineOf`). *Wording.*
* cbom.py:186-187, CA assets are delayed: a key-agreement algorithm of a CA is
  not (`Ingest!EarliestOf`). *Wording.*
* cbom.py:549-553 "the instance stays feasible": when an impossible mandate is
  dropped, its dependent's mandate stays, out of reach
  (`Reconcile!DropImpossible`). *Bug.*
* cbom.py:555-557, `len(assets)` passes are "sufficient for a DAG": they are
  with cycles too (`RelaxationIsExact`, proved without the assumption).
  *Wording.*
* cbom.py:243, a budget from the dearest asset: it follows the most loaded
  deadline (`Reconcile!SizeBudget`). *Wording.*
* scenarios.py:99-100 "so the estate is feasible": not with a pair dearer than
  a period's budget, or early mandates; `HalfTightnessPacks` is what is left.
  *Bug.*
* scenarios.py:15-16 "spans 2026Q3..2030Q4": labels count from 2026 Q1
  (api.py:239), half a year early. *Wording.*
* tests/test_cli.py:114-116 "never a traceback": a backend whose module imports
  but which is not installed raises (`Command!SolveMilp`). *Bug.*
* solve_milp.py:39-40 "When the solve is proven optimal the dual bound equals the
  objective": no gap is passed to the backends (solve_milp.py:142), so they
  call optimal what is within their default relative tolerance (1e-4 for
  HiGHS, by its documentation). `ReplyAssumption` takes the claim as it is made.
  *Wording.*
* solve_milp.py:109-111, CBC is "never the default" on Windows: it is where
  HiGHS is missing (solve_milp.py:112). *Bug.*
* cli.py:402-403 "(marked 'optimal*')": for an infeasible instance nothing is
  marked. *Wording.*
* generate.py:134-135, starts follow precedence: cluster pairs raise starts
  after they were propagated (`Generator!DrawPair`); `OneSweepPropagates` is
  about the sweep before. *Wording.*
* regulatory-watchdog.yml:4 "opens (once)": two overlapping runs both find no
  issue (`Regulatory!List`, `Create`). *Bug.*
* UPDATING_REGULATORY.md:38-40, by_asset_class is used: `signing_key` is read
  by nothing; UPDATING_REGULATORY.md:12-14 "No date is hardcoded": labels count
  from a hardcoded 2026 (api.py:237). *Wording.*

## 6. Proofs

Every safety and action property of the runs, and every refinement, is the
statement of a theorem that holds for all values of the constants its
assumptions admit.

| Theorem | Statement | Argument |
|---|---|---|
| `GreedyProofs!TypeCorrect`, `StructureIsKept` | `Spec => []TypeOK`, `Spec => []StructureKept` | `StructureKept` is not inductive. `IInv` adds: pairs processed share a root; an asset is scheduled iff its group is done, in its period; the groups done are closed under predecessors with non-increasing periods. |
| `GreedyRefinesCommitments` | `Spec => RefinesCommitments` | A `Migrate` step is an admissible batch of the abstract planner, `NextPeriod` its tick, everything else a stutter; uses `IInv`. |
| `CapacityIsKept` | `Spec => []CapacityKept` | `CInv`: the running capacity is the budget less the cost of the assets scheduled in the period, because groups are disjoint and the sum over a disjoint union is the sum of the sums. |
| `NothingShiftsLeft` | `Spec => []NoLeftShift` | `CInv`: no group not done could have migrated in a period that has passed. A later migration takes no capacity there and its predecessors come no earlier. |
| `AmpleBudgetOptimal` | `Spec => []AmpleBudgetIsOptimal` | The greedy's schedule is pointwise no later than any feasible one. Among the groups that are later, acyclicity gives one with no such predecessor, and that one could have shifted left. Risk is monotone in the schedule (`InstancesProofs`). |
| `NaiveOnlyMisses` | `PlanSpec => []NaiveFailsByMissingOnly` | `CInv` and `StructureKept` of the greedy leave only missed mandates among the scorer's violations. |
| `MoreCapacityHelps` | `PlanSpec => []MoreCapacityKeepsThePlan` | A schedule feasible under a budget is feasible under every pointwise larger one (`RaisedBudget`), and the solver may not refute a feasible instance. |
| `HalfIsEnough` | `PlanSpec => []HalfTightnessPacks` | Packing, by induction over the set of assets: without the cheapest one the rest fits; if it then fitted nowhere, every period would be more than half full, more than the estate costs. |
| `FormulationProofs!ExtractedIsFeasible`, `FeasibleIsEncoded` | the 0/1 model is sound and complete for the scorer's constraints | Constraint by constraint; completeness needs every asset to have a period, the code's pre-check. |
| `RepliesAreScoreClean`, `InfeasibleAnswerIsReal`, `OptimalReplyIsGlobal` | `Spec => []` of the runs' properties | From the two above, that the model's objective is the scorer's risk, and an invariant relating the phase of the call to its result. |
| `CallKeepsContract`, `CallAnswersTheSweep` | every answer of the call is in `Replies(I)` of `Solver`, and, as cost and risk, among those `Pareto` assumes | This joins the detailed call to the two contracts all callers are modelled with. |
| `SkylineIsStrict` | the list `Pareto` returns is strictly monotone, drawn from its input, and equals or betters every point of it in both coordinates | By induction over the length of the sorted list. |
| `FloorIsBracketed`, `FrontierSpansTheTradeOff`, `OptimalPointsAreUnbeaten` | `ParetoSpec => []` of the runs' properties | Search: `lo <= hi` and the types of replies. Sweep: while all solves end with proofs, both ends of the range are still to come or collected (`Collected`), and the skyline loses no end. A point marked OPTIMAL minimises risk under a cap that is at least its cost. |
| `LnsProofs!PinningIsExact`, `EveryPinIsExact`, `SearchStaysFeasible` | the feasible schedules of a sub-problem are exactly the incumbent's neighbourhood; the incumbent is always feasible | Both inclusions. A pinned asset's window is the one period of a feasible incumbent, so it may be placed there and nowhere else, inside its own window; a free asset keeps its window; budgets, dependencies and pairs are the same. |
| `LnsRefinesAnytime` | `Spec => RefinesAnytime` | A repair that is accepted is a feasible improvement (`RepairImproves`); every other step of the search stutters; the wrapped reply is honest because it is scored again on the real instance (`WrappedIsHonest`). |
| `FullSizeStallIsOptimal` | `Spec => []StallAtFullSizeMeansOptimal` | At full size nothing is pinned, so by `PinningIsExact` the sub-problem has all feasible schedules; a proven answer that does not improve proves the incumbent. |
| `RollingHorizonProofs!CommittedIsSound`, `LeftBehindStartLate` | `Spec => []` of the runs' properties | One invariant, `Sound(committed)`: a sub-solve moves no frozen asset (`SubSolveFacts`); a window freezes everything it placed up to some period, and every asset it does not see starts later, so a partner or predecessor left behind starts too late. Clusters survive the `SetToSeq` of the sub-instance because only their set matters; the capacity of a period is the sum over frozen and placed assets. |
| `ExactWithOneWindow` | `Spec => []OneWindowIsExact` | `Exact`: with one window over the horizon and proofs only, what is frozen is an optimal schedule from the first solve on, and pinning it leaves nothing better. |
| `RollingHorizonRefinesAnytime` | `Spec => RefinesAnytime` | Windows and repair stutter; the delivered schedule is feasible whenever a greedy one is, because the floor compares on the real instance. |
| `MainProofs!SeedsAreDistinct`, `ScriptSuccessIsComplete`, `SummariesAreFresh` | `MainSpec => []` of the runs' properties, for any grid file, seeds and number of faults | Seeds: the stride of an index and that of a resample are distinct primes and resamples are few. The other two: every study before the current one is settled (covered, left short in this very process, or summarised). |
| `ClaimsAreHonest`, `ExitCodesTellTheFile` | `MainSpec => []ProofsAreProofs`, `[]ExitCodeTellsTheFile` | What a phase of a command may hold: a proven value is one no greedy is below. `FileInv`: until it is opened the file is as this invocation found it, only a `solve` with an output file gets to opening it, and only one without ends otherwise with 0. |
| `OneSweepIsEnough` | `MainSpec => []OneSweepPropagates` | Edges are visited in topological order: those into a node before those out of it, so an edge visited is never disturbed later. |
| `IngestProofs!ResolutionRaisesNoFalseAlarm` | `NoFalseAlarm` for every bill of materials, cycles included | Whatever is true in the memo or on the stack has a witness: itself weak, or a reference to one that is true. |
| `VerdictsAreTransitive` | `Spec => []MemoIsTransitive` | `VInv`: the frames of the stack are a path without repetition; in a file without cycles every reference a frame has passed was refuted, and what is refuted reaches nothing weak. |
| `RatedAloneIsNoReason` | `Spec => []NoAssetRestsOnRatedAlone` | `VInv`: every true verdict reaches a component that is weak by itself (`Supported`), and what is weak has no rating above 0 or is of unknown type. |
| `EstatesAreInstances` | the estate is well formed from the first draft to the sized budget, its assets exactly the components kept | Field by field, per action. |
| `RelaxationFindsTightest` | `Spec => []RelaxationIsExact` | `Lowered`: after *k* passes a deadline is at most what any dependent within *k* edges asks for, and always one that some dependent asked for. A dependent can be reached over fewer edges than there are assets. A pass that changes nothing stops early, and then every edge is respected. |
| `LatestIsFeasible` | `Spec => []AlapIsFeasible` | The deadlines respect the edges by the above; the budget is at least the load of each deadline. |
| `ServiceProofs!TypeCorrect`, `PermitsAreConserved`, `RateIsBounded`, `RefusalsAreEarned`, `QuotaIsKept` | the safety properties of the service for any number of requests, clients, permits, threads and any quota | The queue of a client is the suffix of the times it was admitted, and all before that suffix are older than the window; times are sorted. |
| `WarningsAgreeWithWatchdog`, `DeploymentsNeverGoBack` | `ProfileSpec =>` `[]WarningAgreesWithWatchdog`, and the action property that is the safety half of `HeadIsServed` | `ProfileInv`: editions are ordered, process before deploying before waiting before main, at most one is being deployed; what is last on its way is the profile on main, and once nothing is on its way and nothing failed, that is the one that runs. |
| `SoloPlanIsTheChosenOne` | `PageSpec => []SoloPlanMatchesControls` | `SoloInv`: while no two requests have overlapped, the one in flight is for the pressed button, and at the slider's value unless the timer runs. |

### How the arguments are built

Costs and risks are sums over sets, which the community modules define by
recursive functions. `InstancesProofs` proves induction on the naturals
(`NatStep`) and on finite sets (`SubsetStep`) with the induction hypothesis
given as a *set* of what has the property, from the well-foundedness of strict
inclusion; a theorem can then be instantiated without a parameter that is an
operator. From it follow that such a recursion has a solution, that a sum does
not depend on the order in which its elements are taken, and what the components need of
sums: over a disjoint union, without one element, of pointwise larger terms.
Ranks, greatest and least elements and the facts about `Feasible` and `Risk`
rest on these.

### What the proofs say about the model

* `NoAssetRestsOnRatedAlone` was too strong as first stated: of a component of
  unknown type the code reads the name only, so one with a weak name is kept
  even if it carries a rating. The property now says which components count,
  and the files of `MCIngest` contain such a one.
* `RelaxationIsExact` needs no acyclicity; the docstring claims less than holds.
* `SoloPlanMatchesControls` needs `CapacityAssumption`: after a change of
  estate the page puts the slider on the estate's own capacity, and asked for
  again, that figure is lifted to the dearest asset. The two agree only because
  no estate has a smaller budget of its own.

**Assumptions.** Each module names its own, and TLC evaluates all of them on
the instances of the runs.

* Instances are well formed (`InstanceAssumption`, `RequestAssumption`), `None`
  is neither an integer nor a schedule, limits are positive, the set of
  requests is finite.
* `ComparisonAssumption`: the estates `/plan` compares are among the greedy's.
* `CapacityAssumption`: the budget of an estate pays for its dearest asset.
  `scenarios.py` takes this maximum, and so does `cbom.py` at tightness 1, the
  only one the route uses.
* `FilesAssumption`, `PolicyAssumption`: levels are integers or absent,
  algorithms refer to nothing, policies give numbers per kind of asset.
* `DrawAssumption`: what `generate.py` draws: positive costs, at least two
  periods, a tightness of at most 1.
* `ReplyAssumption`: a solver's own claims are true: a bound is below the value
  it comes with, and a proven optimum not above a feasible greedy.
* `RegulatoryAssumption`: the mark of an empty pending slot is no profile.
* Names and items of a grid file are distinct, at most 12 resamples.

Several theorems state no property of a run: `TypeCorrect`, `StructureIsKept`,
`SearchStaysFeasible`, `RateIsBounded` and `RefusalsAreEarned` are part of what
`RefinesCommitments`, `RefinesAnytime` and `QuotaIsExact` say;
`ExtractedIsFeasible`, `FeasibleIsEncoded`, `PinningIsExact`, `SkylineIsStrict`,
`CallKeepsContract`, `CallAnswersTheSweep` and `EstatesAreInstances` are about
operators or join two modules.

**Only model-checked.** Liveness, which is out of TLAPS's reach here:
`EveryRequestAnswered`, `StudiesComplete`, `ComesToRest`, `OverdueIsReported`
and the part of `HeadIsServed` that says a merged profile is served in the end.
That no machine gets stuck short of its end is checked as the absence of
deadlock. What `SelectSeq` and the folds compute from their data (`Estate`,
the rows of `Study`) is not reasoned about: `EstateFromJson` enters the proofs
about `Plan` through the assumption that it is an instance and through the
budget it is sized with.

## 7. Not modelled

* The search inside CP-SAT, HiGHS and CBC (external; their replies are free
  within what their contracts say).
* JSON and CSV syntax beyond "line, header or row". A torn CSV line is left
  out because a row is written and flushed in one small write.
* `experiment.bootstrap_ci` (resampling statistics over the gaps) and
  `expand_grid` (a product of lists); `viz.py` and the scripts that only call
  the components above with fixed parameters and print or plot; the file
  `cli.py gen` writes, what the subcommands print, and the parsing of arguments.
* Literal data: the mandated years of `regulatory.json`, the tables of algorithm
  names in `cbom.py`, the bundled estates. A component carries the outcome of
  the match, a policy of `Ingest` the deadlines by kind.
* The wording of the roadmap (`/plan`'s reasons and labels); markup and styles
  of the page.

## 8. Plan

Order of construction: `Instances`; `Greedy` with `Commitments` and its proofs;
`Formulation` with `Solver`; the callers of the solver (`Pareto`, `Lns`,
`RollingHorizon`) with `Anytime`; the service; the producers of instances
(`Ingest` over `Components`, `Resolver`, `Reconcile`; `Estate`; `Generator`);
what the user meets (`Plan`, `PlannerPage`, `Command`, `Study`, `Main`); the
life of the regulatory profile. All of these exist. What would come next, in
this order:

1. The page and the service as one composition: requests of `PlannerPage`
   refused by the quota of `ApiServer`.
2. `bootstrap_ci` on its boundaries (one gap, no gap).
3. Proofs: that `EstateFromJson` always gives an instance, which
   `RequestAssumption` now takes from the requests; the type correctness of the
   remaining machines.
