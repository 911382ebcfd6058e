------------------------------ MODULE Command ------------------------------
(***************************************************************************)
(* cli.py, `solve` and `baselines`, with the choice of a MILP backend in   *)
(* solve_milp.py: invocations of the command on one machine, which write   *)
(* their roadmap to the same output file.  What is installed decides which *)
(* backends there are; an invocation ends with an exit code, in a          *)
(* traceback, or is killed.                                                *)
(*                                                                         *)
(* A reply is a status and an objective, None without a schedule; the      *)
(* greedies are the risk of each that is feasible.  Printing is left out   *)
(* but for the table of baselines and its note.                            *)
(***************************************************************************)
EXTENDS Integers, FiniteSets

CONSTANTS
  Machines,    \* [win, wrappers, modules]: platform, what pulp.listSolvers
               \* reports, the optional modules that can be imported
  Requests,    \* [cmd, solver, input, pareto, out]
  CpsatReplies, \* [status, objective, bound], of Solver's kinds
  PulpOutcomes, \* [sol, term, value]: sol_status, status, objective
  GreedyRisks, \* sets of feasible greedies' risks
  None, Cut,
  MaxRuns      \* bound on the number of invocations

VARIABLES
  machine,    \* never written
  request,    \* args of the current invocation
  pc,         \* "idle", "load", "backend", "solve", "compare", "pareto",
              \* "save", "dump", "end", "exited", "raised", "killed"
  result, frontier,   \* reply of the solver; whether a frontier was traced
  table,      \* what `baselines` printed
  code,       \* exit code
  file,       \* the output file: None, Cut (opened, not written) or a roadmap
  found,      \* history: the file as this invocation found it
  cutShort,   \* history: this invocation was stopped in the middle of its write
  runs        \* history: invocations so far

history == <<found, cutShort, runs>>

vars == <<machine, request, pc, result, frontier, table, code, file, history>>

-----------------------------------------------------------------------------
(* solve_milp.py: backends *)

\* _probe_backends: the in-process class, or else the executable's wrapper
Backends(m) ==
  {b \in {"cbc", "highs", "gurobi"} :
     CASE b = "cbc"    -> "PULP_CBC_CMD" \in m.wrappers
       [] b = "highs"  -> {"HiGHS", "HiGHS_CMD"} \cap m.wrappers # {}
       [] b = "gurobi" -> {"GUROBI", "GUROBI_CMD"} \cap m.wrappers # {}}

\* _make_solver raises for the others
Dispatchable(m, b) == b \in Backends(m) /\ ~(b = "cbc" /\ m.win)

\* mutant: an incumbent counts as the optimum
Normalize_Incumbent(o) ==
  CASE o.sol \in {"optimal", "integer feasible"} -> "OPTIMAL"
    [] o.sol = "infeasible" -> "INFEASIBLE"
    [] o.sol = "none" -> IF o.term = "infeasible" THEN "INFEASIBLE" ELSE "UNKNOWN"
    [] o.sol = "error" -> "MODEL_INVALID"

\* _normalize_status, and the solver that crashed
Normalize(o) ==
  CASE o.sol = "optimal" -> "OPTIMAL"
    [] o.sol = "integer feasible" -> "FEASIBLE"
    [] o.sol = "infeasible" -> "INFEASIBLE"
    [] o.sol = "none" -> IF o.term = "infeasible" THEN "INFEASIBLE" ELSE "UNKNOWN"
    [] o.sol = "error" -> "MODEL_INVALID"

MilpReply(o) ==
  LET s == Normalize(o)
  IN  [status |-> s,
       objective |-> IF s \in {"OPTIMAL", "FEASIBLE"} THEN o.value ELSE None,
       bound |-> IF s = "OPTIMAL" THEN o.value ELSE None]

-----------------------------------------------------------------------------
Init ==
  /\ machine \in Machines
  /\ request = None /\ pc = "idle"
  /\ result = None /\ frontier = FALSE /\ table = None
  /\ code = None /\ file = None
  /\ found = None /\ cutShort = FALSE /\ runs = 0

Invoke ==
  /\ pc \in {"idle", "exited", "raised", "killed"} /\ runs < MaxRuns
  /\ runs' = runs + 1
  /\ request' \in Requests
  /\ pc' = "load"
  /\ result' = None /\ frontier' = FALSE /\ table' = None
  /\ code' = None /\ found' = file /\ cutShort' = FALSE
  /\ UNCHANGED <<machine, file>>

outcome == <<result, frontier, table>>

Exit(c) == pc' = "exited" /\ code' = c
Goto(p) == pc' = p /\ UNCHANGED code
Raise == pc' = "raised" /\ code' = 1

\* _load_instance_for_solve; of the errors of a file only some are handled
Load ==
  /\ pc = "load"
  /\ IF request.input = "misshapen" THEN Raise
     ELSE IF request.input = "unreadable"
             \/ (request.input = "cbom" /\ "cbom" \notin machine.modules)
          THEN Exit(2)
          ELSE Goto("backend")
  /\ UNCHANGED <<machine, request, outcome, file, history>>

\* a MILP solver needs its module
PickBackend ==
  /\ pc = "backend"
  /\ IF request.cmd = "solve" /\ request.solver # "cpsat"
        /\ "solve_milp" \notin machine.modules
     THEN Exit(2)
     ELSE Goto("solve")
  /\ UNCHANGED <<machine, request, result, frontier, table, file, history>>

Solved == pc' = (IF request.cmd = "solve" THEN "pareto" ELSE "compare")

SolveCpsat ==
  /\ pc = "solve" /\ request.solver = "cpsat"
  /\ result' \in CpsatReplies
  /\ Solved
  /\ UNCHANGED <<machine, request, frontier, table, code, file, history>>

\* solve_milp, called outside any handler
SolveMilp ==
  /\ pc = "solve" /\ request.solver # "cpsat"
  /\ IF ~Dispatchable(machine, request.solver)
     THEN Raise /\ UNCHANGED result
     ELSE /\ \E o \in PulpOutcomes : result' = MilpReply(o)
          /\ Solved /\ UNCHANGED code
  /\ UNCHANGED <<machine, request, frontier, table, file, history>>

Usable(r) == r.objective # None

\* the numerator of the gap a greedy's row shows
Gap(risk) == IF result.status = "OPTIMAL" THEN risk - result.objective ELSE None

\* cmd_baselines: the table, and the note under it
Compare ==
  /\ pc = "compare"
  /\ \E gs \in GreedyRisks :
       table' = [first |-> IF Usable(result) /\ result.status # "OPTIMAL"
                           THEN "optimal*" ELSE "optimal",
                 gaps  |-> {Gap(g) : g \in gs} \ {None},
                 note  |-> result.status # "OPTIMAL"]
  /\ Exit(0)
  /\ UNCHANGED <<machine, request, result, frontier, file, history>>

Trace ==
  /\ pc = "pareto"
  /\ IF request.pareto /\ "pareto" \notin machine.modules
     THEN Exit(2) /\ UNCHANGED frontier
     ELSE frontier' = request.pareto /\ Goto(IF request.out THEN "save" ELSE "end")
  /\ UNCHANGED <<machine, request, result, table, file, history>>

\* mutant: the file is opened before the frontier is traced
OpenFile_Early ==
  /\ pc \in {"pareto", "save"} /\ request.out /\ file # Cut
  /\ file' = Cut
  /\ Goto(IF pc = "pareto" THEN "pareto" ELSE "dump")
  /\ UNCHANGED <<machine, request, outcome, history>>

\* open for writing truncates, unless the path cannot be made or opened
OpenFile ==
  /\ pc = "save"
  /\ \/ file' = Cut /\ Goto("dump")
     \/ file' = file /\ Raise
  /\ UNCHANGED <<machine, request, outcome, history>>

Roadmap == [solver |-> request.solver, status |-> result.status,
            summary |-> Usable(result), bound |-> result.bound,
            frontier |-> frontier]

\* json.dump, or an OSError on the way: no room on the disk
Dump ==
  /\ pc = "dump"
  /\ \/ file' = Roadmap /\ cutShort' = FALSE /\ Exit(0)
     \/ file' = file /\ cutShort' = TRUE /\ Raise
  /\ UNCHANGED <<machine, request, outcome, found, runs>>

End ==
  /\ pc = "end"
  /\ Exit(0)
  /\ UNCHANGED <<machine, request, outcome, file, history>>

Kill ==
  /\ pc \in {"load", "backend", "solve", "compare", "pareto", "save", "dump", "end"}
  /\ pc' = "killed"
  /\ cutShort' = (pc = "dump")
  /\ UNCHANGED <<machine, request, outcome, code, file, found, runs>>

Terminated ==
  /\ pc \in {"exited", "raised", "killed"} /\ runs = MaxRuns
  /\ UNCHANGED vars

Next ==
  \/ Invoke \/ Load \/ PickBackend \/ SolveCpsat \/ SolveMilp
  \/ Compare \/ Trace \/ OpenFile \/ Dump \/ End \/ Kill \/ Terminated

Spec == Init /\ [][Next]_vars

-----------------------------------------------------------------------------
(* Properties *)

(***************************************************************************)
(* solve_milp.py:34-43, result.py:33-45 and cli.py:354-356, over both      *)
(* families of solvers and all of their terminations: a reply that claims  *)
(* the optimum carries a bound equal to its objective, which no feasible   *)
(* greedy beats, so that every gap in the table is one; a bound without    *)
(* that claim stands beside a schedule and not above its value.            *)
(***************************************************************************)
ProofsAreProofs ==
  /\ result # None =>
       /\ result.status = "OPTIMAL" =>
            /\ result.bound = result.objective
            /\ \A g \in UNION GreedyRisks : g >= result.objective
       /\ result.status # "OPTIMAL" /\ result.bound # None =>
            Usable(result) /\ result.bound <= result.objective
  /\ table # None => \A g \in table.gaps : g >= 0

(***************************************************************************)
(* cli.py:268-345, 614-621: the exit code tells what became of the output  *)
(* file.  After 0 it holds the roadmap of this very invocation, if one was *)
(* asked for; after 2, in the frontier after a long solve too, it is as it *)
(* was found.  A traceback or a kill leaves it as found as well, unless it *)
(* fell between the opening and the end of the write: then the earlier     *)
(* roadmap is gone.                                                        *)
(***************************************************************************)
Written == code = 0 /\ request.cmd = "solve" /\ request.out

ExitCodeTellsTheFile ==
  request # None =>
    IF pc = "exited"
    THEN file = IF Written THEN Roadmap ELSE found
    ELSE file = IF pc = "dump" \/ cutShort THEN Cut ELSE found

=============================================================================
