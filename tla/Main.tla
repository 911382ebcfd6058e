-------------------------------- MODULE Main --------------------------------
(***************************************************************************)
(* cli.py, main: the command line of pqcsched, which parses a subcommand   *)
(* and hands the process over to it.  `study` is Study, with which this    *)
(* module shares its variables; `solve` and `baselines` are Command, and   *)
(* `gen` draws an estate with Generator and writes it out.  A session      *)
(* uses one of them; the others rest in a state in which they have ended.  *)
(***************************************************************************)
EXTENDS Study

CONSTANTS
  Machines, Requests, CpsatReplies, PulpOutcomes, GreedyRisks, Cut, MaxRuns,
  N, T, Costs, Tightness, Pairs, Pressures

\* a reply claims a bound only below a schedule's value, and an optimum only
\* if it is one; values are integers, fixed-point risks
ASSUME ReplyAssumption ==
  /\ GreedyRisks \subseteq SUBSET Int
  /\ \A r \in CpsatReplies :
       /\ {r.objective, r.bound} \subseteq Int \cup {None}
       /\ r.objective # None <=> r.status \in {"OPTIMAL", "FEASIBLE"}
       /\ r.bound # None => r.objective # None /\ r.bound <= r.objective
       /\ r.status = "OPTIMAL" =>
            /\ r.bound = r.objective
            /\ \A g \in UNION GreedyRisks : g >= r.objective
  /\ \A o \in PulpOutcomes :
       /\ o.sol \in {"optimal", "integer feasible", "infeasible", "none", "error"}
       /\ o.sol = "optimal" =>
            o.value \in Int /\ \A g \in UNION GreedyRisks : g >= o.value

ASSUME DrawAssumption ==
  /\ N \in Nat \ {0} /\ T \in Nat /\ T >= 2
  /\ Costs \subseteq [1 .. N -> Nat \ {0}]
  /\ Tightness \subseteq (Nat \ {0}) \X (Nat \ {0})
  /\ \A x \in Tightness : x[1] <= x[2]
  /\ Pairs \subseteq Nat /\ Pressures \subseteq (0 .. N) \X Nat

VARIABLES
  machine, request, solvePc, result, frontier, table, solveCode, file, found,
  cutShort, runs,                                        \* Command
  order, deps, earliest, deadline, clusters, pool, left, mandated, pressure,
  cost, budget, genPc, genPos                            \* Generator

solveVars == <<machine, request, solvePc, result, frontier, table, solveCode,
               file, found, cutShort, runs>>
genVars == <<order, deps, earliest, deadline, clusters, pool, left, mandated,
             pressure, cost, budget, genPc, genPos>>

Solve == INSTANCE Command WITH pc <- solvePc, code <- solveCode
Gen == INSTANCE Generator WITH pc <- genPc, pos <- genPos

-----------------------------------------------------------------------------
(* the subcommands that were not asked for *)

NoStudy ==
  /\ entries = <<>> /\ header = <<>> /\ rows = <<>> /\ summary = <<>>
  /\ front = "cli" /\ pc = "exited" /\ i = 1 /\ pos = 1 /\ skip = {} /\ code = 0
  /\ short = {} /\ barren = {} /\ faults = 0

NoSolve ==
  /\ machine = None /\ request = None /\ solvePc = "exited"
  /\ result = None /\ frontier = FALSE /\ table = None /\ solveCode = 0
  /\ file = None /\ found = None /\ cutShort = FALSE /\ runs = MaxRuns

NoGen ==
  /\ order = <<>> /\ deps = {} /\ earliest = <<>> /\ deadline = <<>>
  /\ clusters = {} /\ pool = {} /\ left = 0 /\ mandated = {} /\ pressure = None
  /\ cost = <<>> /\ budget = 0 /\ genPc = "done" /\ genPos = 1

MainInit ==
  \/ Init /\ NoSolve /\ NoGen
  \/ Solve!Init /\ NoStudy /\ NoGen
  \/ Gen!Init /\ NoStudy /\ NoSolve

StudyStep == Next /\ UNCHANGED <<solveVars, genVars>>
SolveStep == Solve!Next /\ UNCHANGED <<vars, genVars>>
GenStep == Gen!Next /\ UNCHANGED <<vars, solveVars>>

MainNext == StudyStep \/ SolveStep \/ GenStep

MainSpec ==
  /\ MainInit
  /\ [][MainNext]_<<vars, solveVars, genVars>>
  /\ WF_vars(Launch) /\ WF_vars(Works)

-----------------------------------------------------------------------------
(* Properties of the instances; those of Study are stated there *)

(***************************************************************************)
(* solve_milp.py:34-43, result.py:33-45, cli.py:354-356: what is called    *)
(* optimal is, for `solve` and in the table of `baselines` (Command).      *)
(***************************************************************************)
ProofsAreProofs == Solve!ProofsAreProofs

(***************************************************************************)
(* cli.py:268-345: the exit code of `solve` tells what became of the       *)
(* output file; a failure spoils it only inside the write (Command).       *)
(***************************************************************************)
ExitCodeTellsTheFile == Solve!ExitCodeTellsTheFile

(***************************************************************************)
(* generate.py:134-135: one sweep makes the starts of an estate that `gen` *)
(* draws follow its dependencies (Generator).                              *)
(***************************************************************************)
OneSweepPropagates == Gen!OneSweepPropagates

=============================================================================
