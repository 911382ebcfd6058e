------------------------------- MODULE MCMain -------------------------------
(***************************************************************************)
(* Study: two studies, of two instances of one cell and of one instance;   *)
(* in a second grid file the last entry is malformed.  An instance is      *)
(* proven with a feasible or an infeasible greedy, found but not proven,   *)
(* or timed out without a schedule.                                        *)
(* Command: a Windows and a POSIX machine with PuLP's CBC, with or without *)
(* HiGHS (in process or as an executable) and with or without the optional *)
(* modules, over two invocations.                                          *)
(* Generator: three assets over four periods, every order and dependency   *)
(* graph; a pair can be drawn, rejected, or missing from the pool.         *)
(***************************************************************************)
EXTENDS Main

MCGridFiles ==
  LET gap   == [name |-> "gap", ok |-> TRUE, items |-> <<<<"c", 0>>, <<"c", 1>>>>]
      scale == [name |-> "scale", ok |-> TRUE, items |-> <<<<"d", 0>>>>]
      typo  == [name |-> "typo", ok |-> FALSE, items |-> <<>>]
  IN  {<<gap, scale>>, <<scale, typo>>}

MCOutcomes ==
  {[status |-> "OPTIMAL", opt |-> 10, naive |-> 12, feasible |-> TRUE],
   [status |-> "OPTIMAL", opt |-> 10, naive |-> 8, feasible |-> FALSE],
   [status |-> "FEASIBLE", opt |-> 12, naive |-> 11, feasible |-> TRUE],
   [status |-> "UNKNOWN", opt |-> None, naive |-> 11, feasible |-> FALSE]}

MCMachines ==
  [win : BOOLEAN,
   wrappers : {{"PULP_CBC_CMD"}, {"PULP_CBC_CMD", "HiGHS"}, {"HiGHS_CMD", "GUROBI"}},
   modules : {{"solve_milp", "cbom", "pareto"}, {"solve_milp"}, {"cbom", "pareto"}}]

MCRequests ==
  [cmd : {"solve"}, solver : {"cpsat", "highs", "cbc"},
   input : {"instance", "cbom"}, pareto : BOOLEAN, out : BOOLEAN]
  \cup {[cmd |-> "solve", solver |-> "cpsat", input |-> x, pareto |-> FALSE, out |-> TRUE] :
          x \in {"unreadable", "misshapen"}}
  \cup {[cmd |-> "baselines", solver |-> "cpsat", input |-> "instance",
         pareto |-> FALSE, out |-> FALSE]}

MCCpsatReplies ==
  {[status |-> "OPTIMAL", objective |-> 10, bound |-> 10],
   [status |-> "FEASIBLE", objective |-> 13, bound |-> 9],
   [status |-> "INFEASIBLE", objective |-> None, bound |-> None],
   [status |-> "UNKNOWN", objective |-> None, bound |-> None]}

MCPulpOutcomes ==
  {[sol |-> "optimal", term |-> "optimal", value |-> 10],
   [sol |-> "integer feasible", term |-> "optimal", value |-> 13],
   [sol |-> "none", term |-> "infeasible", value |-> None],
   [sol |-> "none", term |-> "not solved", value |-> None],
   [sol |-> "infeasible", term |-> "infeasible", value |-> None],
   [sol |-> "error", term |-> "not solved", value |-> None]}

MCGreedyRisks == {{}, {10, 12}, {12}}

MCCosts == {<<1, 1, 1>>, <<1, 4, 2>>}
\* deadline_pressure of about 0.1, 0.6 and 1
MCPressures == {<<1, 4>>, <<2, 2>>, <<2, 1>>}
MCTightness == {<<1, 1>>, <<2, 3>>}

=============================================================================
