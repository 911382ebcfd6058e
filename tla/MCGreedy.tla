------------------------------ MODULE MCGreedy ------------------------------
(***************************************************************************)
(* Small instances for Greedy: three assets over three periods, with every *)
(* combination of the costs, starts, deadlines, budgets, dependencies and  *)
(* clusters below.  The criticalities and shelf lives make the weights of  *)
(* the three assets cross the CRQC period at different times, so that the  *)
(* rankings disagree.                                                      *)
(***************************************************************************)
EXTENDS Greedy

StepModel == [form |-> "step", base |-> 100, scale |-> 1000]

MCCosts == {<<2, 1, 1>>, <<1, 1, 2>>, <<1, 2, 0>>}
MCStarts == {<<0, 0, 0>>, <<1, 0, 0>>, <<2, 0, 1>>}
MCDeadlines == {<<None, 0, 1>>, <<0, None, 2>>}
MCBudgets == {<<2, 2, 2>>, <<5, 5, 5>>, <<0, 3, 1>>}
MCDeps == {{}, {<<1, 2>>}, {<<1, 2>>, <<2, 3>>}, {<<1, 3>>, <<2, 3>>}}
MCClusters == {<<>>, <<<<1, 2>>>>, <<<<1, 3>>>>, <<<<2, 1>>, <<2, 3>>>>}

MCInstances ==
  {[assets |-> 1 .. 3, T |-> 3, budget |-> [p \in 0 .. 2 |-> x.budget[p + 1]],
    crit |-> <<20, 10, 30>>, shelf |-> <<1, 3, 0>>, crqc |-> 2,
    cost |-> x.cost, earliest |-> x.start, deadline |-> x.deadline,
    deps |-> x.deps, clusters |-> x.clusters, rm |-> StepModel] :
   x \in [cost : MCCosts, start : MCStarts, deadline : MCDeadlines,
          budget : MCBudgets, deps : MCDeps, clusters : MCClusters]}

=============================================================================
