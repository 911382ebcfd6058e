--------------------------- MODULE MCFormulation ---------------------------
(***************************************************************************)
(* Small instances for Formulation: three assets over three periods.  The  *)
(* windows overlap partly or not at all, clustered pairs included, so that *)
(* the forced-zero variables matter; one start lies beyond the horizon.    *)
(***************************************************************************)
EXTENDS Formulation

MCCosts == {<<2, 1, 1>>, <<1, 2, 0>>}
MCStarts == {<<0, 0, 0>>, <<1, 0, 0>>, <<0, 3, 1>>}
MCDeadlines == {<<None, None, None>>, <<None, 0, 4>>, <<0, None, 1>>}
MCBudgets == {<<2, 2, 2>>, <<0, 4, 1>>}
MCDeps == {{}, {<<1, 2>>}, {<<1, 3>>, <<2, 3>>}}
MCClusters == {<<>>, <<<<1, 2>>>>, <<<<1, 3>>>>}
MCModels == {[form |-> f, base |-> 100, scale |-> 1000] : f \in {"step", "linear"}}

MCInstances ==
  {[assets |-> 1 .. 3, T |-> 3, budget |-> [p \in 0 .. 2 |-> x.budget[p + 1]],
    crit |-> <<20, 10, 30>>, shelf |-> <<1, 3, 0>>, crqc |-> 3,
    cost |-> x.cost, earliest |-> x.start, deadline |-> x.deadline,
    deps |-> x.deps, clusters |-> x.clusters, rm |-> x.rm] :
   x \in [cost : MCCosts, start : MCStarts, deadline : MCDeadlines,
          budget : MCBudgets, deps : MCDeps, clusters : MCClusters,
          rm : MCModels]}

MCEps == {None, 2}

=============================================================================
