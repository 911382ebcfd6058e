-------------------------- MODULE MCRollingHorizon --------------------------
(***************************************************************************)
(* Small instances for RollingHorizon: three assets over four periods, so  *)
(* that two-period windows overlap, freeze and defer; starts inside and    *)
(* beyond a window, a deadline, scarce capacity, and a coupling.           *)
(***************************************************************************)
EXTENDS RollingHorizon

StepModel == [form |-> "step", base |-> 100, scale |-> 1000]

MCInstances ==
  {[assets |-> 1 .. 3, T |-> 4, budget |-> [p \in 0 .. 3 |-> x.budget[p + 1]],
    crit |-> <<20, 10, 30>>, shelf |-> <<1, 2, 0>>, crqc |-> 3,
    cost |-> <<1, 2, 1>>, earliest |-> x.start, deadline |-> x.deadline,
    deps |-> x.deps, clusters |-> x.clusters, rm |-> StepModel] :
   x \in [start : {<<0, 0, 0>>, <<2, 0, 1>>, <<0, 4, 3>>},
          deadline : {<<None, None, None>>, <<None, 2, 3>>, <<5, None, 1>>},
          budget : {<<1, 2, 1, 1>>},
          deps : {{}, {<<1, 3>>}}, clusters : {<<>>, <<<<1, 2>>>>}]}

MCTunings == {<<2, 1>>, <<2, 2>>, <<0, 0>>, <<5, 3>>, <<1, 2>>}

=============================================================================
