------------------------------- MODULE MCLns -------------------------------
(***************************************************************************)
(* Small instances for Lns: three assets over two periods with scarce      *)
(* capacity, so that single-asset neighbourhoods have local optima; one    *)
(* start lies beyond the horizon, one deadline is mandatory.               *)
(***************************************************************************)
EXTENDS Lns

StepModel == [form |-> "step", base |-> 100, scale |-> 1000]

MCInstances ==
  {[assets |-> 1 .. 3, T |-> 2, budget |-> [p \in 0 .. 1 |-> x.budget[p + 1]],
    crit |-> <<20, 10, 30>>, shelf |-> <<1, 2, 0>>, crqc |-> 2,
    cost |-> x.cost, earliest |-> x.start, deadline |-> x.deadline,
    deps |-> x.deps, clusters |-> x.clusters, rm |-> StepModel] :
   x \in [cost : {<<1, 2, 1>>}, start : {<<0, 0, 0>>, <<0, 2, 0>>},
          deadline : {<<None, None, None>>, <<1, None, None>>},
          budget : {<<2, 1>>, <<2, 2>>},
          deps : {{}, {<<1, 3>>}}, clusters : {<<>>, <<<<1, 3>>>>}]}

=============================================================================
