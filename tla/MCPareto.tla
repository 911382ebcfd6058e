------------------------------ MODULE MCPareto ------------------------------
(***************************************************************************)
(* Small instances for Pareto: three assets over two periods.  Costs and   *)
(* criticalities are unequal, so that the trade-off has several steps; one *)
(* criticality is small enough for its residual weight to be rounded to    *)
(* zero; some instances are infeasible, some leave nothing optional.       *)
(***************************************************************************)
EXTENDS Pareto

StepModel == [form |-> "step", base |-> 100, scale |-> 1000]

MCInstances ==
  {[assets |-> 1 .. 3, T |-> 2, budget |-> [p \in 0 .. 1 |-> x.budget[p + 1]],
    crit |-> <<10, x.crit, 20>>, shelf |-> <<2, 0, 1>>, crqc |-> 2,
    cost |-> <<1, 2, 3>>, earliest |-> <<0, 0, x.start>>,
    deadline |-> x.deadline, deps |-> x.deps, clusters |-> <<>>,
    rm |-> StepModel] :
   x \in [crit : {3, 30}, start : {0, 1}, budget : {<<6, 6>>, <<1, 3>>},
          deadline : {<<None, None, None>>, <<None, 1, None>>, <<0, 0, 1>>},
          deps : {{}, {<<1, 2>>}}]}

MCOfferSets == {Offers(I) : I \in MCInstances}

=============================================================================
