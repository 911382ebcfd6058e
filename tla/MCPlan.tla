------------------------------- MODULE MCPlan -------------------------------
(***************************************************************************)
(* Instances of three assets over three periods: a risky asset without a   *)
(* mandate competes with mandated ones for an uneven budget, with a        *)
(* dependency or a pair; capacities below, between and above the budgets.  *)
(* Samples of three usages over two or three quarters: efforts 1 to 7, all *)
(* due at the end, and one whose middle usage is exempt, with couplings    *)
(* through it and a deadline before a start; tightness from far too small  *)
(* to far above 1.                                                         *)
(***************************************************************************)
EXTENDS Plan

MCRiskModel == [form |-> "step", base |-> 100, scale |-> 1000]

Instance(x) ==
  [assets |-> 1 .. 3, T |-> 3, budget |-> [p \in 0 .. 2 |-> x.budget[p + 1]],
   crit |-> <<30, 10, 20>>, shelf |-> <<2, 1, 0>>, crqc |-> 2,
   cost |-> <<2, 1, 1>>, earliest |-> x.start, deadline |-> x.deadline,
   deps |-> x.deps, clusters |-> x.clusters, rm |-> MCRiskModel]

Uploads ==
  {[sample |-> None, tightness |-> None, instance |-> Instance(x), capacity |-> c] :
     x \in [start : {<<0, 0, 0>>, <<0, 1, 0>>},
            deadline : {<<None, 0, 1>>, <<None, 1, None>>, <<1, None, 2>>},
            budget : {<<2, 1, 2>>, <<1, 2, 1>>, <<3, 3, 3>>},
            deps : {{}, {<<3, 1>>}, {<<2, 1>>}}, clusters : {<<>>, <<<<2, 3>>>>, <<<<1, 2>>>>}],
     c \in {None, 1, 2, 3, 4}}

Usage(vulnerable, effort, mandated, earliest, deadline) ==
  [vulnerable |-> vulnerable, effort |-> effort, mandated |-> mandated,
   earliest |-> earliest, deadline |-> deadline,
   criticality |-> 1, exposed |-> FALSE, shelf |-> 2]

LooseFile(T, efforts) ==
  [usages |-> [n \in 1 .. 3 |-> Usage(TRUE, efforts[n], TRUE, 0, T - 1)],
   T |-> T, deps |-> <<>>, clusters |-> <<>>]

CoupledFile(middle) ==
  [usages |-> <<Usage(TRUE, 2, TRUE, 1, 0), Usage(middle, 1, FALSE, 0, 0),
                Usage(TRUE, 3, TRUE, 0, 1)>>,
   T |-> 2, deps |-> <<<<1, 2>>, <<2, 3>>>>, clusters |-> <<<<1, 3>>>>]

Samples ==
  {[sample |-> f, tightness |-> x, instance |-> None, capacity |-> c] :
     f \in {LooseFile(T, <<c1, c2, c3>>) : T \in {2, 3}, c1 \in {1, 7}, c2 \in 1 .. 4, c3 \in {1, 3}}
           \cup {CoupledFile(v) : v \in BOOLEAN},
     x \in {<<1, 5000>>, <<1, 2>>, <<11, 20>>, <<3, 2>>}, c \in {None, 4}}

MCRequests == Uploads \cup Samples

MCInstances == {Effective(q) : q \in {r \in MCRequests : Admitted(r)}}

=============================================================================
