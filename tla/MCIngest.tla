------------------------------ MODULE MCIngest ------------------------------
(***************************************************************************)
(* Files of a protocol (1), a certificate (2), a key (3) and an algorithm  *)
(* (4), in both orders: shared and dangling (5) references, and reference  *)
(* cycles; the certificate a CA's or a leaf; in the place of 4 also a      *)
(* rated component of unknown type with a weak name.  An algorithm is      *)
(* rated, known by its primitive, or by its name only.  Dependency         *)
(* sections with chains, a fork, a join, a dangling end and a cycle, in    *)
(* orders the relaxation needs several passes for.  Policies with          *)
(* deadlines outside the horizon and before the signature delay.           *)
(***************************************************************************)
EXTENDS Ingest

Component(type, refs, level, prim, hint, ca) ==
  [type |-> type, refs |-> refs, level |-> level, prim |-> prim, hint |-> hint,
   ca |-> ca]

Algorithm(level, prim, hint) ==
  Component("algorithm", <<>>, level, prim, hint, FALSE)

\* the certificate's subject, the algorithm
Roles ==
  {<<TRUE, Algorithm(0, "signature", TRUE)>>,
   <<FALSE, Algorithm(None, "key-agree", FALSE)>>,
   <<TRUE, Algorithm(None, None, TRUE)>>,
   <<FALSE, Algorithm(1, "signature", TRUE)>>,
   <<TRUE, Component("unknown", <<>>, 1, None, TRUE, FALSE)>>}

MCFiles ==
  {[order |-> order,
    comp |-> <<Component("protocol", r1, None, None, FALSE, FALSE),
               Component("certificate", r2, None, None, FALSE, role[1]),
               Component("related-crypto-material", r3, None, None, FALSE, FALSE),
               role[2]>>] :
     order \in {<<1, 2, 3, 4>>, <<4, 3, 2, 1>>},
     r1 \in {<<>>, <<4>>, <<2, 4>>, <<5, 2>>, <<3, 2>>},
     r2 \in {<<>>, <<1>>, <<3, 1>>, <<4, 3>>, <<1, 4>>},
     r3 \in {<<>>, <<4>>, <<1>>, <<2>>}, role \in Roles}

MCDependsOn ==
  {<<>>,
   <<<<1, 2>>, <<2, 3>>, <<3, 4>>>>,
   <<<<2, 1>>, <<3, 2>>, <<4, 3>>, <<2, 1>>>>,
   <<<<1, 3>>, <<2, 3>>, <<9, 1>>, <<4, 1>>>>,
   <<<<1, 2>>, <<2, 3>>, <<3, 1>>>>}

ByKind(p, c, l, k, a) ==
  [protocol |-> p, ca |-> c, leaf |-> l, key |-> k, algorithm |-> a, default |-> a]

Policy(due, delay, tightness) ==
  [crit |-> ByKind(20, 15, 10, 10, 5), shelf |-> ByKind(1, 2, 0, 2, 2),
   cost |-> ByKind(3, 3, 1, 2, 1),
   due |-> due, delay |-> delay, tightness |-> tightness, floor |-> 2]

MCPolicies ==
  {Policy(ByKind(1, 1, 2, None, None), 1, <<1, 1>>),
   Policy(ByKind(2, 0, 1, 9, None), 0, <<1, 2>>),
   Policy(ByKind(None, 2, 0, 1, 2), 1, <<1, 1>>),
   Policy(ByKind(0, 1, None, 2, 1), 9, <<3, 2>>)}

MCRiskModel == [form |-> "step", base |-> 100, scale |-> 1000]

=============================================================================
