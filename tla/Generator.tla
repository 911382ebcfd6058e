----------------------------- MODULE Generator -----------------------------
(***************************************************************************)
(* generate.py: the windows and couplings of a synthetic estate, in the    *)
(* order the generator draws and adjusts them.  Random draws are choices;  *)
(* the attributes nothing else depends on (criticality, shelf life,        *)
(* overhead) are left out, and N is small enough for the cap on in-degrees *)
(* (4 by default) not to bind.                                             *)
(***************************************************************************)
EXTENDS Integers, Sequences, FiniteSets, FiniteSetsExt, SequencesExt

CONSTANTS
  N,           \* size
  T,
  Costs,       \* the cost functions that may be drawn, on 1 .. N
  Tightness,   \* pairs <<num, den>>: budget_tightness, at most 1
  Pairs,       \* values of round(cluster_frac * n / 2)
  Pressures    \* pairs <<round(mandated_frac * n), lo_base>>: both follow
               \* from deadline_pressure

NoDeadline == -1

Assets == 1 .. N

VARIABLES
  order,      \* random topological order, a permutation of the assets
  deps,       \* edges <<j, i>>, forward in order
  earliest, deadline,
  clusters,   \* set of pairs
  pool,       \* assets not yet drawn for a pair
  left,       \* pairs, then mandates, still to be drawn
  mandated,   \* assets drawn for a mandate so far
  pressure,   \* never written
  cost, budget,
  pc, pos

vars == <<order, deps, earliest, deadline, clusters, pool, left, mandated,
          pressure, cost, budget, pc, pos>>

Forward(o) ==
  {<<o[p[1]], o[p[2]]>> : p \in {q \in Assets \X Assets : q[1] < q[2]}}

\* rng.integers(1, max(2, T // 4)), for the assets with late support
Delays == {0} \cup (1 .. Max({2, T \div 4}) - 1)

-----------------------------------------------------------------------------
Init ==
  /\ order \in [Assets -> Assets] /\ IsInjective(order)
  /\ deps \in SUBSET Forward(order)
  /\ earliest \in [Assets -> Delays]
  /\ deadline = [a \in Assets |-> NoDeadline]
  /\ clusters = {}
  /\ pool = Assets
  /\ left \in Pairs
  /\ mandated = {}
  /\ pressure \in Pressures
  /\ cost \in Costs
  /\ budget = 0
  /\ pc = "propagate" /\ pos = 1

\* mutant: in the order of the ids
Propagate_ById ==
  /\ pc = "propagate" /\ pos <= N
  /\ earliest' = [w \in Assets |->
       IF <<pos, w>> \in deps
       THEN Max({earliest[w], earliest[pos]}) ELSE earliest[w]]
  /\ pos' = pos + 1
  /\ UNCHANGED <<order, deps, deadline, clusters, pool, left, mandated, pressure,
                 cost, budget, pc>>

\* the successors of the next asset in topological order
Propagate ==
  /\ pc = "propagate" /\ pos <= N
  /\ earliest' = [w \in Assets |->
       IF <<order[pos], w>> \in deps
       THEN Max({earliest[w], earliest[order[pos]]}) ELSE earliest[w]]
  /\ pos' = pos + 1
  /\ UNCHANGED <<order, deps, deadline, clusters, pool, left, mandated, pressure,
                 cost, budget, pc>>

Propagated ==
  /\ pc = "propagate" /\ pos > N
  /\ pc' = "pair"
  /\ UNCHANGED <<order, deps, earliest, deadline, clusters, pool, left,
                 mandated, pressure, cost, budget, pos>>

\* Two assets leave the pool; unless one depends on the other they become a
\* cluster and both start when the later one can.
DrawPair ==
  /\ pc = "pair" /\ left > 0
  /\ \E a \in pool, b \in pool :
       /\ a # b
       /\ pool' = pool \ {a, b}
       /\ IF <<a, b>> \in deps \/ <<b, a>> \in deps
          THEN UNCHANGED <<earliest, clusters, left>>
          ELSE /\ earliest' = [earliest EXCEPT
                    ![a] = Max({earliest[a], earliest[b]}),
                    ![b] = Max({earliest[a], earliest[b]})]
               /\ clusters' = clusters \cup {<<a, b>>}
               /\ left' = left - 1
  /\ UNCHANGED <<order, deps, deadline, mandated, pressure, cost, budget, pc, pos>>

Paired ==
  /\ pc = "pair"
  /\ left = 0 \/ Cardinality(pool) < 2
  /\ left' = pressure[1]
  /\ pc' = "mandate"
  /\ UNCHANGED <<order, deps, earliest, deadline, clusters, pool, mandated,
                 pressure, cost, budget, pos>>

\* the first period a mandate on k may fall in
Due(k) == Min({T - 1, Max({earliest[k] + 1, pressure[2], 1})})

Mandate ==
  /\ pc = "mandate" /\ left > 0
  /\ \E k \in Assets \ mandated :
       /\ \E d \in Due(k) .. T - 1 : deadline' = [deadline EXCEPT ![k] = d]
       /\ mandated' = mandated \cup {k}
  /\ left' = left - 1
  /\ UNCHANGED <<order, deps, earliest, clusters, pool, pressure, cost, budget, pc,
                 pos>>

\* both members get the tighter of their deadlines
Shared(a) ==
  LET members == {a} \cup UNION {{c[1], c[2]} : c \in
                    {x \in clusters : a \in {x[1], x[2]}}}
      ds == {deadline[m] : m \in members} \ {NoDeadline}
  IN  IF ds = {} THEN NoDeadline ELSE Min(ds)

ShareDeadlines ==
  /\ pc = "mandate" /\ left = 0
  /\ deadline' = [a \in Assets |-> Shared(a)]
  /\ pc' = "budget"
  /\ UNCHANGED <<order, deps, earliest, clusters, pool, left, mandated, pressure,
                 cost, budget, pos>>

CeilDiv(x, y) == (x + y - 1) \div y

Total == FoldFunctionOnSet(+, 0, cost, Assets)

\* the capacity of each period, at least the largest single cost
PerPeriod(tightness) ==
  Max({CeilDiv(CeilDiv(Total * tightness[2], tightness[1]), T)}
      \cup {cost[a] : a \in Assets})

SizeBudget ==
  /\ pc = "budget"
  /\ \E x \in Tightness : budget' = PerPeriod(x)
  /\ pc' = "done"
  /\ UNCHANGED <<order, deps, earliest, deadline, clusters, pool, left,
                 mandated, pressure, cost, pos>>

Terminated == pc = "done" /\ UNCHANGED vars

Next ==
  \/ Propagate \/ Propagated
  \/ DrawPair \/ Paired
  \/ Mandate \/ ShareDeadlines
  \/ SizeBudget
  \/ Terminated

Spec == Init /\ [][Next]_vars

-----------------------------------------------------------------------------
(* Properties *)

(***************************************************************************)
(* generate.py:134-135: one sweep in topological order is enough for every *)
(* successor to start no earlier than any of its prerequisites.            *)
(***************************************************************************)
OneSweepPropagates ==
  pc = "pair" /\ clusters = {} =>
    \A e \in deps : earliest[e[1]] <= earliest[e[2]]

=============================================================================
