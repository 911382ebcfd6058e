----------------------------- MODULE Reconcile -----------------------------
(***************************************************************************)
(* cbom.py, from the kept components to an instance: the dependency edges, *)
(* _reconcile_deadlines, which pulls a prerequisite's deadline back to     *)
(* those of its dependents by repeated passes over the edges, and the      *)
(* budget that is sized afterwards so that budget alone never makes the    *)
(* estate infeasible.                                                      *)
(***************************************************************************)
EXTENDS Instances

VARIABLES
  policy,    \* CbomPolicy; tightness is a pair <<numerator, denominator>>
  inst,      \* the assets; their deadlines are rewritten in place
  edges,     \* the edges <<j, i>>, in the order of the successors dictionary
  asked,     \* history: the deadlines before reconciliation
  pc,        \* "resolve" (Ingest), then "pass", "drop", "budget", "done"
  pass, pos, \* passes completed, next edge
  changed

reconcileVars == <<policy, inst, edges, asked, pc, pass, pos, changed>>

-----------------------------------------------------------------------------
\* _build_deps: flipped, both ends kept, each edge once.  successors is then
\* read prerequisite by prerequisite in the order of the ids; the order of
\* the dependents of one prerequisite cannot change their minimum.
Flipped(assets, lines) ==
  {<<d[2], d[1]>> : d \in {x \in ToSet(lines) : {x[1], x[2]} \subseteq assets}}

Earlier(e, f) == e[1] < f[1] \/ (e[1] = f[1] /\ e[2] < f[2])

Place(unique, e) == Cardinality({f \in unique : Earlier(f, e)})

Edges(assets, lines) ==
  LET unique == Flipped(assets, lines)
  IN  [k \in 1 .. Cardinality(unique) |->
         CHOOSE e \in unique : Place(unique, e) = k - 1]

\* the assets as _resolve_asset leaves them, and the file's dependencies
Receive(draft, lines) ==
  /\ inst' = draft
  /\ edges' = Edges(draft.assets, lines)
  /\ asked' = draft.deadline
  /\ pc' = "pass"
  /\ pass' = 0 /\ pos' = 1 /\ changed' = FALSE

\* aj.deadline is None or aj.deadline > di
Tightens(j, i) ==
  /\ inst.deadline[i] # None
  /\ inst.deadline[j] # None => inst.deadline[j] > inst.deadline[i]

RelaxEdge ==
  /\ pc = "pass" /\ pos <= Len(edges)
  /\ LET j == edges[pos][1]
         i == edges[pos][2]
     IN  IF Tightens(j, i)
         THEN /\ inst' = [inst EXCEPT !.deadline[j] = inst.deadline[i]]
              /\ changed' = TRUE
         ELSE UNCHANGED <<inst, changed>>
  /\ pos' = pos + 1
  /\ UNCHANGED <<policy, edges, asked, pc, pass>>

\* mutant: one pass is enough
EndPass_Once ==
  /\ pc = "pass" /\ pos > Len(edges)
  /\ pc' = "drop"
  /\ pass' = pass + 1 /\ pos' = 1 /\ changed' = FALSE
  /\ UNCHANGED <<policy, inst, edges, asked>>

\* until nothing changes, and never more passes than there are assets
EndPass ==
  /\ pc = "pass" /\ pos > Len(edges)
  /\ pc' = IF changed /\ pass + 1 < Cardinality(inst.assets)
           THEN "pass" ELSE "drop"
  /\ pass' = pass + 1 /\ pos' = 1 /\ changed' = FALSE
  /\ UNCHANGED <<policy, inst, edges, asked>>

\* a mandate before the asset's own start is dropped
Impossible(a) == inst.deadline[a] # None /\ inst.deadline[a] < inst.earliest[a]

DropImpossible ==
  /\ pc = "drop"
  /\ inst' = [inst EXCEPT !.deadline = [a \in inst.assets |->
                IF Impossible(a) THEN None ELSE inst.deadline[a]]]
  /\ pc' = "budget"
  /\ UNCHANGED <<policy, edges, asked, pass, pos, changed>>

\* as late as possible: at the deadline, or at the end of the horizon
Alap == [a \in inst.assets |->
           IF inst.deadline[a] # None THEN inst.deadline[a] ELSE inst.T - 1]

\* mutant: the load of unmandated assets is forgotten
Peak_MandatedOnly ==
  Max({CostOf(inst.cost, {a \in Mandated(inst) : Alap[a] = p}) :
        p \in Periods(inst)})

Peak == Max({CostOf(inst.cost, {a \in inst.assets : Alap[a] = p}) :
              p \in Periods(inst)})

\* the capacity of every period: ceil(budget_tightness * peak), with a floor
SizeBudget ==
  /\ pc = "budget"
  /\ LET num  == policy.tightness[1]
         den  == policy.tightness[2]
         size == Max({policy.floor, (num * Peak + den - 1) \div den})
     IN  inst' = [inst EXCEPT !.budget = [p \in Periods(inst) |-> size],
                              !.deps = ToSet(edges)]
  /\ pc' = "done"
  /\ UNCHANGED <<policy, edges, asked, pass, pos, changed>>

-----------------------------------------------------------------------------
(* Properties *)

\* the assets that transitively require a, a included
Dependents(a) ==
  LET step(S) == S \cup {i \in inst.assets :
                           \E j \in S : <<j, i>> \in ToSet(edges)}
  IN  FoldSet(LAMBDA x, S : step(S), {a}, inst.assets)

\* what the relaxation computes, by its definition
Tightest(a) ==
  LET ds == {asked[i] : i \in {x \in Dependents(a) : asked[x] # None}}
  IN  IF ds = {} THEN None ELSE Min(ds)

(***************************************************************************)
(* cbom.py:539-541, 555-557: one pass per asset is enough.  The            *)
(* relaxation, in whatever order the edges come, ends with the tightest    *)
(* deadline among all transitive dependents, also if the file has a cycle. *)
(***************************************************************************)
RelaxationIsExact ==
  pc = "drop" => \A a \in inst.assets : inst.deadline[a] = Tightest(a)

(***************************************************************************)
(* cbom.py:676-685: unless a mandate had to be dropped, migrating every    *)
(* asset as late as possible is feasible in the instance that is returned, *)
(* so that a tightness of 1 or more never makes it infeasible.             *)
(***************************************************************************)
AlapIsFeasible ==
  /\ pc = "done" /\ policy.tightness[1] >= policy.tightness[2]
  /\ \A a \in inst.assets : Tightest(a) # None => Tightest(a) >= inst.earliest[a]
  => Feasible(inst, Alap)

=============================================================================
