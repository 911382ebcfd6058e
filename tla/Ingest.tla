------------------------------- MODULE Ingest -------------------------------
(***************************************************************************)
(* cbom_to_instance (cbom.py): a bill of materials becomes an instance.    *)
(* Resolver decides which components are assets, Convert gives them the    *)
(* policy's economics, Reconcile makes their deadlines consistent with the *)
(* dependencies and sizes the budget.                                      *)
(*                                                                         *)
(* The file's dependency section and the policy are first read by Convert, *)
(* which chooses them.  No cluster is ever built (_build_clusters returns  *)
(* []).                                                                    *)
(***************************************************************************)
EXTENDS Resolver, Reconcile

CONSTANTS
  Files,       \* see Components
  DependsOn,   \* the sequences of pairs <<a, b>>, "a dependsOn b"
  Policies,    \* [crit, shelf, cost, due (by kind), delay, tightness, floor]
  Horizon,     \* periods
  Crqc,
  RiskModel

ASSUME FilesAssumption ==
  \A f \in Files :
    /\ f.order \in Seq(Nat)
    /\ \A r \in ToSet(f.order) :
         /\ f.comp[r].refs \in Seq(Nat)
         /\ f.comp[r].level \in Int \cup {None}
         /\ f.comp[r].type \in {"algorithm", "unknown"} => f.comp[r].refs = <<>>

Kinds == {"protocol", "ca", "leaf", "key", "algorithm", "default"}

ASSUME PolicyAssumption ==
  /\ Horizon \in Nat \ {0} /\ Crqc \in Int /\ RiskModel \in RiskModels
  /\ \A p \in Policies :
       /\ {p.crit, p.shelf, p.cost} \subseteq [Kinds -> Nat]
       /\ p.due \in [Kinds -> Int \cup {None}]
       /\ p.delay \in Int /\ p.floor \in Nat
       /\ p.tightness \in (Nat \ {0}) \X (Nat \ {0})

vars == <<bom, polled, stack, memo, policy, inst, edges, asked, pc, pass, pos,
          changed>>

-----------------------------------------------------------------------------
Init ==
  /\ bom \in Files
  /\ NothingResolved
  /\ policy = None /\ inst = None
  /\ edges = <<>> /\ asked = <<>>
  /\ pc = "resolve"
  /\ pass = 0 /\ pos = 1 /\ changed = FALSE

Resolve ==
  /\ pc = "resolve"
  /\ Ask \/ Leaf \/ Look \/ Exhausted
  /\ UNCHANGED reconcileVars

Kept == {r \in Known : memo[r]}

Clamp(t) == Max({0, Min({t, Horizon - 1})})

\* _resolve_asset: the window is clamped into the horizon, and a deadline
\* before the asset's own start is pushed to it
EarliestOf(p, r) == Clamp(IF SignatureSide(bom, r) THEN p.delay ELSE 0)

DeadlineOf(p, r) ==
  LET due == p.due[Kind(bom, r)]
  IN  IF due = None THEN None ELSE Max({Clamp(due), EarliestOf(p, r)})

Draft(p) ==
  [assets   |-> Kept,
   T        |-> Horizon,
   budget   |-> [t \in 0 .. Horizon - 1 |-> 0],
   crit     |-> [r \in Kept |-> p.crit[Kind(bom, r)]],
   shelf    |-> [r \in Kept |-> p.shelf[Kind(bom, r)]],
   cost     |-> [r \in Kept |-> p.cost[Kind(bom, r)]],
   earliest |-> [r \in Kept |-> EarliestOf(p, r)],
   deadline |-> [r \in Kept |-> DeadlineOf(p, r)],
   deps     |-> {},
   clusters |-> <<>>,
   crqc     |-> Crqc,
   rm       |-> RiskModel]

Convert ==
  /\ pc = "resolve" /\ Resolved
  /\ policy' \in Policies
  /\ \E lines \in DependsOn : Receive(Draft(policy'), lines)
  /\ UNCHANGED resolverVars

Adjust ==
  /\ RelaxEdge \/ EndPass \/ DropImpossible \/ SizeBudget
  /\ UNCHANGED resolverVars

Terminated == pc = "done" /\ UNCHANGED vars

Next == Resolve \/ Convert \/ Adjust \/ Terminated

Spec == Init /\ [][Next]_vars

-----------------------------------------------------------------------------
(* Properties *)

(***************************************************************************)
(* cbom.py:308-310, "Not a decision asset even if a weak name hint would   *)
(* otherwise match": whatever its name, its primitive, the cycles in the   *)
(* file and the order of the questions, an asset of the instance rests on  *)
(* an algorithm that no rating calls safe, or on a component of unknown    *)
(* type, of which the code reads the name only.                            *)
(***************************************************************************)
NoAssetRestsOnRatedAlone ==
  pc # "resolve" =>
    \A r \in inst.assets : \E x \in Reach(r) :
      \/ /\ bom.comp[x].type = "algorithm"
         /\ bom.comp[x].level = None \/ bom.comp[x].level < 1
      \/ bom.comp[x].type = "unknown"

=============================================================================
