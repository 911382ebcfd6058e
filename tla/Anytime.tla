------------------------------ MODULE Anytime ------------------------------
(***************************************************************************)
(* What both heuristics of heuristic.py promise their caller (lines 39-42, *)
(* 334-336, 420-429), however they search: an incumbent is only ever       *)
(* replaced by a better feasible schedule; the one reply is scored on the  *)
(* real instance, is called feasible exactly if it is, never claims a      *)
(* proof, and is feasible whenever there was an incumbent.                 *)
(***************************************************************************)
EXTENDS Integers

CONSTANTS
  InstanceSet, None,
  Feasible(_, _),     \* of an instance and a schedule
  Risk(_, _)

VARIABLES inst, best, answer

vars == <<inst, best, answer>>

Init ==
  /\ inst \in InstanceSet
  /\ best = None \/ Feasible(inst, best)
  /\ answer = None

Improve ==
  /\ answer = None
  /\ UNCHANGED <<inst, answer>>
  /\ best' # None /\ Feasible(inst, best')
  /\ best # None => Risk(inst, best') < Risk(inst, best)

\* a reply with a schedule, or the bare status of a failed solve
Honest(r) ==
  IF r.schedule = None
  THEN r.status \in {"UNKNOWN", "INFEASIBLE"}
  ELSE /\ r.status = IF Feasible(inst, r.schedule) THEN "FEASIBLE" ELSE "UNKNOWN"
       /\ r.objective = Risk(inst, r.schedule)

Deliver ==
  /\ answer = None /\ answer' # None
  /\ Honest(answer')
  /\ best # None => answer'.status = "FEASIBLE"
  /\ UNCHANGED <<inst, best>>

Next == Improve \/ Deliver

Spec == Init /\ [][Next]_vars

=============================================================================
