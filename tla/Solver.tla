------------------------------- MODULE Solver -------------------------------
(***************************************************************************)
(* What a caller of solve_cpsat may rely on: the window of periods an      *)
(* asset can migrate in, and the replies a solve of an instance may give.  *)
(* Formulation models the inside of the call and shows that its replies    *)
(* are of this kind; the heuristics, which use the solver as a black box   *)
(* on sub-instances, are built on Replies.                                 *)
(***************************************************************************)
EXTENDS Instances

\* _periods: range(earliest, min(T - 1, deadline) + 1)
Window(I, a) ==
  {p \in Periods(I) : /\ p >= I.earliest[a]
                      /\ I.deadline[a] # None => p <= I.deadline[a]}

\* assets for which the model has no variable
NoWindow(I) == {a \in I.assets : Window(I, a) = {}}

Reply(status, objective, schedule) ==
  [status |-> status, objective |-> objective, schedule |-> schedule]

Usable(r) == r.status \in {"OPTIMAL", "FEASIBLE"} /\ r.schedule # None

OptimalSchedules(I) ==
  {s \in FeasibleSchedules(I) :
     \A z \in FeasibleSchedules(I) : Risk(I, s) <= Risk(I, z)}

(***************************************************************************)
(* An optimal schedule, any incumbent at the time limit, no answer, or     *)
(* INFEASIBLE: the last one too when some asset has no window.             *)
(***************************************************************************)
Replies(I) ==
  LET found == IF NoWindow(I) = {} THEN FeasibleSchedules(I) ELSE {}
      least == Min({Risk(I, s) : s \in found})
  IN  {Reply("FEASIBLE", Risk(I, s), s) : s \in found}
      \cup {Reply("OPTIMAL", Risk(I, s), s) :
              s \in {z \in found : Risk(I, z) = least}}
      \cup (IF NoWindow(I) = {} THEN {Reply("UNKNOWN", None, None)} ELSE {})
      \cup (IF found = {} THEN {Reply("INFEASIBLE", None, None)} ELSE {})

=============================================================================
