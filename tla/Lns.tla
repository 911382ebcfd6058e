-------------------------------- MODULE Lns --------------------------------
(***************************************************************************)
(* heuristic.py, lns: large-neighbourhood search.  A feasible incumbent is *)
(* improved by releasing k assets, pinning the others to their incumbent   *)
(* period and solving the instance that results; k grows when repairs stop *)
(* improving.  The warm start is the best feasible greedy schedule or, if  *)
(* no baseline is feasible, one direct solve.                              *)
(***************************************************************************)
EXTENDS Solver

CONSTANTS
  InstanceSet,
  MinDestroy,      \* _MIN_DESTROY
  Neighborhoods,   \* values of round(neighborhood * n)
  Patience,        \* _STALL_PATIENCE
  MaxStall         \* bound on the stall counter, which the code leaves free

ASSUME InstanceAssumption == \A I \in InstanceSet : IsInstance(I)
ASSUME ScheduleAssumption == \A I \in InstanceSet : None \notin Schedules(I)
ASSUME DestroyAssumption == MinDestroy \in Nat \ {0} /\ Neighborhoods \subseteq Nat
ASSUME PatienceAssumption == Patience \in Nat \ {0}
ASSUME MaxStallAssumption == MaxStall \in Nat /\ MaxStall >= Patience

VARIABLES
  inst,        \* never written
  share,       \* round(neighborhood * n), never written
  pc,          \* "start", "loop" or "done"
  incumbent,   \* the best schedule so far; None before the warm start
  k,           \* assets released by the next repair
  stall,       \* repairs since the last improvement or widening
  result,
  proved       \* history: no solve ended without a proof

vars == <<inst, share, pc, incumbent, k, stall, result, proved>>

n == Cardinality(inst.assets)
base == Min({n, Max({MinDestroy, share})})

-----------------------------------------------------------------------------
(* Sub-instances *)

\* mutant: a pinned asset may also move later
Pinned_Loose(pins) ==
  [inst EXCEPT
     !.earliest = [a \in inst.assets |->
                     IF a \in DOMAIN pins THEN pins[a] ELSE inst.earliest[a]],
     !.deadline = [a \in inst.assets |->
                     IF a \in DOMAIN pins THEN None ELSE inst.deadline[a]]]

\* _pin: the one-period window [p, p]; the others keep their real window
Pinned(pins) ==
  [inst EXCEPT
     !.earliest = [a \in inst.assets |->
                     IF a \in DOMAIN pins THEN pins[a] ELSE inst.earliest[a]],
     !.deadline = [a \in inst.assets |->
                     IF a \in DOMAIN pins THEN pins[a] ELSE inst.deadline[a]]]

\* everything but the released assets, as far as the incumbent migrates it
PinsFor(destroy) ==
  [a \in DOMAIN incumbent \ destroy |-> incumbent[a]]

-----------------------------------------------------------------------------
Init ==
  /\ inst \in InstanceSet
  /\ share \in Neighborhoods
  /\ pc = "start"
  /\ incumbent = None
  /\ k = base
  /\ stall = 0
  /\ result = Reply("UNKNOWN", None, None)
  /\ proved = TRUE

\* _result: FEASIBLE if the scorer agrees, never OPTIMAL
Wrapped(s) ==
  Reply(IF Feasible(inst, s) THEN "FEASIBLE" ELSE "UNKNOWN", Risk(inst, s), s)

\* mutant: the best greedy schedule, feasible or not
WarmStart_Unchecked ==
  /\ pc = "start"
  /\ incumbent' \in {s \in Schedules(inst) : /\ PrecedenceViolations(inst, s) = {}
                                            /\ ClusterViolations(inst, s) = {}}
  /\ pc' = "loop"
  /\ UNCHANGED <<inst, share, k, stall, result, proved>>

\* the best feasible greedy schedule; which one it is is Greedy's matter
WarmStart ==
  /\ pc = "start"
  /\ incumbent' \in FeasibleSchedules(inst)
  /\ pc' = "loop"
  /\ UNCHANGED <<inst, share, k, stall, result, proved>>

\* no greedy baseline is feasible: one direct solve, and no search
Fallback ==
  /\ pc = "start"
  /\ \E r \in Replies(inst) :
       result' = IF Usable(r) THEN Wrapped(r.schedule) ELSE r
  /\ pc' = "done"
  /\ UNCHANGED <<inst, share, incumbent, k, stall, proved>>

Improves(r) ==
  /\ Usable(r)
  /\ Feasible(inst, r.schedule)
  /\ Risk(inst, r.schedule) < Risk(inst, incumbent)

\* mutant: the stall counter survives a widening
Stalled_NoReset ==
  /\ stall' = stall + 1
  /\ k' = IF stall + 1 >= Patience /\ k < n
          THEN Min({n, k + Max({MinDestroy, base})})
          ELSE k

\* escalate after Patience repairs without an improvement
Stalled ==
  IF stall + 1 >= Patience /\ k < n
  THEN k' = Min({n, k + Max({MinDestroy, base})}) /\ stall' = 0
  ELSE k' = k /\ stall' = stall + 1

(***************************************************************************)
(* One iteration: rng.sample releases any k assets; those the incumbent    *)
(* does not migrate are free as well.                                      *)
(***************************************************************************)
Repair ==
  /\ pc = "loop"
  /\ stall < MaxStall
  /\ \E destroy \in kSubset(k, inst.assets) :
       \E r \in Replies(Pinned(PinsFor(destroy))) :
         /\ IF Improves(r)
            THEN incumbent' = r.schedule /\ k' = base /\ stall' = 0
            ELSE incumbent' = incumbent /\ Stalled
         /\ proved' = (proved /\ r.status \in {"OPTIMAL", "INFEASIBLE"})
  /\ UNCHANGED <<inst, share, pc, result>>

\* iters or the time limit is reached, at any moment
Stop ==
  /\ pc = "loop"
  /\ result' = Wrapped(incumbent)
  /\ pc' = "done"
  /\ UNCHANGED <<inst, share, incumbent, k, stall, proved>>

Terminated == pc = "done" /\ UNCHANGED vars

Next ==
  \/ WarmStart \/ Fallback
  \/ Repair
  \/ Stop
  \/ Terminated

Spec == Init /\ [][Next]_vars

-----------------------------------------------------------------------------
(* Properties *)

(***************************************************************************)
(* heuristic.py:427 and 429: the search never leaves the feasible region,  *)
(* and whatever it reports as FEASIBLE is.                                 *)
(***************************************************************************)
StaysFeasible ==
  /\ incumbent # None => Feasible(inst, incumbent)
  /\ result.status = "FEASIBLE" => Feasible(inst, result.schedule)

\* the schedules a repair should choose from
Neighbourhood(destroy) ==
  {s \in FeasibleSchedules(inst) :
     \A a \in DOMAIN incumbent \ destroy : Slot(s, a) = incumbent[a]}

(***************************************************************************)
(* Pinning is exact (heuristic.py:78-81 and 424-427), whichever assets are *)
(* drawn: a repair that is feasible in the sub-instance is feasible in the *)
(* whole schedule and leaves every asset that was not released where it    *)
(* was; and no schedule of which that holds is lost, because a pin or a    *)
(* window left to a free asset is too tight.                               *)
(***************************************************************************)
PinsAreExact ==
  pc = "loop" =>
    \A destroy \in kSubset(k, inst.assets) :
      FeasibleSchedules(Pinned(PinsFor(destroy))) = Neighbourhood(destroy)

(***************************************************************************)
(* What the escalation is for (heuristic.py:440-442): once a repair over   *)
(* the whole estate has failed to improve, and every answer was a proof,   *)
(* the incumbent is optimal.                                               *)
(***************************************************************************)
StallAtFullSizeMeansOptimal ==
  pc = "loop" /\ proved /\ NoWindow(inst) = {} /\ k = n /\ stall > 0 =>
    \A s \in FeasibleSchedules(inst) : Risk(inst, incumbent) <= Risk(inst, s)

(***************************************************************************)
(* heuristic.py:39-42 and 420-429: the search implements Anytime; fallback *)
(* and escalation, and solves that fail or time out, are invisible to the  *)
(* caller.                                                                 *)
(***************************************************************************)
A == INSTANCE Anytime WITH
       best <- incumbent, answer <- IF pc = "done" THEN result ELSE None

RefinesAnytime == A!Spec

=============================================================================
