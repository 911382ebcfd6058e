--------------------------- MODULE RollingHorizon ---------------------------
(***************************************************************************)
(* heuristic.py, rolling_horizon: the periods are swept in overlapping     *)
(* windows.  Each window solves the frozen assets, pinned, together with   *)
(* the free assets that can start inside it, and freezes those placed in   *)
(* its first step periods.  What is left is repaired in one solve, and an  *)
(* infeasible outcome gives way to the best feasible greedy schedule.      *)
(***************************************************************************)
EXTENDS Solver

CONSTANTS
  InstanceSet,
  Tunings     \* pairs <<window, step>> as the caller passes them

ASSUME InstanceAssumption == \A I \in InstanceSet : IsInstance(I)
ASSUME ScheduleAssumption == \A I \in InstanceSet : None \notin Schedules(I)
ASSUME TuningAssumption == Tunings \subseteq Int \X Int

VARIABLES
  inst,        \* never written
  tuning,      \* never written
  greedy,      \* best feasible greedy schedule, or None; never written
  pc,          \* "sweep", "floor" or "done"
  w,           \* first period of the window
  committed,   \* asset -> frozen period
  result,
  proved       \* history: every solve so far ended with a proof

vars == <<inst, tuning, greedy, pc, w, committed, result, proved>>

-----------------------------------------------------------------------------
(* The window *)

window == Max({1, tuning[1]})

step == Max({1, Min({tuning[2], window})})

\* last period visible to the window at w
hi == Min({w + window - 1, inst.T - 1})

free == inst.assets \ DOMAIN committed

\* mutant: only the assets that can start in the window's first period
visible_AtOnce == {a \in free : inst.earliest[a] <= w}

visible == {a \in free : inst.earliest[a] <= hi}

-----------------------------------------------------------------------------
(* Sub-instances *)

\* _window_asset: a deadline beyond the window does not bind in it
WindowDeadline ==
  [a \in inst.assets |-> IF inst.deadline[a] # None /\ inst.deadline[a] <= hi
                         THEN inst.deadline[a] ELSE None]

\* _sub_instance over keep; the frozen assets are pinned, due gives the
\* deadlines of the others.  The clusters inside keep are listed in any
\* order: the solver reads them as a set of equations.
SubInstance(keep, due) ==
  LET frozen == DOMAIN committed
  IN  [inst EXCEPT
         !.assets   = keep,
         !.crit     = Restrict(inst.crit, keep),
         !.shelf    = Restrict(inst.shelf, keep),
         !.cost     = Restrict(inst.cost, keep),
         !.earliest = [a \in keep |-> IF a \in frozen THEN committed[a]
                                      ELSE inst.earliest[a]],
         !.deadline = [a \in keep |-> IF a \in frozen THEN committed[a]
                                      ELSE due[a]],
         !.deps     = {e \in inst.deps : e[1] \in keep /\ e[2] \in keep},
         !.clusters = SetToSeq({c \in Range(inst.clusters) :
                                  c[1] \in keep /\ c[2] \in keep})]

\* mutant: the frozen assets are left out, and with them their spending
WindowInstance_FreeOnly == SubInstance(visible, WindowDeadline)

WindowInstance == SubInstance(DOMAIN committed \cup visible, WindowDeadline)

\* _final_repair: everything, the leftovers with their real windows
RepairInstance == SubInstance(inst.assets, inst.deadline)

\* the free assets of S that s places in a period of P
Freeze(S, s, P) ==
  LET landed == {a \in S \cap DOMAIN s : s[a] \in P}
  IN  [a \in DOMAIN committed \cup landed |->
         IF a \in DOMAIN committed THEN committed[a] ELSE s[a]]

\* mutant: the boundary period is frozen as well
Frozen_OffByOne == IF hi = inst.T - 1 THEN Periods(inst) ELSE 0 .. w + step

\* placements before the boundary; all of them in the last window
Frozen == IF hi = inst.T - 1 THEN Periods(inst) ELSE 0 .. w + step - 1

-----------------------------------------------------------------------------
Init ==
  /\ inst \in InstanceSet
  /\ tuning \in Tunings
  /\ greedy \in FeasibleSchedules(inst) \cup {None}
  /\ pc = "sweep"
  /\ w = 0
  /\ committed = [a \in {} |-> 0]
  /\ result = None
  /\ proved = TRUE

Proof(r) == r.status \in {"OPTIMAL", "INFEASIBLE"}

\* one iteration of the sweep that solves; a failed solve defers everything
SolveWindow ==
  /\ pc = "sweep" /\ w < inst.T /\ visible # {}
  /\ \E r \in Replies(WindowInstance) :
       /\ committed' = IF Usable(r) THEN Freeze(visible, r.schedule, Frozen)
                       ELSE committed
       /\ proved' = (proved /\ Proof(r))
  /\ w' = w + step
  /\ UNCHANGED <<inst, tuning, greedy, pc, result>>

\* nothing free can start inside this window
SkipWindow ==
  /\ pc = "sweep" /\ w < inst.T /\ free # {} /\ visible = {}
  /\ w' = w + step
  /\ UNCHANGED <<inst, tuning, greedy, pc, committed, result, proved>>

AllCommitted ==
  /\ pc = "sweep" /\ free = {}
  /\ pc' = "floor"
  /\ UNCHANGED <<inst, tuning, greedy, w, committed, result, proved>>

FinalRepair ==
  /\ pc = "sweep" /\ w >= inst.T /\ free # {}
  /\ \E r \in Replies(RepairInstance) :
       /\ committed' = IF Usable(r)
                       THEN Freeze(free, r.schedule, Periods(inst))
                       ELSE committed
       /\ proved' = (proved /\ Proof(r))
  /\ pc' = "floor"
  /\ UNCHANGED <<inst, tuning, greedy, w, result>>

\* mutant: the floor applies only when no asset could be placed
Return_NoFloor ==
  /\ pc = "floor"
  /\ LET s == IF DOMAIN committed # {} \/ greedy = None
              THEN committed ELSE greedy
     IN  result' = Reply(IF Feasible(inst, s) THEN "FEASIBLE" ELSE "UNKNOWN",
                         Risk(inst, s), s)
  /\ pc' = "done"
  /\ UNCHANGED <<inst, tuning, greedy, w, committed, proved>>

\* the full re-score, the greedy floor and _result
Return ==
  /\ pc = "floor"
  /\ LET s == IF Feasible(inst, committed) \/ greedy = None
              THEN committed ELSE greedy
     IN  result' = Reply(IF Feasible(inst, s) THEN "FEASIBLE" ELSE "UNKNOWN",
                         Risk(inst, s), s)
  /\ pc' = "done"
  /\ UNCHANGED <<inst, tuning, greedy, w, committed, proved>>

Terminated == pc = "done" /\ UNCHANGED vars

Next ==
  \/ SolveWindow \/ SkipWindow \/ AllCommitted
  \/ FinalRepair
  \/ Return
  \/ Terminated

Spec == Init /\ [][Next]_vars

-----------------------------------------------------------------------------
(* Properties *)

\* a frozen asset has a period of its own window
OnTime(s) ==
  /\ EarliestViolations(inst, s) = {}
  /\ \A a \in DOMAIN s : inst.deadline[a] # None => s[a] <= inst.deadline[a]

\* of two frozen assets, the predecessor is no later
InOrder(s) ==
  \A e \in inst.deps : {e[1], e[2]} \subseteq DOMAIN s => s[e[1]] <= s[e[2]]

\* a predecessor left behind by s could not have joined its successor
LatePredecessors(s) ==
  \A e \in inst.deps :
    e[2] \in DOMAIN s /\ e[1] \notin DOMAIN s => inst.earliest[e[1]] > s[e[2]]

(***************************************************************************)
(* heuristic.py:237-239: what is frozen is never over-committed.  At every *)
(* moment the frozen assets respect the capacity, their own windows and    *)
(* every dependency and cluster among them, although several solves, some  *)
(* of them failed, have contributed.                                       *)
(***************************************************************************)
CommittedSound ==
  /\ BudgetViolations(inst, committed) = {}
  /\ OnTime(committed)
  /\ InOrder(committed)
  /\ \A c \in Range(inst.clusters) : {c[1], c[2]} \subseteq DOMAIN committed =>
       committed[c[1]] = committed[c[2]]

(***************************************************************************)
(* The only way to freeze an asset without its predecessor or its cluster  *)
(* partner (heuristic.py:114-115, 242-243): the other one cannot start     *)
(* early enough to join it.  Whatever could have been placed with it was.  *)
(***************************************************************************)
OnlyLateStartersAreLeftBehind ==
  LET behind(i, j) == i \in DOMAIN committed /\ j \notin DOMAIN committed
  IN  /\ LatePredecessors(committed)
      /\ \A c \in Range(inst.clusters) :
           /\ behind(c[1], c[2]) => inst.earliest[c[2]] > committed[c[1]]
           /\ behind(c[2], c[1]) => inst.earliest[c[1]] > committed[c[2]]

(***************************************************************************)
(* With a single window over the whole horizon and proven answers the      *)
(* matheuristic is exact: the deferral rule, the commit rule and the       *)
(* repair lose nothing.  Deadlines beyond the horizon are excluded: such   *)
(* an asset is mandated in the instance and in no window.                  *)
(***************************************************************************)
OneWindowIsExact ==
  /\ pc = "done" /\ proved /\ window >= inst.T
  /\ NoWindow(inst) = {} /\ FeasibleSchedules(inst) # {}
  /\ \A a \in Mandated(inst) : inst.deadline[a] < inst.T
  => result.schedule \in OptimalSchedules(inst)

(***************************************************************************)
(* heuristic.py:248-250, "precedence and clusters that straddle the commit *)
(* boundary are enforced by CP-SAT directly; nothing is stitched blindly": *)
(* the stitched schedule breaks neither.                                   *)
(***************************************************************************)
StraddlesEnforced ==
  pc = "floor" => /\ PrecedenceViolations(inst, committed) = {}
                  /\ ClusterViolations(inst, committed) = {}

(***************************************************************************)
(* heuristic.py:39-42 and 334-336: the sweep implements Anytime with the   *)
(* greedy floor as its incumbent, whatever the windows froze on the way.   *)
(***************************************************************************)
A == INSTANCE Anytime WITH best <- greedy, answer <- result

RefinesAnytime == A!Spec

=============================================================================
