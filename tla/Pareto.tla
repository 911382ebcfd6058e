------------------------------- MODULE Pareto -------------------------------
(***************************************************************************)
(* pareto.py: the risk-vs-cost frontier by the epsilon-constraint method.  *)
(* One call of pareto_frontier: the unconstrained anchor solve, the binary *)
(* search for the smallest feasible cost, the sweep over cost caps, and    *)
(* the skyline over what the sweep returned.                               *)
(*                                                                         *)
(* Only the cost and the risk of a schedule matter here: an instance is    *)
(* the set of the <<cost, risk>> pairs of the schedules the scorer accepts *)
(* (Offers of an instance).  By FormulationProofs a solver call under a    *)
(* cap answers with one of those, with INFEASIBLE if there is none, or     *)
(* without an answer.  Every solve runs under its own wall-clock limit, so *)
(* each may end in any of these ways.                                      *)
(*                                                                         *)
(* FormulationProofs extends this module and Formulation, hence names that *)
(* differ from those of a call.                                            *)
(***************************************************************************)
EXTENDS Instances

CONSTANTS
  OfferSets,      \* Offers(I) of the instances the callers may pass
  PointCounts     \* the values of n_points a caller asks for

ASSUME OfferAssumption == OfferSets \subseteq SUBSET (Nat \X Nat)
ASSUME PointAssumption == PointCounts \subseteq Int

VARIABLES
  offers,     \* the instance, never written
  n,          \* n_points, never written
  phase,      \* "anchor", "search", "sweep" or "done"
  anchor,     \* the reply of the unconstrained solve
  lo, hi,     \* the binary search
  todo,       \* eps values still to be solved
  raw,        \* points collected, in the order of the sweep
  frontier,   \* the list returned
  replies     \* history: the statuses seen so far

paretoVars == <<offers, n, phase, anchor, lo, hi, todo, raw, frontier, replies>>

-----------------------------------------------------------------------------
(* The solver under a cap *)

\* for an instance in which every asset has a period; if some asset has none
\* every solve ends at once with INFEASIBLE, as if nothing were on offer
Offers(I) == {<<Cost(I, s), Risk(I, s)>> : s \in FeasibleSchedules(I)}

Within(eps) == {o \in offers : eps # None => o[1] <= eps}

Point(o, status) == [cost |-> o[1], risk |-> o[2], status |-> status]

Answered(r) == r.status \in {"OPTIMAL", "FEASIBLE"}

NoAnswer(status) == [cost |-> None, risk |-> None, status |-> status]

\* MODEL_INVALID takes the branches of UNKNOWN everywhere in pareto.py
Answers(eps) ==
     {Point(o, "OPTIMAL") :
        o \in {x \in Within(eps) : \A z \in Within(eps) : x[2] <= z[2]}}
  \cup {Point(o, "FEASIBLE") : o \in Within(eps)}
  \cup {NoAnswer("UNKNOWN")}
  \cup (IF Within(eps) = {} THEN {NoAnswer("INFEASIBLE")} ELSE {})

-----------------------------------------------------------------------------
(* _sweep and _skyline *)

\* Python's round(a / d): to nearest, ties to even
Round(a, d) ==
  LET q == a \div d
      r == a % d
  IN  IF 2 * r > d \/ (2 * r = d /\ q % 2 = 1) THEN q + 1 ELSE q

\* mutant: the caps stop one short of the top
Sweep_Open(low, top, count) ==
  LET m == Max({1, count})
  IN  IF top <= low \/ m = 1 THEN {top}
      ELSE {low + Round((top - low) * j, m - 1) : j \in 0 .. m - 2}

Sweep(low, top, count) ==
  LET m == Max({1, count})
  IN  IF top <= low \/ m = 1 THEN {top}
      ELSE {low + Round((top - low) * j, m - 1) : j \in 0 .. m - 1}

\* of two positions, the one the stable sort by (cost, risk) puts first
Before(points, i, j) ==
  LET p == points[i]
      q == points[j]
  IN  \/ p.cost < q.cost
      \/ p.cost = q.cost /\ p.risk < q.risk
      \/ p.cost = q.cost /\ p.risk = q.risk /\ i < j

\* how many points the sort puts before the one at i
Rank(points, i) == Cardinality({j \in DOMAIN points : Before(points, j, i)})

Sorted(points) ==
  [k \in DOMAIN points |->
     points[CHOOSE i \in DOMAIN points : Rank(points, i) = k - 1]]

\* the risk of the last point kept is best_risk
Keep(kept, p) ==
  IF kept # <<>> /\ Last(kept).risk <= p.risk THEN kept
  ELSE IF kept # <<>> /\ Last(kept).cost = p.cost
       THEN Append(Front(kept), p)
       ELSE Append(kept, p)

Skyline(points) == FoldLeft(Keep, <<>>, Sorted(points))

-----------------------------------------------------------------------------
ParetoInit ==
  /\ offers \in OfferSets
  /\ n \in PointCounts
  /\ phase = "anchor"
  /\ anchor = NoAnswer("UNKNOWN")
  /\ lo = 0 /\ hi = 0
  /\ todo = {}
  /\ raw = <<>>
  /\ frontier = <<>>
  /\ replies = {}

\* the base solve is not usable: no frontier
AnchorFails ==
  /\ phase = "anchor"
  /\ \E r \in Answers(None) :
       /\ ~Answered(r)
       /\ replies' = replies \cup {r.status}
  /\ phase' = "done"
  /\ UNCHANGED <<offers, n, anchor, lo, hi, todo, raw, frontier>>

AnchorSolved ==
  /\ phase = "anchor"
  /\ \E r \in Answers(None) :
       /\ Answered(r)
       /\ anchor' = r
       /\ hi' = r.cost
       /\ replies' = replies \cup {r.status}
  /\ phase' = "search"
  /\ UNCHANGED <<offers, n, lo, todo, raw, frontier>>

Mid == (lo + hi) \div 2

\* mutant: feasible is read as "not proven INFEASIBLE"
Search_UnknownFits ==
  /\ phase = "search"
  /\ lo < hi
  /\ \E r \in Answers(Mid) :
       /\ IF r.status # "INFEASIBLE" THEN hi' = Mid /\ lo' = lo
                                     ELSE lo' = Mid + 1 /\ hi' = hi
       /\ replies' = replies \cup {r.status}
  /\ UNCHANGED <<offers, n, phase, anchor, todo, raw, frontier>>

\* an answer without a schedule raises the floor, proof or not
Search ==
  /\ phase = "search"
  /\ lo < hi
  /\ \E r \in Answers(Mid) :
       /\ IF Answered(r) THEN hi' = Mid /\ lo' = lo
                       ELSE lo' = Mid + 1 /\ hi' = hi
       /\ replies' = replies \cup {r.status}
  /\ UNCHANGED <<offers, n, phase, anchor, todo, raw, frontier>>

StartSweep ==
  /\ phase = "search"
  /\ lo >= hi
  /\ phase' = "sweep"
  /\ todo' = Sweep(lo, anchor.cost, n)
  /\ UNCHANGED <<offers, n, anchor, lo, hi, raw, frontier, replies>>

\* mutant: a point takes over the status of the anchor
SweepStep_Relabels ==
  /\ phase = "sweep"
  /\ todo # {}
  /\ LET eps == Min(todo)
     IN  \E r \in IF eps >= anchor.cost THEN {anchor} ELSE Answers(eps) :
           /\ raw' = IF Answered(r) THEN Append(raw, [r EXCEPT !.status = anchor.status])
                     ELSE raw
           /\ todo' = todo \ {eps}
           /\ replies' = replies \cup {r.status}
  /\ UNCHANGED <<offers, n, phase, anchor, lo, hi, frontier>>

\* the next cap in increasing order; the anchor serves the top of the range
SweepStep ==
  /\ phase = "sweep"
  /\ todo # {}
  /\ LET eps == Min(todo)
     IN  \E r \in IF eps >= anchor.cost THEN {anchor} ELSE Answers(eps) :
           /\ raw' = IF Answered(r) THEN Append(raw, r) ELSE raw
           /\ todo' = todo \ {eps}
           /\ replies' = replies \cup {r.status}
  /\ UNCHANGED <<offers, n, phase, anchor, lo, hi, frontier>>

Return ==
  /\ phase = "sweep"
  /\ todo = {}
  /\ frontier' = Skyline(raw)
  /\ phase' = "done"
  /\ UNCHANGED <<offers, n, anchor, lo, hi, todo, raw, replies>>

Finished == phase = "done" /\ UNCHANGED paretoVars

ParetoNext ==
  \/ AnchorFails \/ AnchorSolved
  \/ Search
  \/ StartSweep \/ SweepStep
  \/ Return
  \/ Finished

ParetoSpec == ParetoInit /\ [][ParetoNext]_paretoVars

-----------------------------------------------------------------------------
(* Properties *)

\* all answers were proofs
Proved == replies \subseteq {"OPTIMAL", "INFEASIBLE"}

\* all answers were schedules or proofs
Conclusive == replies \subseteq {"OPTIMAL", "FEASIBLE", "INFEASIBLE"}

(***************************************************************************)
(* The binary search brackets the cheapest feasible cost: some schedule    *)
(* fits under hi at all times, so the floor C_lo is never understated      *)
(* whatever the solver answers; and as long as no answer was inconclusive  *)
(* no schedule is cheaper than lo, so the floor is exact.                  *)
(***************************************************************************)
FloorBracketed ==
  phase \in {"search", "sweep"} =>
    /\ \E o \in offers : o[1] <= hi
    /\ Conclusive => \A o \in offers : o[1] >= lo

(***************************************************************************)
(* With proofs only, the frontier spans the whole trade-off: its last      *)
(* point has the least risk any schedule can reach, and, when the caller   *)
(* asked for at least two points, its first one the least cost.            *)
(***************************************************************************)
SpansTheTradeOff ==
  phase = "done" /\ Proved /\ offers # {} =>
    /\ frontier # <<>>
    /\ \A o \in offers : Last(frontier).risk <= o[2]
    /\ n >= 2 => \A o \in offers : frontier[1].cost <= o[1]

(***************************************************************************)
(* _skyline's second claim, globally: a point proven OPTIMAL cannot be     *)
(* beaten on risk by any schedule that costs no more.                      *)
(***************************************************************************)
NoLessRiskForItsCost ==
  \A p \in Range(frontier) : p.status = "OPTIMAL" =>
    \A o \in offers : o[1] <= p.cost => o[2] >= p.risk

(***************************************************************************)
(* pareto.py:79-81: an UNKNOWN answer is "not treated as infeasible,       *)
(* because doing so would overstate the floor".  It raises lo exactly as   *)
(* INFEASIBLE does, and the floor is overstated.                           *)
(***************************************************************************)
FloorNotOverstated ==
  phase = "sweep" => \A o \in offers : o[1] >= lo

=============================================================================
