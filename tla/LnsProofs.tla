----------------------------- MODULE LnsProofs -----------------------------
(***************************************************************************)
(* Proofs about Lns, for every set of instances and every tuning: pinning  *)
(* is exact, and the search never leaves the feasible region.              *)
(***************************************************************************)
EXTENDS Lns, InstancesProofs

LEMMA InstanceFacts ==
  ASSUME NEW I, IsInstance(I)
  PROVE  /\ Periods(I) \subseteq Nat
         /\ I.earliest \in [I.assets -> Nat]
         /\ I.deadline \in [I.assets -> Int \cup {None}]
BY DEF Periods, IsInstance

\* Pinning changes the starts and the deadlines, nothing else.
LEMMA PinnedFields ==
  ASSUME IsInstance(inst), NEW pins
  PROVE  LET J == Pinned(pins)
         IN  /\ J.assets = inst.assets /\ J.T = inst.T
             /\ J.budget = inst.budget /\ J.cost = inst.cost
             /\ J.deps = inst.deps /\ J.clusters = inst.clusters
             /\ J.earliest = [a \in inst.assets |->
                  IF a \in DOMAIN pins THEN pins[a] ELSE inst.earliest[a]]
             /\ J.deadline = [a \in inst.assets |->
                  IF a \in DOMAIN pins THEN pins[a] ELSE inst.deadline[a]]
<1>1. DOMAIN inst = InstanceFields
  BY DEF IsInstance
<1> QED
  BY <1>1 DEF Pinned, InstanceFields

(***************************************************************************)
(* The pin primitive: the feasible schedules of the instance where all but *)
(* the released assets are pinned to a feasible incumbent are exactly the  *)
(* feasible schedules of the real instance which leave the pinned assets   *)
(* where they are.                                                         *)
(***************************************************************************)
THEOREM PinningIsExact ==
  ASSUME IsInstance(inst), incumbent \in FeasibleSchedules(inst), NEW destroy
  PROVE  FeasibleSchedules(Pinned(PinsFor(destroy))) = Neighbourhood(destroy)
<1> DEFINE pins == PinsFor(destroy)
           J == Pinned(pins)
<1>1. /\ J.assets = inst.assets /\ J.T = inst.T
      /\ J.budget = inst.budget /\ J.cost = inst.cost
      /\ J.deps = inst.deps /\ J.clusters = inst.clusters
      /\ J.earliest = [a \in inst.assets |->
           IF a \in DOMAIN pins THEN pins[a] ELSE inst.earliest[a]]
      /\ J.deadline = [a \in inst.assets |->
           IF a \in DOMAIN pins THEN pins[a] ELSE inst.deadline[a]]
  BY PinnedFields
<1>2. /\ DOMAIN pins = DOMAIN incumbent \ destroy
      /\ \A a \in DOMAIN pins : pins[a] = incumbent[a]
  BY DEF PinsFor
<1>3. incumbent \in Schedules(inst) /\ Feasible(inst, incumbent)
  BY DEF FeasibleSchedules
<1> HIDE DEF J, pins
<1>4. Periods(J) = Periods(inst) /\ Periods(inst) \subseteq Nat
  BY <1>1, InstanceFacts DEF Periods
<1>5. Schedules(J) = Schedules(inst)
  BY <1>1, <1>4 DEF Schedules
\* what pinning does not touch
<1>6. ASSUME NEW s
      PROVE  /\ BudgetViolations(J, s) = BudgetViolations(inst, s)
             /\ PrecedenceViolations(J, s) = PrecedenceViolations(inst, s)
             /\ ClusterViolations(J, s) = ClusterViolations(inst, s)
  <2>1. \A t : Spend(J, s, t) = Spend(inst, s, t)
    BY <1>1 DEF Spend
  <2>2. BudgetViolations(J, s) = BudgetViolations(inst, s)
    BY <2>1, <1>1, <1>4 DEF BudgetViolations
  <2> QED
    BY <2>2, <1>1 DEF PrecedenceViolations, ClusterViolations
<1>7. ASSUME NEW s \in Schedules(inst)
      PROVE  /\ DOMAIN s \subseteq inst.assets
             /\ \A a \in DOMAIN s : s[a] \in Nat /\ s[a] # None
  BY <1>4, NoneAssumption DEF Schedules
\* the window of a pinned asset is the period it is pinned to
<1>8. ASSUME NEW a \in DOMAIN pins
      PROVE  /\ a \in inst.assets /\ incumbent[a] \in Nat /\ incumbent[a] # None
             /\ J.earliest[a] = incumbent[a] /\ J.deadline[a] = incumbent[a]
  BY <1>1, <1>2, <1>3, <1>7
\* the window of a free asset is its own
<1>9. ASSUME NEW a \in inst.assets \ DOMAIN pins
      PROVE  J.earliest[a] = inst.earliest[a] /\ J.deadline[a] = inst.deadline[a]
  BY <1>1
<1>10. ASSUME NEW s \in Schedules(inst), Feasible(J, s)
       PROVE  s \in Neighbourhood(destroy)
  <2>1. ASSUME NEW a \in DOMAIN pins
        PROVE  a \in DOMAIN s /\ s[a] = incumbent[a]
    <3>1. a \in DOMAIN s /\ ~(s[a] > incumbent[a])
      BY <1>1, <1>8, <1>10 DEF Feasible, DeadlineViolations, Mandated
    <3>2. ~(s[a] < incumbent[a])
      BY <3>1, <1>1, <1>8, <1>10 DEF Feasible, EarliestViolations
    <3> QED
      BY <3>1, <3>2, <1>7, <1>8
  <2>2. EarliestViolations(inst, s) = {}
    <3> SUFFICES ASSUME NEW a \in inst.assets \cap DOMAIN s
                 PROVE  ~(s[a] < inst.earliest[a])
      BY DEF EarliestViolations
    <3>1. CASE a \in DOMAIN pins
      BY <3>1, <1>2, <1>3, <2>1 DEF Feasible, EarliestViolations
    <3>2. CASE a \notin DOMAIN pins
      BY <3>2, <1>1, <1>9, <1>10 DEF Feasible, EarliestViolations
    <3> QED
      BY <3>1, <3>2
  <2>3. DeadlineViolations(inst, s) = {}
    <3> SUFFICES ASSUME NEW a \in Mandated(inst)
                 PROVE  a \in DOMAIN s /\ ~(s[a] > inst.deadline[a])
      BY DEF DeadlineViolations
    <3>1. CASE a \in DOMAIN pins
      BY <3>1, <1>2, <1>3, <2>1 DEF Feasible, DeadlineViolations
    <3>2. CASE a \notin DOMAIN pins
      <4>1. a \in Mandated(J) /\ J.deadline[a] = inst.deadline[a]
        BY <3>2, <1>1, <1>9 DEF Mandated
      <4> QED
        BY <4>1, <1>10 DEF Feasible, DeadlineViolations
    <3> QED
      BY <3>1, <3>2
  <2>4. s \in FeasibleSchedules(inst)
    BY <1>6, <1>10, <2>2, <2>3 DEF Feasible, FeasibleSchedules
  <2> QED
    BY <2>1, <2>4, <1>2 DEF Neighbourhood, Slot
<1>11. ASSUME NEW s \in Neighbourhood(destroy)
       PROVE  s \in Schedules(inst) /\ Feasible(J, s)
  <2>1. /\ s \in Schedules(inst) /\ Feasible(inst, s)
        /\ \A a \in DOMAIN pins : Slot(s, a) = incumbent[a]
    BY <1>2 DEF Neighbourhood, FeasibleSchedules
  <2>2. ASSUME NEW a \in DOMAIN pins
        PROVE  a \in DOMAIN s /\ s[a] = incumbent[a]
    BY <2>1, <1>8 DEF Slot
  <2>3. EarliestViolations(J, s) = {}
    <3> SUFFICES ASSUME NEW a \in J.assets \cap DOMAIN s
                 PROVE  ~(s[a] < J.earliest[a])
      BY DEF EarliestViolations
    <3>1. CASE a \in DOMAIN pins
      BY <3>1, <1>8, <2>2
    <3>2. CASE a \notin DOMAIN pins
      BY <3>2, <1>1, <1>9, <2>1 DEF Feasible, EarliestViolations
    <3> QED
      BY <3>1, <3>2
  <2>4. DeadlineViolations(J, s) = {}
    <3> SUFFICES ASSUME NEW a \in Mandated(J)
                 PROVE  a \in DOMAIN s /\ ~(s[a] > J.deadline[a])
      BY DEF DeadlineViolations
    <3>1. CASE a \in DOMAIN pins
      BY <3>1, <1>8, <2>2
    <3>2. CASE a \notin DOMAIN pins
      <4>1. a \in Mandated(inst) /\ J.deadline[a] = inst.deadline[a]
        BY <3>2, <1>1, <1>9 DEF Mandated
      <4> QED
        BY <4>1, <2>1 DEF Feasible, DeadlineViolations
    <3> QED
      BY <3>1, <3>2
  <2> QED
    BY <1>6, <2>1, <2>3, <2>4 DEF Feasible
<1>12. FeasibleSchedules(J) = Neighbourhood(destroy)
  BY <1>5, <1>10, <1>11 DEF FeasibleSchedules
<1> QED
  BY <1>12 DEF J, pins

-----------------------------------------------------------------------------
IInv ==
  /\ inst \in InstanceSet
  /\ pc \in {"start", "loop", "done"}
  /\ pc = "start" =>
       incumbent = None /\ stall = 0 /\ result.status # "FEASIBLE"
  /\ pc = "loop" => incumbent \in FeasibleSchedules(inst)
  /\ incumbent # None => Feasible(inst, incumbent)
  /\ result.status = "FEASIBLE" => Feasible(inst, result.schedule)

\* What the replies to the direct solve and to a repair carry.
LEMMA ReplyFacts ==
  ASSUME NEW I, NEW r \in Replies(I)
  PROVE  \/ /\ r.status \in {"OPTIMAL", "FEASIBLE"}
            /\ r.schedule \in FeasibleSchedules(I)
         \/ r.status \in {"UNKNOWN", "INFEASIBLE"} /\ r.schedule = None
<1> DEFINE found == IF NoWindow(I) = {} THEN FeasibleSchedules(I) ELSE {}
<1>1. \/ \E s \in found : \/ r = Reply("FEASIBLE", Risk(I, s), s)
                           \/ r = Reply("OPTIMAL", Risk(I, s), s)
      \/ r = Reply("UNKNOWN", None, None)
      \/ r = Reply("INFEASIBLE", None, None)
  BY DEF Replies
<1>2. found \subseteq FeasibleSchedules(I)
  OBVIOUS
<1> QED
  BY <1>1, <1>2 DEF Reply

LEMMA InductiveInvariant == Spec => []IInv
<1>1. Init => IInv
  BY DEF Init, IInv, Reply
<1>2. IInv /\ [Next]_vars => IInv'
  <2> SUFFICES ASSUME IInv, [Next]_vars PROVE IInv'
    OBVIOUS
  <2>1. CASE WarmStart
    BY <2>1 DEF WarmStart, IInv, FeasibleSchedules
  <2>2. CASE Fallback
    <3>1. PICK r \in Replies(inst) :
            result' = IF Usable(r) THEN Wrapped(r.schedule) ELSE r
      BY <2>2 DEF Fallback
    <3>2. result'.status = "FEASIBLE" => Feasible(inst, result'.schedule)
      <4>1. CASE Usable(r)
        BY <3>1, <4>1 DEF Wrapped, Reply
      <4>2. CASE ~Usable(r)
        BY <3>1, <4>2, ReplyFacts DEF FeasibleSchedules
      <4> QED
        BY <4>1, <4>2
    <3> QED
      BY <2>2, <3>2 DEF Fallback, IInv
  <2>3. CASE Repair
    <3>0. PICK destroy \in kSubset(k, inst.assets) :
            \E r \in Replies(Pinned(PinsFor(destroy))) :
              IF Improves(r) THEN incumbent' = r.schedule
                             ELSE incumbent' = incumbent
      BY <2>3 DEF Repair
    <3>1. PICK r \in Replies(Pinned(PinsFor(destroy))) :
            IF Improves(r) THEN incumbent' = r.schedule
                           ELSE incumbent' = incumbent
      BY <3>0
    <3>2. /\ inst' = inst /\ pc' = "loop" /\ pc = "loop" /\ result' = result
      BY <2>3 DEF Repair
    <3>3. IsInstance(inst) /\ incumbent \in FeasibleSchedules(inst)
      BY <3>2, InstanceAssumption DEF IInv
    <3>4. incumbent' \in FeasibleSchedules(inst)
      <4>1. CASE Improves(r)
        <5>1. r.schedule \in FeasibleSchedules(Pinned(PinsFor(destroy)))
          BY <4>1, ReplyFacts DEF Improves, Usable
        <5>2. r.schedule \in Neighbourhood(destroy)
          BY <5>1, <3>3, PinningIsExact
        <5> QED
          BY <5>2, <4>1, <3>1 DEF Neighbourhood
      <4>2. CASE ~Improves(r)
        BY <4>2, <3>1, <3>3
      <4> QED
        BY <4>1, <4>2
    <3> QED
      BY <3>2, <3>4 DEF IInv, FeasibleSchedules
  <2>4. CASE Stop
    <3>1. result' = Wrapped(incumbent) /\ incumbent' = incumbent /\ inst' = inst
      BY <2>4 DEF Stop
    <3>2. result'.status = "FEASIBLE" => Feasible(inst, result'.schedule)
      BY <3>1 DEF Wrapped, Reply
    <3> QED
      BY <2>4, <3>1, <3>2 DEF Stop, IInv
  <2>5. CASE Terminated \/ UNCHANGED vars
    BY <2>5 DEF Terminated, vars, IInv
  <2> QED
    BY <2>1, <2>2, <2>3, <2>4, <2>5 DEF Next
<1> QED
  BY <1>1, <1>2, PTL DEF Spec

(***************************************************************************)
(* The incumbent is feasible at every step, and what is reported FEASIBLE  *)
(* is.                                                                     *)
(***************************************************************************)
THEOREM SearchStaysFeasible == Spec => []StaysFeasible
<1>1. IInv => StaysFeasible
  BY DEF IInv, StaysFeasible
<1> QED
  BY <1>1, InductiveInvariant, PTL

(***************************************************************************)
(* Whatever assets are drawn, the sub-instance of a repair offers exactly  *)
(* the incumbent's neighbourhood: nothing spoilt, and nothing lost.        *)
(***************************************************************************)
THEOREM EveryPinIsExact == Spec => []PinsAreExact
<1>1. IInv => PinsAreExact
  BY InstanceAssumption, PinningIsExact DEF IInv, PinsAreExact
<1> QED
  BY <1>1, InductiveInvariant, PTL

\* A repair replaces the incumbent by a better feasible schedule, or not.
LEMMA RepairImproves ==
  ASSUME IInv, Repair
  PROVE  A!Improve \/ UNCHANGED A!vars
<1>1. /\ inst' = inst /\ pc' = "loop" /\ pc = "loop"
      /\ incumbent \in FeasibleSchedules(inst)
  BY DEF Repair, IInv
<1>2. PICK destroy \in kSubset(k, inst.assets) :
        \E r \in Replies(Pinned(PinsFor(destroy))) :
          IF Improves(r) THEN incumbent' = r.schedule
                         ELSE incumbent' = incumbent
  BY DEF Repair
<1>3. PICK r \in Replies(Pinned(PinsFor(destroy))) :
        IF Improves(r) THEN incumbent' = r.schedule
                       ELSE incumbent' = incumbent
  BY <1>2
<1>4. CASE Improves(r)
  <2>1. /\ incumbent' = r.schedule /\ r.schedule # None
        /\ Feasible(inst, r.schedule)
        /\ Risk(inst, r.schedule) < Risk(inst, incumbent)
    BY <1>3, <1>4 DEF Improves, Usable
  <2> QED
    BY <1>1, <2>1 DEF A!Improve
<1>5. CASE ~Improves(r)
  BY <1>1, <1>3, <1>5 DEF A!vars
<1> QED
  BY <1>4, <1>5

\* What is delivered in the end, by the search or by the direct solve.
LEMMA WrappedIsHonest ==
  ASSUME NEW s, s # None
  PROVE  A!Honest(Wrapped(s))
BY DEF A!Honest, Wrapped, Reply

(***************************************************************************)
(* The search implements the abstract planner Anytime: warm start and      *)
(* accepted repairs are its improvements, the end of the search or of the  *)
(* direct solve is its delivery, everything else a stutter.                *)
(***************************************************************************)
THEOREM LnsRefinesAnytime == Spec => RefinesAnytime
<1>1. Init => A!Init
  BY DEF Init, A!Init
<1>2. IInv /\ [Next]_vars => [A!Next]_(A!vars)
  <2> SUFFICES ASSUME IInv, [Next]_vars PROVE [A!Next]_(A!vars)
    OBVIOUS
  <2>0. \A z \in FeasibleSchedules(inst) : z # None /\ Feasible(inst, z)
    BY ScheduleAssumption DEF IInv, FeasibleSchedules
  <2>1. CASE WarmStart
    BY <2>0, <2>1 DEF WarmStart, IInv, A!Next, A!Improve
  <2>2. CASE Fallback
    <3>1. PICK r \in Replies(inst) :
            result' = IF Usable(r) THEN Wrapped(r.schedule) ELSE r
      BY <2>2 DEF Fallback
    <3>2. /\ pc = "start" /\ pc' = "done" /\ inst' = inst
          /\ incumbent = None /\ incumbent' = None
      BY <2>2 DEF Fallback, IInv
    <3>3. A!Honest(result')
      <4>1. CASE Usable(r)
        BY <3>1, <4>1, WrappedIsHonest DEF Usable
      <4>2. CASE ~Usable(r)
        BY <2>0, <3>1, <4>2, ReplyFacts DEF Usable, A!Honest
      <4> QED
        BY <4>1, <4>2
    <3> QED
      BY <3>2, <3>3 DEF A!Next, A!Deliver, A!vars
  <2>3. CASE Repair
    BY <2>3, RepairImproves DEF A!Next
  <2>4. CASE Stop
    <3>1. /\ pc = "loop" /\ pc' = "done" /\ result' = Wrapped(incumbent)
          /\ inst' = inst /\ incumbent' = incumbent
          /\ incumbent \in FeasibleSchedules(inst)
      BY <2>4 DEF Stop, IInv
    <3>2. result'.status = "FEASIBLE"
      BY <2>0, <3>1 DEF Wrapped, Reply
    <3>3. A!Honest(result')
      BY <2>0, <3>1, WrappedIsHonest
    <3> QED
      BY <3>1, <3>2, <3>3 DEF A!Next, A!Deliver, A!vars
  <2>5. CASE Terminated \/ UNCHANGED vars
    BY <2>5 DEF Terminated, vars, A!vars
  <2> QED
    BY <2>1, <2>2, <2>3, <2>4, <2>5 DEF Next
<1> QED
  BY <1>1, <1>2, InductiveInvariant, PTL DEF Spec, RefinesAnytime, A!Spec

-----------------------------------------------------------------------------
\* With nothing pinned the sub-instance has the schedules, the windows and
\* the risks of the instance.
LEMMA NothingPinned ==
  ASSUME IsInstance(inst), NEW pins, DOMAIN pins = {}
  PROVE  /\ FeasibleSchedules(Pinned(pins)) = FeasibleSchedules(inst)
         /\ NoWindow(Pinned(pins)) = NoWindow(inst)
         /\ \A s : Risk(Pinned(pins), s) = Risk(inst, s)
<1> DEFINE J == Pinned(pins)
<1>1. /\ J.assets = inst.assets /\ J.T = inst.T
      /\ J.budget = inst.budget /\ J.cost = inst.cost
      /\ J.deps = inst.deps /\ J.clusters = inst.clusters
      /\ J.crit = inst.crit /\ J.shelf = inst.shelf
      /\ J.crqc = inst.crqc /\ J.rm = inst.rm
  BY DEF IsInstance, Pinned, InstanceFields
<1>2. J.earliest = inst.earliest /\ J.deadline = inst.deadline
  <2>1. /\ J.earliest = [a \in inst.assets |-> inst.earliest[a]]
        /\ J.deadline = [a \in inst.assets |-> inst.deadline[a]]
    BY PinnedFields
  <2>2. /\ inst.earliest = [a \in inst.assets |-> inst.earliest[a]]
        /\ inst.deadline = [a \in inst.assets |-> inst.deadline[a]]
    BY DEF IsInstance
  <2> QED
    BY <2>1, <2>2
<1> HIDE DEF J
<1>3. Periods(J) = Periods(inst) /\ Mandated(J) = Mandated(inst)
  BY <1>1, <1>2 DEF Periods, Mandated
<1>4. \A s : Feasible(J, s) <=> Feasible(inst, s)
  <2> SUFFICES ASSUME NEW s PROVE Feasible(J, s) <=> Feasible(inst, s)
    OBVIOUS
  <2>1. \A t : Spend(J, s, t) = Spend(inst, s, t)
    BY <1>1 DEF Spend
  <2>2. BudgetViolations(J, s) = BudgetViolations(inst, s)
    BY <2>1, <1>1, <1>3 DEF BudgetViolations
  <2>3. /\ EarliestViolations(J, s) = EarliestViolations(inst, s)
        /\ DeadlineViolations(J, s) = DeadlineViolations(inst, s)
    BY <1>1, <1>2, <1>3 DEF EarliestViolations, DeadlineViolations
  <2>4. /\ PrecedenceViolations(J, s) = PrecedenceViolations(inst, s)
        /\ ClusterViolations(J, s) = ClusterViolations(inst, s)
    BY <1>1 DEF PrecedenceViolations, ClusterViolations
  <2> QED
    BY <2>2, <2>3, <2>4 DEF Feasible
<1>5. FeasibleSchedules(J) = FeasibleSchedules(inst)
  <2>1. Schedules(J) = Schedules(inst)
    BY <1>1, <1>3 DEF Schedules
  <2> QED
    BY <2>1, <1>4 DEF FeasibleSchedules
<1>6. NoWindow(J) = NoWindow(inst)
  BY <1>1, <1>2, <1>3 DEF NoWindow, Window
<1>7. \A s : Risk(J, s) = Risk(inst, s)
  BY <1>1, RiskCongruence DEF SameRisks
<1> QED
  BY <1>5, <1>6, <1>7 DEF J

\* A proof over the whole estate that does not improve makes the incumbent
\* optimal.
LEMMA ProofAtFullSize ==
  ASSUME IInv, pc = "loop", NoWindow(inst) = {},
         NEW r \in Replies(Pinned(PinsFor(inst.assets))),
         r.status \in {"OPTIMAL", "INFEASIBLE"}, ~Improves(r),
         NEW z \in FeasibleSchedules(inst)
  PROVE  Risk(inst, incumbent) <= Risk(inst, z)
<1> DEFINE J == Pinned(PinsFor(inst.assets))
           found == IF NoWindow(J) = {} THEN FeasibleSchedules(J) ELSE {}
           R == {Risk(J, s) : s \in found}
<1>1. IsInstance(inst) /\ incumbent \in FeasibleSchedules(inst)
  BY InstanceAssumption DEF IInv
<1>2. DOMAIN PinsFor(inst.assets) = {}
  <2>1. DOMAIN incumbent \subseteq inst.assets
    BY <1>1 DEF FeasibleSchedules, Schedules
  <2> QED
    BY <2>1 DEF PinsFor
<1>3. /\ found = FeasibleSchedules(inst)
      /\ \A s : Risk(J, s) = Risk(inst, s)
  BY <1>1, <1>2, NothingPinned
<1>4. \A s \in FeasibleSchedules(inst) :
        Risk(inst, s) \in Nat /\ s # None /\ Feasible(inst, s)
  BY <1>1, RiskNat, ScheduleAssumption DEF FeasibleSchedules, IInv
<1>5. PICK s \in found : r = Reply("OPTIMAL", Risk(J, s), s) /\ Risk(J, s) = Min(R)
  <2>1. found # {}
    BY <1>1, <1>3
  <2>2. \/ r \in {Reply("OPTIMAL", Risk(J, x), x) :
                    x \in {y \in found : Risk(J, y) = Min(R)}}
        \/ r \in {Reply("FEASIBLE", Risk(J, x), x) : x \in found}
        \/ r = Reply("UNKNOWN", None, None)
    <3>1. r \in Replies(J)
      OBVIOUS
    <3> HIDE DEF J
    <3> QED
      BY <2>1, <3>1 DEF Replies
  <2>3. r.status # "FEASIBLE" /\ r.status # "UNKNOWN"
    OBVIOUS
  <2> HIDE DEF J, found, R
  <2>4. r \in {Reply("OPTIMAL", Risk(J, x), x) :
                 x \in {y \in found : Risk(J, y) = Min(R)}}
    BY <2>2, <2>3 DEF Reply
  <2> QED
    BY <2>4
<1> HIDE DEF found, J
<1>6. Risk(inst, s) <= Risk(inst, z)
  <2>1. R \in SUBSET Nat /\ Risk(inst, z) \in R
    BY <1>3, <1>4
  <2> HIDE DEF R
  <2>2. R # {}
    BY <2>1
  <2>3. Min(R) <= Risk(inst, z)
    BY <2>1, <2>2, LeastNat
  <2>4. Min(R) = Risk(inst, s)
    BY <1>3, <1>5
  <2> QED
    BY <2>3, <2>4
<1>7. ~ (Risk(inst, s) < Risk(inst, incumbent))
  <2>1. r.status = "OPTIMAL" /\ r.schedule = s
    BY <1>5 DEF Reply
  <2> QED
    BY <2>1, <1>3, <1>4 DEF Improves, Usable
<1>8. /\ Risk(inst, s) \in Nat /\ Risk(inst, z) \in Nat
      /\ Risk(inst, incumbent) \in Nat
  BY <1>1, <1>3, <1>4
<1> QED
  BY <1>6, <1>7, <1>8

\* The state the theorem is about can only be left by an improvement, and
\* only be entered by such a proof.
StallInv == StallAtFullSizeMeansOptimal

LEMMA RepairStall == IInv /\ StallInv /\ Repair => StallInv'
<1> SUFFICES ASSUME IInv, StallInv, Repair, proved', NoWindow(inst) = {},
                    k' = n, stall' > 0, NEW z \in FeasibleSchedules(inst)
             PROVE  Risk(inst, incumbent') <= Risk(inst, z)
  BY DEF StallInv, StallAtFullSizeMeansOptimal, n, Repair
<1>1. PICK destroy \in kSubset(k, inst.assets) :
        \E r \in Replies(Pinned(PinsFor(destroy))) :
          /\ IF Improves(r)
             THEN incumbent' = r.schedule /\ k' = base /\ stall' = 0
             ELSE incumbent' = incumbent /\ Stalled
          /\ proved' = (proved /\ r.status \in {"OPTIMAL", "INFEASIBLE"})
  BY DEF Repair
<1>2. PICK r \in Replies(Pinned(PinsFor(destroy))) :
          /\ IF Improves(r)
             THEN incumbent' = r.schedule /\ k' = base /\ stall' = 0
             ELSE incumbent' = incumbent /\ Stalled
          /\ proved' = (proved /\ r.status \in {"OPTIMAL", "INFEASIBLE"})
  BY <1>1
<1>3. /\ ~Improves(r) /\ incumbent' = incumbent /\ k = n
      /\ r.status \in {"OPTIMAL", "INFEASIBLE"} /\ pc = "loop"
  <2>1. ~Improves(r)
    BY <1>2
  <2>2. incumbent' = incumbent /\ Stalled
    BY <1>2, <2>1
  <2>3. k' = k
    BY <2>2 DEF Stalled
  <2> QED
    BY <1>2, <2>1, <2>2, <2>3 DEF Repair
<1>4. destroy = inst.assets
  <2>1. IsFiniteSet(inst.assets)
    BY InstanceAssumption DEF IInv, IsInstance
  <2> QED
    BY <2>1, <1>3, FS_Subset DEF kSubset, n
<1>5. r \in Replies(Pinned(PinsFor(inst.assets)))
  BY <1>4
<1> QED
  BY <1>3, <1>5, ProofAtFullSize

(***************************************************************************)
(* What the escalation is for: a repair that released the whole estate,    *)
(* was solved to the end and brought no improvement proves the incumbent   *)
(* optimal, whatever the neighbourhood, the patience and the draws were.   *)
(***************************************************************************)
THEOREM FullSizeStallIsOptimal == Spec => []StallAtFullSizeMeansOptimal
<1>1. Init => StallInv
  BY DEF Init, StallInv, StallAtFullSizeMeansOptimal
<1>2. IInv /\ StallInv /\ [Next]_vars => StallInv'
  <2> SUFFICES ASSUME IInv, StallInv, [Next]_vars PROVE StallInv'
    OBVIOUS
  <2>1. CASE Repair
    BY <2>1, RepairStall
  <2>2. CASE WarmStart
    <3>1. stall' = 0
      BY <2>2 DEF WarmStart, IInv
    <3> QED
      BY <2>2, <3>1 DEF StallInv, StallAtFullSizeMeansOptimal
  <2>3. CASE Fallback \/ Stop
    BY <2>3 DEF Fallback, Stop, StallInv, StallAtFullSizeMeansOptimal
  <2>4. CASE Terminated \/ UNCHANGED vars
    BY <2>4 DEF Terminated, vars, StallInv, StallAtFullSizeMeansOptimal, n
  <2> QED
    BY <2>1, <2>2, <2>3, <2>4 DEF Next
<1> QED
  BY <1>1, <1>2, InductiveInvariant, PTL DEF Spec, StallInv

=============================================================================
