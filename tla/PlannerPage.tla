---------------------------- MODULE PlannerPage ----------------------------
(***************************************************************************)
(* static/index.html: the planner on the landing page.  Choosing an estate *)
(* or moving the capacity slider asks /plan again; a request takes up to   *)
(* 23 seconds, nothing cancels it, and the next one does not wait for it.  *)
(* Handlers run to completion on the browser's one thread; each await is a *)
(* gap between two actions.                                                *)
(*                                                                         *)
(* A reply is what render tells apart: the plan of an estate at a          *)
(* capacity, or a JSON body without a roadmap (an error of any status).    *)
(***************************************************************************)
EXTENDS Integers, FiniteSetsExt

CONSTANTS
  Samples, First,     \* sample estates; the one the page starts with
  Upload,             \* the source that is an uploaded file
  SliderValues,       \* positions the user tries
  SliderStart, SliderRange,   \* initial value and <<min, max>> of the input
  OwnCapacity,        \* source -> capacity_per_period of the estate as built
  DearestAsset,       \* source -> the floor /plan puts under a capacity
  None,
  MaxGestures         \* bound on the page's events

Sources == Samples \cup {Upload}

ASSUME SourceAssumption == First \in Samples /\ Upload \notin Samples
\* The budgets of an estate as built pay for its dearest asset: scenarios.py
\* and cbom.py, whose tightness the route leaves at 1, see to that.
ASSUME CapacityAssumption ==
  /\ None \notin Int /\ MaxGestures \in Nat
  /\ SliderValues \cup {SliderStart} \subseteq SliderRange[1] .. SliderRange[2]
  /\ \A s \in Sources : /\ OwnCapacity[s] \in Nat \ {0} /\ DearestAsset[s] \in Nat
                         /\ OwnCapacity[s] >= DearestAsset[s]

VARIABLES
  source,     \* SOURCE, and with it the pressed button
  slider,     \* value of the capacity input
  range,      \* its bounds, which render may stretch
  timer,      \* the 250 ms debounce is armed
  reading,    \* a chosen file is being read
  inflight,   \* requests not yet answered: [id, source, cap], cap None on reset
  busy,       \* the class that shows "computing"
  last,       \* LAST: the plan the download button exports
  table,      \* the plan in the table
  head,       \* what the summary line reports
  gestures,   \* history: events so far; they number the requests
  overlapped  \* history: two requests were in flight at once

pageVars == <<source, slider, range, timer, reading, inflight, busy, last,
              table, head, gestures, overlapped>>

controls == <<source, slider, range, timer, reading>>

\* the capacity /plan solves with (Plan, Effective)
CapacityUsed(s, cap) ==
  IF cap = None THEN OwnCapacity[s] ELSE Max({cap, DearestAsset[s]})

-----------------------------------------------------------------------------
\* replan up to its await; a reset leaves the capacity to the estate
Replan(s, reset) ==
  /\ busy' = TRUE
  /\ inflight' = inflight \cup {[id |-> gestures', source |-> s,
                                 cap |-> IF reset THEN None ELSE slider]}
  /\ overlapped' = (overlapped \/ inflight # {})

\* the script ends with replan(true)
PageInit ==
  /\ source = First
  /\ slider = SliderStart /\ range = SliderRange
  /\ timer = FALSE /\ reading = FALSE
  /\ inflight = {[id |-> 0, source |-> First, cap |-> None]}
  /\ busy = TRUE
  /\ last = None /\ table = None /\ head = "loading"
  /\ gestures = 0 /\ overlapped = FALSE

Gesture == gestures < MaxGestures /\ gestures' = gestures + 1

PickSample(s) ==
  /\ Gesture
  /\ source' = s
  /\ Replan(s, TRUE)
  /\ UNCHANGED <<slider, range, timer, reading, last, table, head>>

\* the listener restarts the debounce
Slide(v) ==
  /\ Gesture
  /\ slider' = v /\ timer' = TRUE
  /\ UNCHANGED <<source, range, reading, inflight, busy, last, table, head,
                 overlapped>>

Debounced ==
  /\ timer
  /\ timer' = FALSE
  /\ gestures' = gestures + 1
  /\ Replan(source, FALSE)
  /\ UNCHANGED <<source, slider, range, reading, last, table, head>>

ChooseFile ==
  /\ Gesture /\ ~reading
  /\ reading' = TRUE
  /\ UNCHANGED <<source, slider, range, timer, inflight, busy, last, table,
                 head, overlapped>>

\* f.text() resolved: the file is not JSON, or replaces the source
FileRead ==
  /\ reading
  /\ reading' = FALSE
  /\ gestures' = gestures + 1
  /\ \/ /\ head' = "bad file"
        /\ UNCHANGED <<source, inflight, busy, overlapped>>
     \/ /\ source' = Upload
        /\ Replan(Upload, TRUE)
        /\ UNCHANGED head
  /\ UNCHANGED <<slider, range, timer, last, table>>

\* replan after its await: whatever request it is, finally clears the class
Ends(q) ==
  /\ inflight' = inflight \ {q}
  /\ busy' = FALSE
  /\ UNCHANGED <<source, timer, reading, gestures, overlapped>>

\* mutant: the slider keeps its place
RenderPlan_KeepsSlider(q) ==
  LET cap == CapacityUsed(q.source, q.cap)
  IN  /\ last' = [source |-> q.source, cap |-> cap]
      /\ table' = last'
      /\ head' = "plan"
      /\ UNCHANGED <<slider, range>>
      /\ Ends(q)

\* render of a roadmap: a reset moves the slider, and its bounds if need be
RenderPlan(q) ==
  LET cap == CapacityUsed(q.source, q.cap)
  IN  /\ last' = [source |-> q.source, cap |-> cap]
      /\ table' = last'
      /\ head' = "plan"
      /\ IF q.cap = None
         THEN /\ slider' = cap
              /\ range' = <<IF cap < range[1] THEN Max({1, cap - 1}) ELSE range[1],
                            IF cap > range[2] THEN cap + 5 ELSE range[2]>>
         ELSE UNCHANGED <<slider, range>>
      /\ Ends(q)

\* render of a reply without a roadmap
RenderError(q) ==
  /\ last' = None /\ table' = None /\ head' = "warning"
  /\ Ends(q)
  /\ UNCHANGED <<slider, range>>

\* mutant: the class is cleared after a reply only
Unreachable_StaysBusy(q) ==
  /\ head' = "warning"
  /\ inflight' = inflight \ {q}
  /\ UNCHANGED <<controls, busy, last, table, gestures, overlapped>>

\* no answer, or one that is not JSON: table and LAST stay
Unreachable(q) ==
  /\ head' = "warning"
  /\ Ends(q)
  /\ UNCHANGED <<slider, range, last, table>>

Completes(q) == RenderPlan(q) \/ RenderError(q) \/ Unreachable(q)

Quiet == inflight = {} /\ ~timer /\ ~reading

PageTerminated == Quiet /\ gestures >= MaxGestures /\ UNCHANGED pageVars

PageNext ==
  \/ \E s \in Samples : PickSample(s)
  \/ \E v \in SliderValues : Slide(v)
  \/ Debounced \/ ChooseFile \/ FileRead
  \/ \E q \in inflight : Completes(q)
  \/ PageTerminated

\* Timers fire, files are read, and every fetch ends: /plan bounds its wait
\* and its solve, and the browser gives up on a dead connection.
PageFairness ==
  /\ WF_pageVars(Debounced) /\ WF_pageVars(FileRead)
  /\ WF_pageVars(\E q \in inflight : Completes(q))

PageSpec == PageInit /\ [][PageNext]_pageVars /\ PageFairness

-----------------------------------------------------------------------------
(* Properties *)

(***************************************************************************)
(* index.html:319-346, as long as no request was sent while another was in *)
(* flight: when the page comes to rest on a plan, it is the plan of the    *)
(* estate whose button is pressed, at the capacity the slider stands for,  *)
(* and the file the download button writes is that plan.                   *)
(* A slide and a choice of estate may still race each other's debounce and *)
(* the slider that a reset moves.                                          *)
(***************************************************************************)
SoloPlanMatchesControls ==
  Quiet /\ ~overlapped /\ head = "plan" =>
    /\ last = table
    /\ table.source = source
    /\ table.cap = CapacityUsed(source, slider)

(***************************************************************************)
(* index.html:346: once the user stops, the page comes to rest and the     *)
(* "computing" label goes away, after failures too.                        *)
(***************************************************************************)
ComesToRest == <>[](Quiet /\ ~busy)

(***************************************************************************)
(* index.html:236, "Choose a sample estate or upload your own CBOM. SAMAY  *)
(* solves it": when the page has come to rest on a plan, it is the plan of *)
(* the estate chosen.                                                      *)
(***************************************************************************)
ChosenEstateIsShown == Quiet /\ head = "plan" => table.source = source

=============================================================================
