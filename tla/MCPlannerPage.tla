--------------------------- MODULE MCPlannerPage ---------------------------
(***************************************************************************)
(* PlannerPage with two samples and an upload whose own capacities lie     *)
(* inside, above and below the slider's first range, and an asset dearer   *)
(* than the lowest position.                                               *)
(***************************************************************************)
EXTENDS PlannerPage

CONSTANTS enterprise, india, cbom

MCOwnCapacity ==
  [s \in Sources |-> CASE s = enterprise -> 5 [] s = india -> 16 [] s = cbom -> 3]

MCDearestAsset ==
  [s \in Sources |-> CASE s = enterprise -> 4 [] s = india -> 6 [] s = cbom -> 1]

MCSliderRange == <<4, 14>>

=============================================================================
