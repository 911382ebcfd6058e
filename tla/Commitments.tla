---------------------------- MODULE Commitments ----------------------------
(***************************************************************************)
(* What a left-to-right constructor of schedules promises, whatever rule   *)
(* it ranks assets by: time only moves forward, a commitment is never      *)
(* revised, and every commitment respects earliest starts, predecessors    *)
(* and co-migration clusters at the moment it is made.  Deadlines and      *)
(* total risk are not promised: greedy.py says so of its baselines.        *)
(***************************************************************************)
EXTENDS Instances

CONSTANT InstanceSet

VARIABLES inst, now, schedule

vars == <<inst, now, schedule>>

Init ==
  /\ inst \in InstanceSet
  /\ now = 0
  /\ schedule = [a \in {} |-> 0]

\* The batch S may be committed to the current period.
Admissible(S) ==
  /\ S \subseteq inst.assets \ DOMAIN schedule
  /\ \A a \in S : inst.earliest[a] <= now
  /\ \A e \in inst.deps : e[2] \in S => e[1] \in S \cup DOMAIN schedule
  /\ \A c \in Range(inst.clusters) : c[1] \in S <=> c[2] \in S

Commit ==
  \E S \in SUBSET inst.assets :
    /\ Admissible(S)
    /\ schedule' = [a \in S \cup DOMAIN schedule |->
                      IF a \in S THEN now ELSE schedule[a]]
    /\ UNCHANGED <<inst, now>>

Tick ==
  /\ now + 1 < inst.T
  /\ now' = now + 1
  /\ UNCHANGED <<inst, schedule>>

Next == Commit \/ Tick

Spec == Init /\ [][Next]_vars

=============================================================================
