------------------------------- MODULE Estate -------------------------------
(***************************************************************************)
(* scenarios.py, estate_from_json: a named estate, a list of crypto usages *)
(* with a coarse business rating, becomes an instance.  The couplings      *)
(* among the usages that are kept are kept; the budget is sized from the   *)
(* total effort and a tightness.                                           *)
(*                                                                         *)
(* A usage is a record; its effort is what the file states or what the     *)
(* table of kinds gives.  The tightness is a fraction <<num, den>>, and    *)
(* the ceiling of the code's floating-point quotient is exact here.        *)
(***************************************************************************)
EXTENDS Instances

\* only quantum-vulnerable usages are decision assets
Kept(f) == {n \in DOMAIN f.usages : f.usages[n].vulnerable}

Criticality(u) ==
  Min({100, u.criticality * 18 + (IF u.exposed THEN 10 ELSE 0)})

\* a deadline without a mandate is not one; one before the start is pushed
Deadline(u) ==
  IF u.mandated /\ u.deadline # None THEN Max({u.deadline, u.earliest}) ELSE None

\* budget_tightness within [1e-3, 1]
Tight(x) ==
  IF x[1] > x[2] THEN <<1, 1>>
  ELSE IF 1000 * x[1] < x[2] THEN <<1, 1000>> ELSE x

\* mutant: the dearest asset is forgotten
PerPeriod_Mean(total, dearest, T, x) ==
  (total * Tight(x)[2] + Tight(x)[1] * T - 1) \div (Tight(x)[1] * T)

\* ceil(total / tight / T), and at least the dearest asset
PerPeriod(total, dearest, T, x) ==
  Max({(total * Tight(x)[2] + Tight(x)[1] * T - 1) \div (Tight(x)[1] * T), dearest})

\* of an estate with a vulnerable usage: without one, max() raises
EstateFromJson(f, tightness, crqc, rm) ==
  LET kept == Kept(f)
      cost == [n \in kept |-> f.usages[n].effort]
      within(pairs) == SelectSeq(pairs, LAMBDA e : e[1] \in kept /\ e[2] \in kept)
  IN  [assets   |-> kept,
       T        |-> f.T,
       budget   |-> [t \in 0 .. f.T - 1 |->
                       PerPeriod(CostOf(cost, kept), Max(Range(cost)), f.T, tightness)],
       crit     |-> [n \in kept |-> Criticality(f.usages[n])],
       shelf    |-> [n \in kept |-> f.usages[n].shelf],
       cost     |-> cost,
       earliest |-> [n \in kept |-> f.usages[n].earliest],
       deadline |-> [n \in kept |-> Deadline(f.usages[n])],
       deps     |-> ToSet(within(f.deps)),
       clusters |-> within(f.clusters),
       crqc     |-> crqc,
       rm       |-> rm]

=============================================================================
