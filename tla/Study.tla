-------------------------------- MODULE Study --------------------------------
(***************************************************************************)
(* The study as a command: cli.py's `study` and scripts/run_main_study.py  *)
(* run the studies of a grid file one after the other, run_grid and then   *)
(* summarize each, and tell by their exit code how it went.  The process   *)
(* may be killed at any point and launched again; files survive.           *)
(*                                                                         *)
(* A study's file is its header state and its rows.  run_grid takes one    *)
(* step per item, and a row reaches the disk with the step that evaluates  *)
(* it.  What an instance gave is an outcome: status and objective of the   *)
(* exact solve, risk and feasibility of one greedy.                        *)
(***************************************************************************)
EXTENDS Integers, Sequences, SequencesExt

CONSTANTS
  GridFiles,    \* the grid files studied: sequences of [name, ok, items]; an
                \* item is <<cell, index>>; ok is false for a malformed entry
  Outcomes,     \* [status, opt, naive, feasible]
  BaseSeed, Resamples,   \* base_seed; numbers of infeasible resamples met
  FrontEnds,    \* subset of {"cli", "script"}
  None,
  MaxFaults     \* bound on kills and full disks

ASSUME OutcomeAssumption ==
  \A o \in Outcomes :
    /\ o.status \in {"OPTIMAL", "FEASIBLE", "UNKNOWN"}
    /\ o.status = "OPTIMAL" /\ o.feasible => o.naive >= o.opt
ASSUME NoneAssumption == None \notin Int
ASSUME SeedAssumption == BaseSeed \in Nat /\ Resamples \subseteq 0 .. 12
ASSUME ItemAssumption ==
  \A e \in GridFiles :
    /\ e \in Seq(ToSet(e))
    /\ \A x \in DOMAIN e :
         LET its == e[x].items
         IN  /\ its \in Seq(ToSet(its))
             /\ \A m \in DOMAIN its : its[m] = <<its[m][1], its[m][2]>>
                                      /\ its[m][2] \in Nat
             /\ \A m, n \in DOMAIN its : its[m] = its[n] => m = n
ASSUME NameAssumption ==
  \A e \in GridFiles : \A x, y \in DOMAIN e : x # y => e[x].name # e[y].name

VARIABLES
  entries,   \* the grid file
  header,    \* name -> "none" (no file), "lost" (file without header), "there"
  rows,      \* name -> rows on disk
  summary,   \* name -> the summary file, or None
  front,     \* the front end of the current process
  pc,        \* "idle", "study", "header", "grid", "summarize", "killed",
             \* "raised" (a traceback) or "exited"
  i, pos,    \* current study, current item of its grid
  skip,      \* items run_grid read back
  code,      \* exit code of the last process
  short,     \* history: studies this process left at the disk floor
  barren,    \* history: items for which no instance was feasible
  faults     \* history: kills and full disks so far

files == <<entries, header, rows, summary>>

vars == <<files, front, pc, i, pos, skip, code, short, barren, faults>>

Entry == entries[i]
Name == Entry.name
Names == {e.name : e \in ToSet(entries)}
Running == pc \in {"study", "header", "grid", "summarize"}

-----------------------------------------------------------------------------
\* mutant: a resample steps by the stride of the index
Seed_OneStride(index, k) == BaseSeed + index * 7919 + k * 7919

\* generate_feasible: the seed after k infeasible ones
Seed(index, k) == BaseSeed + index * 7919 + k * 104729

\* evaluate: the paired gap of a proven optimum and a feasible greedy
Row(item, k, o) ==
  [item |-> item, seed |-> Seed(item[2], k), status |-> o.status,
   gap |-> IF o.status = "OPTIMAL" /\ o.feasible THEN o.naive - o.opt ELSE None]

\* summarize, per cell: rows, proven ones, and the gaps the mean is over
Summary(rs) ==
  [c \in {r.item[1] : r \in ToSet(rs)} |->
     LET of(P(_)) == SelectSeq(rs, LAMBDA r : r.item[1] = c /\ P(r))
         proven(r) == r.status = "OPTIMAL"
     IN  [n      |-> Len(of(LAMBDA r : TRUE)),
          proven |-> Len(of(proven)),
          gaps   |-> LET g == of(LAMBDA r : proven(r) /\ r.gap # None)
                     IN  [x \in DOMAIN g |-> g[x].gap]]]

\* what DictReader yields: without a header the first row is taken for one
Read(name) ==
  IF header[name] = "there" \/ rows[name] = <<>> THEN rows[name]
  ELSE Tail(rows[name])

\* the keys read back; rows under another header have none of the columns
LoadDone(name) ==
  IF header[name] = "there" THEN {r.item : r \in ToSet(rows[name])} ELSE {}

-----------------------------------------------------------------------------
Init ==
  /\ entries \in GridFiles
  /\ header = [n \in Names |-> "none"]
  /\ rows = [n \in Names |-> <<>>]
  /\ summary = [n \in Names |-> None]
  /\ front \in FrontEnds
  /\ pc = "idle" /\ i = 1 /\ pos = 1
  /\ skip = {} /\ code = None
  /\ short = {} /\ barren = {} /\ faults = 0

\* a new process, after a kill or a study left at the disk floor
Launch ==
  /\ (pc \in {"idle", "killed"}) \/ (pc = "exited" /\ short # {})
  /\ front' \in FrontEnds
  /\ pc' = "study" /\ i' = 1
  /\ code' = None /\ short' = {} /\ barren' = {}
  /\ UNCHANGED <<files, pos, skip, faults>>

Exit(c) == pc' = "exited" /\ code' = c

\* A malformed entry ends the command after the studies before it have run;
\* the script does not look for one and raises.
Malformed ==
  /\ pc = "study" /\ i <= Len(entries) /\ ~Entry.ok
  /\ IF front = "cli" THEN Exit(2) ELSE pc' = "raised" /\ code' = 1
  /\ UNCHANGED <<files, front, i, pos, skip, short, barren, faults>>

\* run_grid: what is there is read, a missing file is created
OpenGrid ==
  /\ pc = "study" /\ i <= Len(entries) /\ Entry.ok
  /\ skip' = LoadDone(Name)
  /\ pc' = IF header[Name] = "none" THEN "header" ELSE "grid"
  /\ header' = [header EXCEPT ![Name] = IF @ = "none" THEN "lost" ELSE @]
  /\ pos' = 1
  /\ UNCHANGED <<entries, rows, summary, front, i, code, short, barren, faults>>

WriteHeader ==
  /\ pc = "header"
  /\ header' = [header EXCEPT ![Name] = "there"]
  /\ pc' = "grid"
  /\ UNCHANGED <<entries, rows, summary, front, i, pos, skip, code, short, barren, faults>>

Pending == pos <= Len(Entry.items)

Item ==
  /\ pc = "grid" /\ Pending
  /\ LET item == Entry.items[pos]
     IN  \/ item \in skip /\ UNCHANGED <<rows, barren>>
         \/ /\ item \notin skip
            /\ \/ /\ \E o \in Outcomes, k \in Resamples :
                       rows' = [rows EXCEPT ![Name] = Append(@, Row(item, k, o))]
                  /\ UNCHANGED barren
               \/ /\ barren' = barren \cup {item}
                  /\ UNCHANGED rows
  /\ pos' = pos + 1
  /\ UNCHANGED <<entries, header, summary, front, pc, i, skip, code, short, faults>>

\* the disk guard; run_grid returns normally
DiskFloor ==
  /\ pc = "grid" /\ Pending /\ Entry.items[pos] \notin skip
  /\ faults < MaxFaults /\ faults' = faults + 1
  /\ short' = short \cup {Name}
  /\ pc' = "summarize"
  /\ UNCHANGED <<files, front, i, pos, skip, code, barren>>

\* mutant: the grid is swept until every item has a row
GridDone_EveryRow ==
  /\ pc = "grid" /\ ~Pending
  /\ pc' = IF {Entry.items[n] : n \in DOMAIN Entry.items}
                \subseteq {r.item : r \in ToSet(rows[Name])}
           THEN "summarize" ELSE "grid"
  /\ UNCHANGED <<files, front, i, pos, skip, code, short, barren, faults>>

GridDone ==
  /\ pc = "grid" /\ ~Pending
  /\ pc' = "summarize"
  /\ UNCHANGED <<files, front, i, pos, skip, code, short, barren, faults>>

\* mutant: the script goes on past the disk floor as the CLI does
Summarize_GoesOn ==
  /\ pc = "summarize" /\ (header[Name] = "there" \/ Read(Name) = <<>>)
  /\ summary' = IF Read(Name) = <<>> THEN summary
                ELSE [summary EXCEPT ![Name] = Summary(Read(Name))]
  /\ pc' = "study" /\ i' = i + 1
  /\ UNCHANGED <<entries, header, rows, front, pos, skip, code, short, barren, faults>>

\* mutant: a study left at the disk floor is not summarised
Summarize_NotIfShort ==
  /\ pc = "summarize" /\ (header[Name] = "there" \/ Read(Name) = <<>>)
  /\ summary' = IF Read(Name) = <<>> \/ Name \in short THEN summary
                ELSE [summary EXCEPT ![Name] = Summary(Read(Name))]
  /\ IF front = "script" /\ Name \in short
     THEN Exit(2) /\ UNCHANGED i
     ELSE pc' = "study" /\ i' = i + 1 /\ UNCHANGED code
  /\ UNCHANGED <<entries, header, rows, front, pos, skip, short, barren, faults>>

\* The summary is written unless it would be empty; the script then stops if
\* the disk floor was hit, the CLI goes on.
Summarize ==
  /\ pc = "summarize" /\ (header[Name] = "there" \/ Read(Name) = <<>>)
  /\ summary' = IF Read(Name) = <<>> THEN summary
                ELSE [summary EXCEPT ![Name] = Summary(Read(Name))]
  /\ IF front = "script" /\ Name \in short
     THEN Exit(2) /\ UNCHANGED i
     ELSE pc' = "study" /\ i' = i + 1 /\ UNCHANGED code
  /\ UNCHANGED <<entries, header, rows, front, pos, skip, short, barren, faults>>

\* KeyError: 'study', the columns have other names
SummarizeRaises ==
  /\ pc = "summarize" /\ header[Name] = "lost" /\ Read(Name) # <<>>
  /\ pc' = "raised" /\ code' = 1
  /\ UNCHANGED <<files, front, i, pos, skip, short, barren, faults>>

Complete ==
  /\ pc = "study" /\ i > Len(entries)
  /\ Exit(0)
  /\ UNCHANGED <<files, front, i, pos, skip, short, barren, faults>>

\* kill -9, or run_study.sh's guard.  An interrupt, which still flushes, leaves
\* what a kill one step later leaves.
Kill ==
  /\ Running
  /\ faults < MaxFaults /\ faults' = faults + 1
  /\ pc' = "killed"
  /\ UNCHANGED <<files, front, i, pos, skip, code, short, barren>>

Terminated ==
  /\ (pc = "raised") \/ (pc = "exited" /\ short = {})
  /\ UNCHANGED vars

Works ==
  \/ Malformed \/ OpenGrid \/ WriteHeader \/ Item \/ GridDone
  \/ Summarize \/ SummarizeRaises \/ Complete

Next == Launch \/ Works \/ DiskFloor \/ Kill \/ Terminated

\* The process makes progress while it lives, and an unfinished study is
\* launched again: kills and full disks are not fair, and are bounded.
Spec == Init /\ [][Next]_vars /\ WF_vars(Launch) /\ WF_vars(Works)

-----------------------------------------------------------------------------
(* Properties *)

(***************************************************************************)
(* A process that reports success leaves, for every study, a summary of    *)
(* exactly the rows in its file, whatever earlier processes left behind    *)
(* (cli.py:494-505): never one computed before the last rows were added.   *)
(***************************************************************************)
SummaryTellsTheFile ==
  code = 0 =>
    \A n \in Names : header[n] = "there" /\ rows[n] # <<>> =>
                       summary[n] = Summary(rows[n])

(***************************************************************************)
(* experiment.py:151, "distinct, deterministic per index": however         *)
(* many infeasible seeds each went through, two rows of a cell were not    *)
(* generated from the same seed, so the bootstrap resamples distinct       *)
(* instances.                                                              *)
(***************************************************************************)
InstancesDistinct ==
  \A n \in Names : header[n] = "there" =>
    \A x, y \in DOMAIN rows[n] :
      x # y /\ rows[n][x].item[1] = rows[n][y].item[1] =>
        rows[n][x].seed # rows[n][y].seed

GridsCovered ==
  \A e \in ToSet(entries) : \A item \in ToSet(e.items) :
    item \in barren \/ \E r \in ToSet(rows[e.name]) : r.item = item

(***************************************************************************)
(* run_main_study.py:54-69: when the script reports success, every item of *)
(* every study has a row or was found to have no feasible instance.        *)
(***************************************************************************)
ScriptSuccessMeansComplete == code = 0 /\ front = "script" => GridsCovered

(***************************************************************************)
(* Kills and full disks stop sooner or later; from then on a well-formed   *)
(* grid file ends in success with every grid covered, items without an     *)
(* instance included (experiment.py:16-17), if no file lost its header.    *)
(***************************************************************************)
StudiesComplete ==
  /\ \A e \in ToSet(entries) : e.ok
  /\ [](\A n \in Names : header[n] = "lost" => pc = "header")
  => <>(pc = "exited" /\ code = 0 /\ GridsCovered)

(***************************************************************************)
(* experiment.py:16, "Checkpoint + resume": a study that was interrupted   *)
(* can be resumed; no process ends in a traceback.                         *)
(***************************************************************************)
AlwaysResumable == pc # "raised"

=============================================================================
