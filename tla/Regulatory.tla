----------------------------- MODULE Regulatory -----------------------------
(***************************************************************************)
(* The life of the regulatory profile: regulatory.py, the two workflows of *)
(* .github/workflows.  A profile is merged by hand, deployed by deploy.yml *)
(* and loaded once by each process of the service, which warns with every  *)
(* plan when the review is overdue; regulatory-watchdog.yml opens an issue *)
(* when that of the merged profile is.                                     *)
(*                                                                         *)
(* A day stands for whatever passes between two runs of the watchdog.  The *)
(* issue tracker and the queue of a concurrency group are GitHub's.        *)
(***************************************************************************)
EXTENDS Integers, FiniteSets

CONSTANTS
  Nothing,
  Runs,          \* runs of the watchdog that may overlap
  ReviewAfter,   \* days to review_due, as UPDATING_REGULATORY.md:41 asks
  MaxDay,        \* bound on the clock
  MaxMerges      \* bound on the refreshes

ASSUME RegulatoryAssumption ==
  /\ IsFiniteSet(Runs) /\ Nothing \notin [edition : Nat, review_due : Nat]
  /\ ReviewAfter \in Nat /\ MaxDay \in Nat /\ MaxMerges \in Nat

VARIABLES
  today,
  repo,        \* the profile on main: [edition, review_due]
  waiting,     \* the commit pending in the concurrency group, or Nothing
  deploying,   \* commits being deployed
  failed,      \* the last deployment failed
  process,     \* what the service runs: [profile, loaded (the day)]
  check,       \* step of each watchdog run: "idle", "list", "create"
  issues       \* open regulatory-review issues

deployVars == <<waiting, deploying, failed, process>>
watchVars == <<check, issues>>
profileVars == <<today, repo, deployVars, watchVars>>

-----------------------------------------------------------------------------
\* mutant: the watchdog asks for the day itself
Overdue_OnTheDay(profile, day) == day = profile.review_due + 1

Overdue(profile, day) == day > profile.review_due

Profile(edition) == [edition |-> edition, review_due |-> today + ReviewAfter]

ProfileInit ==
  /\ today = 0
  /\ repo = Profile(0)
  /\ waiting = Nothing /\ deploying = {} /\ failed = FALSE
  /\ process = [profile |-> repo, loaded |-> 0]
  /\ check = [r \in Runs |-> "idle"] /\ issues = 0

NextDay ==
  /\ today < MaxDay /\ today' = today + 1
  /\ UNCHANGED <<repo, deployVars, watchVars>>

\* a push to main; the newest pending run of the group replaces an older one
Merge ==
  /\ repo.edition < MaxMerges
  /\ repo' = Profile(repo.edition + 1)
  /\ waiting' = repo'
  /\ UNCHANGED <<today, deploying, failed, process, watchVars>>

\* workflow_dispatch, or a push that leaves the profile as it is
Redeploy ==
  /\ waiting' = repo
  /\ UNCHANGED <<today, repo, deploying, failed, process, watchVars>>

\* mutant: no concurrency group
StartDeploy_Parallel ==
  /\ waiting # Nothing
  /\ deploying' = deploying \cup {waiting} /\ waiting' = Nothing
  /\ UNCHANGED <<today, repo, failed, process, watchVars>>

\* concurrency: one deployment at a time, and none is cancelled
StartDeploy ==
  /\ waiting # Nothing /\ deploying = {}
  /\ deploying' = {waiting} /\ waiting' = Nothing
  /\ UNCHANGED <<today, repo, failed, process, watchVars>>

\* the smoke test meets a revision that is serving already
EndDeploy ==
  /\ \E p \in deploying :
       /\ deploying' = deploying \ {p}
       /\ \/ process' = [profile |-> p, loaded |-> today] /\ failed' \in BOOLEAN
          \/ process' = process /\ failed' = TRUE
  /\ UNCHANGED <<today, repo, waiting, watchVars>>

\* min-instances 0: a process ends when idle and a new one reads the file
Restart ==
  /\ process' = [process EXCEPT !.loaded = today]
  /\ UNCHANGED <<today, repo, waiting, deploying, failed, watchVars>>

\* mutant: status is computed on import
StaleFlag_OnImport == Overdue(process.profile, process.loaded)

\* status, computed when /plan or /regulatory asks for it
StaleFlag == today > process.profile.review_due

\* the watchdog's first step; a run that finds nothing overdue ends
Evaluate(r) ==
  /\ check[r] = "idle" /\ Overdue(repo, today)
  /\ check' = [check EXCEPT ![r] = "list"]
  /\ UNCHANGED <<today, repo, deployVars, issues>>

\* its second step: gh issue list, then, as a request of its own, create
List(r) ==
  /\ check[r] = "list"
  /\ check' = [check EXCEPT ![r] = IF issues = 0 THEN "create" ELSE "idle"]
  /\ UNCHANGED <<today, repo, deployVars, issues>>

Create(r) ==
  /\ check[r] = "create"
  /\ check' = [check EXCEPT ![r] = "idle"] /\ issues' = issues + 1
  /\ UNCHANGED <<today, repo, deployVars>>

\* a maintainer, before or after the refresh
CloseIssue ==
  /\ issues > 0 /\ issues' = issues - 1
  /\ UNCHANGED <<today, repo, deployVars, check>>

Deploy == Redeploy \/ StartDeploy \/ EndDeploy \/ Restart

Watch == \E r \in Runs : Evaluate(r) \/ List(r) \/ Create(r)

ProfileNext == NextDay \/ Merge \/ Deploy \/ Watch \/ CloseIssue

ProfileFairness ==
  /\ WF_profileVars(StartDeploy) /\ WF_profileVars(EndDeploy)
  /\ \A r \in Runs : /\ WF_profileVars(Evaluate(r)) /\ WF_profileVars(List(r))
                     /\ WF_profileVars(Create(r))

ProfileSpec == ProfileInit /\ [][ProfileNext]_profileVars /\ ProfileFairness

-----------------------------------------------------------------------------
(* Properties *)

(***************************************************************************)
(* UPDATING_REGULATORY.md:21-29, "the tool flags itself when due", by an   *)
(* issue and by the warning on every plan: unless a deployment is pending  *)
(* or the last one failed, the two are given on the same days, one by a    *)
(* job on a fresh checkout of main, the other by a process that loaded     *)
(* what was deployed, perhaps long ago.                                    *)
(***************************************************************************)
WarningAgreesWithWatchdog ==
  waiting = Nothing /\ deploying = {} /\ ~failed =>
    (StaleFlag <=> Overdue(repo, today))

(***************************************************************************)
(* regulatory-watchdog.yml:3-8: an overdue profile gets an issue, even if  *)
(* runs were missed around the date itself and if earlier issues were      *)
(* closed with nothing done, unless it is refreshed first.                 *)
(***************************************************************************)
OverdueIsReported ==
  today > repo.review_due ~> (issues > 0 \/ today <= repo.review_due)

(***************************************************************************)
(* deploy.yml:20-22, which serialises the deployments: no slow one puts an *)
(* older profile back over a newer one.                                    *)
(***************************************************************************)
NeverGoesBack == [][process'.profile.edition >= process.profile.edition]_profileVars

(***************************************************************************)
(* UPDATING_REGULATORY.md:42-43, "merge deploys": however many profiles    *)
(* are merged while one is deployed, the service never goes back, and in   *)
(* the end it runs the last profile merged, or its last deployment has     *)
(* failed.                                                                 *)
(***************************************************************************)
HeadIsServed ==
  /\ NeverGoesBack
  /\ <>[](process.profile = repo \/ failed)

=============================================================================
