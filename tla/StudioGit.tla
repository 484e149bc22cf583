----------------------------- MODULE StudioGit -----------------------------
(***************************************************************************)
(* The studio's git service (services/git.ts) over the repository of its   *)
(* data, and the git store of a browser: status bar, diff and staging.     *)
(*                                                                         *)
(* simple-git runs one process at a time: jobs is its queue.  A file of    *)
(* the repository is clean or changed; new and deleted files are left out. *)
(* The browser's notifier is on (its calls are in StudioProjects); a       *)
(* status waits in the debounce buffer, the result of a call does not.     *)
(***************************************************************************)
EXTENDS Naturals, Sequences, SequencesExt, FiniteSets

CONSTANTS
  Files,        \* the files of the repository
  FeatureOf,    \* file -> the feature its path belongs to, or NoFeature
  NoFeature,
  MaxChanges,   \* bound: changes of files, and commits of others
  MaxCalls,     \* bound: calls of the browser and periodic fetches
  MaxFailures   \* bound: git processes that fail

VARIABLES
  changed,              \* the changed files
  ahead, behind,        \* commits to push; commits to pull that were fetched
  upstream,             \* commits of others that are not fetched yet
  timer,                \* the status debouncer is armed
  jobs,                 \* the queue of git processes
  pending,              \* refreshSingleRun is running
  status,               \* this.status: [features, ahead, behind]
  notified,             \* the statuses in the browser's debounce buffer
  shown,                \* the browser's status
  features, files,      \* the browser's diff: feature -> files, file -> staged
  alive,                \* no reducer threw
  changes, calls, failures, \* bounds
  quirks                \* history: "hasty", "unowned", "failed": see the properties

repoVars == <<changed, ahead, behind, upstream>>
browserVars == <<shown, features, files, alive>>
bounds == <<changes, calls, failures>>
vars == <<repoVars, timer, jobs, pending, status, notified, browserVars, bounds, quirks>>

Default == [features |-> {}, ahead |-> 0, behind |-> 0]

Init ==
  /\ changed \in SUBSET {f \in Files : FeatureOf[f] # NoFeature} /\ ahead = 0 /\ behind = 0 /\ upstream = 0
  /\ timer = FALSE /\ pending = FALSE /\ jobs = <<[op |-> "fetch", own |-> FALSE]>>
  /\ status = Default /\ notified = <<>> /\ shown = Default
  /\ features = <<>> /\ files = <<>> /\ alive = TRUE
  /\ changes = 0 /\ calls = 0 /\ failures = 0 /\ quirks = {}

buildChangedFeatures == {FeatureOf[f] : f \in changed} \ {NoFeature}
Actual == [features |-> buildChangedFeatures, ahead |-> ahead, behind |-> behind]
Settled == ~timer /\ jobs = <<>> /\ notified = <<>>

Call == alive /\ calls < MaxCalls /\ calls' = calls + 1 /\ UNCHANGED <<changes, failures>>
Submit(j) == jobs' = Append(jobs, j)

(***************************************************************************)
(* What happens around the service.                                        *)
(***************************************************************************)
\* a service writes a file and calls notifyFileUpdate
notifyFileUpdateLost(f) ==
  /\ changes < MaxChanges /\ changes' = changes + 1 /\ changed' = changed \cup {f}
  /\ timer' = (timer \/ jobs = <<>>)
  /\ quirks' = quirks \cup IF FeatureOf[f] = NoFeature THEN {"unowned"} ELSE {}
  /\ UNCHANGED <<ahead, behind, upstream, jobs, pending, status, notified, browserVars, calls, failures>>
notifyFileUpdate(f) ==
  /\ changes < MaxChanges /\ changes' = changes + 1 /\ changed' = changed \cup {f}
  /\ timer' = TRUE
  /\ quirks' = quirks \cup IF FeatureOf[f] = NoFeature THEN {"unowned"} ELSE {}
  /\ UNCHANGED <<ahead, behind, upstream, jobs, pending, status, notified, browserVars, calls, failures>>
OthersPush ==
  /\ changes < MaxChanges /\ changes' = changes + 1 /\ upstream' = upstream + 1
  /\ UNCHANGED <<changed, ahead, behind, timer, jobs, pending, status, notified, browserVars, calls, failures, quirks>>

(***************************************************************************)
(* Debounce, Interval, SingleRun.                                          *)
(***************************************************************************)
onTimeout ==
  /\ timer /\ timer' = FALSE /\ Submit([op |-> "status"])
  /\ UNCHANGED <<repoVars, pending, status, notified, browserVars, bounds, quirks>>
fetchTimer ==
  /\ Call /\ Submit([op |-> "fetch", own |-> FALSE])
  /\ UNCHANGED <<repoVars, timer, pending, status, notified, browserVars, quirks>>
\* a refresh while one runs waits for that one; what it does depends on the status known here
refresh ==
  /\ Call
  /\ IF pending THEN UNCHANGED <<jobs, pending>>
     ELSE /\ pending' = TRUE
          /\ Submit([op |-> IF status.behind > 0 THEN "pull" ELSE IF status.ahead > 0 THEN "push" ELSE "fetch",
                     own |-> TRUE])
  /\ UNCHANGED <<repoVars, timer, status, notified, browserVars, quirks>>

(***************************************************************************)
(* The calls of the browser.                                               *)
(***************************************************************************)
Staged == {f \in DOMAIN files : files[f]}
commit ==
  /\ Staged # {} /\ Call /\ Submit([op |-> "commit", files |-> Staged])
  /\ UNCHANGED <<repoVars, timer, pending, status, notified, browserVars, quirks>>
\* discard all, a feature, or a file: only what is not staged
Discardable ==
  LET all == DOMAIN files \ Staged
  IN ({all} \cup {features[x] \ Staged : x \in DOMAIN features} \cup {{f} : f \in all}) \ {{}}
restore(fs) ==
  /\ Call
  /\ Submit([op |-> "restore", files |-> fs])
  /\ UNCHANGED <<repoVars, timer, pending, status, notified, browserVars, quirks>>
diff ==
  /\ Call /\ Submit([op |-> "diff"])
  /\ UNCHANGED <<repoVars, timer, pending, status, notified, browserVars, quirks>>
stage(f, s) ==
  /\ alive /\ f \in DOMAIN files /\ files[f] # s /\ files' = [files EXCEPT ![f] = s]
  /\ UNCHANGED <<repoVars, timer, jobs, pending, status, notified, shown, features, alive, bounds, quirks>>
clear ==
  /\ alive /\ files # <<>> /\ features' = <<>> /\ files' = <<>>
  /\ UNCHANGED <<repoVars, timer, jobs, pending, status, notified, shown, alive, bounds, quirks>>

(***************************************************************************)
(* A git process ends.                                                     *)
(***************************************************************************)
Job == Head(jobs)
Done == jobs # <<>> /\ jobs' = Tail(jobs)

updateModel(s) ==
  /\ status' = s
  /\ notified' = IF s = status THEN notified ELSE Append(notified, s)

gitStatus ==
  /\ Done /\ Job.op = "status" /\ updateModel(Actual)
  /\ quirks' = quirks \ {"failed"}
  /\ UNCHANGED <<repoVars, timer, pending, browserVars, bounds>>
gitFetch ==
  /\ Done /\ Job.op = "fetch" /\ timer' = TRUE
  /\ behind' = behind + upstream /\ upstream' = 0 /\ pending' = (pending /\ ~Job.own)
  /\ UNCHANGED <<changed, ahead, status, notified, browserVars, bounds, quirks>>
gitPull ==
  /\ Done /\ Job.op = "pull" /\ timer' = TRUE /\ pending' = FALSE
  /\ behind' = 0 /\ upstream' = 0
  /\ UNCHANGED <<changed, ahead, status, notified, browserVars, bounds, quirks>>
\* refused when others pushed first
gitPush ==
  /\ Done /\ Job.op = "push" /\ behind = 0 /\ upstream = 0 /\ timer' = TRUE /\ pending' = FALSE
  /\ ahead' = 0
  /\ UNCHANGED <<changed, behind, upstream, status, notified, browserVars, bounds, quirks>>
\* the reply carries a new diff: its process is queued
gitCommit ==
  /\ jobs # <<>> /\ Job.op = "commit" /\ jobs' = Append(Tail(jobs), [op |-> "diff"]) /\ timer' = TRUE
  /\ changed' = changed \ Job.files
  /\ ahead' = IF changed \cap Job.files = {} THEN ahead ELSE ahead + 1
  /\ UNCHANGED <<behind, upstream, pending, status, notified, browserVars, bounds, quirks>>
\* one checkout per file
gitCheckout ==
  /\ jobs # <<>> /\ Job.op = "restore"
  /\ LET f == CHOOSE x \in Job.files : TRUE
         left == Job.files \ {f}
     IN /\ changed' = changed \ {f}
        /\ jobs' = Append(Tail(jobs), IF left = {} THEN [op |-> "diff"] ELSE [Job EXCEPT !.files = left])
        /\ timer' = (timer \/ left = {})
  /\ UNCHANGED <<ahead, behind, upstream, pending, status, notified, browserVars, bounds, quirks>>
\* DIFF_DATA_SET: the features of the status shown, the files of the diff, the staging that was there;
\* throws on a file whose feature is not among them
gitDiff ==
  /\ Done /\ Job.op = "diff"
  /\ IF \A f \in changed : FeatureOf[f] \in shown.features
     THEN /\ features' = [x \in shown.features |-> {f \in changed : FeatureOf[f] = x}]
          /\ files' = [f \in changed |-> f \in Staged]
          /\ UNCHANGED alive
     ELSE alive' = FALSE /\ UNCHANGED <<features, files>>
  /\ quirks' = quirks \cup IF timer \/ notified # <<>> \/ Len(jobs) > 1 \/ "failed" \in quirks THEN {"hasty"} ELSE {}
  /\ UNCHANGED <<repoVars, timer, pending, status, notified, shown, bounds>>
\* a status that fails is the default one; another process that fails reports to its caller, or the log
gitFails ==
  /\ Done /\ failures < MaxFailures /\ failures' = failures + 1
  /\ IF Job.op = "status" THEN updateModel(Default) ELSE UNCHANGED <<status, notified>>
  /\ quirks' = quirks \cup {"failed"}
  /\ pending' = (pending /\ ~(Job.op \in {"pull", "push"} \/ (Job.op = "fetch" /\ Job.own)))
  /\ UNCHANGED <<repoVars, timer, browserVars, changes, calls>>
pushRefused ==
  /\ Done /\ Job.op = "push" /\ behind + upstream > 0 /\ pending' = FALSE
  /\ UNCHANGED <<repoVars, timer, status, notified, browserVars, bounds, quirks>>

\* only the last status is relevant
flush ==
  /\ alive /\ notified # <<>> /\ shown' = Last(notified) /\ notified' = <<>>
  /\ UNCHANGED <<repoVars, timer, jobs, pending, status, features, files, alive, bounds, quirks>>

Next ==
  \/ \E f \in Files : notifyFileUpdate(f) \/ \E s \in BOOLEAN : stage(f, s)
  \/ OthersPush \/ onTimeout \/ fetchTimer \/ refresh \/ commit \/ diff \/ clear
  \/ \E fs \in Discardable : restore(fs)
  \/ gitStatus \/ gitFetch \/ gitPull \/ gitPush \/ gitCommit \/ gitCheckout \/ gitDiff \/ gitFails
  \/ pushRefused \/ flush

Spec == Init /\ [][Next]_vars

(***************************************************************************)
(* Properties.                                                             *)
(***************************************************************************)
\* A refresh is pending exactly when its process is queued.
TypeOK ==
  /\ changed \subseteq Files /\ timer \in BOOLEAN /\ alive \in BOOLEAN
  /\ pending = (\E i \in 1..Len(jobs) : jobs[i].op \in {"pull", "push"} \/ (jobs[i].op = "fetch" /\ jobs[i].own))
  /\ DOMAIN files \subseteq Files
  /\ quirks \subseteq {"hasty", "unowned", "failed"}

\* Once the debouncer is idle and no git process is queued, the status that the browsers show is the
\* one of the repository: no file change, commit, pull or fetch is missed because a status was being
\* read when it happened (git.ts Debounce, gitStatus, updateModel).  After a failed process it may
\* have to wait for the next one.
StatusSettles == Settled /\ "failed" \notin quirks => shown = status /\ status = Actual

\* The diff that arrives never makes the browser's reducer throw, and files it under a feature, unless
\* it was computed while a status was still on its way or had failed (hasty), or a file that belongs
\* to no feature changed (unowned): DIFF_DATA_SET files the diff under the features of the status.
DiffFiled ==
  quirks = {} => /\ alive
                 /\ \A f \in DOMAIN files : FeatureOf[f] \in DOMAIN features /\ f \in features[FeatureOf[f]]
=============================================================================
