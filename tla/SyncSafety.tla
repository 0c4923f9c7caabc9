----------------------------- MODULE SyncSafety -----------------------------
(***************************************************************************)
(* What strspc sync promises, over the state of SyncRun.  The runs differ  *)
(* in the constants that say what can fail, what people do and whether     *)
(* runs overlap; each property names the ones it needs.                    *)
(***************************************************************************)
EXTENDS SyncRun

(* Steps of a run.                                                         *)
Moves(r) == run'[r] # run[r] \/ task'[r] # task[r]
Exits(r) == run[r].phase = "work" /\ run'[r].phase \in {"ok", "failed"}
Creates(r, i) == task[r][i].pc = "create" /\ task'[r] # task[r] /\ Len(prs'[i]) > Len(prs[i])

Quiet == \A r \in Runs : ~Active(r)
OpenPRs(i) == {n \in DOMAIN prs[i] : prs[i][n].state = "open"}

-----------------------------------------------------------------------------
(* A record names a pull request that exists, calls merged only one that   *)
(* is, and its content was really delivered: against the pull requests and *)
(* the files of one repository.                                            *)
Real(pulls, files, e) == e # NoEntry =>
    /\ e.pr # 0 => e.pr \in DOMAIN pulls
    /\ e.status = "merged" => e.pr # 0 /\ pulls[e.pr].state = "merged"
    /\ e.hash \in files

(* The deployment state never lies: whatever requests fail, whichever runs *)
(* overlap, and wherever a process is killed, every record in the central  *)
(* file and in the memory of a run is real (Run, syncOne, refreshPRStatus, *)
(* recordInSync, saveState).                                               *)
RecordsAreReal ==
    /\ \A i \in Items : Real(prs[i], seen[i], central.ds[i])
    /\ \A r \in Runs, i \in Items : Real(prs[i], seen[i], run[r].ds[i])

(* What a worker carries is real too: the file once it is committed or     *)
(* found in place, the PR it updates, opened or is about to record, and    *)
(* the result it will report.                                              *)
Carries(pulls, files, t) ==
    /\ t.pc \in {"inSync", "list", "update", "create", "label", "stale", "close"}
          => t.file \in files
    /\ t.pc \in {"update", "label", "stale", "close"} => t.pr \in DOMAIN pulls
    /\ t.pc \in {"label", "stale", "close"} => t.status # ""
MainSeen == \A i \in Items : main[i] \in seen[i]

(* The inductive invariant: types, records, what workers carry.            *)
IInv == /\ TypeOK /\ RecordsAreReal /\ MainSeen
        /\ \A r \in Runs, i \in Items : Carries(prs[i], seen[i], task[r][i])

(* A run changes the records of its own targets only: overlapping runs     *)
(* with different filters do not undo each other (the stateSHA of          *)
(* saveState).                                                             *)
SavesOwnScope ==
    [][\A i \in Items : central'.ds[i] # central.ds[i]
          => \E r \in Runs : Exits(r) /\ i \in run[r].scope]_vars

(* Merged is terminal: no later save, from whatever state it was loaded,   *)
(* takes the record of a merged PR back to open or closed                  *)
(* (refreshPRStatus: "Only merged is terminal").                           *)
MergedIsFinal ==
    [][\A i \in Items : LET e == central.ds[i]
                            f == central'.ds[i]
       IN  e # NoEntry /\ e.status = "merged"
             => f # NoEntry /\ (f.pr = e.pr => f.status = "merged")]_vars

(* SYNCOP-008: a run that exits 0 has every PR it reports in the central   *)
(* file, under the number it reports and with this run's timestamp         *)
(* (Run, saveState).                                                       *)
OkIsRecorded ==
    [][\A r \in Runs, i \in Items :
         /\ Exits(r) /\ run'[r].phase = "ok"
         /\ task[r][i].pc \in {"created", "updated"}
         => /\ central'.ds[i] # NoEntry
            /\ central'.ds[i].stamp = r
            /\ central'.ds[i].pr = task[r][i].pr]_vars

(* ... and that PR proposes the recorded content and still stands, unless  *)
(* people closed it: the run did not close what it reports (closeStalePRs, *)
(* without overlapping runs).                                              *)
OkIsProposed ==
    [][\A r \in Runs, i \in Items :
         /\ Exits(r) /\ run'[r].phase = "ok"
         /\ task[r][i].pc \in {"created", "updated"}
         => LET pr == prs[i][task[r][i].pr]
            IN  /\ pr.state \in {"open", "merged"}
                /\ central'.ds[i].hash = pr.hash]_vars

(* SYNCACT-011: a dry run leaves the targets and the state file alone.     *)
DryRunTouchesNothing ==
    [][\A r \in Runs : run[r].dryRun /\ Moves(r)
          => UNCHANGED <<main, branch, prs, central>>]_vars

(* SYNCPR-006: when no run is active, a target has one open sync PR at     *)
(* most, the versions it supersedes are closed (closeStalePRs).            *)
AtMostOneOpen == Quiet => \A i \in Items : Cardinality(OpenPRs(i)) <= 1

(* A PR someone declined is not opened again without --force: a run never  *)
(* creates a PR with the version and content of the latest, closed one     *)
(* (syncOne, GH #91).                                                      *)
DeclinedStaysDeclined ==
    [][\A r \in Runs, i \in Items :
         Creates(r, i) /\ ~run[r].force /\ prs[i] # <<>>
         => LET last == prs[i][Len(prs[i])]
            IN  ~ /\ last.state = "closed"
                  /\ last.version = run[r].version
                  /\ last.hash = task[r][i].file]_vars

(* A run killed at any point leaves nothing behind that makes a later run  *)
(* fail: branches, commits and PRs of the dead run are found and reused    *)
(* (isAlreadyExists, the lookup by head branch).  For runs that do not     *)
(* overlap, when the only failure is the kill.                             *)
LaterRunsSucceed == \A r \in Runs : run[r].phase # "failed" /\ Errors(r) = {}

(* Every run ends, whatever fails: no worker keeps its semaphore slot.     *)
RunsEnd == \A r \in Runs : Active(r) ~> ~Active(r)

-----------------------------------------------------------------------------
(* Stated by the repository and not kept by the code.                      *)

(* DPLYST-001, the record of what is deployed: no save forgets a target.   *)
EntriesSurvive ==
    [][\A i \in Items : central.ds[i] # NoEntry => central'.ds[i] # NoEntry]_vars

(* A forced re-run of the same open PR keeps the baseline its body reports *)
(* (state.go:23-26, sync.go:683-686).                                      *)
BaselineSurvives ==
    [][\A i \in Items, n \in 1..MaxPRs :
         n \in DOMAIN prs[i] => prs'[i][n].previous = prs[i][n].previous]_vars

(* SYNCPR-006 closes stale versions "when a newer version PR is created":  *)
(* a run closes no PR of a version newer than its own (closeStalePRs).     *)
ClosesOnlyOlder ==
    [][\A r \in Runs, i \in Items : \A n \in task[r][i].stale \ task'[r][i].stale :
         prs'[i][n].state # prs[i][n].state => prs[i][n].version <= run[r].version]_vars

(* README:25, "unchanged content never opens a pull request".              *)
UnchangedOpensNothing ==
    [][\A r \in Runs, i \in Items : Creates(r, i) => main[i] # task[r][i].file]_vars

(* The marker strategy preserves unmanaged content: merging a sync PR      *)
(* leaves what the owners wrote (render_test.go:60).                       *)
MergeKeepsOwn ==
    [][\A i \in Items, n \in 1..MaxPRs :
         /\ i \in Markers /\ n \in DOMAIN prs[i]
         /\ prs[i][n].state = "open" /\ prs'[i][n].state = "merged"
         => main'[i].own = main[i].own]_vars

(* The PR body: "Edits to the managed file are overwritten by the next     *)
(* sync": a run that skips a target leaves it current, or with an open PR. *)
EditsAreOverwritten ==
    [][\A r \in Runs, i \in Items :
         /\ task[r][i].pc = "hashSkip" /\ task'[r][i].pc = "skipped"
         => main[i] = task[r][i].file \/ OpenPRs(i) # {}]_vars
=============================================================================
