-------------------------- MODULE SyncSafety_proofs --------------------------
(***************************************************************************)
(* What strspc sync promises about the state file and the pull requests,   *)
(* for every number of repositories, runs and versions: the properties of  *)
(* SyncSafety, each from an inductive invariant over IInv, and under the   *)
(* assumptions about failures, people and overlapping runs it needs.       *)
(***************************************************************************)
EXTENDS SyncRun_proofs, FiniteSetTheorems

-----------------------------------------------------------------------------
(* What the runs make of the state file.                                   *)
(* Not what a dry run's worker does: from the branch on it writes.         *)
DryPcs == {"none", "skipped", "declined", "error", "queued", "symlink", "existing", "hashSkip"}
Over(r) == run[r].phase \in {"ok", "failed", "crashed"}
Merging == {"update", "label", "stale", "close"}     \* a worker that has a pull request
Done == {"created", "updated"}

(* No run can lose what another one saved: the state file is read if there *)
(* is one, and it is there, or the workflow's concurrency group is.        *)
CleanLoad == ~Fails("load") /\ (Seeded \/ ~Overlap)

(* The state file: empty until the first save, then every record in it was *)
(* made by a run that is over.                                             *)
Fresh == central.rev = 0 => central.ds = EmptyState /\ ~Seeded
Stamped(e) == e # NoEntry => Over(e.stamp)
FileOK(i) == Stamped(central.ds[i])

(* A run: it loaded a revision there was, it is alone unless runs overlap. *)
Loads(r) ==
    /\ run[r].phase = "load" => run[r].loaded = Nil
    /\ run[r].phase = "work" => /\ run[r].sha <= central.rev
                                /\ Seeded /\ ~Fails("load") => run[r].sha # 0
OneRun == ~Overlap => \A q, r \in Runs : Active(q) /\ Active(r) => q = r

(* A worker: a dry run's writes nothing, one outside the scope does not    *)
(* begin, one with a result has recorded it, and what its run has in       *)
(* memory is its own or was made by a run that is over.                    *)
WorkerOK(r, i) == run[r].phase = "work" =>
    /\ run[r].dryRun => task[r][i].pc \in DryPcs
    /\ i \notin run[r].scope => task[r][i].pc = "none"
    /\ task[r][i].pc \in Done => /\ run[r].ds[i] # NoEntry /\ run[r].ds[i].stamp = r
                                 /\ run[r].ds[i].pr = task[r][i].pr
    /\ run[r].ds[i] # NoEntry => run[r].ds[i].stamp = r \/ Over(run[r].ds[i].stamp)
    /\ run[r].loaded # Nil => Stamped(run[r].loaded[i])

(* What a run whose save would be accepted has made of a record of the     *)
(* file: outside its scope nothing, and of a merged one nothing less.      *)
MergedOK(e, f, t) == e # NoEntry /\ e.status = "merged" =>
    /\ f # NoEntry
    /\ f.pr = e.pr => f.status = "merged"
    /\ t.pc \in Merging => t.pr # e.pr
KeptOK(r, i) == run[r].phase = "work" /\ Matches(r) =>
    /\ i \notin run[r].scope => run[r].ds[i] = central.ds[i]
    /\ MergedOK(central.ds[i], run[r].ds[i], task[r][i])

SaveInv == /\ IInv /\ Fresh /\ OneRun
           /\ \A i \in Items : FileOK(i)
           /\ \A r \in Runs : Loads(r)
           /\ \A r \in Runs, i \in Items : WorkerOK(r, i)
           /\ CleanLoad => \A r \in Runs, i \in Items : KeptOK(r, i)

-----------------------------------------------------------------------------
(* Types.                                                                  *)
LEMMA Typed ==
    ASSUME IInv
    PROVE  /\ run \in [Runs -> Run] /\ task \in [Runs -> [Items -> Task]]
           /\ central.rev \in Nat /\ central.ds \in [Items -> Entry]
           /\ \A r \in Runs : run[r] \in Run /\ run[r].ds \in [Items -> Entry] /\ run[r].sha \in Nat
           /\ \A r \in Runs, i \in Items : task[r][i] \in Task
<1>1. \A r \in Runs : run[r] \in Run /\ run[r].ds \in DeploymentState /\ run[r].sha \in Nat
  BY DEF IInv, TypeOK, Run
<1>2. central.rev \in Nat /\ central.ds \in DeploymentState
  BY DEF IInv, TypeOK
<1>3. DeploymentState = [Items -> Entry]
  BY DEF DeploymentState, Entry
<1>4. run \in [Runs -> Run] /\ task \in [Runs -> [Items -> Task]]
  BY DEF IInv, TypeOK
<1> QED
  BY <1>1, <1>2, <1>3, <1>4

LEMMA StampIsRun == \A e \in Entry : e # NoEntry => e.stamp \in Runs
BY DEF Entry, TemplateState

(* A worker that records e: what else of its run changes.                  *)
LEMMA RecordRun ==
    ASSUME run \in [Runs -> Run], NEW r \in Runs, NEW i \in Items, NEW e, SetTemplateState(r, i, e)
    PROVE  /\ run'[r].ds = [run[r].ds EXCEPT ![i] = e]
           /\ run'[r].phase = run[r].phase /\ run'[r].dryRun = run[r].dryRun
           /\ run'[r].scope = run[r].scope /\ run'[r].sha = run[r].sha
           /\ run'[r].loaded = run[r].loaded /\ run'[r].version = run[r].version
           /\ \A q \in Runs : q # r => run'[q] = run[q]
<1>1. run[r] \in Run
  OBVIOUS
<1>2. run' = [run EXCEPT ![r] = [run[r] EXCEPT !.ds = [run[r].ds EXCEPT ![i] = e]]]
  BY DEF SetTemplateState
<1>3. run'[r] = [run[r] EXCEPT !.ds = [run[r].ds EXCEPT ![i] = e]]
  BY <1>2
<1>4. \A q \in Runs : q # r => run'[q] = run[q]
  BY <1>2
<1> QED
  BY <1>1, <1>3, <1>4 DEF Run

(* A worker that records nothing.                                          *)
LEMMA Unrecorded ==
    ASSUME IInv, NEW r \in Runs, NEW i \in Items, UNCHANGED run
    PROVE  SetTemplateState(r, i, run[r].ds[i])
<1>1. run \in [Runs -> Run] /\ run[r] \in Run /\ run[r].ds \in [Items -> Entry]
  BY Typed
<1>2. [run[r].ds EXCEPT ![i] = run[r].ds[i]] = run[r].ds
  BY <1>1
<1>3. [run[r] EXCEPT !.ds = run[r].ds] = run[r]
  BY <1>1 DEF Run
<1>4. [run EXCEPT ![r] = run[r]] = run
  BY <1>1
<1> QED
  BY <1>2, <1>3, <1>4 DEF SetTemplateState

-----------------------------------------------------------------------------
(* Every step of a worker, as far as the state file is concerned: it goes  *)
(* on with t, and e is the record of its item in the memory of its run.    *)
Dry(r, old, t) == run[r].dryRun /\ old.pc \in DryPcs => t.pc \in DryPcs
Files(r, t, e) == t.pc \in Done => e # NoEntry /\ e.stamp = r /\ e.pr = t.pr
Stamps(r, d, e) == e # NoEntry => e.stamp = r \/ (d # NoEntry /\ e.stamp = d.stamp)
(* The record of a PR is refreshed or kept, or that of another PR made.    *)
Refreshes(old, d, e) == d # NoEntry =>
    /\ e # NoEntry
    /\ \/ e.pr = d.pr /\ (d.status = "merged" => e.status = "merged")
       \/ old.pc = "close" /\ e.pr = old.pr
(* The PR of a worker was open when it found or opened it.                 *)
Aims(pulls, old, t) == t.pc \in Merging =>
    \/ old.pc \in Merging /\ t.pr = old.pr
    \/ t.pr \notin DOMAIN pulls
    \/ pulls[t.pr].state = "open"
Effect(r, i, t, e) ==
    /\ Set(r, i, t) /\ SetTemplateState(r, i, e) /\ UNCHANGED central
    /\ run[r].phase = "work" /\ task[r][i].pc \notin Ended
    /\ Dry(r, task[r][i], t) /\ Files(r, t, e) /\ Stamps(r, run[r].ds[i], e)
    /\ Refreshes(task[r][i], run[r].ds[i], e) /\ Aims(prs[i], task[r][i], t)
Moved(r, i) == \E t \in Task, e \in Entry : Effect(r, i, t, e)

(* A step that records nothing.                                            *)
LEMMA MovesOn ==
    ASSUME IInv, NEW r \in Runs, NEW i \in Items, NEW t \in Task, Set(r, i, t),
           UNCHANGED <<run, central>>, run[r].phase = "work", task[r][i].pc \notin Ended,
           t.pc \notin Done, Dry(r, task[r][i], t), Aims(prs[i], task[r][i], t)
    PROVE  Moved(r, i)
<1> DEFINE e == run[r].ds[i]
<1>1. e \in Entry
  BY Typed
<1>2. SetTemplateState(r, i, e)
  BY Unrecorded
<1>3. Files(r, t, e) /\ Stamps(r, e, e) /\ Refreshes(task[r][i], e, e)
  BY DEF Files, Stamps, Refreshes
<1> QED
  BY <1>1, <1>2, <1>3 DEF Moved, Effect

LEMMA EndsIt ==
    ASSUME IInv, NEW r \in Runs, NEW i \in Items, NEW how \in {"skipped", "error"},
           End(r, i, how), UNCHANGED <<run, central>>,
           run[r].phase = "work", task[r][i].pc \notin Ended
    PROVE  Moved(r, i)
<1> DEFINE t == [Blank EXCEPT !.pc = how]
<1>1. t \in Task /\ t.pc = how
  BY ConstantTypes DEF Task, Ended, Outcomes, Blank
<1>2. Dry(r, task[r][i], t) /\ Aims(prs[i], task[r][i], t) /\ t.pc \notin Done
  BY <1>1 DEF Dry, Aims, DryPcs, Merging, Done
<1> QED
  BY <1>1, <1>2, MovesOn DEF End

(* A step of a worker that changes its place only.                         *)
LEMMA GoesOn ==
    ASSUME IInv, NEW r \in Runs, NEW i \in Items,
           NEW l \in {"existing", "read", "list", "create"}, Goto(r, i, l),
           UNCHANGED <<run, central>>, run[r].phase = "work", task[r][i].pc \notin Ended,
           l # "existing" => task[r][i].pc \notin DryPcs
    PROVE  Moved(r, i)
<1> DEFINE t == [task[r][i] EXCEPT !.pc = l]
<1>1. task[r][i] \in Task
  BY Typed
<1>2. t \in Task /\ t.pc = l
  BY <1>1 DEF Task, Working
<1>3. Dry(r, task[r][i], t) /\ Aims(prs[i], task[r][i], t) /\ t.pc \notin Done
  BY <1>2 DEF Dry, Aims, DryPcs, Merging, Done
<1> QED
  BY <1>2, <1>3, MovesOn DEF Goto

-----------------------------------------------------------------------------
(* ... action by action.                                                   *)
LEMMA Placed ==
    ASSUME NEW r \in Runs, NEW i \in Items, NEW l \in Waiting \cup Working, At(r, i, l)
    PROVE  run[r].phase = "work" /\ task[r][i].pc = l /\ task[r][i].pc \notin Ended
BY DEF At, Waiting, Working, Ended, Outcomes

LEMMA ReadSourceMoves ==
    ASSUME IInv, NEW r \in Runs, NEW i \in Items, ReadSource(r, i) PROVE Moved(r, i)
<1> DEFINE t == [Blank EXCEPT !.pc = "symlink", !.text = template.text]
<1>1. t \in Task /\ t.pc = "symlink"
  BY ConstantTypes DEF IInv, TypeOK, Task, Working, Blank
<1>2. run[r].phase = "work" /\ task[r][i].pc \notin Ended
  BY Placed DEF ReadSource, Waiting
<1>3. CASE Set(r, i, t)
  <2>1. Dry(r, task[r][i], t) /\ Aims(prs[i], task[r][i], t) /\ t.pc \notin Done
    BY <1>1 DEF Dry, Aims, DryPcs, Merging, Done
  <2> QED
    BY <1>1, <1>2, <1>3, <2>1, MovesOn DEF ReadSource, Local
<1>4. CASE End(r, i, "error")
  BY <1>2, <1>4, EndsIt DEF ReadSource, Local
<1> QED
  BY <1>3, <1>4 DEF ReadSource

LEMMA IsSymlinkMoves ==
    ASSUME IInv, NEW r \in Runs, NEW i \in Items, IsSymlink(r, i) PROVE Moved(r, i)
<1>1. run[r].phase = "work" /\ task[r][i].pc \notin Ended
  BY Placed DEF IsSymlink, Working
<1>2. ASSUME NEW how \in {"skipped", "error"}, End(r, i, how) PROVE Moved(r, i)
  BY <1>1, <1>2, EndsIt DEF IsSymlink, Local
<1>3. CASE Goto(r, i, "existing")
  BY <1>1, <1>3, GoesOn DEF IsSymlink, Local
<1> QED
  BY <1>2, <1>3 DEF IsSymlink

LEMMA ReadExistingMoves ==
    ASSUME IInv, NEW r \in Runs, NEW i \in Items, ReadExisting(r, i) PROVE Moved(r, i)
<1> DEFINE file == Render(i, task[r][i].text, main[i])
           t(next) == [Blank EXCEPT !.pc = next, !.file = file]
<1>1. file \in File
  BY Reads DEF IInv, Render, File, Task
<1>2. run[r].phase = "work" /\ task[r][i].pc \notin Ended
  BY Placed DEF ReadExisting, Working
<1>3. ASSUME NEW next \in {"inSync", "hashSkip", "base"}, Set(r, i, t(next)),
             next # "hashSkip" => ~run[r].dryRun
      PROVE  Moved(r, i)
  <2>1. t(next) \in Task /\ t(next).pc = next
    BY <1>1, ConstantTypes DEF Task, Working, Blank
  <2>2. Dry(r, task[r][i], t(next)) /\ Aims(prs[i], task[r][i], t(next)) /\ t(next).pc \notin Done
    BY <1>3, <2>1 DEF Dry, Aims, DryPcs, Merging, Done
  <2> QED
    BY <1>2, <1>3, <2>1, <2>2, MovesOn DEF ReadExisting, Local
<1>4. ASSUME NEW how \in {"skipped", "error"}, End(r, i, how) PROVE Moved(r, i)
  BY <1>2, <1>4, EndsIt DEF ReadExisting, Local
<1> QED
  BY <1>3, <1>4 DEF ReadExisting

(* A record that is refreshed, or brought up to date.                      *)
LEMMA Refreshed ==
    ASSUME IInv, NEW r \in Runs, NEW i \in Items,
           NEW e \in {refreshPRStatus(i, run[r].ds[i]), run[r].ds[i]}
    PROVE  LET d == run[r].ds[i] IN
           /\ e \in Entry
           /\ d = NoEntry => e = NoEntry
           /\ d # NoEntry => /\ e # NoEntry /\ e.pr = d.pr /\ e.stamp = d.stamp
                             /\ d.status = "merged" => e.status = "merged"
<1> DEFINE d == run[r].ds[i]
<1>1. e \in Entry /\ d \in Entry
  BY RefreshReal
<1>2. CASE e = d
  BY <1>1, <1>2
<1>3. CASE e # d
  <2>1. Lookup(i, d) /\ e = [d EXCEPT !.status = prs[i][d.pr].state]
    BY <1>3 DEF refreshPRStatus
  <2>2. d # NoEntry /\ d.status # "merged" /\ d \in TemplateState
    BY <1>1, <2>1 DEF Lookup, Entry
  <2>3. e.pr = d.pr /\ e.stamp = d.stamp /\ e.version = d.version
    BY <2>1, <2>2 DEF TemplateState
  <2>4. d.version # NoVersion
    <3>1. d.version \in Versions
      BY <2>2 DEF TemplateState
    <3> QED
      BY <3>1, BoundAssumption DEF Versions, NoVersion
  <2>5. e # NoEntry
    BY <2>3, <2>4 DEF NoEntry
  <2> QED
    BY <1>1, <2>2, <2>3, <2>5
<1> QED
  BY <1>2, <1>3

LEMMA EndsRecording ==
    ASSUME IInv, NEW r \in Runs, NEW i \in Items, NEW e \in Entry, SetTemplateState(r, i, e),
           NEW how \in {"skipped", "declined"}, End(r, i, how), UNCHANGED central,
           run[r].phase = "work", task[r][i].pc \notin Ended,
           Stamps(r, run[r].ds[i], e), Refreshes(task[r][i], run[r].ds[i], e)
    PROVE  Moved(r, i)
<1> DEFINE t == [Blank EXCEPT !.pc = how]
<1>1. t \in Task /\ t.pc = how
  BY ConstantTypes DEF Task, Ended, Outcomes, Blank
<1>2. Dry(r, task[r][i], t) /\ Aims(prs[i], task[r][i], t) /\ Files(r, t, e)
  BY <1>1 DEF Dry, Aims, Files, DryPcs, Merging, Done
<1> QED
  BY <1>1, <1>2 DEF Moved, Effect, End

LEMMA InSyncMoves ==
    ASSUME IInv, NEW r \in Runs, NEW i \in Items, InSync(r, i) PROVE Moved(r, i)
<1> DEFINE d == run[r].ds[i]
           file == task[r][i].file
<1>1. PICK entry \in {refreshPRStatus(i, d), d} :
             SetTemplateState(r, i, recordInSync(entry, r, file))
  BY DEF InSync
<1>2. /\ entry \in Entry
      /\ d = NoEntry => entry = NoEntry
      /\ d # NoEntry => /\ entry # NoEntry /\ entry.pr = d.pr /\ entry.stamp = d.stamp
                        /\ d.status = "merged" => entry.status = "merged"
  BY Refreshed
<1> DEFINE e == recordInSync(entry, r, file)
<1>3. file \in File /\ file \in seen[i]
  BY Reads DEF IInv, InSync, At, Carries, Task
<1>4. Real(prs[i], seen[i], entry)
  BY <1>1, RefreshReal
<1>5. e \in Entry
  BY <1>2, <1>3, <1>4, RecordReal
<1>6. /\ (e = entry /\ entry # NoEntry) \/ (e # NoEntry /\ e.stamp = r)
      /\ entry # NoEntry => e.pr = entry.pr /\ e.status = entry.status
  <2>1. run[r].version \in Versions
    BY Reads DEF IInv
  <2>2. \A x : x.version \in Versions => x # NoEntry
    BY BoundAssumption DEF NoEntry, Versions, NoVersion
  <2> QED
    BY <2>1, <2>2 DEF recordInSync
<1> HIDE DEF e, d
<1>7. Stamps(r, d, e) /\ Refreshes(task[r][i], d, e)
  BY <1>2, <1>6 DEF Stamps, Refreshes
<1>8. run[r].phase = "work" /\ task[r][i].pc \notin Ended /\ End(r, i, "skipped") /\ UNCHANGED central
  BY Placed DEF InSync, Working
<1>9. SetTemplateState(r, i, e)
  BY <1>1 DEF e
<1> QED
  BY <1>5, <1>7, <1>8, <1>9, EndsRecording DEF d

LEMMA HashSkipMoves ==
    ASSUME IInv, NEW r \in Runs, NEW i \in Items, HashSkip(r, i) PROVE Moved(r, i)
<1> DEFINE d == run[r].ds[i]
<1>1. PICK e \in {refreshPRStatus(i, d), d} :
             /\ SetTemplateState(r, i, e)
             /\ \E how \in {"declined", "skipped"} : End(r, i, how)
  BY DEF HashSkip
<1>2. /\ e \in Entry
      /\ d = NoEntry => e = NoEntry
      /\ d # NoEntry => /\ e # NoEntry /\ e.pr = d.pr /\ e.stamp = d.stamp
                        /\ d.status = "merged" => e.status = "merged"
  BY Refreshed
<1> HIDE DEF d
<1>3. Stamps(r, d, e) /\ Refreshes(task[r][i], d, e)
  BY <1>2 DEF Stamps, Refreshes
<1>4. run[r].phase = "work" /\ task[r][i].pc \notin Ended /\ UNCHANGED central
  BY Placed DEF HashSkip, Working
<1> QED
  BY <1>1, <1>2, <1>3, <1>4, EndsRecording DEF d

LEMMA GetBaseMoves ==
    ASSUME IInv, NEW r \in Runs, NEW i \in Items, getBaseSHA(r, i) PROVE Moved(r, i)
<1> DEFINE t == [task[r][i] EXCEPT !.pc = "branch", !.base = main[i]]
<1>1. t \in Task /\ t.pc = "branch"
  BY Reads DEF IInv, Task, Working
<1>2. run[r].phase = "work" /\ task[r][i].pc \notin Ended /\ task[r][i].pc = "base"
  BY Placed DEF getBaseSHA, Working
<1>3. CASE Set(r, i, t)
  <2>1. Dry(r, task[r][i], t) /\ Aims(prs[i], task[r][i], t) /\ t.pc \notin Done
    BY <1>1, <1>2 DEF Dry, Aims, DryPcs, Merging, Done
  <2> QED
    BY <1>1, <1>2, <1>3, <2>1, MovesOn DEF getBaseSHA, Local
<1>4. CASE End(r, i, "error")
  BY <1>2, <1>4, EndsIt DEF getBaseSHA, Local
<1> QED
  BY <1>3, <1>4 DEF getBaseSHA

LEMMA CreateBranchMoves ==
    ASSUME IInv, NEW r \in Runs, NEW i \in Items, CreateBranch(r, i) PROVE Moved(r, i)
<1>1. run[r].phase = "work" /\ task[r][i].pc \notin Ended /\ task[r][i].pc \notin DryPcs
  BY DEF CreateBranch, At, Ended, Outcomes, DryPcs
<1>2. CASE Goto(r, i, "read")
  BY <1>1, <1>2, GoesOn DEF CreateBranch, Owner
<1>3. CASE End(r, i, "error")
  BY <1>1, <1>3, EndsIt DEF CreateBranch, Owner
<1> QED
  BY <1>2, <1>3 DEF CreateBranch

LEMMA ReadBranchFileMoves ==
    ASSUME IInv, NEW r \in Runs, NEW i \in Items, ReadBranchFile(r, i) PROVE Moved(r, i)
<1> DEFINE b == branch[i][run[r].version]
           sha == IF b = NoBranch THEN Absent ELSE b.head
           t == [task[r][i] EXCEPT !.pc = "commit", !.sha = sha]
<1>1. sha \in File
  <2>1. b \in Branch \cup {NoBranch}
    BY Reads DEF IInv, TypeOK
  <2> QED
    BY <2>1, ConstantTypes DEF Branch
<1>2. t \in Task /\ t.pc = "commit"
  BY <1>1, Reads DEF IInv, Task, Working
<1>3. run[r].phase = "work" /\ task[r][i].pc \notin Ended /\ task[r][i].pc = "read"
  BY Placed DEF ReadBranchFile, Working
<1>4. CASE Set(r, i, t)
  <2>1. Dry(r, task[r][i], t) /\ Aims(prs[i], task[r][i], t) /\ t.pc \notin Done
    BY <1>2, <1>3 DEF Dry, Aims, DryPcs, Merging, Done
  <2> HIDE DEF t
  <2> QED
    BY <1>2, <1>3, <1>4, <2>1, MovesOn DEF ReadBranchFile, Local
<1>5. CASE End(r, i, "error")
  BY <1>3, <1>5, EndsIt DEF ReadBranchFile, Local
<1> QED
  BY <1>4, <1>5 DEF ReadBranchFile

LEMMA CreateOrUpdateFileMoves ==
    ASSUME IInv, NEW r \in Runs, NEW i \in Items, CreateOrUpdateFile(r, i) PROVE Moved(r, i)
<1>1. run[r].phase = "work" /\ task[r][i].pc \notin Ended /\ task[r][i].pc \notin DryPcs
  BY Placed DEF CreateOrUpdateFile, Working, DryPcs
<1>2. CASE Goto(r, i, "list")
  BY <1>1, <1>2, GoesOn DEF CreateOrUpdateFile, Owner
<1>3. CASE End(r, i, "error")
  BY <1>1, <1>3, EndsIt DEF CreateOrUpdateFile, Owner
<1> QED
  BY <1>2, <1>3 DEF CreateOrUpdateFile

LEMMA ListPRsMoves ==
    ASSUME IInv, NEW r \in Runs, NEW i \in Items, ListPRs(r, i) PROVE Moved(r, i)
<1>1. /\ run[r].phase = "work" /\ task[r][i].pc \notin Ended /\ task[r][i].pc = "list"
      /\ task[r][i].pc \notin DryPcs
  BY DEF ListPRs, At, Ended, Outcomes, DryPcs
<1>2. ASSUME NEW n \in OpenFor(i, run[r].version),
             Set(r, i, [task[r][i] EXCEPT !.pc = "update", !.pr = n])
      PROVE  Moved(r, i)
  <2> DEFINE t == [task[r][i] EXCEPT !.pc = "update", !.pr = n]
  <2>1. n \in PRNumber /\ prs[i][n].state = "open"
    BY Reads DEF IInv, OpenFor
  <2>2. t \in Task /\ t.pc = "update" /\ t.pr = n
    BY <2>1, Reads DEF IInv, Task, Working
  <2>3. Dry(r, task[r][i], t) /\ Aims(prs[i], task[r][i], t) /\ t.pc \notin Done
    BY <1>1, <2>1, <2>2 DEF Dry, Aims, Merging, Done
  <2> QED
    BY <1>1, <1>2, <2>2, <2>3, MovesOn DEF ListPRs, Local
<1>3. CASE Goto(r, i, "create")
  BY <1>1, <1>3, GoesOn DEF ListPRs, Local
<1> QED
  BY <1>2, <1>3 DEF ListPRs

LEMMA UpdatePRMoves ==
    ASSUME IInv, NEW r \in Runs, NEW i \in Items, UpdatePR(r, i) PROVE Moved(r, i)
<1> DEFINE next == IF CloseStalePRs THEN "stale" ELSE "close"
           t == [task[r][i] EXCEPT !.pc = next, !.status = "updated"]
<1>1. /\ run[r].phase = "work" /\ task[r][i].pc \notin Ended /\ task[r][i].pc = "update"
      /\ task[r][i].pc \notin DryPcs
  BY Placed DEF UpdatePR, Working, DryPcs
<1>2. t \in Task /\ t.pc \in {"stale", "close"} /\ t.pr = task[r][i].pr
  BY Reads DEF IInv, Task, Working
<1>3. CASE Set(r, i, t)
  <2>1. Dry(r, task[r][i], t) /\ Aims(prs[i], task[r][i], t) /\ t.pc \notin Done
    BY <1>1, <1>2 DEF Dry, Aims, Merging, Done
  <2> HIDE DEF t
  <2> QED
    BY <1>1, <1>2, <1>3, <2>1, MovesOn DEF UpdatePR, Owner
<1>4. CASE End(r, i, "error")
  BY <1>1, <1>4, EndsIt DEF UpdatePR, Owner
<1> QED
  BY <1>3, <1>4 DEF UpdatePR

LEMMA CreatePRMoves ==
    ASSUME IInv, NEW r \in Runs, NEW i \in Items, CreatePR(r, i) PROVE Moved(r, i)
<1> DEFINE t == [task[r][i] EXCEPT !.pc = "label", !.status = "created", !.pr = Len(prs[i]) + 1]
<1>1. /\ run[r].phase = "work" /\ task[r][i].pc \notin Ended /\ task[r][i].pc = "create"
      /\ task[r][i].pc \notin DryPcs
  BY Placed DEF CreatePR, Working, DryPcs
<1>2. CASE Set(r, i, t) /\ Len(prs[i]) < MaxPRs
  <2>1. task[r][i] \in Task /\ prs[i] \in Seq(PullRequest)
    BY Reads DEF IInv
  <2>2. Len(prs[i]) + 1 \in PRNumber /\ Len(prs[i]) + 1 \notin DOMAIN prs[i]
    BY <1>2, <2>1, BoundAssumption DEF PRNumber
  <2>3. t \in Task /\ t.pc = "label" /\ t.pr = Len(prs[i]) + 1
    BY <2>1, <2>2 DEF Task, Working
  <2>4. Dry(r, task[r][i], t) /\ Aims(prs[i], task[r][i], t) /\ t.pc \notin Done
    BY <1>1, <2>2, <2>3 DEF Dry, Aims, Done
  <2> HIDE DEF t
  <2> QED
    BY <1>1, <1>2, <2>3, <2>4, MovesOn DEF CreatePR, Owner
<1>3. CASE End(r, i, "error")
  BY <1>1, <1>3, EndsIt DEF CreatePR, Owner
<1> QED
  BY <1>2, <1>3 DEF CreatePR

LEMMA LabelPRMoves ==
    ASSUME IInv, NEW r \in Runs, NEW i \in Items, LabelPR(r, i) PROVE Moved(r, i)
<1> DEFINE next == IF CloseStalePRs THEN "stale" ELSE "close"
           t == [task[r][i] EXCEPT !.pc = next]
<1>1. /\ run[r].phase = "work" /\ task[r][i].pc \notin Ended /\ task[r][i].pc = "label"
      /\ task[r][i].pc \notin DryPcs
  BY Placed DEF LabelPR, Working, DryPcs
<1>2. t \in Task /\ t.pc \in {"stale", "close"} /\ t.pr = task[r][i].pr
  BY Reads DEF IInv, Task, Working
<1>3. Set(r, i, t)
  BY DEF LabelPR, Goto
<1>4. Dry(r, task[r][i], t) /\ Aims(prs[i], task[r][i], t) /\ t.pc \notin Done
  BY <1>1, <1>2 DEF Dry, Aims, Merging, Done
<1> HIDE DEF t
<1> QED
  BY <1>1, <1>2, <1>3, <1>4, MovesOn DEF LabelPR, Owner

LEMMA ListStalePRsMoves ==
    ASSUME IInv, NEW r \in Runs, NEW i \in Items, ListStalePRs(r, i) PROVE Moved(r, i)
<1>1. PICK stale \in {Stale(i, task[r][i].pr), {}} :
             Set(r, i, [task[r][i] EXCEPT !.pc = "close", !.stale = stale])
  BY DEF ListStalePRs
<1> DEFINE t == [task[r][i] EXCEPT !.pc = "close", !.stale = stale]
<1>2. stale \in SUBSET PRNumber
  BY Reads DEF IInv, Stale
<1>3. t \in Task /\ t.pc = "close" /\ t.pr = task[r][i].pr
  BY <1>2, Reads DEF IInv, Task, Working
<1>4. /\ run[r].phase = "work" /\ task[r][i].pc \notin Ended /\ task[r][i].pc = "stale"
      /\ task[r][i].pc \notin DryPcs
  BY Placed DEF ListStalePRs, Working, DryPcs
<1>5. Dry(r, task[r][i], t) /\ Aims(prs[i], task[r][i], t) /\ t.pc \notin Done
  BY <1>3, <1>4 DEF Dry, Aims, Merging, Done
<1> HIDE DEF t
<1> QED
  BY <1>1, <1>3, <1>4, <1>5, MovesOn DEF ListStalePRs, Local, t

LEMMA ClosePRMoves ==
    ASSUME IInv, NEW r \in Runs, NEW i \in Items, ClosePR(r, i) PROVE Moved(r, i)
<1>1. PICK n \in task[r][i].stale : Set(r, i, [task[r][i] EXCEPT !.stale = @ \ {n}])
  BY DEF ClosePR
<1> DEFINE t == [task[r][i] EXCEPT !.stale = @ \ {n}]
<1>2. /\ run[r].phase = "work" /\ task[r][i].pc \notin Ended /\ task[r][i].pc = "close"
      /\ task[r][i].pc \notin DryPcs
  BY Placed DEF ClosePR, Working, DryPcs
<1>3. t \in Task /\ t.pc = "close" /\ t.pr = task[r][i].pr
  BY <1>2, Reads DEF IInv, Task
<1>4. Dry(r, task[r][i], t) /\ Aims(prs[i], task[r][i], t) /\ t.pc \notin Done
  BY <1>2, <1>3 DEF Dry, Aims, Merging, Done
<1> HIDE DEF t
<1> QED
  BY <1>1, <1>2, <1>3, <1>4, MovesOn DEF ClosePR, Owner, t

LEMMA RecordMoves ==
    ASSUME IInv, NEW r \in Runs, NEW i \in Items, Record(r, i) PROVE Moved(r, i)
<1> DEFINE old == task[r][i]
           t == [Blank EXCEPT !.pc = old.status, !.pr = old.pr]
           e == [version |-> run[r].version, hash |-> old.file, pr |-> old.pr, status |-> "open",
                 previous |-> baselineVersion(run[r].ds[i], run[r].version), stamp |-> r]
<1>1. old \in Task /\ run[r].version \in Versions /\ run[r].ds[i] \in Entry
  BY Reads DEF IInv
<1>2. baselineVersion(run[r].ds[i], run[r].version) \in Versions \cup {NoVersion}
  BY <1>1 DEF baselineVersion, Entry, TemplateState
<1>3. e \in TemplateState
  BY <1>1, <1>2 DEF TemplateState, Task
<1>4. e \in Entry /\ e # NoEntry /\ e.pr = old.pr /\ e.stamp = r
  BY <1>3, ConstantTypes DEF Entry
<1>5. /\ run[r].phase = "work" /\ old.pc \notin Ended /\ old.pc = "close" /\ old.pc \notin DryPcs
  BY Placed DEF Record, Working, DryPcs
<1>6. old.status \in {"created", "updated"} /\ old.pr \in PRNumber
  BY <1>1, <1>5 DEF Task, IInv, Carries
<1>7. t \in Task /\ t.pc = old.status /\ t.pr = old.pr
  BY <1>6, ConstantTypes DEF Task, Blank, Ended, Outcomes
<1>8. Set(r, i, t) /\ SetTemplateState(r, i, e) /\ UNCHANGED central
  BY DEF Record
<1> HIDE DEF e, t
<1>9. /\ Dry(r, old, t) /\ Files(r, t, e) /\ Stamps(r, run[r].ds[i], e)
      /\ Refreshes(old, run[r].ds[i], e) /\ Aims(prs[i], old, t)
  BY <1>4, <1>5, <1>6, <1>7 DEF Dry, Files, Stamps, Refreshes, Aims, Merging
<1> QED
  BY <1>4, <1>5, <1>7, <1>8, <1>9 DEF Moved, Effect

LEMMA WorkerMoves ==
    ASSUME IInv, NEW r \in Runs, NEW i \in Items, syncOne(r, i) PROVE Moved(r, i)
BY ReadSourceMoves, IsSymlinkMoves, ReadExistingMoves, InSyncMoves, HashSkipMoves, GetBaseMoves,
   CreateBranchMoves, ReadBranchFileMoves, CreateOrUpdateFileMoves, ListPRsMoves, UpdatePRMoves,
   CreatePRMoves, LabelPRMoves, ListStalePRsMoves, ClosePRMoves, RecordMoves DEF syncOne, decide, propose

-----------------------------------------------------------------------------
(* SaveInv is inductive.                                                   *)
LEMMA WorkerSaves ==
    ASSUME SaveInv, IInv', NEW r \in Runs, NEW i \in Items, Moved(r, i)
    PROVE  SaveInv'
<1>0. IInv
  BY DEF SaveInv
<1>1. PICK t \in Task, e \in Entry : Effect(r, i, t, e)
  BY DEF Moved
<1> DEFINE old == task[r][i]
           d == run[r].ds[i]
<1>2. /\ run[r].phase = "work" /\ old.pc \notin Ended
      /\ Dry(r, old, t) /\ Files(r, t, e) /\ Stamps(r, d, e)
      /\ Refreshes(old, d, e) /\ Aims(prs[i], old, t)
  BY <1>1 DEF Effect
<1>3. /\ task'[r][i] = t
      /\ \A q \in Runs, j \in Items : <<q, j>> # <<r, i>> => task'[q][j] = task[q][j]
  BY <1>0, <1>1, SetTyped DEF Effect, IInv, TypeOK
<1>4. /\ run'[r].ds[i] = e
      /\ \A q \in Runs, j \in Items : <<q, j>> # <<r, i>> => run'[q].ds[j] = run[q].ds[j]
  BY <1>0, <1>1, RecordTyped DEF Effect, IInv, TypeOK
<1>5. \A q \in Runs : /\ run'[q].phase = run[q].phase /\ run'[q].dryRun = run[q].dryRun
                      /\ run'[q].scope = run[q].scope /\ run'[q].sha = run[q].sha
                      /\ run'[q].loaded = run[q].loaded
  BY <1>0, <1>1, RecordRun, Typed DEF Effect
<1>6. central' = central
  BY <1>1 DEF Effect
<1>7. Fresh' /\ OneRun'
  BY <1>5, <1>6 DEF SaveInv, Fresh, OneRun, Active
<1>8. \A q \in Runs : Loads(q)'
  BY <1>5, <1>6 DEF SaveInv, Loads
<1>9. \A q \in Runs : Over(q)' <=> Over(q)
  BY <1>5 DEF Over
<1>10. central.ds \in [Items -> Entry]
  BY <1>0, Typed
<1>11. \A j \in Items : FileOK(j)'
  BY <1>6, <1>9, <1>10, StampIsRun DEF SaveInv, FileOK, Stamped
<1> HIDE DEF old, d
<1>12. WorkerOK(r, i)'
  <2>1. WorkerOK(r, i)
    BY DEF SaveInv
  <2>2. run[r].dryRun => t.pc \in DryPcs
    BY <1>2, <2>1 DEF WorkerOK, Dry, old
  <2>3. i \in run[r].scope
    BY <1>2, <2>1 DEF WorkerOK, old, Ended
  <2>4. t.pc \in Done => e # NoEntry /\ e.stamp = r /\ e.pr = t.pr
    BY <1>2 DEF Files
  <2>5. e # NoEntry => e.stamp = r \/ Over(e.stamp)
    BY <1>2, <2>1 DEF WorkerOK, Stamps, d
  <2>6. e # NoEntry => e.stamp = r \/ Over(e.stamp)'
    BY <1>9, <2>5, StampIsRun
  <2>7. run[r].loaded # Nil => Stamped(run[r].loaded[i])'
    <3> SUFFICES ASSUME run[r].loaded # Nil PROVE Stamped(run[r].loaded[i])'
      OBVIOUS
    <3>1. run[r].loaded[i] \in Entry
      BY <1>0, Typed DEF Run, DeploymentState, Entry
    <3>2. Stamped(run[r].loaded[i])
      BY <1>2, <2>1 DEF WorkerOK
    <3> QED
      BY <1>5, <1>9, <3>1, <3>2, StampIsRun DEF Stamped
  <2> QED
    BY <1>3, <1>4, <1>5, <2>2, <2>3, <2>4, <2>6, <2>7 DEF WorkerOK, Stamped
<1>13. ASSUME NEW q \in Runs, NEW j \in Items, <<q, j>> # <<r, i>> PROVE WorkerOK(q, j)'
  <2>1. WorkerOK(q, j)
    BY DEF SaveInv
  <2>2. run[q].ds[j] \in Entry
    BY <1>0, Typed
  <2>3. run[q].loaded # Nil => run[q].loaded[j] \in Entry
    BY <1>0, Typed DEF Run, DeploymentState, Entry
  <2> QED
    BY <1>3, <1>4, <1>5, <1>9, <1>13, <2>1, <2>2, <2>3, StampIsRun DEF WorkerOK, Stamped
<1>14. ASSUME CleanLoad PROVE KeptOK(r, i)'
  <2>1. WorkerOK(r, i) /\ KeptOK(r, i)
    BY <1>14 DEF SaveInv
  <2>2. i \in run[r].scope
    BY <1>2, <2>1 DEF WorkerOK, old, Ended
  <2>3. ASSUME MergedOK(central.ds[i], d, old) PROVE MergedOK(central.ds[i], e, t)
    <3> DEFINE c == central.ds[i]
    <3> SUFFICES ASSUME c # NoEntry, c.status = "merged"
                 PROVE  e # NoEntry /\ (e.pr = c.pr => e.status = "merged")
                        /\ (t.pc \in Merging => t.pr # c.pr)
      BY DEF MergedOK
    <3>1. d # NoEntry /\ (d.pr = c.pr => d.status = "merged") /\ (old.pc \in Merging => old.pr # c.pr)
      BY <2>3 DEF MergedOK
    <3>2. e # NoEntry /\ (e.pr = c.pr => e.status = "merged")
      BY <1>2, <3>1 DEF Refreshes, Merging
    <3>3. c.pr \in DOMAIN prs[i] /\ prs[i][c.pr].state = "merged"
      BY <1>0 DEF IInv, RecordsAreReal, Real
    <3>4. t.pc \in Merging => t.pr # c.pr
      BY <1>2, <3>1, <3>3 DEF Aims
    <3> QED
      BY <3>2, <3>4
  <2>4. Matches(r)' <=> Matches(r)
    BY <1>5, <1>6 DEF Matches
  <2>5. Matches(r) => MergedOK(central.ds[i], d, old)
    BY <1>2, <2>1 DEF KeptOK, d, old
  <2> QED
    BY <1>3, <1>4, <1>5, <1>6, <2>2, <2>3, <2>4, <2>5 DEF KeptOK
<1>15. ASSUME CleanLoad, NEW q \in Runs, NEW j \in Items, <<q, j>> # <<r, i>> PROVE KeptOK(q, j)'
  BY <1>3, <1>4, <1>5, <1>6, <1>15 DEF SaveInv, KeptOK, Matches
<1>16. \A q \in Runs, j \in Items : WorkerOK(q, j)' /\ (CleanLoad => KeptOK(q, j)')
  BY <1>12, <1>13, <1>14, <1>15
<1>17. CleanLoad' <=> CleanLoad
  BY DEF CleanLoad, Fails
<1> QED
  BY <1>7, <1>8, <1>11, <1>16, <1>17 DEF SaveInv

(* A step of one run as a whole leaves what holds of the others.           *)
LEMMA OthersKeep ==
    ASSUME SaveInv, NEW r \in Runs, NEW x, run' = [run EXCEPT ![r] = x],
           \A q \in Runs : q # r => task'[q] = task[q],
           Over(r) => x.phase \in {"ok", "failed", "crashed"}
    PROVE  /\ run'[r] = x /\ \A q \in Runs : q # r => run'[q] = run[q]
           /\ \A q \in Runs : Over(q) => Over(q)'
           /\ \A q \in Runs, j \in Items : q # r => WorkerOK(q, j)'
           /\ \A e \in Entry : Stamped(e) => Stamped(e)'
<1>1. run'[r] = x /\ \A q \in Runs : q # r => run'[q] = run[q]
  BY Typed DEF SaveInv
<1>2. \A q \in Runs : Over(q) => Over(q)'
  BY <1>1 DEF Over
<1>3. ASSUME NEW q \in Runs, NEW j \in Items, q # r PROVE WorkerOK(q, j)'
  <2>1. WorkerOK(q, j) /\ run'[q] = run[q] /\ task'[q] = task[q]
    BY <1>1, <1>3 DEF SaveInv
  <2>2. run[q].ds[j] \in Entry
    BY Typed DEF SaveInv
  <2>3. run[q].loaded # Nil => run[q].loaded[j] \in Entry
    BY Typed DEF SaveInv, Run, DeploymentState, Entry
  <2> QED
    BY <1>2, <2>1, <2>2, <2>3, StampIsRun DEF WorkerOK, Stamped
<1>4. \A e \in Entry : Stamped(e) => Stamped(e)'
  BY <1>2, StampIsRun DEF Stamped
<1> QED
  BY <1>1, <1>2, <1>3, <1>4

LEMMA StartSaves ==
    ASSUME SaveInv, IInv', NEW r \in Runs, Start(r) PROVE SaveInv'
<1>1. PICK scope \in Scopes, force \in Forces, dryRun \in DryRuns, phase \in {"load", "failed"} :
         run' = [run EXCEPT ![r] = [IdleRun EXCEPT !.phase = phase,
                   !.version = template.version, !.scope = scope,
                   !.force = force, !.dryRun = dryRun]]
  BY DEF Start
<1> DEFINE x == [IdleRun EXCEPT !.phase = phase, !.version = template.version,
                   !.scope = scope, !.force = force, !.dryRun = dryRun]
<1>2. x.phase \in {"load", "failed"} /\ x.loaded = Nil
  BY DEF IdleRun
<1>3. run' = [run EXCEPT ![r] = x]
  BY <1>1
<1> HIDE DEF x
<1>4. /\ run[r].phase = "idle" /\ central' = central /\ task' = task
      /\ Overlap \/ \A q \in Runs : ~Active(q)
  BY DEF Start
<1>5. /\ run'[r] = x /\ \A q \in Runs : q # r => run'[q] = run[q]
      /\ \A q \in Runs : Over(q) => Over(q)'
      /\ \A q \in Runs, j \in Items : q # r => WorkerOK(q, j)'
      /\ \A e \in Entry : Stamped(e) => Stamped(e)'
  <2>1. Over(r) => x.phase \in {"ok", "failed", "crashed"}
    BY <1>4 DEF Over
  <2>2. \A q \in Runs : q # r => task'[q] = task[q]
    BY <1>4
  <2> QED
    BY <1>3, <2>1, <2>2, OthersKeep
<1>6. \A j \in Items : FileOK(j)'
  BY <1>4, <1>5, Typed DEF SaveInv, FileOK
<1>7. OneRun' /\ Fresh'
  BY <1>4, <1>5 DEF SaveInv, OneRun, Fresh, Active
<1>8. \A q \in Runs : Loads(q)'
  BY <1>2, <1>4, <1>5 DEF SaveInv, Loads
<1>9. \A j \in Items : WorkerOK(r, j)' /\ KeptOK(r, j)'
  BY <1>2, <1>5 DEF WorkerOK, KeptOK
<1>10. CleanLoad => \A q \in Runs, j \in Items : q # r => KeptOK(q, j)'
  BY <1>4, <1>5 DEF SaveInv, KeptOK, Matches
<1>11. CleanLoad' <=> CleanLoad
  BY DEF CleanLoad, Fails
<1>12. \A q \in Runs, j \in Items : WorkerOK(q, j)' /\ (CleanLoad => KeptOK(q, j)')
  BY <1>5, <1>9, <1>10
<1> QED
  BY <1>6, <1>7, <1>8, <1>11, <1>12 DEF SaveInv

(* Every item in the scope of a run that has just loaded is queued.        *)
LEMMA Queued ==
    ASSUME IInv, NEW r \in Runs, Queue(r)
    PROVE  /\ \A q \in Runs : q # r => task'[q] = task[q]
           /\ \A j \in Items : /\ task'[r][j].pc = IF j \in run[r].scope THEN "queued" ELSE "none"
                               /\ task'[r][j].pc \notin Merging \cup Done
                               /\ task'[r][j].pc \in DryPcs
<1> DEFINE t(i) == [Blank EXCEPT !.pc = IF i \in run[r].scope THEN "queued" ELSE "none"]
<1>1. task' = [task EXCEPT ![r] = [i \in Items |-> t(i)]]
  BY DEF Queue, shouldApply
<1>2. \A j \in Items : t(j).pc = IF j \in run[r].scope THEN "queued" ELSE "none"
  BY DEF Blank
<1> HIDE DEF t
<1>3. \A q \in Runs : q # r => task'[q] = task[q]
  BY <1>1, Typed
<1>4. \A j \in Items : task'[r][j] = t(j)
  BY <1>1, Typed
<1> QED
  BY <1>2, <1>3, <1>4 DEF Merging, Done, DryPcs

(* A run that begins to work, with the state file in memory or without.    *)
LEMMA BeginSaves ==
    ASSUME SaveInv, IInv', NEW r \in Runs, NEW x \in Run, run' = [run EXCEPT ![r] = x],
           run[r].phase = "load", x.phase = "work", x.scope = run[r].scope,
           Queue(r), central' = central,
           x.sha <= central.rev, Seeded /\ ~Fails("load") => x.sha # 0,
           x.loaded # Nil => x.loaded = central.ds,
           x.ds = EmptyState \/ x.ds = central.ds,
           CleanLoad => x.ds = central.ds
    PROVE  SaveInv'
<1>1. /\ run'[r] = x /\ \A q \in Runs : q # r => run'[q] = run[q]
      /\ \A q \in Runs : Over(q) => Over(q)'
      /\ \A q \in Runs, j \in Items : q # r => WorkerOK(q, j)'
      /\ \A e \in Entry : Stamped(e) => Stamped(e)'
  <2>1. Over(r) => x.phase \in {"ok", "failed", "crashed"}
    BY DEF Over
  <2>2. \A q \in Runs : q # r => task'[q] = task[q]
    BY Queued DEF SaveInv
  <2> QED
    BY <2>1, <2>2, OthersKeep
<1>2. \A j \in Items : FileOK(j)'
  BY <1>1, Typed DEF SaveInv, FileOK
<1>3. OneRun' /\ Fresh'
  BY <1>1 DEF SaveInv, OneRun, Fresh, Active
<1>4. \A q \in Runs : Loads(q)'
  BY <1>1 DEF SaveInv, Loads
<1>5. ASSUME NEW j \in Items PROVE WorkerOK(r, j)'
  <2>1. Stamped(central.ds[j])' 
    BY <1>2 DEF FileOK
  <2>2. x.ds[j] # NoEntry => x.ds[j] = central.ds[j]
    BY DEF EmptyState
  <2>3. /\ task'[r][j].pc = IF j \in run[r].scope THEN "queued" ELSE "none"
        /\ task'[r][j].pc \notin Done /\ task'[r][j].pc \in DryPcs
    BY Queued DEF SaveInv
  <2> QED
    BY <1>1, <2>1, <2>2, <2>3 DEF WorkerOK, Stamped
<1>6. ASSUME CleanLoad, NEW j \in Items PROVE KeptOK(r, j)'
  <2>1. task'[r][j].pc \notin Merging
    BY Queued DEF SaveInv
  <2> QED
    BY <1>1, <1>6, <2>1 DEF KeptOK, MergedOK
<1>7. CleanLoad => \A q \in Runs, j \in Items : q # r => KeptOK(q, j)'
  <2>1. \A q \in Runs : q # r => task'[q] = task[q]
    BY Queued DEF SaveInv
  <2> QED
    BY <1>1, <2>1 DEF SaveInv, KeptOK, Matches
<1>8. CleanLoad' <=> CleanLoad
  BY DEF CleanLoad, Fails
<1>9. \A q \in Runs, j \in Items : WorkerOK(q, j)' /\ (CleanLoad => KeptOK(q, j)')
  BY <1>1, <1>5, <1>6, <1>7
<1> QED
  BY <1>2, <1>3, <1>4, <1>8, <1>9 DEF SaveInv

LEMMA LoadStateSaves ==
    ASSUME SaveInv, IInv', NEW r \in Runs, loadState(r) PROVE SaveInv'
<1> DEFINE x == [run[r] EXCEPT !.phase = "work", !.ds = central.ds,
                               !.loaded = central.ds, !.sha = central.rev]
<1>1. run[r] \in Run /\ central.ds \in DeploymentState /\ central.rev \in Nat
  BY DEF SaveInv, IInv, TypeOK
<1>2. /\ x \in Run /\ x.phase = "work" /\ x.scope = run[r].scope /\ x.sha = central.rev
      /\ x.loaded = central.ds /\ x.ds = central.ds
  BY <1>1 DEF Run, Phases
<1>3. run' = [run EXCEPT ![r] = x]
  <2>1. run = [q \in Runs |-> run[q]]
    BY Typed DEF SaveInv
  <2> QED
    BY <1>1, <2>1 DEF loadState, Run
<1> HIDE DEF x
<1>4. /\ run[r].phase = "load" /\ Queue(r) /\ central' = central /\ central.rev # 0
  BY DEF loadState
<1>5. x.sha <= central.rev /\ x.sha # 0
  BY <1>1, <1>2, <1>4
<1> QED
  BY <1>2, <1>3, <1>4, <1>5, BeginSaves

LEMMA StartFreshSaves ==
    ASSUME SaveInv, IInv', NEW r \in Runs, startFresh(r) PROVE SaveInv'
<1>1. central.rev \in Nat /\ run[r] \in Run
  BY Typed DEF SaveInv
<1>2. PICK sha \in {0} \cup (IF Fails("load") THEN {central.rev} ELSE {}) :
         run' = [run EXCEPT ![r].phase = "work", ![r].ds = EmptyState, ![r].sha = sha]
  BY DEF startFresh
<1>3. sha \in Nat /\ sha <= central.rev
  <2>1. sha = 0 \/ sha = central.rev
    BY Zenon
  <2> QED
    BY <1>1, <2>1
<1> DEFINE x == [run[r] EXCEPT !.phase = "work", !.ds = EmptyState, !.sha = sha]
<1>4. /\ x \in Run /\ x.phase = "work" /\ x.scope = run[r].scope /\ x.sha = sha
      /\ x.loaded = run[r].loaded /\ x.ds = EmptyState
  BY <1>1, <1>3, ConstantTypes DEF Run, Phases
<1>5. run' = [run EXCEPT ![r] = x]
  BY <1>2
<1> HIDE DEF x
<1>6. /\ run[r].phase = "load" /\ Queue(r) /\ central' = central
      /\ central.rev = 0 \/ Fails("load")
  BY DEF startFresh
<1>7. run[r].loaded = Nil
  BY <1>6 DEF SaveInv, Loads
<1>8. ~Fails("load") => ~Seeded /\ central.ds = EmptyState
  BY <1>6 DEF SaveInv, Fresh
<1>9. CleanLoad => x.ds = central.ds
  BY <1>4, <1>8 DEF CleanLoad
<1>10. Seeded /\ ~Fails("load") => x.sha # 0
  BY <1>8
<1> QED
  BY <1>3, <1>4, <1>5, <1>6, <1>7, <1>9, <1>10, BeginSaves

(* A run ends: nothing is saved, or what it has in memory where the file   *)
(* is still the one it loaded.                                             *)
LEMMA EndSaves ==
    ASSUME SaveInv, IInv', NEW r \in Runs, NEW phase \in {"ok", "failed", "crashed"},
           run' = [run EXCEPT ![r].phase = phase], Active(r), task' = task,
           \/ central' = central
           \/ /\ run[r].phase = "work" /\ Matches(r)
              /\ central' = [rev |-> central.rev + 1, ds |-> run[r].ds]
    PROVE  SaveInv'
<1> DEFINE x == [run[r] EXCEPT !.phase = phase]
<1>1. run[r] \in Run /\ central.rev \in Nat /\ \A q \in Runs : run[q].sha \in Nat
  BY Typed DEF SaveInv
<1>2. x.phase = phase
  BY <1>1 DEF Run
<1>3. run' = [run EXCEPT ![r] = x]
  OBVIOUS
<1> HIDE DEF x
<1>4. /\ run'[r] = x /\ \A q \in Runs : q # r => run'[q] = run[q]
      /\ \A q \in Runs : Over(q) => Over(q)'
      /\ \A q \in Runs, j \in Items : q # r => WorkerOK(q, j)'
      /\ \A e \in Entry : Stamped(e) => Stamped(e)'
  BY <1>2, <1>3, OthersKeep
<1>5. Over(r)'
  BY <1>2, <1>4 DEF Over
<1>6. ASSUME NEW j \in Items PROVE FileOK(j)'
  <2>1. CASE central' = central
    BY <1>4, <2>1, Typed DEF SaveInv, FileOK
  <2>2. CASE run[r].phase = "work" /\ central' = [rev |-> central.rev + 1, ds |-> run[r].ds]
    <3>1. PICK e \in Entry : e = run[r].ds[j]
      BY Typed DEF SaveInv
    <3>2. e # NoEntry => e.stamp = r \/ Over(e.stamp)
      BY <2>2, <3>1 DEF SaveInv, WorkerOK
    <3>3. e # NoEntry => Over(e.stamp)'
      BY <1>4, <1>5, <3>2, StampIsRun
    <3>4. central'.ds[j] = e
      BY <2>2, <3>1
    <3> QED
      BY <3>3, <3>4 DEF FileOK, Stamped, Over
  <2> QED
    BY <2>1, <2>2
<1>7. OneRun'
  BY <1>2, <1>4 DEF SaveInv, OneRun, Active
<1>8. Fresh'
  BY <1>1 DEF SaveInv, Fresh
<1>9. central.rev <= central'.rev
  BY <1>1
<1>10. ASSUME NEW q \in Runs PROVE Loads(q)'
  <2>1. CASE q = r
    BY <1>2, <1>4, <2>1 DEF Loads
  <2>2. CASE q # r
    <3>1. central'.rev \in Nat /\ run[q].sha \in Nat
      BY <1>1
    <3> QED
      BY <1>1, <1>4, <1>9, <2>2, <3>1 DEF SaveInv, Loads
  <2> QED
    BY <2>1, <2>2
<1>11. \A j \in Items : WorkerOK(r, j)' /\ KeptOK(r, j)'
  BY <1>2, <1>4 DEF WorkerOK, KeptOK
<1>12. ASSUME CleanLoad, NEW q \in Runs, NEW j \in Items, q # r PROVE KeptOK(q, j)'
  <2>1. CASE central' = central
    BY <1>4, <1>12, <2>1 DEF SaveInv, KeptOK, Matches
  <2>2. CASE central' = [rev |-> central.rev + 1, ds |-> run[r].ds]
    <3> SUFFICES ASSUME run[q].phase = "work", run[q].sha \in {0, central.rev + 1} PROVE FALSE
      BY <1>4, <1>12, <2>2 DEF KeptOK, Matches
    <3>1. run[q].sha <= central.rev /\ (Seeded /\ ~Fails("load") => run[q].sha # 0)
      BY DEF SaveInv, Loads
    <3>2. run[q].sha = 0
      BY <1>1, <3>1
    <3>3. ~Overlap
      BY <1>12, <3>1, <3>2 DEF CleanLoad
    <3> QED
      BY <1>12, <3>3 DEF SaveInv, OneRun, Active
  <2> QED
    BY <2>1, <2>2
<1>13. CleanLoad' <=> CleanLoad
  BY DEF CleanLoad, Fails
<1>14. \A q \in Runs, j \in Items : WorkerOK(q, j)' /\ (CleanLoad => KeptOK(q, j)')
  BY <1>4, <1>11, <1>12
<1> QED
  BY <1>6, <1>7, <1>8, <1>10, <1>13, <1>14 DEF SaveInv

LEMMA SaveStateSaves ==
    ASSUME SaveInv, IInv', NEW r \in Runs, saveState(r) PROVE SaveInv'
<1>1. \E phase \in {"ok", "failed", "crashed"} : run' = [run EXCEPT ![r].phase = phase]
  BY DEF saveState, Exit
<1>2. \/ central' = central
      \/ Matches(r) /\ central' = [rev |-> central.rev + 1, ds |-> run[r].ds]
  BY DEF saveState
<1>3. run[r].phase = "work" /\ Active(r) /\ task' = task
  BY DEF saveState, Active
<1> QED
  BY <1>1, <1>2, <1>3, EndSaves

LEMMA CrashSaves ==
    ASSUME SaveInv, IInv', NEW r \in Runs, Crash(r) PROVE SaveInv'
BY EndSaves DEF Crash

(* Steps of the people leave the runs and the state file alone.            *)
LEMMA StillSaves ==
    ASSUME SaveInv, IInv', UNCHANGED <<central, run, task>> PROVE SaveInv'
<1>1. Fresh' /\ OneRun'
  BY DEF SaveInv, Fresh, OneRun, Active
<1>2. \A i \in Items : FileOK(i)'
  BY DEF SaveInv, FileOK, Stamped, Over
<1>3. \A r \in Runs : Loads(r)'
  BY DEF SaveInv, Loads
<1>4. \A r \in Runs, i \in Items : WorkerOK(r, i)'
  BY DEF SaveInv, WorkerOK, Stamped, Over
<1>5. CleanLoad' => \A r \in Runs, i \in Items : KeptOK(r, i)'
  BY DEF SaveInv, KeptOK, Matches, CleanLoad, Fails
<1> QED
  BY <1>1, <1>2, <1>3, <1>4, <1>5 DEF SaveInv

LEMMA SaveInvInit == Init => SaveInv
<1> SUFFICES ASSUME Init PROVE SaveInv
  OBVIOUS
<1>1. IInv
  BY InvInit
<1>2. \A r \in Runs : run[r] = IdleRun
  BY DEF Init
<1>3. \A r \in Runs : run[r].phase = "idle"
  BY <1>2 DEF IdleRun
<1>4. Fresh /\ OneRun /\ \A i \in Items : FileOK(i)
  BY <1>3 DEF Init, Fresh, OneRun, FileOK, Stamped, EmptyState, Active
<1>5. (\A r \in Runs : Loads(r)) /\ \A r \in Runs, i \in Items : WorkerOK(r, i) /\ KeptOK(r, i)
  BY <1>3 DEF Loads, WorkerOK, KeptOK
<1> QED
  BY <1>1, <1>4, <1>5 DEF SaveInv

LEMMA SaveInvNext == SaveInv /\ [Next]_vars => SaveInv'
<1> SUFFICES ASSUME SaveInv, [Next]_vars PROVE SaveInv'
  OBVIOUS
<1>0. IInv'
  BY InvNext DEF SaveInv
<1>1. ASSUME NEW r \in Runs, Start(r) \/ Crash(r) PROVE SaveInv'
  BY <1>0, <1>1, StartSaves, CrashSaves
<1>2. ASSUME NEW r \in Runs, Step(r) PROVE SaveInv'
  <2>1. ASSUME NEW i \in Items, syncOne(r, i) PROVE SaveInv'
    <3>1. Moved(r, i)
      BY <2>1, WorkerMoves DEF SaveInv
    <3> QED
      BY <1>0, <3>1, WorkerSaves
  <2> QED
    BY <1>0, <1>2, <2>1, LoadStateSaves, StartFreshSaves, SaveStateSaves DEF Step
<1>3. CASE UNCHANGED <<central, run, task>>
  BY <1>0, <1>3, StillSaves
<1>4. CASE Bump \/ UNCHANGED vars
  BY <1>3, <1>4 DEF Bump, vars
<1>5. ASSUME NEW i \in Items, People(i) PROVE SaveInv'
  BY <1>3, <1>5 DEF People, Edit, Merge, Close, Reopen
<1> QED
  BY <1>1, <1>2, <1>4, <1>5 DEF Next

(* The invariant of the state file holds of every behaviour.               *)
THEOREM SaveInvHolds == Spec => []SaveInv
BY SaveInvInit, SaveInvNext, PTL DEF Spec

-----------------------------------------------------------------------------
(* Who does what in a step.                                                *)
LEMMA StepsOwn ==
    ASSUME SaveInv, NEW q \in Runs, NEW r \in Runs, q # r, Start(q) \/ Step(q) \/ Crash(q)
    PROVE  run'[r] = run[r] /\ task'[r] = task[r]
<1>0. /\ IInv /\ run \in [Runs -> Run] /\ task \in [Runs -> [Items -> Task]]
  BY Typed DEF SaveInv
<1>1. CASE Start(q) \/ Crash(q) \/ saveState(q)
  BY <1>0, <1>1 DEF Start, Crash, saveState, Exit
<1>2. CASE loadState(q) \/ startFresh(q)
  <2>1. task'[r] = task[r]
    BY <1>0, <1>2, Queued DEF loadState, startFresh
  <2>2. run'[r] = run[r]
    BY <1>0, <1>2 DEF loadState, startFresh
  <2> QED
    BY <2>1, <2>2
<1>3. ASSUME NEW i \in Items, syncOne(q, i) PROVE run'[r] = run[r] /\ task'[r] = task[r]
  <2>1. PICK t \in Task, e \in Entry : Effect(q, i, t, e)
    BY <1>0, <1>3, WorkerMoves DEF Moved
  <2>2. Set(q, i, t) /\ SetTemplateState(q, i, e)
    BY <2>1 DEF Effect
  <2> QED
    BY <1>0, <2>2 DEF Set, SetTemplateState
<1> QED
  BY <1>1, <1>2, <1>3 DEF Step

LEMMA WorkerStaysAtWork ==
    ASSUME SaveInv, NEW r \in Runs, NEW i \in Items, syncOne(r, i)
    PROVE  run[r].phase = "work" /\ run'[r].phase = "work" /\ central' = central
<1>1. PICK t \in Task, e \in Entry : Effect(r, i, t, e)
  BY WorkerMoves DEF SaveInv, Moved
<1>2. run'[r].phase = run[r].phase
  BY <1>1, RecordRun, Typed DEF SaveInv, Effect
<1> QED
  BY <1>1, <1>2 DEF Effect

LEMMA PeopleStay ==
    ASSUME NEW i \in Items, People(i) PROVE UNCHANGED <<template, central, run, task>>
BY DEF People, Edit, Merge, Close, Reopen

(* A run ends by saving.                                                   *)
LEMMA ExitsBySaving ==
    ASSUME SaveInv, [Next]_vars, NEW r \in Runs, Exits(r) PROVE saveState(r)
<1>1. run[r].phase = "work" /\ run'[r].phase \in {"ok", "failed"} /\ run[r] # run'[r]
  BY DEF Exits
<1>2. run' # run
  BY <1>1
<1>3. PICK q \in Runs : Start(q) \/ Step(q) \/ Crash(q)
  BY <1>2, PeopleStay DEF Next, Bump, vars
<1>4. q = r
  BY <1>1, <1>3, StepsOwn
<1>5. run[r] \in Run /\ run \in [Runs -> Run]
  BY Typed DEF SaveInv
<1>6. ~Start(r) /\ ~loadState(r) /\ ~startFresh(r)
  BY <1>1 DEF Start, loadState, startFresh
<1>7. ~Crash(r)
  <2> SUFFICES ASSUME Crash(r) PROVE FALSE
    OBVIOUS
  <2>1. run'[r].phase = "crashed"
    BY <1>5 DEF Crash, Run
  <2> QED
    BY <1>1, <2>1
<1>8. \A i \in Items : ~syncOne(r, i)
  BY <1>1, WorkerStaysAtWork
<1> QED
  BY <1>3, <1>4, <1>6, <1>7, <1>8 DEF Step

(* The state file is replaced by a run that ends, by what it has in        *)
(* memory, when the file is the one it loaded.                             *)
LEMMA FileIsSaved ==
    ASSUME SaveInv, [Next]_vars, central' # central
    PROVE  \E r \in Runs : /\ Exits(r) /\ Matches(r)
                           /\ central' = [rev |-> central.rev + 1, ds |-> run[r].ds]
<1>1. PICK r \in Runs : Start(r) \/ Step(r) \/ Crash(r)
  BY PeopleStay DEF Next, Bump, vars
<1>2. saveState(r)
  BY <1>1, WorkerStaysAtWork DEF Start, Step, Crash, loadState, startFresh
<1>3. Matches(r) /\ central' = [rev |-> central.rev + 1, ds |-> run[r].ds]
  BY <1>2 DEF saveState
<1>4. run[r] \in Run /\ run \in [Runs -> Run]
  BY Typed DEF SaveInv
<1>5. PICK phase \in {"ok", "failed"} : run' = [run EXCEPT ![r].phase = phase]
  BY <1>2 DEF saveState, Exit
<1>6. run'[r].phase = phase
  BY <1>4, <1>5 DEF Run
<1>7. Exits(r)
  BY <1>2, <1>6 DEF Exits, saveState
<1> QED
  BY <1>3, <1>7

-----------------------------------------------------------------------------
LEMMA DryRunStep ==
    ASSUME SaveInv, [Next]_vars, NEW r \in Runs, run[r].dryRun, Moves(r)
    PROVE  UNCHANGED <<main, branch, prs, central>>
<1>1. PICK q \in Runs : Start(q) \/ Step(q) \/ Crash(q)
  BY PeopleStay DEF Next, Bump, vars, Moves
<1>2. q = r
  BY <1>1, StepsOwn DEF Moves
<1>3. CASE Start(r) \/ Crash(r) \/ loadState(r) \/ startFresh(r)
  BY <1>3 DEF Start, Crash, loadState, startFresh, remote
<1>4. CASE saveState(r)
  BY <1>4 DEF saveState, Wanted, remote
<1>5. ASSUME NEW i \in Items, decide(r, i) PROVE UNCHANGED <<main, branch, prs, central>>
  BY <1>5 DEF decide, ReadSource, IsSymlink, ReadExisting, InSync, HashSkip, Local, remote
<1>6. ASSUME NEW i \in Items, propose(r, i) PROVE FALSE
  <2>1. run[r].phase = "work" /\ task[r][i].pc \in {"base", "branch", "read", "commit", "list",
                                                    "update", "create", "label", "stale", "close"}
    BY <1>6 DEF propose, getBaseSHA, CreateBranch, ReadBranchFile, CreateOrUpdateFile, ListPRs,
                UpdatePR, CreatePR, LabelPR, ListStalePRs, ClosePR, Record, At
  <2>2. task[r][i].pc \in DryPcs
    BY <2>1 DEF SaveInv, WorkerOK
  <2> QED
    BY <2>1, <2>2 DEF DryPcs
<1> QED
  BY <1>1, <1>2, <1>3, <1>4, <1>5, <1>6 DEF Step, syncOne

(* SYNCACT-011: whatever a dry run does, and whatever fails and overlaps,  *)
(* no file, branch, pull request or record changes by it (ReadExisting     *)
(* never sends a dry run's worker to a write, saveState never saves it).   *)
THEOREM DryRunHolds == Spec => DryRunTouchesNothing
<1>1. SaveInv /\ [Next]_vars => [\A r \in Runs : run[r].dryRun /\ Moves(r)
          => UNCHANGED <<main, branch, prs, central>>]_vars
  BY DryRunStep
<1> QED
  BY <1>1, SaveInvHolds, PTL DEF Spec, DryRunTouchesNothing

LEMMA ScopeStep ==
    ASSUME CleanLoad, SaveInv, [Next]_vars, NEW i \in Items, central'.ds[i] # central.ds[i]
    PROVE  \E r \in Runs : Exits(r) /\ i \in run[r].scope
<1>1. PICK r \in Runs : /\ Exits(r) /\ Matches(r)
                        /\ central' = [rev |-> central.rev + 1, ds |-> run[r].ds]
  BY FileIsSaved
<1>2. KeptOK(r, i)
  BY DEF SaveInv
<1> QED
  BY <1>1, <1>2 DEF KeptOK, Exits

(* Overlapping runs with different filters do not undo each other: a save  *)
(* changes only records of the run's own targets (the stateSHA of          *)
(* saveState), unless runs start without a state file side by side, or     *)
(* take an unreadable one for none.                                        *)
THEOREM SavesOwnScopeHolds == ASSUME CleanLoad PROVE Spec => SavesOwnScope
<1>1. SaveInv /\ [Next]_vars => [\A i \in Items : central'.ds[i] # central.ds[i]
          => \E r \in Runs : Exits(r) /\ i \in run[r].scope]_vars
  BY ScopeStep
<1> QED
  BY <1>1, SaveInvHolds, PTL DEF Spec, SavesOwnScope

LEMMA FinalStep ==
    ASSUME CleanLoad, SaveInv, [Next]_vars, NEW i \in Items,
           central.ds[i] # NoEntry, central.ds[i].status = "merged"
    PROVE  /\ central'.ds[i] # NoEntry
           /\ central'.ds[i].pr = central.ds[i].pr => central'.ds[i].status = "merged"
<1>1. CASE central' = central
  BY <1>1
<1>2. CASE central' # central
  <2>1. PICK r \in Runs : /\ Exits(r) /\ Matches(r)
                          /\ central' = [rev |-> central.rev + 1, ds |-> run[r].ds]
    BY <1>2, FileIsSaved
  <2>2. MergedOK(central.ds[i], run[r].ds[i], task[r][i])
    BY <2>1 DEF SaveInv, KeptOK, Exits
  <2> QED
    BY <2>1, <2>2 DEF MergedOK
<1> QED
  BY <1>1, <1>2

(* refreshPRStatus, "only merged is terminal": no save takes the record of *)
(* a merged pull request back to open or closed or drops it, under the     *)
(* same condition.                                                         *)
THEOREM MergedIsFinalHolds == ASSUME CleanLoad PROVE Spec => MergedIsFinal
<1>1. SaveInv /\ [Next]_vars => [\A i \in Items : LET e == central.ds[i]
                                                      f == central'.ds[i]
       IN  e # NoEntry /\ e.status = "merged"
             => f # NoEntry /\ (f.pr = e.pr => f.status = "merged")]_vars
  BY FinalStep
<1> QED
  BY <1>1, SaveInvHolds, PTL DEF Spec, MergedIsFinal

(* A run that reports a pull request has something to save.                *)
LEMMA ReportsAreWanted ==
    ASSUME SaveInv, NEW r \in Runs, NEW i \in Items,
           run[r].phase = "work", task[r][i].pc \in Done
    PROVE  Wanted(r) /\ run[r].ds[i] # NoEntry /\ run[r].ds[i].stamp = r
           /\ run[r].ds[i].pr = task[r][i].pr
<1>1. WorkerOK(r, i)
  BY DEF SaveInv
<1>2. ~run[r].dryRun
  BY <1>1 DEF WorkerOK, Done, DryPcs
<1>3. /\ run[r].ds[i] # NoEntry /\ run[r].ds[i].stamp = r
      /\ run[r].ds[i].pr = task[r][i].pr
  BY <1>1 DEF WorkerOK
<1>4. run[r].ds # run[r].loaded
  <2>1. CASE run[r].loaded = Nil
    <3>1. run[r].ds \in DeploymentState
      BY DEF SaveInv, IInv, TypeOK, Run
    <3> QED
      BY <2>1, <3>1, NilIsNoState
  <2>2. CASE run[r].loaded # Nil
    <3>1. Stamped(run[r].loaded[i])
      BY <1>1, <2>2 DEF WorkerOK
    <3> QED
      BY <1>3, <3>1 DEF Stamped, Over
  <2> QED
    BY <2>1, <2>2
<1> QED
  BY <1>2, <1>3, <1>4 DEF Wanted

LEMMA RecordedStep ==
    ASSUME SaveInv, [Next]_vars, NEW r \in Runs, NEW i \in Items,
           Exits(r), run'[r].phase = "ok", task[r][i].pc \in Done
    PROVE  /\ central'.ds[i] # NoEntry /\ central'.ds[i].stamp = r
           /\ central'.ds[i].pr = task[r][i].pr /\ central'.ds[i] = run[r].ds[i]
<1>1. saveState(r)
  BY ExitsBySaving
<1>2. Wanted(r) /\ run[r].ds[i] # NoEntry /\ run[r].ds[i].stamp = r
      /\ run[r].ds[i].pr = task[r][i].pr
  BY ReportsAreWanted DEF Exits
<1>3. ~Exit(r, FALSE)
  <2> SUFFICES ASSUME Exit(r, FALSE) PROVE FALSE
    OBVIOUS
  <2>1. run[r] \in Run /\ run \in [Runs -> Run]
    BY Typed DEF SaveInv
  <2>2. run'[r].phase = "failed"
    BY <2>1 DEF Exit, Run
  <2> QED
    BY <2>2
<1>4. central' = [rev |-> central.rev + 1, ds |-> run[r].ds]
  BY <1>1, <1>2, <1>3 DEF saveState
<1> QED
  BY <1>2, <1>4

(* SYNCOP-008: a run that exits 0 has every pull request it reports in the *)
(* state file, under its number and with its own timestamp, whatever       *)
(* failed before, overlaps or was saved in between (Run, saveState).       *)
THEOREM OkIsRecordedHolds == Spec => OkIsRecorded
<1>1. SaveInv /\ [Next]_vars => [\A r \in Runs, i \in Items :
         /\ Exits(r) /\ run'[r].phase = "ok"
         /\ task[r][i].pc \in {"created", "updated"}
         => /\ central'.ds[i] # NoEntry
            /\ central'.ds[i].stamp = r
            /\ central'.ds[i].pr = task[r][i].pr]_vars
  BY RecordedStep DEF Done
<1> QED
  BY <1>1, SaveInvHolds, PTL DEF Spec, OkIsRecorded

-----------------------------------------------------------------------------
(* What the runs leave open.                                               *)

(* Every run lists and closes what it supersedes, no request of that fails *)
(* and nobody reopens what was closed.                                     *)
Tidy == /\ CloseStalePRs /\ "reopen" \notin Humans
        /\ \A request \in {"label", "create", "stale", "close", "crash"} : ~Fails(request)

(* A pull request without its label is about to get it.                    *)
Labels(r, i, n) == run[r].phase = "work" /\ task[r][i].pc = "label" /\ task[r][i].pr = n
Labelled(i) == \A n \in DOMAIN prs[i] : prs[i][n].labelled \/ \E r \in Runs : Labels(r, i, n)

(* Of two open pull requests a worker is going to close one.               *)
Covers(r, i, m, n) ==
    /\ run[r].phase = "work"
    /\ \/ task[r][i].pc \in {"label", "stale"}
       \/ task[r][i].pc = "close" /\ {m, n} \cap task[r][i].stale # {}
Covered(i) == \A m, n \in OpenPRs(i) : m # n => \E r \in Runs : Covers(r, i, m, n)
TidyInv == IInv /\ \A i \in Items : Labelled(i) /\ Covered(i)

(* A step of the worker of r for i leaves the others, and what it no       *)
(* longer covers was closed, or is left to another worker.                 *)
Leaves(r, i) ==
    /\ \A q \in Runs : run'[q].phase = run[q].phase
    /\ \A q \in Runs, j \in Items : <<q, j>> # <<r, i>> => task'[q][j] = task[q][j]
    /\ \A j \in Items : j # i => prs'[j] = prs[j]
Uncovers(r, i) == \A m, n \in OpenPRs(i)' :
    m # n => \/ \E q \in Runs : Covers(q, i, m, n)'
             \/ m \in OpenPRs(i) /\ n \in OpenPRs(i) /\ ~Covers(r, i, m, n)

LEMMA LeavesOthers ==
    ASSUME IInv, NEW r \in Runs, NEW i \in Items, syncOne(r, i) PROVE Leaves(r, i)
<1>1. PICK t \in Task, e \in Entry : Effect(r, i, t, e)
  BY WorkerMoves DEF Moved
<1>2. Set(r, i, t) /\ SetTemplateState(r, i, e)
  BY <1>1 DEF Effect
<1>3. \A q \in Runs : run'[q].phase = run[q].phase
  BY <1>2, RecordRun, Typed
<1>4. \A q \in Runs, j \in Items : <<q, j>> # <<r, i>> => task'[q][j] = task[q][j]
  BY <1>2, Typed DEF Set
<1>5. ASSUME NEW j \in Items, j # i PROVE prs'[j] = prs[j]
  <2>1. CASE UNCHANGED prs
    BY <2>1
  <2>2. CASE UpdatePR(r, i) \/ CreatePR(r, i) \/ LabelPR(r, i) \/ ClosePR(r, i)
    BY <1>5, <2>2 DEF UpdatePR, CreatePR, LabelPR, ClosePR, IInv, TypeOK
  <2> QED
    BY <2>1, <2>2 DEF syncOne, decide, propose, ReadSource, IsSymlink, ReadExisting, InSync,
       HashSkip, getBaseSHA, CreateBranch, ReadBranchFile, CreateOrUpdateFile, ListPRs,
       ListStalePRs, Record, Local, remote
<1> QED
  BY <1>3, <1>4, <1>5 DEF Leaves

LEMMA WorkerTidies ==
    ASSUME TidyInv, IInv', NEW r \in Runs, NEW i \in Items,
           Leaves(r, i), Labelled(i)', Uncovers(r, i)
    PROVE  TidyInv'
<1>1. ASSUME NEW j \in Items PROVE Labelled(j)'
  <2>1. CASE j = i
    BY <2>1
  <2>2. CASE j # i
    <3>1. prs'[j] = prs[j] /\ \A q \in Runs : task'[q][j] = task[q][j] /\ run'[q].phase = run[q].phase
      BY <2>2 DEF Leaves
    <3> QED
      BY <3>1 DEF TidyInv, Labelled, Labels
  <2> QED
    BY <2>1, <2>2
<1>2. ASSUME NEW j \in Items, j # i PROVE Covered(j)'
  <2>1. Covered(j)
    BY DEF TidyInv
  <2>2. prs'[j] = prs[j] /\ \A q \in Runs : task'[q][j] = task[q][j] /\ run'[q].phase = run[q].phase
    BY <1>2 DEF Leaves
  <2> QED
    BY <2>1, <2>2 DEF Covered, OpenPRs, Covers
<1>3. Covered(i)'
  <2> SUFFICES ASSUME NEW m \in OpenPRs(i)', NEW n \in OpenPRs(i)', m # n
               PROVE  \E q \in Runs : Covers(q, i, m, n)'
    BY DEF Covered
  <2>1. CASE \E q \in Runs : Covers(q, i, m, n)'
    BY <2>1
  <2>2. CASE m \in OpenPRs(i) /\ n \in OpenPRs(i) /\ ~Covers(r, i, m, n)
    <3>1. PICK q \in Runs : Covers(q, i, m, n)
      BY <2>2 DEF TidyInv, Covered
    <3>2. q # r
      BY <2>2, <3>1
    <3>3. task'[q][i] = task[q][i] /\ run'[q].phase = run[q].phase
      BY <3>2 DEF Leaves
    <3> QED
      BY <3>1, <3>3 DEF Covers
  <2> QED
    BY <2>1, <2>2 DEF Uncovers
<1> QED
  BY <1>1, <1>2, <1>3 DEF TidyInv

(* A worker that takes no label away, and gives the one it was to give.    *)
LEMMA LabelsStay ==
    ASSUME TidyInv, NEW r \in Runs, NEW i \in Items, Leaves(r, i),
           \A n \in DOMAIN prs'[i] :
              \/ Labels(r, i, n)'
              \/ prs'[i][n].labelled
              \/ n \in DOMAIN prs[i] /\ ~prs[i][n].labelled /\ ~Labels(r, i, n)
    PROVE  Labelled(i)'
<1> SUFFICES ASSUME NEW n \in DOMAIN prs'[i]
             PROVE  prs'[i][n].labelled \/ \E q \in Runs : Labels(q, i, n)'
  BY DEF Labelled
<1>1. CASE n \in DOMAIN prs[i] /\ ~prs[i][n].labelled /\ ~Labels(r, i, n)
  <2>1. PICK q \in Runs : Labels(q, i, n)
    BY <1>1 DEF TidyInv, Labelled
  <2>2. q # r
    BY <1>1, <2>1
  <2>3. task'[q][i] = task[q][i] /\ run'[q].phase = run[q].phase
    BY <2>2 DEF Leaves
  <2> QED
    BY <2>1, <2>3 DEF Labels
<1> QED
  BY <1>1

(* A worker that touches no pull request, and has none to label or close.  *)
LEMMA ElsewhereTidies ==
    ASSUME TidyInv, IInv', NEW r \in Runs, NEW i \in Items, Leaves(r, i), prs' = prs,
           task[r][i].pc \notin {"label", "stale"},
           task[r][i].pc = "close" => task[r][i].stale = {}
    PROVE  TidyInv'
<1>1. Labelled(i)'
  BY LabelsStay DEF Labels
<1>2. Uncovers(r, i)
  BY DEF Uncovers, OpenPRs, Covers
<1> QED
  BY <1>1, <1>2, WorkerTidies

LEMMA UpdatePRTidies ==
    ASSUME TidyInv, IInv', NEW r \in Runs, NEW i \in Items, Leaves(r, i), UpdatePR(r, i)
    PROVE  TidyInv'
<1> DEFINE t == task[r][i]
           previous == baselineVersion(run[r].ds[i], run[r].version)
           pr == [prs[i][t.pr] EXCEPT !.hash = t.file, !.previous = previous]
<1>1. prs' = prs \/ prs' = [prs EXCEPT ![i][t.pr] = pr]
  BY DEF UpdatePR
<1>2. t.pc = "update"
  BY DEF UpdatePR, At
<1>3. CASE prs' = prs
  BY <1>2, <1>3, ElsewhereTidies
<1>4. CASE prs' = [prs EXCEPT ![i][t.pr] = pr]
  <2>1. t.pr \in DOMAIN prs[i] /\ prs[i] \in Seq(PullRequest) /\ prs \in [Items -> Seq(PullRequest)]
    BY <1>2 DEF TidyInv, IInv, Carries, TypeOK
  <2>2. prs[i][t.pr] \in PullRequest
    BY <2>1
  <2>3. pr.state = prs[i][t.pr].state /\ pr.labelled = prs[i][t.pr].labelled
    BY <2>2 DEF PullRequest
  <2> HIDE DEF pr
  <2>4. /\ DOMAIN prs'[i] = DOMAIN prs[i]
        /\ \A n \in DOMAIN prs[i] : prs'[i][n].state = prs[i][n].state
                                    /\ prs'[i][n].labelled = prs[i][n].labelled
    BY <1>4, <2>1, <2>3
  <2>5. Labelled(i)'
    BY <1>2, <2>4, LabelsStay DEF Labels
  <2>6. Uncovers(r, i)
    BY <1>2, <2>4 DEF Uncovers, OpenPRs, Covers
  <2> QED
    BY <2>5, <2>6, WorkerTidies
<1> QED
  BY <1>1, <1>3, <1>4

LEMMA CreatePRTidies ==
    ASSUME Tidy, TidyInv, IInv', NEW r \in Runs, NEW i \in Items, Leaves(r, i), CreatePR(r, i)
    PROVE  TidyInv'
<1> DEFINE t == task[r][i]
           v == run[r].version
           PR == [version |-> v, hash |-> t.file, state |-> "open", labelled |-> FALSE,
                  previous |-> baselineVersion(run[r].ds[i], v)]
           n == Len(prs[i]) + 1
           u == [t EXCEPT !.pc = "label", !.status = "created", !.pr = n]
<1>1. t.pc = "create" /\ run'[r].phase = "work"
  BY DEF CreatePR, At, Leaves
<1>2. CASE prs' = prs
  BY <1>1, <1>2, ElsewhereTidies
<1>3. CASE prs' = [prs EXCEPT ![i] = Append(@, PR)] /\ Set(r, i, u)
  <2>1. prs[i] \in Seq(PullRequest) /\ prs \in [Items -> Seq(PullRequest)] /\ t \in Task
    BY Reads DEF TidyInv, IInv, TypeOK
  <2>2. prs'[i] = Append(prs[i], PR)
    BY <1>3, <2>1
  <2> HIDE DEF PR
  <2>3. \A k \in DOMAIN prs'[i] : k = n \/ (k \in DOMAIN prs[i] /\ prs'[i][k] = prs[i][k])
    BY <2>1, <2>2
  <2>4. task'[r][i].pc = "label" /\ task'[r][i].pr = n
    <3>1. u.pc = "label" /\ u.pr = n
      BY <2>1 DEF Task
    <3> HIDE DEF u
    <3> QED
      BY <1>3, <3>1, Typed DEF TidyInv, Set
  <2>5. Labelled(i)'
    BY <1>1, <2>3, <2>4, LabelsStay DEF Labels
  <2>6. Uncovers(r, i)
    BY <1>1, <2>4 DEF Uncovers, Covers
  <2> QED
    BY <2>5, <2>6, WorkerTidies
<1> QED
  BY <1>2, <1>3 DEF CreatePR, Tidy

LEMMA LabelPRTidies ==
    ASSUME Tidy, TidyInv, IInv', NEW r \in Runs, NEW i \in Items, Leaves(r, i), LabelPR(r, i)
    PROVE  TidyInv'
<1> DEFINE t == task[r][i]
           pr == [prs[i][t.pr] EXCEPT !.labelled = TRUE]
           u == [t EXCEPT !.pc = "stale"]
<1>1. t.pc = "label" /\ run'[r].phase = "work" /\ Set(r, i, u)
  BY DEF LabelPR, At, Leaves, Tidy, Goto
<1>2. prs' = [prs EXCEPT ![i][t.pr] = pr]
  BY DEF LabelPR, Tidy
<1>3. prs[i] \in Seq(PullRequest) /\ prs \in [Items -> Seq(PullRequest)] /\ t \in Task
  BY Reads DEF TidyInv, IInv, TypeOK
<1>4. t.pr \in DOMAIN prs[i]
  BY <1>1 DEF TidyInv, IInv, Carries
<1>5. pr.labelled /\ pr.state = prs[i][t.pr].state
  <2>1. \A k \in DOMAIN prs[i] : prs[i][k] \in PullRequest
    BY <1>3
  <2>2. prs[i][t.pr] \in PullRequest
    BY <1>4, <2>1
  <2> QED
    BY <2>2 DEF PullRequest
<1> HIDE DEF pr
<1>6. /\ DOMAIN prs'[i] = DOMAIN prs[i] /\ prs'[i][t.pr] = pr
      /\ \A k \in DOMAIN prs[i] : k # t.pr => prs'[i][k] = prs[i][k]
  BY <1>2, <1>3, <1>4
<1>7. Labelled(i)'
  BY <1>5, <1>6, LabelsStay DEF Labels
<1>8. task'[r][i].pc = "stale"
  <2>1. u.pc = "stale"
    BY <1>3 DEF Task
  <2> HIDE DEF u
  <2> QED
    BY <1>1, <2>1, Typed DEF TidyInv, Set
<1>9. Uncovers(r, i)
  BY <1>1, <1>8 DEF Uncovers, Covers
<1> QED
  BY <1>7, <1>9, WorkerTidies

LEMMA ListStalePRsTidies ==
    ASSUME Tidy, TidyInv, IInv', NEW r \in Runs, NEW i \in Items, Leaves(r, i), ListStalePRs(r, i)
    PROVE  TidyInv'
<1> DEFINE old == task[r][i]
           t == [old EXCEPT !.pc = "close", !.stale = Stale(i, old.pr)]
<1>1. Set(r, i, t)
  BY DEF ListStalePRs, Tidy
<1>2. old \in Task /\ task \in [Runs -> [Items -> Task]]
  BY Typed DEF TidyInv
<1>3. task'[r][i].pc = "close" /\ task'[r][i].stale = Stale(i, old.pr)
  <2>1. t.pc = "close" /\ t.stale = Stale(i, old.pr)
    BY <1>2 DEF Task
  <2> QED
    BY <1>1, <1>2, <2>1 DEF Set
<1>4. prs' = prs /\ run'[r].phase = "work"
  BY DEF ListStalePRs, Local, remote, At, Leaves
<1>5. Labelled(i)'
  BY <1>4, LabelsStay DEF ListStalePRs, At, Labels
<1>6. ASSUME NEW m \in OpenPRs(i)', NEW n \in OpenPRs(i)', m # n
      PROVE  \E q \in Runs : Covers(q, i, m, n)'
  <2>1. PICK k \in {m, n} : k # old.pr
    BY <1>6
  <2>2. k \in DOMAIN prs[i] /\ prs[i][k].state = "open"
    BY <1>4 DEF OpenPRs
  <2>3. CASE prs[i][k].labelled
    <3>1. k \in Stale(i, old.pr)
      BY <2>1, <2>2, <2>3 DEF Stale
    <3> QED
      BY <1>3, <1>4, <3>1 DEF Covers
  <2>4. CASE ~prs[i][k].labelled
    <3>1. PICK q \in Runs : Labels(q, i, k)
      BY <2>2, <2>4 DEF TidyInv, Labelled
    <3>2. q # r
      BY <3>1 DEF Labels, ListStalePRs, At
    <3>3. task'[q][i] = task[q][i] /\ run'[q].phase = run[q].phase
      BY <3>2 DEF Leaves
    <3> QED
      BY <3>1, <3>3 DEF Labels, Covers
  <2> QED
    BY <2>3, <2>4
<1>7. Uncovers(r, i)
  BY <1>6 DEF Uncovers
<1> QED
  BY <1>5, <1>7, WorkerTidies

LEMMA ClosePRTidies ==
    ASSUME Tidy, TidyInv, IInv', NEW r \in Runs, NEW i \in Items, Leaves(r, i), ClosePR(r, i)
    PROVE  TidyInv'
<1> DEFINE old == task[r][i]
<1>1. PICK n \in old.stale :
        /\ prs' = [prs EXCEPT ![i][n].state = IF @ = "open" THEN "closed" ELSE @]
        /\ Set(r, i, [old EXCEPT !.stale = @ \ {n}])
  BY DEF ClosePR, Tidy
<1> DEFINE pr == [prs[i][n] EXCEPT !.state = IF @ = "open" THEN "closed" ELSE @]
<1>2. prs' = [prs EXCEPT ![i][n] = pr]
  BY <1>1
<1>3. prs[i] \in Seq(PullRequest) /\ prs \in [Items -> Seq(PullRequest)] /\ old \in Task
  BY Reads DEF TidyInv, IInv, TypeOK
<1>4. n \in DOMAIN prs[i] => pr.state # "open" /\ pr.labelled = prs[i][n].labelled
  <2> SUFFICES ASSUME n \in DOMAIN prs[i]
               PROVE  pr.state # "open" /\ pr.labelled = prs[i][n].labelled
    OBVIOUS
  <2>1. prs[i][n] \in PullRequest
    BY <1>3
  <2> QED
    BY <2>1 DEF PullRequest
<1> HIDE DEF pr
<1>5. /\ DOMAIN prs'[i] = DOMAIN prs[i]
      /\ \A m \in DOMAIN prs[i] : prs'[i][m].labelled = prs[i][m].labelled
      /\ \A m \in DOMAIN prs[i] : prs'[i][m].state = "open" => m # n /\ prs[i][m].state = "open"
  BY <1>2, <1>3, <1>4
<1>6. Labelled(i)'
  BY <1>5, LabelsStay DEF ClosePR, At, Labels
<1>7. task'[r][i].pc = old.pc /\ task'[r][i].stale = old.stale \ {n}
  <2> DEFINE t == [old EXCEPT !.stale = @ \ {n}]
  <2>1. t.pc = old.pc /\ t.stale = old.stale \ {n}
    BY <1>3 DEF Task
  <2> QED
    BY <1>1, <2>1, Typed DEF TidyInv, Set
<1>8. run'[r].phase = run[r].phase /\ old.pc = "close"
  BY DEF Leaves, ClosePR, At
<1>9. \A m \in OpenPRs(i)' : m # n /\ m \in OpenPRs(i)
  BY <1>5 DEF OpenPRs
<1>10. Uncovers(r, i)
  BY <1>7, <1>8, <1>9 DEF Uncovers, Covers
<1> QED
  BY <1>6, <1>10, WorkerTidies

LEMMA WorkerStepTidies ==
    ASSUME Tidy, TidyInv, IInv', NEW r \in Runs, NEW i \in Items, syncOne(r, i)
    PROVE  TidyInv'
<1>1. Leaves(r, i)
  BY LeavesOthers DEF TidyInv
<1>2. CASE decide(r, i) \/ getBaseSHA(r, i) \/ CreateBranch(r, i) \/ ReadBranchFile(r, i)
           \/ CreateOrUpdateFile(r, i) \/ ListPRs(r, i)
  <2>1. task[r][i].pc \notin {"label", "stale", "close"}
    BY <1>2 DEF decide, ReadSource, IsSymlink, ReadExisting, InSync, HashSkip, getBaseSHA,
                CreateBranch, ReadBranchFile, CreateOrUpdateFile, ListPRs, At
  <2>2. prs' = prs
    BY <1>2 DEF decide, ReadSource, IsSymlink, ReadExisting, InSync, HashSkip, getBaseSHA,
                CreateBranch, ReadBranchFile, CreateOrUpdateFile, ListPRs, Local, remote
  <2> QED
    BY <1>1, <2>1, <2>2, ElsewhereTidies
<1>3. CASE Record(r, i)
  <2>1. task[r][i].stale = {} /\ task[r][i].pc = "close" /\ prs' = prs
    BY <1>3 DEF Record, At, remote
  <2> QED
    BY <1>1, <2>1, ElsewhereTidies
<1> QED
  BY <1>1, <1>2, <1>3, UpdatePRTidies, CreatePRTidies, LabelPRTidies, ListStalePRsTidies,
     ClosePRTidies
     DEF syncOne, propose

(* The steps of a run as a whole are taken while it covers nothing.        *)
LEMMA RunStepTidies ==
    ASSUME TidyInv, IInv', NEW r \in Runs, prs' = prs,
           \A q \in Runs : q # r => run'[q] = run[q] /\ task'[q] = task[q],
           \A i \in Items : run[r].phase = "work" => task[r][i].pc \notin {"label", "stale", "close"}
    PROVE  TidyInv'
<1>1. ASSUME NEW i \in Items PROVE Labelled(i)'
  <2>1. \A n : ~Labels(r, i, n)
    BY DEF Labels
  <2>2. \A q \in Runs : \A n : Labels(q, i, n) => Labels(q, i, n)'
    BY <2>1 DEF Labels
  <2> QED
    BY <2>2 DEF TidyInv, Labelled
<1>2. ASSUME NEW i \in Items PROVE Covered(i)'
  <2>1. Covered(i)
    BY DEF TidyInv
  <2>2. \A m, n : ~Covers(r, i, m, n)
    BY DEF Covers
  <2>3. \A q \in Runs : \A m, n : Covers(q, i, m, n) => Covers(q, i, m, n)'
    BY <2>2 DEF Covers
  <2> QED
    BY <2>1, <2>3 DEF Covered, OpenPRs
<1> QED
  BY <1>1, <1>2 DEF TidyInv

(* People merge and close, and open nothing.                               *)
LEMMA PeopleTidy ==
    ASSUME Tidy, TidyInv, IInv', NEW i \in Items, People(i) PROVE TidyInv'
<1>0. run' = run /\ task' = task
  BY PeopleStay
<1>1. CASE prs' = prs
  BY <1>0, <1>1 DEF TidyInv, Labelled, Labels, Covered, Covers, OpenPRs
<1>2. ASSUME NEW n \in DOMAIN prs[i], Merge(i, n) \/ Close(i, n) PROVE TidyInv'
  <2>1. PICK s \in {"closed", "merged"} : prs' = [prs EXCEPT ![i][n].state = s]
    BY <1>2 DEF Merge, Close
  <2> DEFINE pr == [prs[i][n] EXCEPT !.state = s]
  <2>2. prs' = [prs EXCEPT ![i][n] = pr]
    BY <2>1
  <2>3. prs \in [Items -> Seq(PullRequest)] /\ prs[i][n] \in PullRequest
    BY DEF TidyInv, IInv, TypeOK
  <2>4. pr.state # "open" /\ pr.labelled = prs[i][n].labelled
    BY <2>3 DEF PullRequest
  <2> HIDE DEF pr
  <2>5. ASSUME NEW j \in Items
        PROVE  /\ DOMAIN prs'[j] = DOMAIN prs[j]
               /\ \A m \in DOMAIN prs[j] : /\ prs'[j][m].labelled = prs[j][m].labelled
                                           /\ prs'[j][m].state = "open" => prs[j][m].state = "open"
    BY <2>2, <2>3, <2>4
  <2>6. \A j \in Items : Labelled(j)' /\ OpenPRs(j)' \subseteq OpenPRs(j)
    BY <1>0, <2>5 DEF TidyInv, Labelled, Labels, OpenPRs
  <2>7. \A q \in Runs, j \in Items : \A m, k : Covers(q, j, m, k) => Covers(q, j, m, k)'
    BY <1>0 DEF Covers
  <2>8. ASSUME NEW j \in Items, NEW m \in OpenPRs(j)', NEW k \in OpenPRs(j)', m # k
        PROVE  \E q \in Runs : Covers(q, j, m, k)'
    <3>1. m \in OpenPRs(j) /\ k \in OpenPRs(j)
      BY <2>6
    <3>2. PICK q \in Runs : Covers(q, j, m, k)
      BY <2>8, <3>1 DEF TidyInv, Covered
    <3> QED
      BY <2>7, <3>2
  <2>9. \A j \in Items : Covered(j)'
    BY <2>8 DEF Covered
  <2> QED
    BY <2>6, <2>9 DEF TidyInv
<1>3. ASSUME NEW n, Reopen(i, n) PROVE FALSE
  BY <1>3 DEF Reopen, Tidy
<1>4. Edit(i) => prs' = prs
  BY DEF Edit
<1> QED
  BY <1>1, <1>2, <1>3, <1>4 DEF People

LEMMA TidyInvInit == Init => TidyInv
<1> SUFFICES ASSUME Init PROVE TidyInv
  OBVIOUS
<1>1. \A i \in Items : DOMAIN prs[i] = {}
  BY DEF Init
<1> QED
  BY <1>1, InvInit DEF TidyInv, Labelled, Covered, OpenPRs

LEMMA TidyInvNext == ASSUME Tidy PROVE SaveInv /\ TidyInv /\ [Next]_vars => TidyInv'
<1> SUFFICES ASSUME SaveInv, TidyInv, [Next]_vars PROVE TidyInv'
  OBVIOUS
<1>0. IInv'
  BY InvNext DEF TidyInv
<1>1. ASSUME NEW r \in Runs, Start(r) \/ loadState(r) \/ startFresh(r) \/ saveState(r)
      PROVE  TidyInv'
  <2>1. prs' = prs
    BY <1>1 DEF Start, loadState, startFresh, saveState, remote
  <2>2. \A q \in Runs : q # r => run'[q] = run[q] /\ task'[q] = task[q]
    BY <1>1, StepsOwn DEF Step
  <2>3. \A i \in Items : run[r].phase = "work" => task[r][i].pc \notin {"label", "stale", "close"}
    BY <1>1 DEF Start, loadState, startFresh, saveState, Ended, Outcomes
  <2> QED
    BY <1>0, <2>1, <2>2, <2>3, RunStepTidies
<1>2. ASSUME NEW r \in Runs, Crash(r) PROVE FALSE
  BY <1>2 DEF Crash, Tidy
<1>3. ASSUME NEW r \in Runs, NEW i \in Items, syncOne(r, i) PROVE TidyInv'
  BY <1>0, <1>3, WorkerStepTidies
<1>4. CASE Bump \/ UNCHANGED vars
  <2>1. prs' = prs /\ run' = run /\ task' = task
    BY <1>4 DEF Bump, vars, remote
  <2> QED
    BY <1>0, <2>1 DEF TidyInv, Labelled, Labels, Covered, Covers, OpenPRs
<1>5. ASSUME NEW i \in Items, People(i) PROVE TidyInv'
  BY <1>0, <1>5, PeopleTidy
<1> QED
  BY <1>1, <1>2, <1>3, <1>4, <1>5 DEF Next, Step

(* When nothing is covered, there is one at most.                          *)
LEMMA TidyIsOne == TidyInv => AtMostOneOpen
<1> SUFFICES ASSUME TidyInv, Quiet, NEW i \in Items PROVE Cardinality(OpenPRs(i)) <= 1
  BY DEF AtMostOneOpen
<1>1. \A r \in Runs : \A m, n : ~Covers(r, i, m, n)
  BY DEF Quiet, Active, Covers
<1>2. \A m, n \in OpenPRs(i) : m = n
  BY <1>1 DEF TidyInv, Covered
<1>3. CASE OpenPRs(i) = {}
  BY <1>3, FS_EmptySet
<1>4. CASE OpenPRs(i) # {}
  <2>1. PICK n : n \in OpenPRs(i)
    BY <1>4
  <2>2. OpenPRs(i) = {n}
    BY <1>2, <2>1
  <2>3. Cardinality({n}) = 1
    BY FS_Singleton
  <2> QED
    BY <2>2, <2>3
<1> QED
  BY <1>3, <1>4

(* SYNCPR-006: between runs a target has one open sync pull request at     *)
(* most, however many runs, overlapping ones too, proposed versions to it  *)
(* (ListStalePRs, ClosePR): of two runs that open one, the one that lists  *)
(* later finds the other's.  A label request that fails leaves two         *)
(* (MCSyncStale), and so does a kill before the older one is closed.       *)
THEOREM AtMostOneOpenHolds == ASSUME Tidy PROVE Spec => []AtMostOneOpen
<1>1. Init => TidyInv
  BY TidyInvInit
<1>2. SaveInv /\ TidyInv /\ [Next]_vars => TidyInv'
  BY TidyInvNext
<1>3. TidyInv => AtMostOneOpen
  BY TidyIsOne
<1> QED
  BY <1>1, <1>2, <1>3, SaveInvHolds, PTL DEF Spec

-----------------------------------------------------------------------------
(* What a run reports.                                                     *)

(* No other run is there to close it, and people do not.                   *)
Alone == ~Overlap /\ "close" \notin Humans

(* The pull request of a worker stands: from the lookup or the creation    *)
(* on, and with the content proposed once it is updated or created.        *)
Stands(pulls, n) == n \in DOMAIN pulls /\ pulls[n].state # "closed"
ProposedOK(r, i) == run[r].phase = "work" =>
    /\ task[r][i].pc \in Merging \cup Done => Stands(prs[i], task[r][i].pr)
    /\ task[r][i].pc \in {"label", "stale", "close"} => prs[i][task[r][i].pr].hash = task[r][i].file
    /\ task[r][i].pc \in Done => run[r].ds[i].hash = prs[i][task[r][i].pr].hash
    /\ task[r][i].pc = "close" => task[r][i].pr \notin task[r][i].stale
    /\ task[r][i].pc # "close" => task[r][i].stale = {}
AloneInv == SaveInv /\ \A r \in Runs, i \in Items : ProposedOK(r, i)

(* The worker of the only run at work.                                     *)
LEMMA WorkerProposes ==
    ASSUME Alone, AloneInv, SaveInv', NEW r \in Runs, NEW i \in Items, syncOne(r, i),
           ProposedOK(r, i)'
    PROVE  AloneInv'
<1>1. IInv /\ Leaves(r, i)
  BY LeavesOthers DEF AloneInv, SaveInv
<1>2. PICK t \in Task, e \in Entry : Effect(r, i, t, e)
  BY <1>1, WorkerMoves DEF Moved
<1>3. \A q \in Runs, j \in Items : <<q, j>> # <<r, i>> => run'[q].ds[j] = run[q].ds[j]
  BY <1>1, <1>2, RecordTyped DEF Effect, IInv, TypeOK
<1>4. ASSUME NEW q \in Runs, NEW j \in Items, <<q, j>> # <<r, i>> PROVE ProposedOK(q, j)'
  <2>1. CASE run[q].phase = "work"
    <3>1. q = r
      BY <1>2, <2>1 DEF Effect, Alone, AloneInv, SaveInv, OneRun, Active
    <3>2. /\ run'[q].phase = run[q].phase /\ run'[q].ds[j] = run[q].ds[j]
          /\ task'[q][j] = task[q][j] /\ prs'[j] = prs[j]
      BY <1>1, <1>3, <1>4, <3>1 DEF Leaves
    <3>3. ProposedOK(q, j)
      BY DEF AloneInv
    <3> QED
      BY <3>2, <3>3 DEF ProposedOK, Merging, Done, Stands
  <2>2. CASE run[q].phase # "work"
    BY <1>1, <2>2 DEF Leaves, ProposedOK
  <2> QED
    BY <2>1, <2>2
<1> QED
  BY <1>4 DEF AloneInv

(* A worker that proposes nothing yet, or ended without.                   *)
LEMMA Unproposed ==
    ASSUME NEW r \in Runs, NEW i \in Items, task'[r][i].pc \notin Merging \cup Done,
           task'[r][i].stale = {}
    PROVE  ProposedOK(r, i)'
BY DEF ProposedOK, Merging

LEMMA SetsTask ==
    ASSUME IInv, NEW r \in Runs, NEW i \in Items, NEW t, Set(r, i, t) PROVE task'[r][i] = t
BY Typed DEF Set

LEMMA EndsUnproposed ==
    ASSUME IInv, NEW r \in Runs, NEW i \in Items, NEW how \in {"skipped", "declined", "error"},
           End(r, i, how)
    PROVE  ProposedOK(r, i)'
<1> DEFINE t == [Blank EXCEPT !.pc = how]
<1>1. t.pc = how /\ t.stale = {}
  BY DEF Blank
<1>2. task'[r][i] = t
  BY SetsTask DEF End
<1> QED
  BY <1>1, <1>2, Unproposed DEF Merging, Done

LEMMA GoesUnproposed ==
    ASSUME AloneInv, NEW r \in Runs, NEW i \in Items, run[r].phase = "work",
           task[r][i].pc # "close", NEW t, Set(r, i, t), t.stale = task[r][i].stale,
           t.pc \notin Merging \cup Done
    PROVE  ProposedOK(r, i)'
<1>1. task'[r][i] = t
  BY SetsTask DEF AloneInv, SaveInv
<1>2. task[r][i].stale = {}
  BY DEF AloneInv, ProposedOK
<1> QED
  BY <1>1, <1>2, Unproposed

LEMMA BeforeProposing ==
    ASSUME AloneInv, NEW r \in Runs, NEW i \in Items,
           decide(r, i) \/ getBaseSHA(r, i) \/ CreateBranch(r, i) \/ ReadBranchFile(r, i)
           \/ CreateOrUpdateFile(r, i)
    PROVE  ProposedOK(r, i)'
<1>1. IInv /\ task[r][i] \in Task
  BY Typed DEF AloneInv, SaveInv
<1>2. run[r].phase = "work" /\ task[r][i].pc # "close"
  BY DEF decide, ReadSource, IsSymlink, ReadExisting, InSync, HashSkip, getBaseSHA,
         CreateBranch, ReadBranchFile, CreateOrUpdateFile, At
<1>3. ASSUME NEW how \in {"skipped", "declined", "error"}, End(r, i, how) PROVE ProposedOK(r, i)'
  BY <1>1, <1>3, EndsUnproposed
<1>4. ASSUME NEW t, Set(r, i, t), t.stale = {} \/ t.stale = task[r][i].stale,
             t.pc \in {"symlink", "existing", "inSync", "hashSkip", "base", "branch", "read",
                       "commit", "list"}
      PROVE  ProposedOK(r, i)'
  <2>1. task[r][i].stale = {}
    BY <1>2 DEF AloneInv, ProposedOK
  <2> QED
    BY <1>2, <1>4, <2>1, GoesUnproposed DEF Merging, Done
<1>5. ASSUME NEW l \in {"existing", "read", "list"}, Goto(r, i, l) PROVE ProposedOK(r, i)'
  <2> DEFINE t == [task[r][i] EXCEPT !.pc = l]
  <2>1. t.pc = l /\ t.stale = task[r][i].stale
    BY <1>1 DEF Task
  <2> QED
    BY <1>4, <1>5, <2>1 DEF Goto
<1>6. CASE ReadSource(r, i)
  <2> DEFINE t == [Blank EXCEPT !.pc = "symlink", !.text = template.text]
  <2>1. t.pc = "symlink" /\ t.stale = {}
    BY DEF Blank
  <2>2. CASE Set(r, i, t)
    BY <1>4, <2>1, <2>2
  <2> QED
    BY <1>3, <1>6, <2>2 DEF ReadSource
<1>7. CASE IsSymlink(r, i)
  BY <1>3, <1>5, <1>7 DEF IsSymlink
<1>8. CASE ReadExisting(r, i)
  <2> DEFINE t(next) == [Blank EXCEPT !.pc = next,
                                      !.file = Render(i, task[r][i].text, main[i])]
  <2>1. \A next : t(next).pc = next /\ t(next).stale = {}
    BY DEF Blank
  <2>2. ASSUME NEW next \in {"inSync", "hashSkip", "base"}, Set(r, i, t(next))
        PROVE  ProposedOK(r, i)'
    <3> HIDE DEF t
    <3> QED
      BY <1>4, <2>1, <2>2
  <2> QED
    BY <1>3, <1>8, <2>2 DEF ReadExisting
<1>9. CASE InSync(r, i) \/ HashSkip(r, i)
  BY <1>3, <1>9 DEF InSync, HashSkip
<1>10. CASE getBaseSHA(r, i)
  <2> DEFINE t == [task[r][i] EXCEPT !.pc = "branch", !.base = main[i]]
  <2>1. t.pc = "branch" /\ t.stale = task[r][i].stale
    BY <1>1 DEF Task
  <2>2. CASE Set(r, i, t)
    BY <1>4, <2>1, <2>2
  <2> QED
    BY <1>3, <1>10, <2>2 DEF getBaseSHA
<1>11. CASE CreateBranch(r, i) \/ CreateOrUpdateFile(r, i)
  BY <1>3, <1>5, <1>11 DEF CreateBranch, CreateOrUpdateFile
<1>12. CASE ReadBranchFile(r, i)
  <2> DEFINE b == branch[i][run[r].version]
             t == [task[r][i] EXCEPT !.pc = "commit",
                                     !.sha = IF b = NoBranch THEN Absent ELSE b.head]
  <2>1. t.pc = "commit" /\ t.stale = task[r][i].stale
    BY <1>1 DEF Task
  <2>2. CASE Set(r, i, t)
    <3> HIDE DEF t
    <3> QED
      BY <1>4, <2>1, <2>2
  <2> QED
    BY <1>3, <1>12, <2>2 DEF ReadBranchFile
<1> QED
  BY <1>6, <1>7, <1>8, <1>9, <1>10, <1>11, <1>12 DEF decide

(* A worker that goes on with the pull request t.pr.                       *)
LEMMA GoesProposed ==
    ASSUME IInv, NEW r \in Runs, NEW i \in Items, NEW t, Set(r, i, t),
           t.pc \in Merging, Stands(prs'[i], t.pr),
           t.pc \in {"label", "stale", "close"} => prs'[i][t.pr].hash = t.file,
           t.pr \notin t.stale, t.pc # "close" => t.stale = {}
    PROVE  ProposedOK(r, i)'
<1>1. task'[r][i] = t
  BY SetsTask
<1> QED
  BY <1>1 DEF ProposedOK, Merging, Done

LEMMA ListPRsProposes ==
    ASSUME AloneInv, NEW r \in Runs, NEW i \in Items, ListPRs(r, i) PROVE ProposedOK(r, i)'
<1>1. IInv /\ task[r][i] \in Task
  BY Typed DEF AloneInv, SaveInv
<1>2. run[r].phase = "work" /\ task[r][i].pc = "list" /\ prs' = prs
  BY DEF ListPRs, At, Local, remote
<1>3. task[r][i].stale = {}
  BY <1>2 DEF AloneInv, ProposedOK
<1>4. ASSUME NEW n \in OpenFor(i, run[r].version),
             Set(r, i, [task[r][i] EXCEPT !.pc = "update", !.pr = n])
      PROVE  ProposedOK(r, i)'
  <2> DEFINE t == [task[r][i] EXCEPT !.pc = "update", !.pr = n]
  <2>1. t.pc = "update" /\ t.pr = n /\ t.stale = {}
    BY <1>1, <1>3 DEF Task
  <2>2. Stands(prs'[i], n)
    BY <1>2 DEF OpenFor, Stands
  <2> QED
    BY <1>1, <1>4, <2>1, <2>2, GoesProposed DEF Merging
<1>5. CASE Goto(r, i, "create")
  <2> DEFINE t == [task[r][i] EXCEPT !.pc = "create"]
  <2>1. t.pc = "create" /\ t.stale = task[r][i].stale
    BY <1>1 DEF Task
  <2> QED
    BY <1>2, <1>5, <2>1, GoesUnproposed DEF Goto, Merging, Done
<1> QED
  BY <1>4, <1>5 DEF ListPRs

LEMMA UpdatePRProposes ==
    ASSUME AloneInv, NEW r \in Runs, NEW i \in Items, UpdatePR(r, i) PROVE ProposedOK(r, i)'
<1> DEFINE t == task[r][i]
           previous == baselineVersion(run[r].ds[i], run[r].version)
           pr == [prs[i][t.pr] EXCEPT !.hash = t.file, !.previous = previous]
           next == IF CloseStalePRs THEN "stale" ELSE "close"
           u == [t EXCEPT !.pc = next, !.status = "updated"]
<1>1. IInv /\ t \in Task
  BY Typed DEF AloneInv, SaveInv
<1>2. run[r].phase = "work" /\ t.pc = "update"
  BY DEF UpdatePR, At
<1>3. Stands(prs[i], t.pr) /\ t.stale = {}
  BY <1>2 DEF AloneInv, ProposedOK, Merging
<1>4. CASE prs' = [prs EXCEPT ![i][t.pr] = pr] /\ Set(r, i, u)
  <2>1. /\ prs \in [Items -> Seq(PullRequest)] /\ prs[i] \in Seq(PullRequest)
        /\ t.pr \in DOMAIN prs[i] /\ prs[i][t.pr] \in PullRequest
    BY <1>1, <1>3 DEF IInv, TypeOK, Stands
  <2>2. pr.state = prs[i][t.pr].state /\ pr.hash = t.file
    BY <2>1 DEF PullRequest
  <2> HIDE DEF pr
  <2>3. DOMAIN prs'[i] = DOMAIN prs[i] /\ prs'[i][t.pr] = pr
    BY <1>4, <2>1
  <2>4. Stands(prs'[i], t.pr) /\ prs'[i][t.pr].hash = t.file
    BY <1>3, <2>2, <2>3 DEF Stands
  <2>5. u.pc \in {"stale", "close"} /\ u.pr = t.pr /\ u.file = t.file /\ u.stale = {}
    BY <1>1, <1>3 DEF Task
  <2> HIDE DEF u
  <2> QED
    BY <1>1, <1>4, <2>4, <2>5, GoesProposed DEF Merging
<1>5. CASE End(r, i, "error")
  BY <1>1, <1>5, EndsUnproposed
<1> QED
  BY <1>4, <1>5 DEF UpdatePR

LEMMA CreatePRProposes ==
    ASSUME AloneInv, NEW r \in Runs, NEW i \in Items, CreatePR(r, i) PROVE ProposedOK(r, i)'
<1> DEFINE t == task[r][i]
           v == run[r].version
           PR == [version |-> v, hash |-> t.file, state |-> "open", labelled |-> FALSE,
                  previous |-> baselineVersion(run[r].ds[i], v)]
           u == [t EXCEPT !.pc = "label", !.status = "created", !.pr = Len(prs[i]) + 1]
<1>1. IInv /\ t \in Task /\ prs[i] \in Seq(PullRequest) /\ prs \in [Items -> Seq(PullRequest)]
  BY Typed DEF AloneInv, SaveInv, IInv, TypeOK
<1>2. run[r].phase = "work" /\ t.pc = "create"
  BY DEF CreatePR, At
<1>3. t.stale = {}
  BY <1>2 DEF AloneInv, ProposedOK
<1>4. ASSUME prs' = [prs EXCEPT ![i] = Append(@, PR)], Set(r, i, u)
      PROVE  ProposedOK(r, i)'
  <2> DEFINE pr == PR
             n == Len(prs[i]) + 1
  <2>1. pr.state = "open" /\ pr.hash = t.file
    OBVIOUS
  <2>2. prs'[i] = Append(prs[i], pr)
    BY <1>1, <1>4
  <2> HIDE DEF pr
  <2>3. n \in DOMAIN prs'[i] /\ prs'[i][n] = pr
    BY <1>1, <2>2
  <2>4. Stands(prs'[i], n) /\ prs'[i][n].hash = t.file
    BY <2>1, <2>3 DEF Stands
  <2>5. u.pc = "label" /\ u.pr = n /\ u.file = t.file /\ u.stale = {}
    BY <1>1, <1>3 DEF Task
  <2> HIDE DEF u, n
  <2> QED
    BY <1>1, <1>4, <2>4, <2>5, GoesProposed DEF Merging
<1>5. CASE End(r, i, "error")
  BY <1>1, <1>5, EndsUnproposed
<1> QED
  BY <1>4, <1>5 DEF CreatePR

LEMMA LabelPRProposes ==
    ASSUME AloneInv, NEW r \in Runs, NEW i \in Items, LabelPR(r, i) PROVE ProposedOK(r, i)'
<1> DEFINE t == task[r][i]
           pr == [prs[i][t.pr] EXCEPT !.labelled = TRUE]
           next == IF CloseStalePRs THEN "stale" ELSE "close"
           u == [t EXCEPT !.pc = next]
<1>1. IInv /\ t \in Task /\ prs[i] \in Seq(PullRequest) /\ prs \in [Items -> Seq(PullRequest)]
  BY Typed DEF AloneInv, SaveInv, IInv, TypeOK
<1>2. run[r].phase = "work" /\ t.pc = "label"
  BY DEF LabelPR, At
<1>3. Stands(prs[i], t.pr) /\ prs[i][t.pr].hash = t.file /\ t.stale = {}
  BY <1>2 DEF AloneInv, ProposedOK, Merging
<1>4. (prs' = prs \/ prs' = [prs EXCEPT ![i][t.pr] = pr]) /\ Set(r, i, u)
  BY DEF LabelPR, Goto
<1>5. pr.state = prs[i][t.pr].state /\ pr.hash = prs[i][t.pr].hash
  <2>1. \A k \in DOMAIN prs[i] : prs[i][k] \in PullRequest
    BY <1>1
  <2>2. prs[i][t.pr] \in PullRequest
    BY <1>3, <2>1 DEF Stands
  <2> QED
    BY <2>2 DEF PullRequest
<1> HIDE DEF pr
<1>6. DOMAIN prs'[i] = DOMAIN prs[i] /\ (prs'[i][t.pr] = prs[i][t.pr] \/ prs'[i][t.pr] = pr)
  BY <1>1, <1>3, <1>4 DEF Stands
<1>7. Stands(prs'[i], t.pr) /\ prs'[i][t.pr].hash = t.file
  BY <1>3, <1>5, <1>6 DEF Stands
<1>8. u.pc \in {"stale", "close"} /\ u.pr = t.pr /\ u.file = t.file /\ u.stale = {}
  BY <1>1, <1>3 DEF Task
<1> HIDE DEF u
<1> QED
  BY <1>1, <1>4, <1>7, <1>8, GoesProposed DEF Merging

LEMMA ListStalePRsProposes ==
    ASSUME AloneInv, NEW r \in Runs, NEW i \in Items, ListStalePRs(r, i) PROVE ProposedOK(r, i)'
<1> DEFINE old == task[r][i]
<1>1. IInv /\ old \in Task
  BY Typed DEF AloneInv, SaveInv
<1>2. run[r].phase = "work" /\ old.pc = "stale" /\ prs' = prs
  BY DEF ListStalePRs, At, Local, remote
<1>3. Stands(prs[i], old.pr) /\ prs[i][old.pr].hash = old.file
  BY <1>2 DEF AloneInv, ProposedOK, Merging
<1>4. PICK stale \in {Stale(i, old.pr), {}} : Set(r, i, [old EXCEPT !.pc = "close", !.stale = stale])
  BY DEF ListStalePRs
<1> DEFINE t == [old EXCEPT !.pc = "close", !.stale = stale]
<1>5. t.pc = "close" /\ t.pr = old.pr /\ t.file = old.file /\ t.stale = stale
  BY <1>1 DEF Task
<1>6. old.pr \notin stale
  BY DEF Stale
<1> HIDE DEF t
<1>7. Set(r, i, t)
  BY <1>4 DEF t
<1> QED
  BY <1>1, <1>2, <1>3, <1>5, <1>6, <1>7, GoesProposed DEF Merging

LEMMA ClosePRProposes ==
    ASSUME AloneInv, NEW r \in Runs, NEW i \in Items, ClosePR(r, i) PROVE ProposedOK(r, i)'
<1> DEFINE old == task[r][i]
<1>1. IInv /\ old \in Task /\ prs[i] \in Seq(PullRequest) /\ prs \in [Items -> Seq(PullRequest)]
  BY Typed DEF AloneInv, SaveInv, IInv, TypeOK
<1>2. run[r].phase = "work" /\ old.pc = "close"
  BY DEF ClosePR, At
<1>3. Stands(prs[i], old.pr) /\ prs[i][old.pr].hash = old.file /\ old.pr \notin old.stale
  BY <1>2 DEF AloneInv, ProposedOK, Merging
<1>4. PICK n \in old.stale :
        /\ \/ prs' = [prs EXCEPT ![i][n].state = IF @ = "open" THEN "closed" ELSE @]
           \/ UNCHANGED prs
        /\ Set(r, i, [old EXCEPT !.stale = @ \ {n}])
  BY DEF ClosePR
<1>5. DOMAIN prs'[i] = DOMAIN prs[i] /\ prs'[i][old.pr] = prs[i][old.pr]
  <2>1. n # old.pr
    BY <1>3
  <2>2. CASE prs' = [prs EXCEPT ![i][n].state = IF @ = "open" THEN "closed" ELSE @]
    <3> DEFINE pr == [prs[i][n] EXCEPT !.state = IF @ = "open" THEN "closed" ELSE @]
    <3>1. prs' = [prs EXCEPT ![i][n] = pr]
      BY <2>2
    <3> HIDE DEF pr
    <3> QED
      BY <1>1, <2>1, <3>1
  <2> QED
    BY <1>4, <2>2
<1> DEFINE t == [old EXCEPT !.stale = @ \ {n}]
<1>6. t.pc = "close" /\ t.pr = old.pr /\ t.file = old.file /\ t.stale = old.stale \ {n}
  BY <1>1, <1>2 DEF Task
<1> HIDE DEF t
<1>7. Set(r, i, t)
  BY <1>4 DEF t
<1>8. Stands(prs'[i], old.pr) /\ prs'[i][old.pr].hash = old.file
  BY <1>3, <1>5 DEF Stands
<1> QED
  BY <1>1, <1>3, <1>6, <1>7, <1>8, GoesProposed DEF Merging

LEMMA RecordProposes ==
    ASSUME AloneInv, NEW r \in Runs, NEW i \in Items, Record(r, i) PROVE ProposedOK(r, i)'
<1> DEFINE old == task[r][i]
           t == [Blank EXCEPT !.pc = old.status, !.pr = old.pr]
           e == [version |-> run[r].version, hash |-> old.file, pr |-> old.pr, status |-> "open",
                 previous |-> baselineVersion(run[r].ds[i], run[r].version), stamp |-> r]
<1>1. IInv /\ old \in Task /\ run \in [Runs -> Run] /\ run[r].ds \in [Items -> Entry]
  BY Typed DEF AloneInv, SaveInv
<1>2. run[r].phase = "work" /\ old.pc = "close" /\ prs' = prs
  BY DEF Record, At, remote
<1>3. Stands(prs[i], old.pr) /\ prs[i][old.pr].hash = old.file
  BY <1>2 DEF AloneInv, ProposedOK, Merging
<1>4. old.status \in Done
  BY <1>1, <1>2 DEF IInv, Carries, Task, Done
<1>5. Set(r, i, t) /\ SetTemplateState(r, i, e)
  BY DEF Record
<1>6. t.pc = old.status /\ t.pr = old.pr /\ t.stale = {}
  BY DEF Blank
<1>7. e.hash = old.file
  OBVIOUS
<1> HIDE DEF t, e
<1>8. task'[r][i] = t
  BY <1>1, <1>5, SetsTask
<1>9. run'[r].ds = [run[r].ds EXCEPT ![i] = e]
  BY <1>1, <1>5, RecordRun
<1>10. run'[r].ds[i].hash = old.file
  BY <1>1, <1>7, <1>9
<1> QED
  BY <1>2, <1>3, <1>4, <1>6, <1>8, <1>10 DEF ProposedOK, Done, Merging

LEMMA WorkerStepProposes ==
    ASSUME Alone, AloneInv, SaveInv', NEW r \in Runs, NEW i \in Items, syncOne(r, i)
    PROVE  AloneInv'
<1>1. ProposedOK(r, i)'
  BY BeforeProposing, ListPRsProposes, UpdatePRProposes, CreatePRProposes, LabelPRProposes,
     ListStalePRsProposes, ClosePRProposes, RecordProposes DEF syncOne, propose
<1> QED
  BY <1>1, WorkerProposes

(* A step of a run as a whole, none of whose workers has a pull request.   *)
LEMMA RunStepProposes ==
    ASSUME Alone, AloneInv, SaveInv', NEW r \in Runs, prs' = prs,
           \A q \in Runs : q # r => run'[q] = run[q] /\ task'[q] = task[q],
           \A i \in Items : run'[r].phase = "work" =>
               task'[r][i].pc \notin Merging \cup Done /\ task'[r][i].stale = {}
    PROVE  AloneInv'
<1>1. ASSUME NEW q \in Runs, NEW i \in Items PROVE ProposedOK(q, i)'
  <2>1. CASE q = r
    BY <2>1 DEF ProposedOK, Merging
  <2>2. CASE q # r
    BY <2>2 DEF AloneInv, ProposedOK
  <2> QED
    BY <2>1, <2>2
<1> QED
  BY <1>1 DEF AloneInv

LEMMA RunProposes ==
    ASSUME Alone, AloneInv, SaveInv', NEW r \in Runs,
           Start(r) \/ loadState(r) \/ startFresh(r) \/ saveState(r) \/ Crash(r)
    PROVE  AloneInv'
<1>1. prs' = prs
  BY DEF Start, loadState, startFresh, saveState, Crash, remote
<1>2. \A q \in Runs : q # r => run'[q] = run[q] /\ task'[q] = task[q]
  BY StepsOwn DEF Step, AloneInv
<1>3. run \in [Runs -> Run] /\ run[r] \in Run /\ task \in [Runs -> [Items -> Task]]
  BY Typed DEF AloneInv, SaveInv
<1>4. ASSUME NEW i \in Items, run'[r].phase = "work"
      PROVE  task'[r][i].pc \notin Merging \cup Done /\ task'[r][i].stale = {}
  <2>1. Queue(r)
    <3>1. CASE Start(r)
      <4>1. PICK scope \in Scopes, force \in Forces, dryRun \in DryRuns, phase \in {"load", "failed"} :
               run' = [run EXCEPT ![r] = [IdleRun EXCEPT !.phase = phase,
                         !.version = template.version, !.scope = scope,
                         !.force = force, !.dryRun = dryRun]]
        BY <3>1 DEF Start
      <4>2. run'[r].phase = phase
        BY <1>3, <4>1 DEF IdleRun
      <4> QED
        BY <1>4, <4>2
    <3>2. ASSUME NEW phase \in {"ok", "failed", "crashed"}, run' = [run EXCEPT ![r].phase = phase]
          PROVE  Queue(r)
      <4>1. run'[r].phase = phase
        BY <1>3, <3>2 DEF Run
      <4> QED
        BY <1>4, <4>1
    <3>3. CASE saveState(r) \/ Crash(r)
      BY <3>2, <3>3 DEF saveState, Crash, Exit
    <3>4. CASE loadState(r) \/ startFresh(r)
      BY <3>4 DEF loadState, startFresh
    <3> QED
      BY <3>1, <3>3, <3>4
  <2> DEFINE t(j) == [Blank EXCEPT !.pc = IF j \in run[r].scope THEN "queued" ELSE "none"]
  <2>2. task' = [task EXCEPT ![r] = [j \in Items |-> t(j)]]
    BY <2>1 DEF Queue, shouldApply
  <2>3. t(i).pc \in {"queued", "none"} /\ t(i).stale = {}
    BY DEF Blank
  <2> HIDE DEF t
  <2>4. task'[r][i] = t(i)
    BY <1>3, <2>2
  <2> QED
    BY <2>3, <2>4 DEF Merging, Done
<1> QED
  BY <1>1, <1>2, <1>4, RunStepProposes

(* People merge, and reopen.                                               *)
LEMMA PeopleProposed ==
    ASSUME Alone, AloneInv, SaveInv', NEW i \in Items, People(i) PROVE AloneInv'
<1>0. run' = run /\ task' = task
  BY PeopleStay
<1>1. CASE prs' = prs
  BY <1>0, <1>1 DEF AloneInv, ProposedOK
<1>2. ASSUME NEW n \in DOMAIN prs[i], Merge(i, n) \/ Reopen(i, n) PROVE AloneInv'
  <2>1. PICK s \in {"open", "merged"} : prs' = [prs EXCEPT ![i][n].state = s]
    BY <1>2 DEF Merge, Reopen
  <2> DEFINE pr == [prs[i][n] EXCEPT !.state = s]
  <2>2. prs' = [prs EXCEPT ![i][n] = pr]
    BY <2>1
  <2>3. prs \in [Items -> Seq(PullRequest)] /\ prs[i][n] \in PullRequest
    BY DEF AloneInv, SaveInv, IInv, TypeOK
  <2>4. pr.state # "closed" /\ pr.hash = prs[i][n].hash
    BY <2>3 DEF PullRequest
  <2> HIDE DEF pr
  <2>5. ASSUME NEW j \in Items
        PROVE  /\ DOMAIN prs'[j] = DOMAIN prs[j]
               /\ \A m \in DOMAIN prs[j] :
                     /\ prs'[j][m].hash = prs[j][m].hash
                     /\ prs[j][m].state # "closed" => prs'[j][m].state # "closed"
    BY <2>2, <2>3, <2>4
  <2>6. \A j \in Items : \A m : Stands(prs[j], m) =>
           Stands(prs'[j], m) /\ prs'[j][m].hash = prs[j][m].hash
    BY <2>5 DEF Stands
  <2>7. ASSUME NEW q \in Runs, NEW j \in Items PROVE ProposedOK(q, j)'
    <3>1. ProposedOK(q, j)
      BY DEF AloneInv
    <3> QED
      BY <1>0, <2>6, <3>1 DEF ProposedOK, Merging
  <2> QED
    BY <2>7 DEF AloneInv
<1>3. ASSUME NEW n, Close(i, n) PROVE FALSE
  BY <1>3 DEF Close, Alone
<1>4. Edit(i) => prs' = prs
  BY DEF Edit
<1> QED
  BY <1>1, <1>2, <1>3, <1>4 DEF People

LEMMA AloneInvInit == Init => AloneInv
<1> SUFFICES ASSUME Init PROVE AloneInv
  OBVIOUS
<1>1. \A r \in Runs : run[r].phase = "idle"
  BY DEF Init, IdleRun
<1> QED
  BY <1>1, SaveInvInit DEF AloneInv, ProposedOK

LEMMA AloneInvNext == ASSUME Alone PROVE AloneInv /\ [Next]_vars => AloneInv'
<1> SUFFICES ASSUME AloneInv, [Next]_vars PROVE AloneInv'
  OBVIOUS
<1>0. SaveInv'
  BY SaveInvNext DEF AloneInv
<1>1. ASSUME NEW r \in Runs, Start(r) \/ Step(r) \/ Crash(r) PROVE AloneInv'
  BY <1>0, <1>1, RunProposes, WorkerStepProposes DEF Step
<1>2. CASE Bump \/ UNCHANGED vars
  <2>1. prs' = prs /\ run' = run /\ task' = task
    BY <1>2 DEF Bump, vars, remote
  <2> QED
    BY <1>0, <2>1 DEF AloneInv, ProposedOK
<1>3. ASSUME NEW i \in Items, People(i) PROVE AloneInv'
  BY <1>0, <1>3, PeopleProposed
<1> QED
  BY <1>1, <1>2, <1>3 DEF Next

LEMMA ProposedStep ==
    ASSUME AloneInv, [Next]_vars, NEW r \in Runs, NEW i \in Items,
           Exits(r), run'[r].phase = "ok", task[r][i].pc \in Done
    PROVE  /\ prs[i][task[r][i].pr].state \in {"open", "merged"}
           /\ central'.ds[i].hash = prs[i][task[r][i].pr].hash
<1>1. central'.ds[i] = run[r].ds[i]
  BY RecordedStep DEF AloneInv
<1>2. Stands(prs[i], task[r][i].pr) /\ run[r].ds[i].hash = prs[i][task[r][i].pr].hash
  BY DEF AloneInv, ProposedOK, Exits
<1>3. prs[i][task[r][i].pr] \in PullRequest
  BY <1>2 DEF Stands, AloneInv, SaveInv, IInv, TypeOK
<1> QED
  BY <1>1, <1>2, <1>3 DEF Stands, PullRequest

(* What a run reports stands: the pull request proposes the recorded       *)
(* content, and is open or merged already, whatever failed, when runs do   *)
(* not overlap and people close nothing (syncOne, closeStalePRs).          *)
THEOREM OkIsProposedHolds == ASSUME Alone PROVE Spec => OkIsProposed
<1>1. Init => AloneInv
  BY AloneInvInit
<1>2. AloneInv /\ [Next]_vars => AloneInv'
  BY AloneInvNext
<1>3. AloneInv /\ [Next]_vars => [\A r \in Runs, i \in Items :
         /\ Exits(r) /\ run'[r].phase = "ok"
         /\ task[r][i].pc \in {"created", "updated"}
         => LET pr == prs[i][task[r][i].pr]
            IN  /\ pr.state \in {"open", "merged"}
                /\ central'.ds[i].hash = pr.hash]_vars
  BY ProposedStep DEF Done
<1> QED
  BY <1>1, <1>2, <1>3, PTL DEF Spec, OkIsProposed

-----------------------------------------------------------------------------
(* What a killed run leaves behind.                                        *)

(* Runs do not overlap, no request fails, people do not delete a branch or *)
(* reopen a pull request, and every run has room for one.                  *)
OnlyKilled == /\ Faulty \subseteq {"crash"} /\ ~Overlap
              /\ "prune" \notin Humans /\ "reopen" \notin Humans
              /\ IsFiniteSet(Runs) /\ Cardinality(Runs) <= MaxPRs

(* A run opens one pull request per target at most.                        *)
Past(r, i) == \/ Over(r)
              \/ run[r].phase = "work" /\ task[r][i].pc \in {"label", "stale", "close"} \cup Ended
Room(i) == Len(prs[i]) <= Cardinality({r \in Runs : Past(r, i)})

(* Nothing has failed, and nothing stands in the way of the next request:  *)
(* the branch is there once it was asked for, its head is what was read,   *)
(* and there is still no pull request where none was found.                *)
ReadyOK(r, i) == run[r].phase = "work" =>
    LET b == branch[i][run[r].version]
        t == task[r][i]
    IN  /\ t.pc \in {"read", "commit", "list", "create"} => b # NoBranch
        /\ t.pc = "commit" => t.sha \in {Absent, b.head}
        /\ t.pc = "create" => OpenFor(i, run[r].version) = {}
CleanOK(r) == /\ run[r].phase # "failed"
              /\ run[r].phase = "work" => Matches(r)
              /\ \A i \in Items : task[r][i].pc # "error"
KilledInv == /\ SaveInv
             /\ \A i \in Items : Room(i)
             /\ \A r \in Runs : CleanOK(r)
             /\ \A r \in Runs, i \in Items : ReadyOK(r, i)

LEMMA NothingFails == ASSUME OnlyKilled PROVE \A q : Fails(q) => q = "crash"
BY DEF OnlyKilled, Fails

(* Who is past the creation stays there.                                   *)
LEMMA RoomStays ==
    ASSUME OnlyKilled, NEW i \in Items, Room(i), Len(prs'[i]) = Len(prs[i]), Len(prs[i]) \in Nat,
           \A q \in Runs : Past(q, i) => Past(q, i)'
    PROVE  Room(i)'
<1> DEFINE P == {q \in Runs : Past(q, i)}
           Q == {q \in Runs : Past(q, i)'}
<1>1. P \subseteq Q /\ Q \subseteq Runs /\ IsFiniteSet(Runs)
  BY DEF OnlyKilled
<1>2. IsFiniteSet(Q) /\ Cardinality(P) <= Cardinality(Q) /\ IsFiniteSet(P)
  BY <1>1, FS_Subset
<1>3. Cardinality(P) \in Nat /\ Cardinality(Q) \in Nat
  BY <1>2, FS_CardinalityType
<1> HIDE DEF P, Q
<1>4. Len(prs'[i]) <= Cardinality(Q)
  <2>1. Len(prs[i]) <= Cardinality(P)
    BY DEF Room, P
  <2> QED
    BY <1>2, <1>3, <2>1
<1> QED
  BY <1>4 DEF Room, Q

(* A run that is not past it has room, and leaves room for the others.     *)
LEMMA RoomToCreate ==
    ASSUME OnlyKilled, TypeOK, NEW i \in Items, NEW r \in Runs, Room(i), ~Past(r, i)
    PROVE  /\ Len(prs[i]) < MaxPRs
           /\ (Len(prs'[i]) = Len(prs[i]) + 1 /\ Past(r, i)'
               /\ \A q \in Runs : Past(q, i) => Past(q, i)') => Room(i)'
<1> DEFINE P == {q \in Runs : Past(q, i)}
           Q == {q \in Runs : Past(q, i)'}
<1>1. P \subseteq Runs \ {r} /\ IsFiniteSet(Runs) /\ IsFiniteSet(Runs \ {r})
  BY FS_RemoveElement DEF OnlyKilled
<1>2. IsFiniteSet(P) /\ Cardinality(P) <= Cardinality(Runs \ {r})
  BY <1>1, FS_Subset
<1>3. Cardinality(Runs \ {r}) = Cardinality(Runs) - 1
  BY <1>1, FS_RemoveElement
<1>4. Cardinality(P) \in Nat /\ Cardinality(Runs) \in Nat /\ Len(prs[i]) \in Nat
  BY <1>1, <1>2, FS_CardinalityType DEF TypeOK
<1>5. Len(prs[i]) <= Cardinality(P)
  BY DEF Room
<1>6. Len(prs[i]) < MaxPRs
  BY <1>2, <1>3, <1>4, <1>5, BoundAssumption DEF OnlyKilled
<1>7. ASSUME Len(prs'[i]) = Len(prs[i]) + 1, Past(r, i)', \A q \in Runs : Past(q, i) => Past(q, i)'
      PROVE  Room(i)'
  <2>1. P \cup {r} \subseteq Q /\ r \notin P /\ Q \subseteq Runs
    BY <1>7
  <2>2. Cardinality(P \cup {r}) = Cardinality(P) + 1
    BY <1>2, <2>1, FS_AddElement
  <2>3. IsFiniteSet(Q) /\ Cardinality(P \cup {r}) <= Cardinality(Q)
    <3>1. IsFiniteSet(Q)
      BY <1>1, <2>1, FS_Subset
    <3> QED
      BY <2>1, <3>1, FS_Subset
  <2>4. Cardinality(Q) \in Nat
    BY <2>3, FS_CardinalityType
  <2> HIDE DEF P, Q
  <2>5. Len(prs'[i]) <= Cardinality(Q)
    BY <1>4, <1>5, <1>7, <2>2, <2>3, <2>4
  <2> QED
    BY <2>5 DEF Room, Q
<1> QED
  BY <1>6, <1>7

-----------------------------------------------------------------------------
(* A step of the worker of r for i: it goes on with t, which is no error,  *)
(* and every other worker of the run works on another repository.          *)
Others(i) == \A j \in Items : j # i => branch'[j] = branch[j] /\ prs'[j] = prs[j]

LEMMA WorkerReady ==
    ASSUME OnlyKilled, KilledInv, SaveInv', NEW r \in Runs, NEW i \in Items, syncOne(r, i),
           Others(i), task'[r][i].pc # "error", ReadyOK(r, i)',
           \/ Len(prs'[i]) = Len(prs[i])
           \/ Len(prs'[i]) = Len(prs[i]) + 1 /\ ~Past(r, i) /\ Past(r, i)',
           Past(r, i) => Past(r, i)'
    PROVE  KilledInv'
<1>1. IInv /\ TypeOK /\ Leaves(r, i) /\ run \in [Runs -> Run]
  BY LeavesOthers, Typed DEF KilledInv, SaveInv, IInv
<1>2. PICK t \in Task, e \in Entry : Effect(r, i, t, e)
  BY <1>1, WorkerMoves DEF Moved
<1>3. /\ \A q \in Runs : /\ run'[q].phase = run[q].phase /\ run'[q].sha = run[q].sha
                         /\ run'[q].version = run[q].version
      /\ central' = central /\ run[r].phase = "work"
  BY <1>1, <1>2, RecordRun DEF Effect
<1>4. \A q \in Runs, j \in Items : <<q, j>> # <<r, i>> => task'[q][j] = task[q][j]
  BY <1>1 DEF Leaves
<1>5. ASSUME NEW q \in Runs PROVE CleanOK(q)'
  <2>1. CleanOK(q)
    BY DEF KilledInv
  <2>2. \A j \in Items : task'[q][j].pc # "error"
    BY <1>4, <2>1 DEF CleanOK
  <2> QED
    BY <1>3, <2>1, <2>2 DEF CleanOK, Matches
<1>6. ASSUME NEW q \in Runs, NEW j \in Items PROVE ReadyOK(q, j)'
  <2>1. CASE run[q].phase # "work"
    BY <1>3, <2>1 DEF ReadyOK
  <2>2. CASE run[q].phase = "work" /\ j # i
    <3>1. task'[q][j] = task[q][j] /\ branch'[j] = branch[j] /\ prs'[j] = prs[j]
      BY <1>4, <2>2 DEF Others
    <3>2. ReadyOK(q, j)
      BY DEF KilledInv
    <3> QED
      BY <1>3, <3>1, <3>2 DEF ReadyOK, OpenFor
  <2>3. CASE run[q].phase = "work" /\ j = i
    <3>1. q = r
      BY <1>3, <2>3 DEF OnlyKilled, KilledInv, SaveInv, OneRun, Active
    <3> QED
      BY <2>3, <3>1
  <2> QED
    BY <2>1, <2>2, <2>3
<1>7. ASSUME NEW j \in Items PROVE Room(j)'
  <2>1. \A q \in Runs : Past(q, j) => Past(q, j)'
    <3> SUFFICES ASSUME NEW q \in Runs, Past(q, j) PROVE Past(q, j)'
      OBVIOUS
    <3>1. CASE <<q, j>> = <<r, i>>
      BY <3>1
    <3>2. CASE <<q, j>> # <<r, i>>
      BY <1>3, <1>4, <3>2 DEF Past, Over
    <3> QED
      BY <3>1, <3>2
  <2>2. Len(prs[j]) \in Nat /\ Room(j)
    BY <1>1 DEF TypeOK, KilledInv
  <2>3. CASE Len(prs'[j]) = Len(prs[j])
    BY <2>1, <2>2, <2>3, RoomStays
  <2>4. CASE j = i /\ Len(prs'[i]) = Len(prs[i]) + 1 /\ ~Past(r, i) /\ Past(r, i)'
    BY <1>1, <2>1, <2>2, <2>4, RoomToCreate
  <2>5. j # i => Len(prs'[j]) = Len(prs[j])
    BY DEF Others
  <2> QED
    BY <2>3, <2>4, <2>5
<1> QED
  BY <1>5, <1>6, <1>7 DEF KilledInv

(* A worker that only reads.                                               *)
LEMMA ReadsReady ==
    ASSUME OnlyKilled, KilledInv, SaveInv', NEW r \in Runs, NEW i \in Items, syncOne(r, i),
           branch' = branch, prs' = prs, task'[r][i].pc # "error", ReadyOK(r, i)',
           Past(r, i) => Past(r, i)'
    PROVE  KilledInv'
BY WorkerReady DEF Others

LEMMA DecideReady ==
    ASSUME OnlyKilled, KilledInv, SaveInv', NEW r \in Runs, NEW i \in Items,
           decide(r, i) \/ getBaseSHA(r, i)
    PROVE  KilledInv'
<1>1. IInv /\ task[r][i] \in Task
  BY Typed DEF KilledInv, SaveInv
<1>2. branch' = branch /\ prs' = prs
  BY DEF decide, ReadSource, IsSymlink, ReadExisting, InSync, HashSkip, getBaseSHA, Local, remote
<1>3. run[r].phase = "work" /\ task[r][i].pc \notin {"label", "stale", "close"} \cup Ended
  BY DEF decide, ReadSource, IsSymlink, ReadExisting, InSync, HashSkip, getBaseSHA, At, Ended, Outcomes
<1>4. ~Past(r, i)
  BY <1>3 DEF Past, Over
<1>5. ASSUME NEW t, Set(r, i, t),
             t.pc \in {"skipped", "declined", "symlink", "existing", "inSync", "hashSkip", "base",
                       "branch"}
      PROVE  KilledInv'
  <2>1. task'[r][i] = t
    BY <1>1, <1>5, SetsTask
  <2>2. ReadyOK(r, i)' /\ t.pc # "error"
    BY <1>5, <2>1 DEF ReadyOK
  <2> QED
    BY <1>2, <1>4, <2>1, <2>2, ReadsReady DEF syncOne, propose
<1>6. ASSUME NEW how \in {"skipped", "declined"}, End(r, i, how) PROVE KilledInv'
  <2> DEFINE t == [Blank EXCEPT !.pc = how]
  <2>1. t.pc = how
    BY DEF Blank
  <2> QED
    BY <1>5, <1>6, <2>1 DEF End
<1>7. CASE ReadSource(r, i)
  <2> DEFINE t == [Blank EXCEPT !.pc = "symlink", !.text = template.text]
  <2>1. t.pc = "symlink"
    BY DEF Blank
  <2>2. Set(r, i, t)
    BY <1>7, NothingFails DEF ReadSource
  <2> QED
    BY <1>5, <2>1, <2>2
<1>8. CASE IsSymlink(r, i)
  <2> DEFINE t == [task[r][i] EXCEPT !.pc = "existing"]
  <2>1. t.pc = "existing"
    BY <1>1 DEF Task
  <2>2. Set(r, i, t) \/ End(r, i, "skipped")
    BY <1>8, NothingFails DEF IsSymlink, Goto
  <2> QED
    BY <1>5, <1>6, <2>1, <2>2
<1>9. CASE ReadExisting(r, i)
  <2> DEFINE t(next) == [Blank EXCEPT !.pc = next,
                                      !.file = Render(i, task[r][i].text, main[i])]
  <2>1. \A next : t(next).pc = next
    BY DEF Blank
  <2>2. End(r, i, "skipped") \/ \E next \in {"inSync", "hashSkip", "base"} : Set(r, i, t(next))
    BY <1>9, NothingFails DEF ReadExisting
  <2> HIDE DEF t
  <2> QED
    BY <1>5, <1>6, <2>1, <2>2
<1>10. CASE InSync(r, i) \/ HashSkip(r, i)
  BY <1>6, <1>10 DEF InSync, HashSkip
<1>11. CASE getBaseSHA(r, i)
  <2> DEFINE t == [task[r][i] EXCEPT !.pc = "branch", !.base = main[i]]
  <2>1. t.pc = "branch"
    BY <1>1 DEF Task
  <2>2. Set(r, i, t)
    BY <1>11, NothingFails DEF getBaseSHA
  <2> QED
    BY <1>5, <2>1, <2>2
<1> QED
  BY <1>7, <1>8, <1>9, <1>10, <1>11 DEF decide

(* A worker whose pull request does not come or go.                        *)
LEMMA WritesReady ==
    ASSUME OnlyKilled, KilledInv, SaveInv', NEW r \in Runs, NEW i \in Items, syncOne(r, i),
           prs' = prs, NEW b \in Branch, branch' = [branch EXCEPT ![i][run[r].version] = b],
           run' = run, NEW t, Set(r, i, t), t.pc \in {"read", "list"}, ~Past(r, i)
    PROVE  KilledInv'
<1>1. IInv /\ TypeOK /\ run[r].version \in Versions
  BY Reads DEF KilledInv, SaveInv, IInv
<1>2. branch'[i][run[r].version] = b /\ \A j \in Items : j # i => branch'[j] = branch[j]
  BY <1>1 DEF TypeOK
<1>3. task'[r][i] = t /\ b # NoBranch
  BY <1>1, SetsTask, ConstantTypes
<1>4. Others(i) /\ ReadyOK(r, i)'
  BY <1>2, <1>3 DEF Others, ReadyOK
<1> QED
  BY <1>3, <1>4, WorkerReady

LEMMA CreateBranchReady ==
    ASSUME OnlyKilled, KilledInv, SaveInv', NEW r \in Runs, NEW i \in Items, CreateBranch(r, i)
    PROVE  KilledInv'
<1> DEFINE v == run[r].version
           base == task[r][i].base
           t == [task[r][i] EXCEPT !.pc = "read"]
<1>1. IInv /\ TypeOK /\ task[r][i] \in Task /\ v \in Versions
  BY Reads DEF KilledInv, SaveInv, IInv
<1>2. run[r].phase = "work" /\ task[r][i].pc = "branch" /\ prs' = prs /\ run' = run
  BY DEF CreateBranch, At, Owner
<1>3. ~Past(r, i)
  BY <1>2 DEF Past, Over, Ended, Outcomes
<1>4. t.pc = "read"
  BY <1>1 DEF Task
<1>5. Set(r, i, t)
  BY NothingFails DEF CreateBranch, isAlreadyExists, Goto
<1> DEFINE b == IF branch[i][v] = NoBranch THEN [base |-> base, head |-> base] ELSE branch[i][v]
<1>6. b \in Branch
  <2>1. base \in File
    BY <1>1 DEF Task
  <2>2. branch[i][v] \in Branch \cup {NoBranch}
    BY <1>1 DEF TypeOK
  <2> QED
    BY <2>1, <2>2 DEF Branch
<1>7. branch' = [branch EXCEPT ![i][v] = b]
  BY NothingFails DEF CreateBranch
<1>8. syncOne(r, i)
  BY DEF syncOne, propose
<1> HIDE DEF t, b
<1> QED
  BY <1>2, <1>3, <1>4, <1>5, <1>6, <1>7, <1>8, WritesReady

LEMMA CreateOrUpdateFileReady ==
    ASSUME OnlyKilled, KilledInv, SaveInv', NEW r \in Runs, NEW i \in Items,
           CreateOrUpdateFile(r, i)
    PROVE  KilledInv'
<1> DEFINE v == run[r].version
           file == task[r][i].file
           t == [task[r][i] EXCEPT !.pc = "list"]
           b == [base |-> branch[i][v].base, head |-> file]
<1>1. IInv /\ TypeOK /\ task[r][i] \in Task /\ v \in Versions
  BY Reads DEF KilledInv, SaveInv, IInv
<1>2. run[r].phase = "work" /\ task[r][i].pc = "commit" /\ prs' = prs /\ run' = run
  BY DEF CreateOrUpdateFile, At, Owner
<1>3. ~Past(r, i)
  BY <1>2 DEF Past, Over, Ended, Outcomes
<1>4. t.pc = "list"
  BY <1>1 DEF Task
<1>5. branch[i][v] # NoBranch /\ task[r][i].sha \in {Absent, branch[i][v].head}
  <2>1. ReadyOK(r, i)
    BY DEF KilledInv
  <2> QED
    BY <1>2, <2>1 DEF ReadyOK
<1>6. b \in Branch
  <2>1. branch[i][v] \in Branch \cup {NoBranch}
    BY <1>1 DEF TypeOK
  <2>2. file \in File
    BY <1>1 DEF Task
  <2> QED
    BY <1>5, <2>1, <2>2 DEF Branch
<1>7. branch' = [branch EXCEPT ![i][v] = b] /\ Set(r, i, t)
  BY <1>5, NothingFails DEF CreateOrUpdateFile, Goto
<1>8. syncOne(r, i)
  BY DEF syncOne, propose
<1> HIDE DEF t, b
<1> QED
  BY <1>2, <1>3, <1>4, <1>6, <1>7, <1>8, WritesReady

LEMMA ReadBranchFileReady ==
    ASSUME OnlyKilled, KilledInv, SaveInv', NEW r \in Runs, NEW i \in Items,
           ReadBranchFile(r, i)
    PROVE  KilledInv'
<1> DEFINE b == branch[i][run[r].version]
           sha == IF b = NoBranch THEN Absent ELSE b.head
           t == [task[r][i] EXCEPT !.pc = "commit", !.sha = sha]
<1>1. IInv /\ task[r][i] \in Task
  BY Reads DEF KilledInv, SaveInv, IInv
<1>2. /\ run[r].phase = "work" /\ task[r][i].pc = "read"
      /\ prs' = prs /\ branch' = branch /\ run' = run
  BY DEF ReadBranchFile, At, Local, remote
<1>3. ~Past(r, i)
  BY <1>2 DEF Past, Over, Ended, Outcomes
<1>4. t.pc = "commit" /\ t.sha = sha
  BY <1>1 DEF Task
<1>5. b # NoBranch
  <2>1. ReadyOK(r, i)
    BY DEF KilledInv
  <2> QED
    BY <1>2, <2>1 DEF ReadyOK
<1>6. Set(r, i, t)
  BY NothingFails DEF ReadBranchFile
<1>7. sha = b.head
  BY <1>5
<1> HIDE DEF t, sha
<1>8. task'[r][i] = t
  BY <1>1, <1>6, SetsTask
<1>9. ReadyOK(r, i)'
  BY <1>2, <1>4, <1>5, <1>7, <1>8 DEF ReadyOK
<1> QED
  BY <1>2, <1>3, <1>4, <1>8, <1>9, ReadsReady DEF syncOne, propose

LEMMA ListPRsReady ==
    ASSUME OnlyKilled, KilledInv, SaveInv', NEW r \in Runs, NEW i \in Items, ListPRs(r, i)
    PROVE  KilledInv'
<1>1. IInv /\ task[r][i] \in Task
  BY Reads DEF KilledInv, SaveInv, IInv
<1>2. /\ run[r].phase = "work" /\ task[r][i].pc = "list"
      /\ prs' = prs /\ branch' = branch /\ run' = run
  BY DEF ListPRs, At, Local, remote
<1>3. ~Past(r, i) /\ syncOne(r, i)
  BY <1>2 DEF Past, Over, Ended, Outcomes, syncOne, propose
<1>4. branch[i][run[r].version] # NoBranch
  <2>1. ReadyOK(r, i)
    BY DEF KilledInv
  <2> QED
    BY <1>2, <2>1 DEF ReadyOK
<1>5. ASSUME NEW n \in OpenFor(i, run[r].version),
             Set(r, i, [task[r][i] EXCEPT !.pc = "update", !.pr = n])
      PROVE  KilledInv'
  <2> DEFINE t == [task[r][i] EXCEPT !.pc = "update", !.pr = n]
  <2>1. t.pc = "update"
    BY <1>1 DEF Task
  <2>2. task'[r][i] = t
    BY <1>1, <1>5, SetsTask
  <2> HIDE DEF t
  <2>3. ReadyOK(r, i)'
    BY <2>1, <2>2 DEF ReadyOK
  <2> QED
    BY <1>2, <1>3, <2>1, <2>2, <2>3, ReadsReady
<1>6. CASE OpenFor(i, run[r].version) = {} /\ Goto(r, i, "create")
  <2> DEFINE t == [task[r][i] EXCEPT !.pc = "create"]
  <2>1. t.pc = "create"
    BY <1>1 DEF Task
  <2>2. task'[r][i] = t
    BY <1>1, <1>6, SetsTask DEF Goto
  <2> HIDE DEF t
  <2>3. OpenFor(i, run[r].version)' = {}
    BY <1>2, <1>6 DEF OpenFor
  <2>4. ReadyOK(r, i)'
    BY <1>2, <1>4, <2>1, <2>2, <2>3 DEF ReadyOK
  <2> QED
    BY <1>2, <1>3, <2>1, <2>2, <2>4, ReadsReady
<1> QED
  BY <1>5, <1>6, NothingFails DEF ListPRs

(* A worker that has its pull request is past everything that can fail.    *)
LEMMA UpdatePRReady ==
    ASSUME OnlyKilled, KilledInv, SaveInv', NEW r \in Runs, NEW i \in Items, UpdatePR(r, i)
    PROVE  KilledInv'
<1> DEFINE old == task[r][i]
           previous == baselineVersion(run[r].ds[i], run[r].version)
           pr == [prs[i][old.pr] EXCEPT !.hash = old.file, !.previous = previous]
           next == IF CloseStalePRs THEN "stale" ELSE "close"
           t == [old EXCEPT !.pc = next, !.status = "updated"]
<1>1. IInv /\ TypeOK /\ old \in Task /\ prs[i] \in Seq(PullRequest)
  BY Reads DEF KilledInv, SaveInv, IInv
<1>2. run[r].phase = "work" /\ old.pc = "update" /\ branch' = branch /\ run' = run
  BY DEF UpdatePR, At, Owner
<1>3. t.pc \in {"stale", "close"}
  BY <1>1 DEF Task
<1>4. Set(r, i, t) /\ prs' = [prs EXCEPT ![i][old.pr] = pr]
  BY NothingFails DEF UpdatePR
<1>5. ~Past(r, i) /\ syncOne(r, i)
  BY <1>2 DEF Past, Over, Ended, Outcomes, syncOne, propose
<1> HIDE DEF t, pr
<1>6. task'[r][i] = t
  BY <1>1, <1>4, SetsTask
<1>7. Len(prs'[i]) = Len(prs[i]) /\ \A j \in Items : j # i => prs'[j] = prs[j]
  BY <1>1, <1>4 DEF TypeOK
<1>8. Others(i) /\ ReadyOK(r, i)'
  BY <1>2, <1>3, <1>6, <1>7 DEF Others, ReadyOK
<1> QED
  BY <1>3, <1>5, <1>6, <1>7, <1>8, WorkerReady

(* GitHub accepts the pull request: there is room, there is a head, and    *)
(* there is no open pull request for it.                                   *)
LEMMA CreatePRReady ==
    ASSUME OnlyKilled, KilledInv, SaveInv', NEW r \in Runs, NEW i \in Items, CreatePR(r, i)
    PROVE  KilledInv'
<1> DEFINE old == task[r][i]
           v == run[r].version
           PR == [version |-> v, hash |-> old.file, state |-> "open", labelled |-> FALSE,
                  previous |-> baselineVersion(run[r].ds[i], v)]
           t == [old EXCEPT !.pc = "label", !.status = "created", !.pr = Len(prs[i]) + 1]
<1>1. IInv /\ TypeOK /\ old \in Task /\ prs[i] \in Seq(PullRequest)
  BY Reads DEF KilledInv, SaveInv, IInv
<1>2. run[r].phase = "work" /\ old.pc = "create" /\ branch' = branch /\ run' = run
  BY DEF CreatePR, At, Owner
<1>3. ~Past(r, i) /\ syncOne(r, i)
  BY <1>2 DEF Past, Over, Ended, Outcomes, syncOne, propose
<1>4. branch[i][v] # NoBranch /\ OpenFor(i, v) = {}
  <2>1. ReadyOK(r, i)
    BY DEF KilledInv
  <2> QED
    BY <1>2, <2>1 DEF ReadyOK
<1>5. Len(prs[i]) < MaxPRs
  <2>1. Room(i)
    BY DEF KilledInv
  <2> QED
    BY <1>1, <1>3, <2>1, RoomToCreate
<1>6. t.pc = "label"
  BY <1>1 DEF Task
<1> HIDE DEF t
<1>7. Set(r, i, t) /\ prs' = [prs EXCEPT ![i] = Append(@, PR)]
  BY <1>4, <1>5, NothingFails DEF CreatePR, t
<1> HIDE DEF PR
<1>8. prs'[i] = Append(prs[i], PR) /\ \A j \in Items : j # i => prs'[j] = prs[j]
  BY <1>1, <1>7 DEF TypeOK
<1>9. Len(prs'[i]) = Len(prs[i]) + 1
  BY <1>1, <1>8
<1>10. task'[r][i] = t
  BY <1>1, <1>7, SetsTask
<1>11. Others(i) /\ ReadyOK(r, i)'
  BY <1>2, <1>6, <1>8, <1>10 DEF Others, ReadyOK
<1>12. Past(r, i)'
  BY <1>2, <1>6, <1>10 DEF Past
<1> QED
  BY <1>3, <1>6, <1>9, <1>10, <1>11, <1>12, WorkerReady

LEMMA LabelPRReady ==
    ASSUME OnlyKilled, KilledInv, SaveInv', NEW r \in Runs, NEW i \in Items, LabelPR(r, i)
    PROVE  KilledInv'
<1> DEFINE old == task[r][i]
           pr == [prs[i][old.pr] EXCEPT !.labelled = TRUE]
           next == IF CloseStalePRs THEN "stale" ELSE "close"
           t == [old EXCEPT !.pc = next]
<1>1. IInv /\ TypeOK /\ old \in Task /\ prs[i] \in Seq(PullRequest)
  BY Reads DEF KilledInv, SaveInv, IInv
<1>2. run[r].phase = "work" /\ branch' = branch /\ run' = run
  BY DEF LabelPR, At, Owner
<1>3. t.pc \in {"stale", "close"}
  BY <1>1 DEF Task
<1>4. Set(r, i, t) /\ prs' = [prs EXCEPT ![i][old.pr] = pr]
  BY NothingFails DEF LabelPR, Goto
<1> HIDE DEF t, pr
<1>5. task'[r][i] = t
  BY <1>1, <1>4, SetsTask
<1>6. Len(prs'[i]) = Len(prs[i]) /\ \A j \in Items : j # i => prs'[j] = prs[j]
  BY <1>1, <1>4 DEF TypeOK
<1>7. Others(i) /\ ReadyOK(r, i)' /\ Past(r, i)'
  BY <1>2, <1>3, <1>5, <1>6 DEF Others, ReadyOK, Past
<1> QED
  BY <1>3, <1>5, <1>6, <1>7, WorkerReady DEF syncOne, propose

LEMMA ListStalePRsReady ==
    ASSUME OnlyKilled, KilledInv, SaveInv', NEW r \in Runs, NEW i \in Items, ListStalePRs(r, i)
    PROVE  KilledInv'
<1>1. IInv /\ task[r][i] \in Task
  BY Reads DEF KilledInv, SaveInv, IInv
<1>2. run[r].phase = "work" /\ prs' = prs /\ branch' = branch /\ run' = run
  BY DEF ListStalePRs, At, Local, remote
<1>3. PICK stale : Set(r, i, [task[r][i] EXCEPT !.pc = "close", !.stale = stale])
  BY DEF ListStalePRs
<1> DEFINE t == [task[r][i] EXCEPT !.pc = "close", !.stale = stale]
<1>4. t.pc = "close"
  BY <1>1 DEF Task
<1> HIDE DEF t
<1>5. task'[r][i] = t
  BY <1>1, <1>3, SetsTask DEF t
<1>6. ReadyOK(r, i)' /\ Past(r, i)'
  BY <1>2, <1>4, <1>5 DEF ReadyOK, Past
<1> QED
  BY <1>2, <1>4, <1>5, <1>6, ReadsReady DEF syncOne, propose

LEMMA ClosePRReady ==
    ASSUME OnlyKilled, KilledInv, SaveInv', NEW r \in Runs, NEW i \in Items, ClosePR(r, i)
    PROVE  KilledInv'
<1>1. IInv /\ TypeOK /\ task[r][i] \in Task /\ prs[i] \in Seq(PullRequest)
  BY Reads DEF KilledInv, SaveInv, IInv
<1>2. run[r].phase = "work" /\ task[r][i].pc = "close" /\ branch' = branch /\ run' = run
  BY DEF ClosePR, At, Owner
<1>3. PICK n \in task[r][i].stale :
        /\ prs' = [prs EXCEPT ![i][n].state = IF @ = "open" THEN "closed" ELSE @]
        /\ Set(r, i, [task[r][i] EXCEPT !.stale = @ \ {n}])
  BY NothingFails DEF ClosePR
<1> DEFINE t == [task[r][i] EXCEPT !.stale = @ \ {n}]
           pr == [prs[i][n] EXCEPT !.state = IF @ = "open" THEN "closed" ELSE @]
<1>4. t.pc = "close"
  BY <1>1, <1>2 DEF Task
<1>5. prs' = [prs EXCEPT ![i][n] = pr]
  BY <1>3
<1> HIDE DEF t, pr
<1>6. task'[r][i] = t
  BY <1>1, <1>3, SetsTask DEF t
<1>7. Len(prs'[i]) = Len(prs[i]) /\ \A j \in Items : j # i => prs'[j] = prs[j]
  BY <1>1, <1>5 DEF TypeOK
<1>8. Others(i) /\ ReadyOK(r, i)' /\ Past(r, i)'
  BY <1>2, <1>4, <1>6, <1>7 DEF Others, ReadyOK, Past
<1> QED
  BY <1>4, <1>6, <1>7, <1>8, WorkerReady DEF syncOne, propose

LEMMA RecordReady ==
    ASSUME OnlyKilled, KilledInv, SaveInv', NEW r \in Runs, NEW i \in Items, Record(r, i)
    PROVE  KilledInv'
<1> DEFINE old == task[r][i]
           t == [Blank EXCEPT !.pc = old.status, !.pr = old.pr]
<1>1. IInv /\ old \in Task /\ run \in [Runs -> Run]
  BY Typed DEF KilledInv, SaveInv
<1>2. run[r].phase = "work" /\ prs' = prs /\ branch' = branch
  BY DEF Record, At, remote
<1>3. old.status \in {"created", "updated"}
  BY <1>1 DEF IInv, Carries, Task, Record, At
<1>4. t.pc = old.status
  BY DEF Blank
<1> HIDE DEF t
<1>5. task'[r][i] = t
  BY <1>1, SetsTask DEF Record, t
<1>6. run'[r].phase = "work"
  <2>1. PICK e : SetTemplateState(r, i, e)
    BY DEF Record
  <2> QED
    BY <1>1, <1>2, <2>1, RecordRun
<1>7. ReadyOK(r, i)' /\ Past(r, i)'
  BY <1>3, <1>4, <1>5, <1>6 DEF ReadyOK, Past, Outcomes, Ended
<1> QED
  BY <1>2, <1>3, <1>4, <1>5, <1>7, ReadsReady DEF syncOne, propose

LEMMA WorkerStepReady ==
    ASSUME OnlyKilled, KilledInv, SaveInv', NEW r \in Runs, NEW i \in Items, syncOne(r, i)
    PROVE  KilledInv'
BY DecideReady, CreateBranchReady, ReadBranchFileReady, CreateOrUpdateFileReady, ListPRsReady,
   UpdatePRReady, CreatePRReady, LabelPRReady, ListStalePRsReady, ClosePRReady, RecordReady
   DEF syncOne, propose

-----------------------------------------------------------------------------
(* A step of a run as a whole.                                             *)
RunStep(r) == Start(r) \/ loadState(r) \/ startFresh(r) \/ saveState(r) \/ Crash(r)

LEMMA RunStepReady ==
    ASSUME OnlyKilled, KilledInv, SaveInv', NEW r \in Runs, RunStep(r), CleanOK(r)',
           \A i \in Items : ReadyOK(r, i)' /\ (Past(r, i) => Past(r, i)'),
           central' = central \/ Active(r)
    PROVE  KilledInv'
<1>1. prs' = prs /\ branch' = branch
  BY DEF RunStep, Start, loadState, startFresh, saveState, Crash, remote
<1>2. \A q \in Runs : q # r => run'[q] = run[q] /\ task'[q] = task[q]
  BY StepsOwn DEF RunStep, Step, KilledInv
<1>3. ASSUME NEW q \in Runs, q # r PROVE CleanOK(q)'
  <2>1. CleanOK(q)
    BY DEF KilledInv
  <2>2. CASE central' = central
    BY <1>2, <1>3, <2>1, <2>2 DEF CleanOK, Matches
  <2>3. CASE Active(r)
    <3>1. run[q].phase # "work"
      BY <1>3, <2>3 DEF OnlyKilled, KilledInv, SaveInv, OneRun, Active
    <3> QED
      BY <1>2, <1>3, <2>1, <3>1 DEF CleanOK
  <2> QED
    BY <2>2, <2>3
<1>4. ASSUME NEW q \in Runs, NEW i \in Items, q # r PROVE ReadyOK(q, i)'
  <2>1. ReadyOK(q, i)
    BY DEF KilledInv
  <2> QED
    BY <1>1, <1>2, <1>4, <2>1 DEF ReadyOK, OpenFor
<1>5. ASSUME NEW i \in Items PROVE Room(i)'
  <2>1. \A q \in Runs : Past(q, i) => Past(q, i)'
    BY <1>2 DEF Past, Over
  <2>2. Room(i) /\ Len(prs[i]) \in Nat
    BY DEF KilledInv, SaveInv, IInv, TypeOK
  <2> QED
    BY <1>1, <2>1, <2>2, RoomStays
<1> QED
  BY <1>3, <1>4, <1>5 DEF KilledInv

LEMMA StartReady ==
    ASSUME OnlyKilled, KilledInv, SaveInv', NEW r \in Runs, Start(r) PROVE KilledInv'
<1>1. run \in [Runs -> Run]
  BY Typed DEF KilledInv, SaveInv
<1>2. PICK scope, force, dryRun :
         run' = [run EXCEPT ![r] = [IdleRun EXCEPT !.phase = "load", !.version = template.version,
                   !.scope = scope, !.force = force, !.dryRun = dryRun]]
  BY NothingFails DEF Start
<1>3. run'[r].phase = "load"
  BY <1>1, <1>2 DEF IdleRun
<1>4. run[r].phase = "idle" /\ task' = task /\ central' = central
  BY DEF Start
<1>5. CleanOK(r)'
  <2>1. CleanOK(r)
    BY DEF KilledInv
  <2> QED
    BY <1>3, <1>4, <2>1 DEF CleanOK
<1>6. \A i \in Items : ReadyOK(r, i)' /\ ~Past(r, i)
  BY <1>3, <1>4 DEF ReadyOK, Past, Over
<1> QED
  BY <1>4, <1>5, <1>6, RunStepReady DEF RunStep

LEMMA LoadReady ==
    ASSUME OnlyKilled, KilledInv, SaveInv', NEW r \in Runs, loadState(r) \/ startFresh(r)
    PROVE  KilledInv'
<1>1. run \in [Runs -> Run] /\ run[r] \in Run /\ task \in [Runs -> [Items -> Task]]
  BY Typed DEF KilledInv, SaveInv
<1>2. run[r].phase = "load" /\ central' = central /\ Queue(r)
  BY DEF loadState, startFresh
<1>3. run'[r].sha \in {0, central.rev}
  <2>1. CASE loadState(r)
    BY <1>1, <2>1 DEF loadState, Run
  <2>2. CASE startFresh(r)
    <3>1. PICK sha \in {0} \cup (IF Fails("load") THEN {central.rev} ELSE {}) :
             run' = [run EXCEPT ![r].phase = "work", ![r].ds = EmptyState, ![r].sha = sha]
      BY <2>2 DEF startFresh
    <3> QED
      BY <1>1, <3>1 DEF Run
  <2> QED
    BY <2>1, <2>2
<1>4. \A i \in Items : task'[r][i].pc \in {"queued", "none"}
  BY <1>2, Queued DEF KilledInv, SaveInv
<1>5. run'[r].phase # "failed"
  BY <1>1 DEF loadState, startFresh, Run
<1>6. CleanOK(r)'
  BY <1>2, <1>3, <1>4, <1>5 DEF CleanOK, Matches
<1>7. \A i \in Items : ReadyOK(r, i)' /\ ~Past(r, i)
  BY <1>2, <1>4 DEF ReadyOK, Past, Over
<1> QED
  BY <1>2, <1>6, <1>7, RunStepReady DEF RunStep

(* The save is accepted: no other run saved since this one loaded.         *)
LEMMA SaveReady ==
    ASSUME OnlyKilled, KilledInv, SaveInv', NEW r \in Runs, saveState(r) PROVE KilledInv'
<1>1. run \in [Runs -> Run] /\ run[r] \in Run
  BY Typed DEF KilledInv, SaveInv
<1>2. run[r].phase = "work" /\ task' = task
  BY DEF saveState
<1>3. CleanOK(r)
  BY DEF KilledInv
<1>4. Matches(r) /\ Errors(r) = {}
  BY <1>2, <1>3 DEF CleanOK, Errors
<1>5. run' = [run EXCEPT ![r].phase = "ok"]
  BY <1>4, NothingFails DEF saveState, Exit
<1>6. run'[r].phase = "ok"
  BY <1>1, <1>5 DEF Run
<1>7. CleanOK(r)'
  BY <1>2, <1>3, <1>6 DEF CleanOK
<1>8. \A i \in Items : ReadyOK(r, i)' /\ Past(r, i)'
  BY <1>6 DEF ReadyOK, Past, Over
<1> QED
  BY <1>2, <1>7, <1>8, RunStepReady DEF RunStep, Active

LEMMA CrashReady ==
    ASSUME OnlyKilled, KilledInv, SaveInv', NEW r \in Runs, Crash(r) PROVE KilledInv'
<1>1. run \in [Runs -> Run] /\ run[r] \in Run
  BY Typed DEF KilledInv, SaveInv
<1>2. task' = task /\ central' = central /\ run'[r].phase = "crashed"
  BY <1>1 DEF Crash, Run
<1>3. CleanOK(r)
  BY DEF KilledInv
<1>4. CleanOK(r)' /\ \A i \in Items : ReadyOK(r, i)' /\ Past(r, i)'
  BY <1>2, <1>3 DEF CleanOK, ReadyOK, Past, Over
<1> QED
  BY <1>2, <1>4, RunStepReady DEF RunStep

(* What people do takes no branch away, moves no head, and opens nothing.  *)
LEMMA PeopleReady ==
    ASSUME OnlyKilled, KilledInv, SaveInv', NEW i \in Items, People(i) PROVE KilledInv'
<1>0. run' = run /\ task' = task /\ central' = central
  BY PeopleStay
<1>1. IInv /\ TypeOK
  BY DEF KilledInv, SaveInv, IInv
<1> DEFINE Heads(j, v) == branch[j][v] # NoBranch =>
               branch'[j][v] # NoBranch /\ branch'[j][v].head = branch[j][v].head
           Kept(j, v) == Len(prs'[j]) = Len(prs[j]) /\ OpenFor(j, v)' \subseteq OpenFor(j, v)
<1>2. \A j \in Items, v \in Versions : Kept(j, v) /\ Heads(j, v)
  <2>1. CASE Edit(i)
    BY <2>1 DEF Edit, OpenFor
  <2>2. ASSUME NEW n \in DOMAIN prs[i], Merge(i, n) \/ Close(i, n)
        PROVE  \A j \in Items, v \in Versions : Kept(j, v) /\ Heads(j, v)
    <3>1. PICK s \in {"closed", "merged"} : prs' = [prs EXCEPT ![i][n].state = s]
      BY <2>2 DEF Merge, Close
    <3> DEFINE pr == [prs[i][n] EXCEPT !.state = s]
    <3>2. prs' = [prs EXCEPT ![i][n] = pr] /\ prs[i] \in Seq(PullRequest) /\ prs[i][n] \in PullRequest
      BY <1>1, <3>1 DEF TypeOK
    <3>3. pr.state # "open"
      BY <3>2 DEF PullRequest
    <3> HIDE DEF pr
    <3>4. prs \in [Items -> Seq(PullRequest)]
      BY <1>1 DEF TypeOK
    <3>5. ASSUME NEW j \in Items, NEW v \in Versions PROVE Kept(j, v)
      <4>1. CASE j # i
        BY <3>2, <3>4, <4>1 DEF OpenFor
      <4>2. CASE j = i
        <5>1. prs'[i] = [prs[i] EXCEPT ![n] = pr]
          BY <3>2, <3>4
        <5>2. /\ DOMAIN prs'[i] = DOMAIN prs[i] /\ Len(prs'[i]) = Len(prs[i])
              /\ prs'[i][n] = pr /\ \A m \in DOMAIN prs[i] : m # n => prs'[i][m] = prs[i][m]
          BY <3>2, <5>1
        <5> QED
          BY <3>3, <4>2, <5>2 DEF OpenFor
      <4> QED
        BY <4>1, <4>2
    <3>6. ASSUME NEW j \in Items, NEW v \in Versions, branch[j][v] # NoBranch
          PROVE  branch'[j][v] # NoBranch /\ branch'[j][v].head = branch[j][v].head
      <4>1. CASE Merge(i, n)
        <5> DEFINE w == prs[i][n].version
                   b == [base |-> branch[i][w].head, head |-> branch[i][w].head]
        <5>1. branch' = [branch EXCEPT ![i][w] = b]
          BY <4>1 DEF Merge, OnlyKilled
        <5>2. branch[i][w] # NoBranch /\ w \in Versions
          BY <3>2, <4>1 DEF Merge, PullRequest
        <5>3. b \in Branch /\ b.head = branch[i][w].head
          BY <1>1, <5>2 DEF TypeOK, Branch
        <5>4. b # NoBranch
          BY <5>3, ConstantTypes
        <5> HIDE DEF b, w
        <5>5. branch'[j][v] = IF j = i /\ v = w THEN b ELSE branch[j][v]
          BY <1>1, <5>1, <5>2 DEF TypeOK
        <5> QED
          BY <3>6, <5>3, <5>4, <5>5
      <4>2. CASE Close(i, n)
        BY <3>6, <4>2 DEF Close
      <4> QED
        BY <2>2, <4>1, <4>2
    <3> QED
      BY <3>5, <3>6
  <2>3. \A n : ~Reopen(i, n)
    BY DEF Reopen, OnlyKilled
  <2> QED
    BY <2>1, <2>2, <2>3 DEF People
<1>3. ASSUME NEW r \in Runs PROVE CleanOK(r)'
  <2>1. CleanOK(r)
    BY DEF KilledInv
  <2> QED
    BY <1>0, <2>1 DEF CleanOK, Matches
<1>4. ASSUME NEW r \in Runs, NEW j \in Items PROVE ReadyOK(r, j)'
  <2>1. ReadyOK(r, j) /\ run[r].version \in Versions
    BY <1>1, Reads DEF KilledInv
  <2> QED
    BY <1>0, <1>2, <2>1 DEF ReadyOK
<1>5. ASSUME NEW j \in Items PROVE Room(j)'
  <2>1. Room(j) /\ Len(prs[j]) \in Nat
    BY <1>1 DEF KilledInv, TypeOK
  <2>2. Len(prs'[j]) = Len(prs[j])
    <3>1. 1 \in Versions
      BY BoundAssumption DEF Versions
    <3> QED
      BY <1>2, <3>1
  <2>3. \A q \in Runs : Past(q, j) => Past(q, j)'
    BY <1>0 DEF Past, Over
  <2> QED
    BY <2>1, <2>2, <2>3, RoomStays
<1> QED
  BY <1>3, <1>4, <1>5 DEF KilledInv

LEMMA KilledInvInit == ASSUME OnlyKilled PROVE Init => KilledInv
<1> SUFFICES ASSUME Init PROVE KilledInv
  OBVIOUS
<1>1. \A r \in Runs : run[r].phase = "idle"
  BY DEF Init, IdleRun
<1>2. \A r \in Runs, i \in Items : task[r][i].pc = "none"
  BY DEF Init, Blank
<1>3. \A r \in Runs : CleanOK(r) /\ \A i \in Items : ReadyOK(r, i)
  BY <1>1, <1>2 DEF CleanOK, ReadyOK
<1>4. ASSUME NEW i \in Items PROVE Room(i)
  <2> DEFINE P == {r \in Runs : Past(r, i)}
  <2>1. IsFiniteSet(P)
    BY FS_Subset DEF OnlyKilled
  <2>2. Cardinality(P) \in Nat /\ Len(prs[i]) = 0
    BY <2>1, FS_CardinalityType DEF Init
  <2> HIDE DEF P
  <2>3. Len(prs[i]) <= Cardinality(P)
    BY <2>2
  <2> QED
    BY <2>3 DEF Room, P
<1> QED
  BY <1>3, <1>4, SaveInvInit DEF KilledInv

LEMMA KilledInvNext == ASSUME OnlyKilled PROVE KilledInv /\ [Next]_vars => KilledInv'
<1> SUFFICES ASSUME KilledInv, [Next]_vars PROVE KilledInv'
  OBVIOUS
<1>0. SaveInv'
  BY SaveInvNext DEF KilledInv
<1>1. ASSUME NEW r \in Runs, Start(r) \/ Step(r) \/ Crash(r) PROVE KilledInv'
  BY <1>0, <1>1, StartReady, LoadReady, SaveReady, CrashReady, WorkerStepReady DEF Step
<1>2. CASE Bump \/ UNCHANGED vars
  <2>1. prs' = prs /\ branch' = branch /\ run' = run /\ task' = task /\ central' = central
    BY <1>2 DEF Bump, vars, remote
  <2> QED
    BY <1>0, <2>1 DEF KilledInv, CleanOK, ReadyOK, Room, Past, Over, Matches, OpenFor
<1>3. ASSUME NEW i \in Items, People(i) PROVE KilledInv'
  BY <1>0, <1>3, PeopleReady
<1> QED
  BY <1>1, <1>2, <1>3 DEF Next

(* A killed run leaves nothing behind that makes a later one fail          *)
(* (isAlreadyExists, the lookup by head, the commit against the sha that   *)
(* was read): when being killed is all that goes wrong, runs do not        *)
(* overlap, and people delete no branch and reopen no pull request.        *)
THEOREM LaterRunsSucceedHolds == ASSUME OnlyKilled PROVE Spec => []LaterRunsSucceed
<1>1. Init => KilledInv
  BY KilledInvInit
<1>2. KilledInv /\ [Next]_vars => KilledInv'
  BY KilledInvNext
<1>3. KilledInv => LaterRunsSucceed
  BY DEF KilledInv, CleanOK, LaterRunsSucceed, Errors
<1> QED
  BY <1>1, <1>2, <1>3, PTL DEF Spec
=============================================================================
