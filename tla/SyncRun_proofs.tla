---------------------------- MODULE SyncRun_proofs ----------------------------
(***************************************************************************)
(* The deployment state never lies, for every number of repositories,      *)
(* overlapping runs, versions and failures: Spec => []RecordsAreReal, from *)
(* the inductive invariant IInv of SyncSafety.                             *)
(***************************************************************************)
EXTENDS SyncSafety, SequenceTheorems, TLAPS

Entry == TemplateState \cup {NoEntry}

(* What GitHub never takes back: a PR and its merge, a delivered file.     *)
GrowsTo(pulls, later) ==
    /\ DOMAIN pulls \subseteq DOMAIN later
    /\ \A n \in DOMAIN pulls : pulls[n].state = "merged" => later[n].state = "merged"
Grows == \A i \in Items : GrowsTo(prs[i], prs'[i]) /\ seen[i] \subseteq seen'[i]

(* The types of what the target repositories hold.                         *)
RemoteOK ==
    /\ main \in [Items -> File]
    /\ branch \in [Items -> [Versions -> Branch \cup {NoBranch}]]
    /\ prs \in [Items -> Seq(PullRequest)] /\ \A i \in Items : Len(prs[i]) <= MaxPRs
    /\ seen \in [Items -> SUBSET File]

-----------------------------------------------------------------------------
(* Constants have their types.                                             *)
LEMMA ConstantTypes ==
    /\ EmptyState \in DeploymentState /\ IdleRun \in Run /\ Blank \in Task
    /\ Absent \in File /\ NoEntry \notin TemplateState /\ NoBranch \notin Branch
<1>1. Absent \in File
  BY DEF Absent, File
<1>2. NoEntry \notin TemplateState
  <2>1. \A e \in TemplateState : e.version # NoVersion
    <3>1. \A e \in TemplateState : e.version \in Versions
      BY DEF TemplateState
    <3> QED
      BY <3>1, BoundAssumption DEF Versions, NoVersion
  <2> QED
    BY <2>1 DEF NoEntry
<1>3. EmptyState \in DeploymentState
  BY DEF EmptyState, DeploymentState
<1>4. IdleRun \in Run
  BY <1>3, BoundAssumption DEF IdleRun, Run, Phases, Versions
<1>5. Blank \in Task
  BY <1>1, BoundAssumption DEF Blank, Task, Ended, PRNumber
<1>6. NoBranch \notin Branch
  BY DEF NoBranch, Branch
<1> QED
  BY <1>1, <1>2, <1>3, <1>4, <1>5, <1>6

(* What is real stays real as the repository grows.                        *)
LEMMA RealGrows ==
    ASSUME NEW pulls, NEW later, NEW files, NEW more, NEW e,
           Real(pulls, files, e), GrowsTo(pulls, later), files \subseteq more
    PROVE  Real(later, more, e)
BY DEF Real, GrowsTo

LEMMA CarriesGrows ==
    ASSUME NEW pulls, NEW later, NEW files, NEW more, NEW t,
           Carries(pulls, files, t), GrowsTo(pulls, later), files \subseteq more
    PROVE  Carries(later, more, t)
BY DEF Carries, GrowsTo

(* One pull request of a repository changes, and no merge is undone.       *)
LEMMA PRChanges ==
    ASSUME NEW pulls \in Seq(PullRequest), NEW n, NEW pr,
           n \in DOMAIN pulls => /\ pr \in PullRequest
                                 /\ pulls[n].state = "merged" => pr.state = "merged"
    PROVE  LET later == [pulls EXCEPT ![n] = pr]
           IN  /\ later \in Seq(PullRequest) /\ Len(later) = Len(pulls)
               /\ GrowsTo(pulls, later)
<1>1. CASE n \in DOMAIN pulls
  BY <1>1, ExceptSeq DEF GrowsTo
<1>2. CASE n \notin DOMAIN pulls
  <2>1. pulls \in [1..Len(pulls) -> PullRequest]
    BY LenProperties
  <2>2. [pulls EXCEPT ![n] = pr] = pulls
    BY <1>2, <2>1
  <2> QED
    BY <2>2 DEF GrowsTo
<1> QED
  BY <1>1, <1>2

LEMMA PROpens ==
    ASSUME NEW pulls \in Seq(PullRequest), NEW pr \in PullRequest
    PROVE  LET later == Append(pulls, pr)
           IN  /\ later \in Seq(PullRequest) /\ Len(later) = Len(pulls) + 1
               /\ GrowsTo(pulls, later)
BY DEF GrowsTo

LEMMA SameGrows == \A pulls : GrowsTo(pulls, pulls)
BY DEF GrowsTo

-----------------------------------------------------------------------------
(* Steps of a worker.                                                      *)
LEMMA SetTyped ==
    ASSUME task \in [Runs -> [Items -> Task]],
           NEW r \in Runs, NEW i \in Items, NEW t \in Task, Set(r, i, t)
    PROVE  /\ task' \in [Runs -> [Items -> Task]]
           /\ task'[r][i] = t
           /\ \A q \in Runs, j \in Items : <<q, j>> # <<r, i>> => task'[q][j] = task[q][j]
BY DEF Set

LEMMA RecordTyped ==
    ASSUME run \in [Runs -> Run],
           NEW r \in Runs, NEW i \in Items, NEW e \in Entry, SetTemplateState(r, i, e)
    PROVE  /\ run' \in [Runs -> Run]
           /\ run'[r].ds[i] = e
           /\ \A q \in Runs, j \in Items : <<q, j>> # <<r, i>> => run'[q].ds[j] = run[q].ds[j]
<1>1. run[r] \in Run /\ run[r].ds \in DeploymentState
  BY DEF Run
<1>2. [run[r].ds EXCEPT ![i] = e] \in DeploymentState
  BY <1>1 DEF DeploymentState, Entry
<1>3. [run[r] EXCEPT !.ds = [run[r].ds EXCEPT ![i] = e]] \in Run
  BY <1>1, <1>2 DEF Run
<1>4. run' = [run EXCEPT ![r] = [run[r] EXCEPT !.ds = [run[r].ds EXCEPT ![i] = e]]]
  BY DEF SetTemplateState
<1>5. run'[r].ds = [run[r].ds EXCEPT ![i] = e]
  BY <1>1, <1>4 DEF Run
<1>6. \A q \in Runs : q # r => run'[q] = run[q]
  BY <1>4
<1> QED
  BY <1>1, <1>3, <1>4, <1>5, <1>6 DEF DeploymentState

(* A worker that writes nothing, or only into its run's state.             *)
LEMMA LocalStep ==
    ASSUME IInv, NEW r \in Runs, NEW i \in Items, NEW t \in Task, Set(r, i, t),
           UNCHANGED <<template, central>>, UNCHANGED remote,
           Carries(prs[i], seen[i], t),
           \/ UNCHANGED run
           \/ \E e \in Entry : Real(prs[i], seen[i], e) /\ SetTemplateState(r, i, e)
    PROVE  IInv'
<1>1. task' \in [Runs -> [Items -> Task]] /\ run' \in [Runs -> Run]
  BY SetTyped, RecordTyped DEF IInv, TypeOK
<1>2. TypeOK'
  BY <1>1 DEF IInv, TypeOK, remote
<1>3. ASSUME NEW q \in Runs, NEW j \in Items
      PROVE  Real(prs[j], seen[j], run'[q].ds[j])
  <2>1. Real(prs[j], seen[j], run[q].ds[j])
    BY DEF IInv, RecordsAreReal
  <2>2. CASE UNCHANGED run
    BY <2>1, <2>2
  <2>3. ASSUME NEW e \in Entry, Real(prs[i], seen[i], e), SetTemplateState(r, i, e)
        PROVE  Real(prs[j], seen[j], run'[q].ds[j])
    <3>1. /\ run'[r].ds[i] = e
          /\ <<q, j>> # <<r, i>> => run'[q].ds[j] = run[q].ds[j]
      BY <2>3, RecordTyped DEF IInv, TypeOK
    <3>2. CASE <<q, j>> = <<r, i>>
      BY <2>3, <3>1, <3>2
    <3>3. CASE <<q, j>> # <<r, i>>
      BY <2>1, <3>1, <3>3
    <3> QED
      BY <3>2, <3>3
  <2> QED
    BY <2>2, <2>3
<1>4. RecordsAreReal'
  BY <1>3 DEF IInv, RecordsAreReal, remote
<1>5. MainSeen'
  BY DEF IInv, MainSeen, remote
<1>6. ASSUME NEW q \in Runs, NEW j \in Items
      PROVE  Carries(prs[j], seen[j], task'[q][j])
  <2>1. /\ task'[r][i] = t
        /\ <<q, j>> # <<r, i>> => task'[q][j] = task[q][j]
    BY SetTyped DEF IInv, TypeOK
  <2>2. CASE <<q, j>> = <<r, i>>
    BY <2>1, <2>2
  <2>3. CASE <<q, j>> # <<r, i>>
    BY <2>1, <2>3 DEF IInv
  <2> QED
    BY <2>2, <2>3
<1> QED
  BY <1>2, <1>4, <1>5, <1>6 DEF IInv, remote

(* A worker that writes to its target repository.                          *)
LEMMA WriteStep ==
    ASSUME IInv, NEW r \in Runs, NEW i \in Items, NEW t \in Task, Set(r, i, t),
           UNCHANGED <<template, central, run, main>>, RemoteOK', Grows,
           Carries(prs'[i], seen'[i], t)
    PROVE  IInv'
<1>1. TypeOK'
  BY SetTyped DEF IInv, TypeOK, RemoteOK
<1>2. RecordsAreReal'
  BY RealGrows DEF IInv, RecordsAreReal, Grows
<1>3. MainSeen'
  BY DEF IInv, MainSeen, Grows
<1>4. ASSUME NEW q \in Runs, NEW j \in Items
      PROVE  Carries(prs'[j], seen'[j], task'[q][j])
  <2>1. CASE <<q, j>> = <<r, i>>
    BY <2>1, SetTyped DEF IInv, TypeOK
  <2>2. CASE <<q, j>> # <<r, i>>
    <3>1. task'[q][j] = task[q][j]
      BY <2>2, SetTyped DEF IInv, TypeOK
    <3> QED
      BY <3>1, CarriesGrows DEF IInv, Grows
  <2> QED
    BY <2>1, <2>2
<1> QED
  BY <1>1, <1>2, <1>3, <1>4 DEF IInv

(* A step of the people.                                                   *)
LEMMA PeopleStep ==
    ASSUME IInv, UNCHANGED <<central, run, task>>, RemoteOK', Grows, MainSeen',
           template' \in [version : Versions, text : Texts]
    PROVE  IInv'
<1>1. TypeOK'
  BY DEF IInv, TypeOK, RemoteOK
<1>2. RecordsAreReal'
  BY RealGrows DEF IInv, RecordsAreReal, Grows
<1>3. \A q \in Runs, j \in Items : Carries(prs'[j], seen'[j], task'[q][j])
  BY CarriesGrows DEF IInv, Grows
<1> QED
  BY <1>1, <1>2, <1>3 DEF IInv

-----------------------------------------------------------------------------
(* The types of what a worker reads.                                       *)
LEMMA Reads ==
    ASSUME TypeOK, NEW r \in Runs, NEW i \in Items
    PROVE  /\ task[r][i] \in Task /\ main[i] \in File
           /\ run[r] \in Run /\ run[r].version \in Versions /\ run[r].ds[i] \in Entry
           /\ prs[i] \in Seq(PullRequest) /\ DOMAIN prs[i] \subseteq PRNumber
<1>1. task[r][i] \in Task /\ main[i] \in File
  BY DEF TypeOK
<1>2. run[r] \in Run /\ run[r].version \in Versions /\ run[r].ds \in DeploymentState
  BY DEF TypeOK, Run
<1>3. run[r].ds[i] \in Entry
  BY <1>2 DEF DeploymentState, Entry
<1>4. prs[i] \in Seq(PullRequest) /\ Len(prs[i]) <= MaxPRs
  BY DEF TypeOK
<1>5. DOMAIN prs[i] \subseteq PRNumber
  BY <1>4, BoundAssumption DEF PRNumber
<1> QED
  BY <1>1, <1>2, <1>3, <1>4, <1>5

(* A worker that ends without a result to record, or only moves on.        *)
LEMMA EndStep ==
    ASSUME IInv, NEW r \in Runs, NEW i \in Items, NEW how \in Ended,
           End(r, i, how), Local
    PROVE  IInv'
<1>1. [Blank EXCEPT !.pc = how] \in Task
  BY ConstantTypes DEF Task
<1>2. Carries(prs[i], seen[i], [Blank EXCEPT !.pc = how])
  BY DEF Carries, Blank, Ended, Outcomes
<1> QED
  BY <1>1, <1>2, LocalStep DEF End, Local

LEMMA GotoStep ==
    ASSUME IInv, NEW r \in Runs, NEW i \in Items, NEW l \in {"existing", "read", "create"},
           Goto(r, i, l), Local, l = "create" => task[r][i].pc = "list"
    PROVE  IInv'
<1>1. task[r][i] \in Task /\ Carries(prs[i], seen[i], task[r][i])
  BY Reads DEF IInv
<1>2. [task[r][i] EXCEPT !.pc = l] \in Task
  BY <1>1 DEF Task, Working
<1>3. Carries(prs[i], seen[i], [task[r][i] EXCEPT !.pc = l])
  BY <1>1 DEF Carries, Task
<1> QED
  BY <1>2, <1>3, LocalStep DEF Goto, Local

LEMMA ReadSourceStep ==
    ASSUME IInv, NEW r \in Runs, NEW i \in Items, ReadSource(r, i) PROVE IInv'
<1> DEFINE t == [Blank EXCEPT !.pc = "symlink", !.text = template.text]
<1>1. t \in Task /\ Carries(prs[i], seen[i], t)
  BY ConstantTypes DEF IInv, TypeOK, Task, Working, Carries, Blank
<1>2. CASE Set(r, i, t)
  BY <1>1, <1>2, LocalStep DEF ReadSource, Local
<1>3. CASE End(r, i, "error")
  BY <1>3, EndStep DEF ReadSource, Ended, Outcomes
<1> QED
  BY <1>2, <1>3 DEF ReadSource

LEMMA IsSymlinkStep ==
    ASSUME IInv, NEW r \in Runs, NEW i \in Items, IsSymlink(r, i) PROVE IInv'
<1>1. ASSUME NEW how \in {"skipped", "error"}, End(r, i, how) PROVE IInv'
  BY <1>1, EndStep DEF IsSymlink, Ended, Outcomes
<1>2. CASE Goto(r, i, "existing")
  BY <1>2, GotoStep DEF IsSymlink
<1> QED
  BY <1>1, <1>2 DEF IsSymlink

LEMMA ReadExistingStep ==
    ASSUME IInv, NEW r \in Runs, NEW i \in Items, ReadExisting(r, i) PROVE IInv'
<1> DEFINE file == Render(i, task[r][i].text, main[i])
           t(next) == [Blank EXCEPT !.pc = next, !.file = file]
<1>1. file \in File
  BY Reads DEF IInv, Render, File, Task
<1>2. ASSUME NEW next \in {"inSync", "hashSkip", "base"}, Set(r, i, t(next)),
             next = "inSync" => main[i] = file
      PROVE  IInv'
  <2>1. t(next) \in Task
    BY <1>1, ConstantTypes DEF Task, Working
  <2>2. Carries(prs[i], seen[i], t(next))
    BY <1>2 DEF IInv, MainSeen, Carries, Blank
  <2> QED
    BY <1>2, <2>1, <2>2, LocalStep DEF ReadExisting, Local
<1>3. ASSUME NEW how \in {"skipped", "error"}, End(r, i, how) PROVE IInv'
  BY <1>3, EndStep DEF ReadExisting, Ended, Outcomes
<1> QED
  BY <1>2, <1>3 DEF ReadExisting

(* Refreshing a record, and recording a file found in place, keep it real. *)
LEMMA RefreshReal ==
    ASSUME IInv, NEW r \in Runs, NEW i \in Items
    PROVE  /\ run[r].ds[i] \in Entry /\ Real(prs[i], seen[i], run[r].ds[i])
           /\ refreshPRStatus(i, run[r].ds[i]) \in Entry
           /\ Real(prs[i], seen[i], refreshPRStatus(i, run[r].ds[i]))
<1> DEFINE e == run[r].ds[i]
<1>1. e \in Entry /\ Real(prs[i], seen[i], e) /\ prs[i] \in Seq(PullRequest)
  BY Reads DEF IInv, RecordsAreReal
<1>2. CASE Lookup(i, e) /\ e.pr \in DOMAIN prs[i]
  <2>1. e \in TemplateState /\ e # NoEntry /\ e.pr # 0 /\ prs[i][e.pr] \in PullRequest
    BY <1>1, <1>2 DEF Lookup, Entry
  <2>2. prs[i][e.pr].state \in {"open", "closed", "merged"}
    BY <2>1 DEF PullRequest
  <2> DEFINE f == [e EXCEPT !.status = prs[i][e.pr].state]
  <2>3. f \in TemplateState /\ f.pr = e.pr /\ f.hash = e.hash /\ f.status = prs[i][e.pr].state
    BY <2>1, <2>2 DEF TemplateState
  <2>4. Real(prs[i], seen[i], f)
    BY <1>1, <2>1, <2>3 DEF Real
  <2> QED
    BY <1>1, <1>2, <2>3, <2>4 DEF refreshPRStatus, Entry
<1>3. CASE ~(Lookup(i, e) /\ e.pr \in DOMAIN prs[i])
  BY <1>1, <1>3 DEF refreshPRStatus
<1> QED
  BY <1>1, <1>2, <1>3

LEMMA RecordReal ==
    ASSUME IInv, NEW r \in Runs, NEW i \in Items, NEW e \in Entry,
           Real(prs[i], seen[i], e), NEW file \in File, file \in seen[i]
    PROVE  /\ recordInSync(e, r, file) \in Entry
           /\ Real(prs[i], seen[i], recordInSync(e, r, file))
<1> DEFINE now == [version |-> run[r].version, hash |-> file, pr |-> 0, status |-> "",
                   previous |-> NoVersion, stamp |-> r]
           kept == [now EXCEPT !.pr = e.pr, !.status = e.status, !.previous = e.previous]
<1>1. now \in TemplateState /\ Real(prs[i], seen[i], now)
  <2>1. run[r].version \in Versions /\ 0 \in PRNumber
    BY Reads, BoundAssumption DEF IInv, PRNumber
  <2> QED
    BY <2>1 DEF TemplateState, Real
<1>2. CASE e = NoEntry
  BY <1>1, <1>2 DEF recordInSync, Entry
<1>3. CASE e # NoEntry /\ e.hash = file /\ e.version = run[r].version
  BY <1>3 DEF recordInSync
<1>4. CASE e # NoEntry /\ ~(e.hash = file /\ e.version = run[r].version)
  <2>1. e \in TemplateState
    BY <1>4 DEF Entry
  <2>2. kept \in TemplateState
    BY <1>1, <2>1 DEF TemplateState
  <2>3. kept.pr = e.pr /\ kept.status = e.status /\ kept.hash = file
    OBVIOUS
  <2>4. Real(prs[i], seen[i], kept)
    BY <1>4, <2>3 DEF Real
  <2> QED
    BY <1>4, <2>2, <2>4 DEF recordInSync, Entry
<1> QED
  BY <1>2, <1>3, <1>4

LEMMA RecordStep ==
    ASSUME IInv, NEW r \in Runs, NEW i \in Items, NEW e \in Entry,
           Real(prs[i], seen[i], e), SetTemplateState(r, i, e),
           NEW how \in Ended, End(r, i, how),
           UNCHANGED <<template, central>>, UNCHANGED remote
    PROVE  IInv'
<1>1. [Blank EXCEPT !.pc = how] \in Task
  BY ConstantTypes DEF Task
<1>2. Carries(prs[i], seen[i], [Blank EXCEPT !.pc = how])
  BY DEF Carries, Blank, Ended, Outcomes
<1> QED
  BY <1>1, <1>2, LocalStep DEF End

LEMMA InSyncStep ==
    ASSUME IInv, NEW r \in Runs, NEW i \in Items, InSync(r, i) PROVE IInv'
<1>1. task[r][i].file \in File /\ task[r][i].file \in seen[i]
  BY Reads DEF IInv, InSync, At, Carries, Task
<1>2. PICK entry \in {refreshPRStatus(i, run[r].ds[i]), run[r].ds[i]} :
             SetTemplateState(r, i, recordInSync(entry, r, task[r][i].file))
  BY DEF InSync
<1>3. entry \in Entry /\ Real(prs[i], seen[i], entry)
  BY RefreshReal
<1> DEFINE e == recordInSync(entry, r, task[r][i].file)
<1>4. e \in Entry /\ Real(prs[i], seen[i], e)
  BY <1>1, <1>3, RecordReal
<1> QED
  BY <1>2, <1>4, RecordStep DEF InSync, Ended, Outcomes

LEMMA HashSkipStep ==
    ASSUME IInv, NEW r \in Runs, NEW i \in Items, HashSkip(r, i) PROVE IInv'
<1>1. PICK entry \in {refreshPRStatus(i, run[r].ds[i]), run[r].ds[i]} :
             /\ SetTemplateState(r, i, entry)
             /\ \E how \in {"declined", "skipped"} : End(r, i, how)
  BY DEF HashSkip
<1>2. entry \in Entry /\ Real(prs[i], seen[i], entry)
  BY RefreshReal
<1> QED
  BY <1>1, <1>2, RecordStep DEF HashSkip, Ended, Outcomes

LEMMA GetBaseStep ==
    ASSUME IInv, NEW r \in Runs, NEW i \in Items, getBaseSHA(r, i) PROVE IInv'
<1> DEFINE t == [task[r][i] EXCEPT !.pc = "branch", !.base = main[i]]
<1>1. t \in Task
  BY Reads DEF IInv, Task, Working
<1>2. Carries(prs[i], seen[i], t)
  BY Reads DEF IInv, Task, Carries
<1>3. CASE Set(r, i, t)
  BY <1>1, <1>2, <1>3, LocalStep DEF getBaseSHA, Local
<1>4. CASE End(r, i, "error")
  BY <1>4, EndStep DEF getBaseSHA, Ended, Outcomes
<1> QED
  BY <1>3, <1>4 DEF getBaseSHA

LEMMA ReadBranchFileStep ==
    ASSUME IInv, NEW r \in Runs, NEW i \in Items, ReadBranchFile(r, i) PROVE IInv'
<1> DEFINE b == branch[i][run[r].version]
           sha == IF b = NoBranch THEN Absent ELSE b.head
           t == [task[r][i] EXCEPT !.pc = "commit", !.sha = sha]
<1>1. sha \in File
  <2>1. b \in Branch \cup {NoBranch}
    BY Reads DEF IInv, TypeOK
  <2> QED
    BY <2>1, ConstantTypes DEF Branch
<1>2. t \in Task
  BY <1>1, Reads DEF IInv, Task, Working
<1>3. Carries(prs[i], seen[i], t)
  BY Reads DEF IInv, Task, Carries
<1>4. CASE Set(r, i, t)
  BY <1>2, <1>3, <1>4, LocalStep DEF ReadBranchFile, Local
<1>5. CASE End(r, i, "error")
  BY <1>5, EndStep DEF ReadBranchFile, Ended, Outcomes
<1> QED
  BY <1>4, <1>5 DEF ReadBranchFile

LEMMA ListPRsStep ==
    ASSUME IInv, NEW r \in Runs, NEW i \in Items, ListPRs(r, i) PROVE IInv'
<1>1. ASSUME NEW n \in OpenFor(i, run[r].version),
             Set(r, i, [task[r][i] EXCEPT !.pc = "update", !.pr = n])
      PROVE  IInv'
  <2> DEFINE t == [task[r][i] EXCEPT !.pc = "update", !.pr = n]
  <2>1. n \in DOMAIN prs[i] /\ n \in PRNumber
    BY Reads DEF IInv, OpenFor
  <2>2. task[r][i] \in Task
    BY Reads DEF IInv
  <2>3. t \in Task
    BY <2>1, <2>2 DEF Task, Working
  <2>4. Carries(prs[i], seen[i], t)
    BY <2>1, Reads DEF IInv, Task, Carries, ListPRs, At
  <2> QED
    BY <1>1, <2>3, <2>4, LocalStep DEF ListPRs, Local
<1>2. CASE Goto(r, i, "create")
  BY <1>2, GotoStep DEF ListPRs, At
<1> QED
  BY <1>1, <1>2 DEF ListPRs

LEMMA ListStalePRsStep ==
    ASSUME IInv, NEW r \in Runs, NEW i \in Items, ListStalePRs(r, i) PROVE IInv'
<1>1. PICK stale \in {Stale(i, task[r][i].pr), {}} :
             Set(r, i, [task[r][i] EXCEPT !.pc = "close", !.stale = stale])
  BY DEF ListStalePRs
<1> DEFINE t == [task[r][i] EXCEPT !.pc = "close", !.stale = stale]
<1>2. stale \in SUBSET PRNumber
  BY Reads DEF IInv, Stale
<1>3. t \in Task
  BY <1>2, Reads DEF IInv, Task, Working
<1>4. Carries(prs[i], seen[i], t)
  BY Reads DEF IInv, Task, Carries, ListStalePRs, At
<1> QED
  BY <1>1, <1>3, <1>4, LocalStep DEF ListStalePRs, Local

LEMMA RecordResultStep ==
    ASSUME IInv, NEW r \in Runs, NEW i \in Items, Record(r, i) PROVE IInv'
<1> DEFINE old == task[r][i]
           t == [Blank EXCEPT !.pc = old.status, !.pr = old.pr]
           e == [version |-> run[r].version, hash |-> old.file, pr |-> old.pr, status |-> "open",
                 previous |-> baselineVersion(run[r].ds[i], run[r].version), stamp |-> r]
<1>1. old \in Task /\ run[r].version \in Versions /\ run[r].ds[i] \in Entry
  BY Reads DEF IInv
<1>2. old.pr \in DOMAIN prs[i] /\ old.file \in seen[i] /\ old.status # ""
  BY <1>1 DEF IInv, Carries, Record, At
<1>3. baselineVersion(run[r].ds[i], run[r].version) \in Versions \cup {NoVersion}
  BY <1>1 DEF baselineVersion, Entry, TemplateState
<1>4. e \in Entry
  BY <1>1, <1>3 DEF Entry, TemplateState, Task
<1>5. Real(prs[i], seen[i], e)
  BY <1>2 DEF Real
<1>6. t \in Task /\ Carries(prs[i], seen[i], t)
  <2>1. old.status \in {"created", "updated"} /\ old.pr \in PRNumber
    BY <1>1, <1>2 DEF Task
  <2> QED
    BY <2>1, ConstantTypes DEF Task, Carries, Blank, Ended, Outcomes
<1> QED
  BY <1>4, <1>5, <1>6, LocalStep DEF Record

-----------------------------------------------------------------------------
(* Steps of a worker that write to its target.                             *)
LEMMA WriteEnds ==
    ASSUME IInv, NEW r \in Runs, NEW i \in Items, NEW how \in Ended, End(r, i, how),
           UNCHANGED <<template, central, run, main>>, RemoteOK', Grows
    PROVE  IInv'
<1>1. [Blank EXCEPT !.pc = how] \in Task
  BY ConstantTypes DEF Task
<1>2. Carries(prs'[i], seen'[i], [Blank EXCEPT !.pc = how])
  BY DEF Carries, Blank, Ended, Outcomes
<1> QED
  BY <1>1, <1>2, WriteStep DEF End

LEMMA BranchSet ==
    ASSUME TypeOK, NEW i \in Items, NEW v \in Versions, NEW b \in Branch \cup {NoBranch}
    PROVE  [branch EXCEPT ![i][v] = b] \in [Items -> [Versions -> Branch \cup {NoBranch}]]
BY DEF TypeOK

(* One pull request of i changes; the others stay.                         *)
LEMMA PRSet ==
    ASSUME TypeOK, NEW i \in Items, NEW n, NEW pr,
           n \in DOMAIN prs[i] => /\ pr \in PullRequest
                                  /\ prs[i][n].state = "merged" => pr.state = "merged",
           prs' = [prs EXCEPT ![i][n] = pr], \A j \in Items : seen[j] \subseteq seen'[j]
    PROVE  /\ prs' \in [Items -> Seq(PullRequest)] /\ \A j \in Items : Len(prs'[j]) <= MaxPRs
           /\ Grows
<1>1. prs[i] \in Seq(PullRequest)
  BY DEF TypeOK
<1> DEFINE later == [prs[i] EXCEPT ![n] = pr]
<1>2. later \in Seq(PullRequest) /\ Len(later) = Len(prs[i]) /\ GrowsTo(prs[i], later)
  BY <1>1, PRChanges
<1>3. prs' = [prs EXCEPT ![i] = later]
  OBVIOUS
<1> QED
  BY <1>2, <1>3, SameGrows DEF TypeOK, Grows

LEMMA CreateBranchStep ==
    ASSUME IInv, NEW r \in Runs, NEW i \in Items, CreateBranch(r, i) PROVE IInv'
<1> DEFINE base == task[r][i].base
<1>1. run[r].version \in Versions /\ base \in File /\ task[r][i] \in Task
  BY Reads DEF IInv, Task
<1>2. branch' \in [Items -> [Versions -> Branch \cup {NoBranch}]]
  <2>1. [base |-> base, head |-> base] \in Branch
    BY <1>1 DEF Branch
  <2>2. branch[i][run[r].version] \in Branch \cup {NoBranch} /\ branch \in [Items -> [Versions -> Branch \cup {NoBranch}]]
    BY <1>1 DEF IInv, TypeOK
  <2>3. PICK b \in Branch \cup {NoBranch} :
           branch' = [branch EXCEPT ![i][run[r].version] = b] \/ branch' = branch
    BY <2>1, <2>2 DEF CreateBranch
  <2> QED
    BY <1>1, <2>2, <2>3, BranchSet DEF IInv
<1>3. RemoteOK' /\ Grows
  BY <1>2, SameGrows DEF CreateBranch, RemoteOK, IInv, TypeOK, Grows
<1>4. CASE Goto(r, i, "read")
  <2> DEFINE t == [task[r][i] EXCEPT !.pc = "read"]
  <2>1. t \in Task /\ Carries(prs'[i], seen'[i], t)
    BY <1>1 DEF Task, Working, Carries
  <2> QED
    BY <1>3, <1>4, <2>1, WriteStep DEF Goto, CreateBranch, Owner
<1>5. CASE End(r, i, "error")
  BY <1>3, <1>5, WriteEnds DEF CreateBranch, Owner, Ended, Outcomes
<1> QED
  BY <1>4, <1>5 DEF CreateBranch

LEMMA CreateOrUpdateFileStep ==
    ASSUME IInv, NEW r \in Runs, NEW i \in Items, CreateOrUpdateFile(r, i) PROVE IInv'
<1> DEFINE v == run[r].version
           b == branch[i][v]
           file == task[r][i].file
           Written == /\ b # NoBranch
                      /\ branch' = [branch EXCEPT ![i][v] = [base |-> b.base, head |-> file]]
                      /\ seen' = [seen EXCEPT ![i] = @ \cup {file}]
<1>1. v \in Versions /\ file \in File /\ task[r][i] \in Task
  BY Reads DEF IInv, Task
<1>2. CASE Written
  <2>1. [base |-> b.base, head |-> file] \in Branch
    BY <1>1, <1>2 DEF IInv, TypeOK, Branch
  <2>2. branch' \in [Items -> [Versions -> Branch \cup {NoBranch}]]
    BY <1>1, <1>2, <2>1, BranchSet DEF IInv
  <2>3. seen' \in [Items -> SUBSET File] /\ file \in seen'[i]
        /\ \A j \in Items : seen[j] \subseteq seen'[j]
    BY <1>1, <1>2 DEF IInv, TypeOK
  <2>4. RemoteOK' /\ Grows
    BY <2>2, <2>3, SameGrows DEF CreateOrUpdateFile, RemoteOK, IInv, TypeOK, Grows
  <2>5. CASE Goto(r, i, "list")
    <3> DEFINE t == [task[r][i] EXCEPT !.pc = "list"]
    <3>1. t \in Task /\ Carries(prs'[i], seen'[i], t)
      BY <1>1, <2>3 DEF Task, Working, Carries
    <3> QED
      BY <2>4, <2>5, <3>1, WriteStep DEF Goto, CreateOrUpdateFile, Owner
  <2>6. CASE End(r, i, "error")
    BY <2>4, <2>6, WriteEnds DEF CreateOrUpdateFile, Owner, Ended, Outcomes
  <2> QED
    BY <2>5, <2>6 DEF CreateOrUpdateFile
<1>3. CASE UNCHANGED <<branch, seen>> /\ End(r, i, "error")
  <2>1. RemoteOK' /\ Grows
    BY <1>3, SameGrows DEF CreateOrUpdateFile, RemoteOK, IInv, TypeOK, Grows
  <2> QED
    BY <1>3, <2>1, WriteEnds DEF CreateOrUpdateFile, Owner, Ended, Outcomes
<1> QED
  BY <1>2, <1>3 DEF CreateOrUpdateFile

LEMMA UpdatePRStep ==
    ASSUME IInv, NEW r \in Runs, NEW i \in Items, UpdatePR(r, i) PROVE IInv'
<1> DEFINE t == task[r][i]
           previous == baselineVersion(run[r].ds[i], run[r].version)
           pr == [prs[i][t.pr] EXCEPT !.hash = t.file, !.previous = previous]
           next == IF CloseStalePRs THEN "stale" ELSE "close"
           u == [t EXCEPT !.pc = next, !.status = "updated"]
<1>1. t \in Task /\ t.file \in File /\ run[r].ds[i] \in Entry /\ run[r].version \in Versions
  BY Reads DEF IInv, Task
<1>2. t.file \in seen[i] /\ t.pr \in DOMAIN prs[i]
  BY <1>1 DEF IInv, Carries, UpdatePR, At
<1>3. previous \in Versions \cup {NoVersion}
  BY <1>1 DEF baselineVersion, Entry, TemplateState
<1>4. prs[i][t.pr] \in PullRequest
  BY <1>2 DEF IInv, TypeOK
<1>5. pr \in PullRequest /\ pr.state = prs[i][t.pr].state
  BY <1>1, <1>3, <1>4 DEF PullRequest
<1>6. prs' = prs \/ prs' = [prs EXCEPT ![i][t.pr] = pr]
  BY DEF UpdatePR
<1>7. RemoteOK' /\ Grows
  <2>1. CASE prs' = prs
    BY <2>1, SameGrows DEF UpdatePR, RemoteOK, IInv, TypeOK, Grows
  <2>2. CASE prs' = [prs EXCEPT ![i][t.pr] = pr]
    <3>1. /\ prs' \in [Items -> Seq(PullRequest)] /\ \A j \in Items : Len(prs'[j]) <= MaxPRs
          /\ Grows
      BY <1>5, <2>2, PRSet DEF UpdatePR, IInv
    <3> QED
      BY <3>1 DEF UpdatePR, RemoteOK, IInv, TypeOK
  <2> QED
    BY <1>6, <2>1, <2>2
<1>8. CASE Set(r, i, u)
  <2>1. u \in Task
    BY <1>1 DEF Task, Working
  <2>2. t.pr \in DOMAIN prs'[i] /\ t.file \in seen'[i]
    BY <1>2, <1>7 DEF Grows, GrowsTo
  <2>3. Carries(prs'[i], seen'[i], u)
    BY <1>1, <2>2 DEF Task, Carries
  <2> QED
    BY <1>7, <1>8, <2>1, <2>3, WriteStep DEF UpdatePR, Owner
<1>9. CASE End(r, i, "error")
  BY <1>7, <1>9, WriteEnds DEF UpdatePR, Owner, Ended, Outcomes
<1> QED
  BY <1>8, <1>9 DEF UpdatePR

LEMMA CreatePRStep ==
    ASSUME IInv, NEW r \in Runs, NEW i \in Items, CreatePR(r, i) PROVE IInv'
<1> DEFINE t == task[r][i]
           v == run[r].version
           PR == [version |-> v, hash |-> t.file, state |-> "open", labelled |-> FALSE,
                  previous |-> baselineVersion(run[r].ds[i], v)]
           u == [t EXCEPT !.pc = "label", !.status = "created", !.pr = Len(prs[i]) + 1]
<1>1. t \in Task /\ t.file \in File /\ run[r].ds[i] \in Entry /\ v \in Versions
      /\ prs[i] \in Seq(PullRequest) /\ DOMAIN prs[i] \subseteq PRNumber
  BY Reads DEF IInv, Task
<1>2. t.file \in seen[i]
  BY <1>1 DEF IInv, Carries, CreatePR, At
<1>3. baselineVersion(run[r].ds[i], v) \in Versions \cup {NoVersion}
  BY <1>1 DEF baselineVersion, Entry, TemplateState
<1>4. ASSUME Len(prs[i]) < MaxPRs, prs' = [prs EXCEPT ![i] = Append(@, PR)]
      PROVE  /\ RemoteOK' /\ Grows
             /\ Len(prs[i]) + 1 \in DOMAIN prs'[i] /\ Len(prs[i]) + 1 \in PRNumber
  <2>1. PR \in PullRequest
    BY <1>1, <1>3 DEF PullRequest
  <2>2. LET later == Append(prs[i], PR)
        IN  /\ later \in Seq(PullRequest) /\ Len(later) = Len(prs[i]) + 1
            /\ GrowsTo(prs[i], later)
    BY <1>1, <2>1, PROpens
  <2>3. Len(prs[i]) + 1 <= MaxPRs /\ Len(prs[i]) \in Nat
    BY <1>1, <1>4, BoundAssumption
  <2>4. prs' \in [Items -> Seq(PullRequest)] /\ \A j \in Items : Len(prs'[j]) <= MaxPRs
    BY <1>4, <2>2, <2>3 DEF IInv, TypeOK
  <2>5. Grows
    BY <1>4, <2>2, SameGrows DEF CreatePR, IInv, TypeOK, Grows
  <2>6. Len(prs[i]) + 1 \in DOMAIN prs'[i] /\ Len(prs[i]) + 1 \in PRNumber
    BY <1>4, <2>2, <2>3, BoundAssumption DEF IInv, TypeOK, PRNumber
  <2> QED
    BY <2>4, <2>5, <2>6 DEF CreatePR, RemoteOK, IInv, TypeOK
<1>5. ASSUME Len(prs[i]) < MaxPRs, prs' = [prs EXCEPT ![i] = Append(@, PR)], Set(r, i, u)
      PROVE  IInv'
  <2>1. u \in Task
    BY <1>1, <1>4, <1>5 DEF Task, Working
  <2>2. u.pr \in DOMAIN prs'[i] /\ t.file \in seen'[i]
    BY <1>1, <1>2, <1>4, <1>5 DEF CreatePR, Task
  <2>3. Carries(prs'[i], seen'[i], u)
    BY <1>1, <2>2 DEF Task, Carries
  <2> QED
    BY <1>4, <1>5, <2>1, <2>3, WriteStep DEF CreatePR, Owner
<1>6. ASSUME Len(prs[i]) < MaxPRs, prs' = [prs EXCEPT ![i] = Append(@, PR)], End(r, i, "error")
      PROVE  IInv'
  BY <1>4, <1>6, WriteEnds DEF CreatePR, Owner, Ended, Outcomes
<1>7. CASE UNCHANGED prs /\ End(r, i, "error")
  <2>1. RemoteOK' /\ Grows
    BY <1>7, SameGrows DEF CreatePR, RemoteOK, IInv, TypeOK, Grows
  <2> QED
    BY <1>7, <2>1, WriteEnds DEF CreatePR, Owner, Ended, Outcomes
<1> QED
  BY <1>5, <1>6, <1>7 DEF CreatePR

LEMMA LabelPRStep ==
    ASSUME IInv, NEW r \in Runs, NEW i \in Items, LabelPR(r, i) PROVE IInv'
<1> DEFINE t == task[r][i]
           pr == [prs[i][t.pr] EXCEPT !.labelled = TRUE]
           next == IF CloseStalePRs THEN "stale" ELSE "close"
           u == [t EXCEPT !.pc = next]
<1>1. t \in Task /\ prs[i] \in Seq(PullRequest)
  BY Reads DEF IInv
<1>2. t.file \in seen[i] /\ t.pr \in DOMAIN prs[i] /\ t.status # ""
  BY <1>1 DEF IInv, Carries, LabelPR, At
<1>3. prs[i][t.pr] \in PullRequest
  <2>1. \A n \in DOMAIN prs[i] : prs[i][n] \in PullRequest
    BY <1>1
  <2> QED
    BY <1>2, <2>1
<1>4. pr \in PullRequest /\ pr.state = prs[i][t.pr].state
  BY <1>3 DEF PullRequest
<1>5. (prs' = prs \/ prs' = [prs EXCEPT ![i][t.pr] = pr]) /\ Set(r, i, u)
  BY DEF LabelPR, Goto
<1> HIDE DEF pr
<1>6. RemoteOK' /\ Grows
  <2>1. CASE prs' = prs
    BY <2>1, SameGrows DEF LabelPR, RemoteOK, IInv, TypeOK, Grows
  <2>2. CASE prs' = [prs EXCEPT ![i][t.pr] = pr]
    <3>1. /\ prs' \in [Items -> Seq(PullRequest)] /\ \A j \in Items : Len(prs'[j]) <= MaxPRs
          /\ Grows
      BY <1>4, <2>2, PRSet DEF LabelPR, IInv
    <3> QED
      BY <3>1 DEF LabelPR, RemoteOK, IInv, TypeOK
  <2> QED
    BY <1>5, <2>1, <2>2
<1>7. u \in Task
  BY <1>1 DEF Task, Working
<1>8. t.pr \in DOMAIN prs'[i] /\ t.file \in seen'[i]
  BY <1>2, <1>6 DEF Grows, GrowsTo
<1>9. Carries(prs'[i], seen'[i], u)
  BY <1>1, <1>2, <1>8 DEF Task, Carries
<1> QED
  BY <1>5, <1>6, <1>7, <1>9, WriteStep DEF LabelPR, Owner

LEMMA ClosePRStep ==
    ASSUME IInv, NEW r \in Runs, NEW i \in Items, ClosePR(r, i) PROVE IInv'
<1>1. PICK n \in task[r][i].stale :
        /\ \/ prs' = [prs EXCEPT ![i][n].state = IF @ = "open" THEN "closed" ELSE @]
           \/ UNCHANGED prs
        /\ Set(r, i, [task[r][i] EXCEPT !.stale = @ \ {n}])
  BY DEF ClosePR
<1> DEFINE t == [task[r][i] EXCEPT !.stale = @ \ {n}]
           pr == [prs[i][n] EXCEPT !.state = IF @ = "open" THEN "closed" ELSE @]
<1>2. task[r][i] \in Task /\ prs[i] \in Seq(PullRequest)
  BY Reads DEF IInv
<1>3. n \in DOMAIN prs[i] => /\ pr \in PullRequest
                             /\ prs[i][n].state = "merged" => pr.state = "merged"
  <2> SUFFICES ASSUME n \in DOMAIN prs[i]
               PROVE  pr \in PullRequest /\ (prs[i][n].state = "merged" => pr.state = "merged")
    OBVIOUS
  <2>1. prs[i][n] \in PullRequest
    BY <1>2
  <2> QED
    BY <2>1 DEF PullRequest
<1>4. RemoteOK' /\ Grows
  <2>1. CASE prs' = prs
    BY <2>1, SameGrows DEF ClosePR, RemoteOK, IInv, TypeOK, Grows
  <2>2. CASE prs' = [prs EXCEPT ![i][n] = pr]
    <3> HIDE DEF pr
    <3>1. \A j \in Items : seen[j] \subseteq seen'[j]
      BY DEF ClosePR
    <3>2. /\ prs' \in [Items -> Seq(PullRequest)] /\ \A j \in Items : Len(prs'[j]) <= MaxPRs
          /\ Grows
      BY <1>3, <2>2, <3>1, PRSet DEF IInv
    <3> QED
      BY <3>2 DEF ClosePR, RemoteOK, IInv, TypeOK
  <2> QED
    BY <1>1, <2>1, <2>2
<1>5. t \in Task
  BY <1>2 DEF Task
<1>6. Carries(prs'[i], seen'[i], t)
  <2>1. Carries(prs[i], seen[i], t)
    BY <1>2 DEF IInv, Task, Carries
  <2> QED
    BY <1>4, <2>1, CarriesGrows DEF Grows
<1> QED
  BY <1>1, <1>4, <1>5, <1>6, WriteStep DEF ClosePR, Owner

-----------------------------------------------------------------------------
(* Steps of a run as a whole.                                              *)
LEMMA RunMoves ==
    ASSUME IInv, NEW r \in Runs, NEW x \in Run, run' = [run EXCEPT ![r] = x],
           UNCHANGED template, UNCHANGED remote,
           \A j \in Items : Real(prs[j], seen[j], x.ds[j]),
           central' \in [rev : Nat, ds : DeploymentState],
           \A j \in Items : Real(prs[j], seen[j], central'.ds[j]),
           task' \in [Runs -> [Items -> Task]],
           \A q \in Runs, j \in Items :
               task'[q][j] = task[q][j] \/ task'[q][j].pc \in {"queued", "none"}
    PROVE  IInv'
<1>1. TypeOK'
  BY DEF IInv, TypeOK, remote
<1>2. ASSUME NEW q \in Runs, NEW j \in Items PROVE Real(prs[j], seen[j], run'[q].ds[j])
  <2>1. run'[q] = IF q = r THEN x ELSE run[q]
    BY DEF IInv, TypeOK
  <2> QED
    BY <2>1 DEF IInv, RecordsAreReal
<1>3. RecordsAreReal'
  BY <1>2 DEF RecordsAreReal, remote
<1>4. MainSeen'
  BY DEF IInv, MainSeen, remote
<1>5. \A q \in Runs, j \in Items : Carries(prs[j], seen[j], task'[q][j])
  BY DEF IInv, Carries
<1> QED
  BY <1>1, <1>3, <1>4, <1>5 DEF IInv, remote

LEMMA QueueTyped ==
    ASSUME TypeOK, NEW r \in Runs, Queue(r)
    PROVE  /\ task' \in [Runs -> [Items -> Task]]
           /\ \A q \in Runs, j \in Items :
                 task'[q][j] = task[q][j] \/ task'[q][j].pc \in {"queued", "none"}
<1> DEFINE t(i) == [Blank EXCEPT !.pc = IF i \in run[r].scope THEN "queued" ELSE "none"]
<1>1. \A i \in Items : t(i) \in Task /\ t(i).pc \in {"queued", "none"}
  BY ConstantTypes DEF Task, Ended, Waiting, Blank
<1>2. task' = [task EXCEPT ![r] = [i \in Items |-> t(i)]]
  BY DEF Queue, shouldApply
<1> HIDE DEF t
<1> QED
  BY <1>1, <1>2 DEF TypeOK

LEMMA StartStep == ASSUME IInv, NEW r \in Runs, Start(r) PROVE IInv'
<1>1. PICK scope \in Scopes, force \in Forces, dryRun \in DryRuns, phase \in {"load", "failed"} :
         run' = [run EXCEPT ![r] = [IdleRun EXCEPT !.phase = phase,
                   !.version = template.version, !.scope = scope,
                   !.force = force, !.dryRun = dryRun]]
  BY DEF Start
<1> DEFINE x == [IdleRun EXCEPT !.phase = phase, !.version = template.version,
                   !.scope = scope, !.force = force, !.dryRun = dryRun]
<1>2. template.version \in Versions
  BY DEF IInv, TypeOK
<1>3. scope \in SUBSET Items /\ force \in BOOLEAN /\ dryRun \in BOOLEAN
  BY SetAssumption
<1>4. x \in Run
  BY <1>2, <1>3, ConstantTypes DEF Run, Phases
<1>5. \A j \in Items : Real(prs[j], seen[j], x.ds[j])
  BY DEF Real, IdleRun, EmptyState
<1>6. central' = central /\ task' = task /\ template' = template /\ UNCHANGED remote
  BY DEF Start
<1>7. run' = [run EXCEPT ![r] = x]
  BY <1>1
<1> HIDE DEF x
<1> QED
  BY <1>4, <1>5, <1>6, <1>7, RunMoves DEF IInv, TypeOK, RecordsAreReal

LEMMA LoadStateStep == ASSUME IInv, NEW r \in Runs, loadState(r) PROVE IInv'
<1> DEFINE x == [run[r] EXCEPT !.phase = "work", !.ds = central.ds,
                               !.loaded = central.ds, !.sha = central.rev]
<1>1. x \in Run /\ x.ds = central.ds
  <2>1. run[r] \in Run /\ central.ds \in DeploymentState /\ central.rev \in Nat
    BY DEF IInv, TypeOK
  <2> QED
    BY <2>1 DEF Run, Phases
<1>2. run' = [run EXCEPT ![r] = x]
  <2>1. run = [q \in Runs |-> run[q]] /\ run[r] \in Run
    BY DEF IInv, TypeOK
  <2> QED
    BY <2>1 DEF loadState, Run
<1>3. task' \in [Runs -> [Items -> Task]]
      /\ \A q \in Runs, j \in Items :
            task'[q][j] = task[q][j] \/ task'[q][j].pc \in {"queued", "none"}
  BY QueueTyped DEF IInv, loadState
<1>4. central' = central /\ template' = template /\ UNCHANGED remote
  BY DEF loadState
<1> HIDE DEF x
<1> QED
  BY <1>1, <1>2, <1>3, <1>4, RunMoves DEF IInv, TypeOK, RecordsAreReal

LEMMA StartFreshStep == ASSUME IInv, NEW r \in Runs, startFresh(r) PROVE IInv'
<1>0. PICK sha \in Nat :
         run' = [run EXCEPT ![r].phase = "work", ![r].ds = EmptyState, ![r].sha = sha]
  <2>1. central.rev \in Nat
    BY DEF IInv, TypeOK
  <2>2. \E sha \in {0} \cup (IF Fails("load") THEN {central.rev} ELSE {}) :
           run' = [run EXCEPT ![r].phase = "work", ![r].ds = EmptyState, ![r].sha = sha]
    BY DEF startFresh
  <2> QED
    BY <2>1, <2>2, Zenon
<1> DEFINE x == [run[r] EXCEPT !.phase = "work", !.ds = EmptyState, !.sha = sha]
<1>1. x \in Run /\ x.ds = EmptyState
  <2>1. run[r] \in Run
    BY DEF IInv, TypeOK
  <2> QED
    BY <2>1, ConstantTypes DEF Run, Phases
<1>2. run' = [run EXCEPT ![r] = x]
  BY <1>0
<1>3. task' \in [Runs -> [Items -> Task]]
      /\ \A q \in Runs, j \in Items :
            task'[q][j] = task[q][j] \/ task'[q][j].pc \in {"queued", "none"}
  BY QueueTyped DEF IInv, startFresh
<1>4. central' = central /\ template' = template /\ UNCHANGED remote
  BY DEF startFresh
<1>5. \A j \in Items : Real(prs[j], seen[j], x.ds[j])
  BY <1>1 DEF Real, EmptyState
<1> HIDE DEF x
<1> QED
  BY <1>1, <1>2, <1>3, <1>4, <1>5, RunMoves DEF IInv, TypeOK, RecordsAreReal

(* A run that only changes its phase, while the state file is kept or      *)
(* replaced by the run's own state.                                        *)
LEMMA PhaseStep ==
    ASSUME IInv, NEW r \in Runs, NEW phase \in Phases,
           run' = [run EXCEPT ![r].phase = phase],
           central' \in {central, [rev |-> central.rev + 1, ds |-> run[r].ds]},
           UNCHANGED <<template, task>>, UNCHANGED remote
    PROVE  IInv'
<1> DEFINE x == [run[r] EXCEPT !.phase = phase]
<1>1. run[r] \in Run /\ run[r].ds \in DeploymentState
  BY DEF IInv, TypeOK, Run
<1>2. x \in Run /\ x.ds = run[r].ds
  BY <1>1 DEF Run
<1>3. central' \in [rev : Nat, ds : DeploymentState]
      /\ \A j \in Items : Real(prs[j], seen[j], central'.ds[j])
  <2>1. CASE central' = central
    BY <2>1 DEF IInv, TypeOK, RecordsAreReal
  <2>2. CASE central' = [rev |-> central.rev + 1, ds |-> run[r].ds]
    BY <1>1, <2>2 DEF IInv, TypeOK, RecordsAreReal
  <2> QED
    BY <2>1, <2>2
<1>4. run' = [run EXCEPT ![r] = x]
  OBVIOUS
<1>5. task' = task /\ task \in [Runs -> [Items -> Task]]
  BY DEF IInv, TypeOK
<1> HIDE DEF x
<1> QED
  BY <1>2, <1>3, <1>4, <1>5, RunMoves DEF IInv, RecordsAreReal

LEMMA SaveStateStep == ASSUME IInv, NEW r \in Runs, saveState(r) PROVE IInv'
<1>1. \E phase \in {"ok", "failed"} : run' = [run EXCEPT ![r].phase = phase]
  BY DEF saveState, Exit
<1>2. central' \in {central, [rev |-> central.rev + 1, ds |-> run[r].ds]}
  BY DEF saveState
<1> QED
  BY <1>1, <1>2, PhaseStep DEF saveState, Phases

LEMMA CrashStep == ASSUME IInv, NEW r \in Runs, Crash(r) PROVE IInv'
BY PhaseStep DEF Crash, Phases

-----------------------------------------------------------------------------
(* Steps of the people.                                                    *)
LEMMA BumpStep == ASSUME IInv, Bump PROVE IInv'
<1>1. template' \in [version : Versions, text : Texts]
  BY BoundAssumption DEF IInv, TypeOK, Bump, Versions
<1>2. RemoteOK' /\ Grows /\ MainSeen'
  BY SameGrows DEF Bump, remote, RemoteOK, IInv, TypeOK, Grows, MainSeen
<1> QED
  BY <1>1, <1>2, PeopleStep DEF Bump

LEMMA EditStep == ASSUME IInv, NEW i \in Items, Edit(i) PROVE IInv'
<1>1. PICK f \in File : /\ main' = [main EXCEPT ![i] = f]
                        /\ seen' = [seen EXCEPT ![i] = @ \cup {f}]
  BY SetAssumption DEF Edit
<1>2. RemoteOK' /\ Grows /\ MainSeen'
  BY <1>1, SameGrows DEF Edit, RemoteOK, IInv, TypeOK, Grows, MainSeen
<1> QED
  BY <1>2, PeopleStep DEF Edit, IInv, TypeOK

(* Merging, closing and reopening: the state of one pull request.          *)
LEMMA StateTyped ==
    ASSUME IInv, NEW i \in Items, NEW n \in DOMAIN prs[i],
           NEW s \in {"open", "closed", "merged"}
    PROVE  LET pr == [prs[i][n] EXCEPT !.state = s]
           IN  pr \in PullRequest /\ pr.state = s
<1>1. prs[i][n] \in PullRequest
  BY DEF IInv, TypeOK
<1> QED
  BY <1>1 DEF PullRequest

LEMMA CloseStep ==
    ASSUME IInv, NEW i \in Items, NEW n \in DOMAIN prs[i], Close(i, n) \/ Reopen(i, n) PROVE IInv'
<1>1. PICK s \in {"open", "closed"} :
         prs[i][n].state # "merged" /\ prs' = [prs EXCEPT ![i][n].state = s]
  BY DEF Close, Reopen
<1>2. UNCHANGED <<template, main, branch, central, run, task, seen>>
  BY DEF Close, Reopen
<1>3. /\ prs' \in [Items -> Seq(PullRequest)] /\ \A j \in Items : Len(prs'[j]) <= MaxPRs
      /\ Grows
  <2> DEFINE pr == [prs[i][n] EXCEPT !.state = s]
  <2>1. TypeOK /\ pr \in PullRequest
    BY StateTyped DEF IInv
  <2>2. prs' = [prs EXCEPT ![i][n] = pr]
    BY <1>1
  <2>3. prs[i][n].state # "merged" /\ \A j \in Items : seen[j] \subseteq seen'[j]
    BY <1>1, <1>2
  <2> HIDE DEF pr
  <2> QED
    BY <2>1, <2>2, <2>3, PRSet
<1>4. RemoteOK' /\ MainSeen'
  BY <1>2, <1>3 DEF RemoteOK, IInv, TypeOK, MainSeen
<1> QED
  BY <1>2, <1>3, <1>4, PeopleStep DEF IInv, TypeOK

LEMMA MergeStep ==
    ASSUME IInv, NEW i \in Items, NEW n \in DOMAIN prs[i], Merge(i, n) PROVE IInv'
<1> DEFINE pr == prs[i][n]
           b == branch[i][pr.version]
           f == [own |-> Merged(b.base.own, main[i].own, b.head.own),
                 managed |-> Merged(b.base.managed, main[i].managed, b.head.managed)]
<1>1. pr.version \in Versions /\ b \in Branch /\ main[i] \in File
  <2>1. pr \in PullRequest
    BY DEF IInv, TypeOK
  <2>2. pr.version \in Versions
    BY <2>1 DEF PullRequest
  <2>3. b # NoBranch
    BY DEF Merge
  <2> QED
    BY <2>2, <2>3 DEF IInv, TypeOK
<1>2. f \in File
  BY <1>1 DEF File, Branch, Merged
<1>3. /\ main' = [main EXCEPT ![i] = f]
      /\ seen' = [seen EXCEPT ![i] = @ \cup {f}]
      /\ prs' = [prs EXCEPT ![i][n].state = "merged"]
      /\ UNCHANGED <<template, central, run, task>>
  BY DEF Merge
<1>4. PICK after \in Branch \cup {NoBranch} :
         branch' = [branch EXCEPT ![i][pr.version] = after]
  <2>1. [base |-> b.head, head |-> b.head] \in Branch
    BY <1>1 DEF Branch
  <2> QED
    BY <2>1 DEF Merge
<1> HIDE DEF f
<1>5. branch' \in [Items -> [Versions -> Branch \cup {NoBranch}]]
  BY <1>1, <1>4, BranchSet DEF IInv
<1>6. /\ main' \in [Items -> File] /\ seen' \in [Items -> SUBSET File]
      /\ \A j \in Items : seen[j] \subseteq seen'[j] /\ main'[j] \in seen'[j]
  BY <1>2, <1>3 DEF IInv, TypeOK, MainSeen
<1>7. /\ prs' \in [Items -> Seq(PullRequest)] /\ \A j \in Items : Len(prs'[j]) <= MaxPRs
      /\ Grows
  <2> DEFINE new == [pr EXCEPT !.state = "merged"]
  <2>1. TypeOK /\ new \in PullRequest /\ new.state = "merged"
    BY StateTyped DEF IInv
  <2>2. prs' = [prs EXCEPT ![i][n] = new]
    BY <1>3
  <2> HIDE DEF new
  <2> QED
    BY <1>6, <2>1, <2>2, PRSet
<1>8. RemoteOK' /\ MainSeen'
  BY <1>5, <1>6, <1>7 DEF RemoteOK, MainSeen
<1> QED
  BY <1>3, <1>7, <1>8, PeopleStep DEF IInv, TypeOK

-----------------------------------------------------------------------------
LEMMA InvInit == Init => IInv
<1> SUFFICES ASSUME Init PROVE IInv
  OBVIOUS
<1>1. main \in [Items -> File]
  BY ConstantTypes, SetAssumption DEF Init
<1>2. TypeOK
  BY <1>1, ConstantTypes, BoundAssumption DEF Init, TypeOK, Versions
<1>3. RecordsAreReal
  BY DEF Init, RecordsAreReal, Real, EmptyState, IdleRun
<1>4. MainSeen /\ \A r \in Runs, i \in Items : Carries(prs[i], seen[i], task[r][i])
  BY DEF Init, MainSeen, Carries, Blank
<1> QED
  BY <1>2, <1>3, <1>4 DEF IInv

LEMMA WorkerStep ==
    ASSUME IInv, NEW r \in Runs, NEW i \in Items, syncOne(r, i) PROVE IInv'
BY ReadSourceStep, IsSymlinkStep, ReadExistingStep, InSyncStep, HashSkipStep, GetBaseStep,
   CreateBranchStep, ReadBranchFileStep, CreateOrUpdateFileStep, ListPRsStep, UpdatePRStep,
   CreatePRStep, LabelPRStep, ListStalePRsStep, ClosePRStep, RecordResultStep DEF syncOne, decide, propose

LEMMA InvNext == IInv /\ [Next]_vars => IInv'
<1> SUFFICES ASSUME IInv, [Next]_vars PROVE IInv'
  OBVIOUS
<1>1. ASSUME NEW r \in Runs, Start(r) \/ Crash(r) PROVE IInv'
  BY <1>1, StartStep, CrashStep
<1>2. ASSUME NEW r \in Runs, Step(r) PROVE IInv'
  BY <1>2, LoadStateStep, StartFreshStep, SaveStateStep, WorkerStep DEF Step
<1>3. CASE Bump
  BY <1>3, BumpStep
<1>4. ASSUME NEW i \in Items, People(i) PROVE IInv'
  BY <1>4, EditStep, MergeStep, CloseStep DEF People
<1>5. CASE UNCHANGED vars
  BY <1>5 DEF vars, IInv, TypeOK, RecordsAreReal, MainSeen
<1> QED
  BY <1>1, <1>2, <1>3, <1>4, <1>5 DEF Next

(* The inductive invariant holds of every behaviour (all of SyncRun).      *)
THEOREM InvHolds == Spec => []IInv
<1> QED
  BY InvInit, InvNext, PTL DEF Spec

(* The deployment state never lies (Run, syncOne, saveState): whatever     *)
(* fails, is killed, overlaps or is undone by people, every record in the  *)
(* central file and in a run's memory names a real PR, calls merged only   *)
(* what is merged, and has the hash of content that was really delivered.  *)
THEOREM RecordsAreRealHolds == Spec => []RecordsAreReal
<1>1. IInv => RecordsAreReal
  BY DEF IInv
<1> QED
  BY <1>1, InvHolds, PTL
=============================================================================
