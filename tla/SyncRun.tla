------------------------------- MODULE SyncRun -------------------------------
(***************************************************************************)
(* strspc sync (internal/sync/sync.go) rolling one template out to its     *)
(* target repositories.  Each run is one process of the CLI: it loads the  *)
(* deployment state from the central repository, works on its targets      *)
(* concurrently under a semaphore, and saves the state back.  A worker     *)
(* makes one GitHub request per step; other runs and the people who own    *)
(* the repositories act between any two of them.                           *)
(*                                                                         *)
(* A file is what the target's owners wrote (own) and what the template    *)
(* put there (managed).  A content hash identifies a file.  A commit to a  *)
(* sync branch, and the commit of the state file, are the atomic           *)
(* conditional writes of AtomicFile.                                       *)
(***************************************************************************)
EXTENDS Integers, Sequences, FiniteSets

CONSTANTS
    Items,          \* target repositories, each with one work item
    Runs,           \* processes: each runs strspc sync at most once
    Owns,           \* what the owners can write outside the managed part
    Texts,          \* what the template can say
    Nil,            \* no such part; a file with neither part does not exist
    MaxVersion,     \* bound on template versions
    MaxPRs,         \* bound on pull requests per repository
    Markers,        \* items whose strategy is "marker"; the others replace
    Symlinks,       \* items whose destination is a symlink
    Scopes,         \* what target filters can select
    Forces,         \* values of --force that occur
    DryRuns,        \* values of --dry-run that occur
    Concurrency,    \* sync.concurrency
    CloseStalePRs,  \* sync.close_stale_prs
    Seeded,         \* does the central repository hold a state file at first?
    Overlap,        \* may two runs be active at once (no concurrency group)?
    Faulty,         \* the requests that can fail here, see Requests
    Humans,         \* what people do here, see Acts
    Edits           \* files people write to the default branch

Requests == {"resolve", "load", "source", "symlink", "existing", "get", "base",
             "branch", "read", "commit", "list", "update", "create", "label",
             "stale", "close", "save", "crash"}
Acts == {"bump", "edit", "merge", "prune", "close", "reopen"}

Versions == 1..MaxVersion
NoVersion == 0                      \* the empty version string
File == [own : Owns \cup {Nil}, managed : Texts \cup {Nil}]
Absent == [own |-> Nil, managed |-> Nil]

ASSUME BoundAssumption == /\ MaxVersion \in Nat \ {0} /\ MaxPRs \in Nat
                          /\ Concurrency \in Nat \ {0}
ASSUME NilAssumption == Nil \notin Owns /\ Nil \notin Texts
ASSUME SetAssumption ==
    /\ Markers \subseteq Items /\ Symlinks \subseteq Items
    /\ Scopes \subseteq SUBSET Items
    /\ Forces \subseteq BOOLEAN /\ DryRuns \subseteq BOOLEAN
    /\ {CloseStalePRs, Overlap, Seeded} \subseteq BOOLEAN
    /\ Faulty \subseteq Requests /\ Humans \subseteq Acts /\ Edits \subseteq File

VARIABLES
    template,   \* the template at the head of the central repository
    main,       \* main[i]: the destination file on i's default branch
    branch,     \* branch[i][v]: the sync branch of version v in i
    prs,        \* prs[i]: i's sync pull requests, by number
    central,    \* the deployment state file and its revision
    run,        \* run[r]: the Syncer of run r
    task,       \* task[r][i]: the worker of run r for item i
    seen        \* history: files ever on i's default or sync branches

vars == <<template, main, branch, prs, central, run, task, seen>>
remote == <<main, branch, prs, seen>>       \* the target repositories

-----------------------------------------------------------------------------
(* state.TemplateState; stamp stands for Timestamp, unique to a run.       *)
PRNumber == 0..MaxPRs                                   \* 0: no PR recorded
TemplateState == [version : Versions, hash : File, pr : PRNumber,
                  status : {"", "open", "closed", "merged"},
                  previous : Versions \cup {NoVersion}, stamp : Runs]
NoEntry == [version |-> NoVersion]
DeploymentState == [Items -> TemplateState \cup {NoEntry}]
EmptyState == [i \in Items |-> NoEntry]
ASSUME NilIsNoState == Nil \notin DeploymentState

(* A sync branch holds one commit series: the file where it was cut and    *)
(* the file at its head.                                                   *)
Branch == [base : File, head : File]
NoBranch == [base |-> Nil]

PullRequest == [version : Versions, hash : File, state : {"open", "closed", "merged"},
                labelled : BOOLEAN, previous : Versions \cup {NoVersion}]

Phases == {"idle", "load", "work", "ok", "failed", "crashed"}
Run == [phase : Phases, version : Versions, force : BOOLEAN, dryRun : BOOLEAN,
        scope : SUBSET Items, ds : DeploymentState, sha : Nat,
        loaded : DeploymentState \cup {Nil}]
IdleRun == [phase |-> "idle", version |-> 1, force |-> FALSE, dryRun |-> FALSE,
            scope |-> {}, ds |-> EmptyState, sha |-> 0, loaded |-> Nil]

Outcomes == {"created", "updated", "skipped", "declined", "error"}
Ended == Outcomes \cup {"none"}
Waiting == {"queued"}
Working == {"symlink", "existing", "inSync", "hashSkip", "base", "branch", "read",
            "commit", "list", "update", "create", "label", "stale", "close"}
Task == [pc : Ended \cup Waiting \cup Working, text : Texts \cup {Nil},
         file : File, base : File, sha : File, pr : PRNumber,
         status : {"", "created", "updated"}, stale : SUBSET PRNumber]
Blank == [pc |-> "none", text |-> Nil, file |-> Absent, base |-> Absent,
          sha |-> Absent, pr |-> 0, status |-> "", stale |-> {}]

TypeOK ==
    /\ template \in [version : Versions, text : Texts]
    /\ main \in [Items -> File]
    /\ branch \in [Items -> [Versions -> Branch \cup {NoBranch}]]
    /\ prs \in [Items -> Seq(PullRequest)] /\ \A i \in Items : Len(prs[i]) <= MaxPRs
    /\ central \in [rev : Nat, ds : DeploymentState]
    /\ run \in [Runs -> Run]
    /\ task \in [Runs -> [Items -> Task]]
    /\ seen \in [Items -> SUBSET File]

-----------------------------------------------------------------------------
(* template.Render: the marker strategy keeps what is outside its markers. *)
Render(i, text, existing) ==
    [own |-> IF i \in Markers THEN existing.own ELSE Nil, managed |-> text]

Fails(request) == request \in Faulty

(* The open pull request whose head is the branch of version v: GitHub     *)
(* accepts one per head.                                                   *)
OpenFor(i, v) == {n \in DOMAIN prs[i] : prs[i][n].state = "open" /\ prs[i][n].version = v}

(* baselineVersion: the version the pull request body calls previous.      *)
baselineVersion(entry, proposed) ==
    CASE entry = NoEntry -> NoVersion
      [] entry # NoEntry /\ entry.version = proposed /\ entry.previous # NoVersion
            -> entry.previous
      [] OTHER -> entry.version

(* refreshPRStatus: the status of the recorded pull request, looked up     *)
(* unless it is merged already; a failed lookup leaves the record alone.   *)
Lookup(i, entry) == entry # NoEntry /\ entry.pr # 0 /\ entry.status # "merged"
refreshIgnoringMerged(i, entry) ==          \* mutant: closed means merged
    IF Lookup(i, entry) /\ entry.pr \in DOMAIN prs[i]
    THEN [entry EXCEPT !.status = IF prs[i][entry.pr].state = "open" THEN "open" ELSE "merged"]
    ELSE entry
refreshPRStatus(i, entry) ==
    IF Lookup(i, entry) /\ entry.pr \in DOMAIN prs[i]
    THEN [entry EXCEPT !.status = prs[i][entry.pr].state] ELSE entry

(* recordInSync: version and hash, keeping the record of the pull request. *)
recordWithoutVersion(entry, r, file) ==     \* mutant: the version is not set
    [version |-> NoVersion, hash |-> file, pr |-> 0, status |-> "",
     previous |-> NoVersion, stamp |-> r]
recordWithoutStatus(entry, r, file) ==      \* mutant: the PR is kept, its status lost
    [version |-> run[r].version, hash |-> file, pr |-> IF entry = NoEntry THEN 0 ELSE entry.pr,
     status |-> "", previous |-> NoVersion, stamp |-> r]
recordInSync(entry, r, file) ==
    LET now == [version |-> run[r].version, hash |-> file, pr |-> 0, status |-> "",
                previous |-> NoVersion, stamp |-> r]
    IN  CASE entry = NoEntry -> now
          [] entry # NoEntry /\ entry.hash = file /\ entry.version = run[r].version -> entry
          [] OTHER -> [now EXCEPT !.pr = entry.pr, !.status = entry.status,
                                  !.previous = entry.previous]

-----------------------------------------------------------------------------
Init ==
    /\ template \in [version : {1}, text : Texts]
    /\ main \in [Items -> Edits \cup {Absent}]
    /\ branch = [i \in Items |-> [v \in Versions |-> NoBranch]]
    /\ prs = [i \in Items |-> <<>>]
    /\ central = [rev |-> IF Seeded THEN 1 ELSE 0, ds |-> EmptyState]
    /\ run = [r \in Runs |-> IdleRun]
    /\ task = [r \in Runs |-> [i \in Items |-> Blank]]
    /\ seen = [i \in Items |-> {main[i]}]

Active(r) == run[r].phase \in {"load", "work"}
At(r, i, l) == run[r].phase = "work" /\ task[r][i].pc = l
Set(r, i, t) == task' = [task EXCEPT ![r][i] = t]
Goto(r, i, l) == Set(r, i, [task[r][i] EXCEPT !.pc = l])
End(r, i, how) == Set(r, i, [Blank EXCEPT !.pc = how])
SetTemplateState(r, i, entry) == run' = [run EXCEPT ![r].ds[i] = entry]

(* Worker steps before the first write touch nothing but the worker.       *)
Local == UNCHANGED <<template, central, run>> /\ UNCHANGED remote
Owner == UNCHANGED <<template, central, run>>

(* One invocation: the flags and the configuration are read, the targets   *)
(* resolved and filtered.                                                  *)
Start(r) ==
    /\ run[r].phase = "idle"
    /\ Overlap \/ \A q \in Runs : ~Active(q)
    /\ \E scope \in Scopes, force \in Forces, dryRun \in DryRuns :
       \E phase \in {"load"} \cup (IF Fails("resolve") THEN {"failed"} ELSE {}) :
          run' = [run EXCEPT ![r] = [IdleRun EXCEPT !.phase = phase,
                    !.version = template.version, !.scope = scope,
                    !.force = force, !.dryRun = dryRun]]
    /\ UNCHANGED <<template, central, task>> /\ UNCHANGED remote

(* The target filter, the template filter and the overrides of the         *)
(* registry: what of the configuration this run works on.                  *)
shouldApply(r, i) == i \in run[r].scope
Queue(r) == task' = [task EXCEPT ![r] =
    [i \in Items |-> [Blank EXCEPT !.pc = IF shouldApply(r, i) THEN "queued" ELSE "none"]]]

loadState(r) ==
    /\ run[r].phase = "load"
    /\ central.rev # 0
    /\ run' = [run EXCEPT ![r].phase = "work", ![r].ds = central.ds,
                          ![r].loaded = central.ds, ![r].sha = central.rev]
    /\ Queue(r)
    /\ UNCHANGED <<template, central>> /\ UNCHANGED remote

(* There is no state file, or it could not be read or parsed: the run      *)
(* starts fresh.  It has no sha to save against, except that of a file     *)
(* that was read and did not parse.                                        *)
startFresh(r) ==
    /\ run[r].phase = "load"
    /\ central.rev = 0 \/ Fails("load")
    /\ \E sha \in {0} \cup (IF Fails("load") THEN {central.rev} ELSE {}) :
          run' = [run EXCEPT ![r].phase = "work", ![r].ds = EmptyState, ![r].sha = sha]
    /\ Queue(r)
    /\ UNCHANGED <<template, central>> /\ UNCHANGED remote

(* A worker takes a slot of the semaphore and reads the template source at *)
(* the head of the central repository, which may be ahead of the           *)
(* configuration the run started with.                                     *)
FreeUnlessError(r) ==                       \* mutant: an error leaks the slot
    Cardinality({i \in Items : task[r][i].pc \in Working \cup {"error"}}) < Concurrency
Free(r) == Cardinality({i \in Items : task[r][i].pc \in Working}) < Concurrency
ReadSource(r, i) ==
    /\ At(r, i, "queued")
    /\ Free(r)
    /\ \/ Set(r, i, [Blank EXCEPT !.pc = "symlink", !.text = template.text])
       \/ Fails("source") /\ End(r, i, "error")
    /\ Local

IsSymlink(r, i) ==
    /\ At(r, i, "symlink")
    /\ \/ i \in Symlinks /\ End(r, i, "skipped")
       \/ i \notin Symlinks /\ Goto(r, i, "existing")
       \/ Fails("symlink") /\ End(r, i, "error")
    /\ Local

(* The hash gate: the state already records this content.                  *)
RecordedUnlessClosed(r, i, file) ==         \* mutant: a closed PR is retried
    /\ run[r].ds[i] # NoEntry /\ run[r].ds[i].hash = file
    /\ run[r].ds[i].status # "closed"
Recorded(r, i, file) == run[r].ds[i] # NoEntry /\ run[r].ds[i].hash = file

(* The destination is read (a 404 is an absent file), the template         *)
(* rendered onto it, and the worker decides.                               *)
ReadExisting(r, i) ==
    LET file == Render(i, task[r][i].text, main[i])
        current == main[i] # Absent /\ main[i] = file
        next == CASE current /\ run[r].dryRun -> "skipped"
                  [] current /\ ~run[r].dryRun -> "inSync"
                  [] ~current /\ Recorded(r, i, file) /\ ~run[r].force -> "hashSkip"
                  [] OTHER -> IF run[r].dryRun THEN "skipped" ELSE "base"
    IN  /\ At(r, i, "existing")
        /\ \/ next = "skipped" /\ End(r, i, "skipped")
           \/ next # "skipped" /\ Set(r, i, [Blank EXCEPT !.pc = next, !.file = file])
           \/ Fails("existing") /\ End(r, i, "error")
        /\ Local

(* The default branch is current: refresh the recorded PR, then record.    *)
InSync(r, i) ==
    /\ At(r, i, "inSync")
    /\ \E entry \in {refreshPRStatus(i, run[r].ds[i])}
                    \cup (IF Fails("get") THEN {run[r].ds[i]} ELSE {}) :
          SetTemplateState(r, i, recordInSync(entry, r, task[r][i].file))
    /\ End(r, i, "skipped")
    /\ UNCHANGED <<template, central>> /\ UNCHANGED remote

(* The content is recorded already: refresh the recorded PR and report a   *)
(* declined one.                                                           *)
HashSkip(r, i) ==
    /\ At(r, i, "hashSkip")
    /\ \E entry \in {refreshPRStatus(i, run[r].ds[i])}
                    \cup (IF Fails("get") THEN {run[r].ds[i]} ELSE {}) :
          /\ SetTemplateState(r, i, entry)
          /\ End(r, i, IF entry.status = "closed" THEN "declined" ELSE "skipped")
    /\ UNCHANGED <<template, central>> /\ UNCHANGED remote

getBaseSHA(r, i) ==
    /\ At(r, i, "base")
    /\ \/ Set(r, i, [task[r][i] EXCEPT !.pc = "branch", !.base = main[i]])
       \/ Fails("base") /\ End(r, i, "error")
    /\ Local

(* CreateBranch answers 422 when the branch exists, and that is tolerated. *)
noErrorTolerated(answer) == FALSE           \* mutant: every error is final
isAlreadyExists(answer) == answer = "already exists"
CreateBranch(r, i) ==
    LET v == run[r].version
        answer == IF branch[i][v] = NoBranch THEN "created" ELSE "already exists"
        cut == [branch EXCEPT ![i][v] = IF answer # "created" THEN @
                  ELSE [base |-> task[r][i].base, head |-> task[r][i].base]]
    IN  /\ At(r, i, "branch")
        /\ \/ /\ branch' = cut
              /\ IF answer = "created" \/ isAlreadyExists(answer)
                 THEN Goto(r, i, "read") ELSE End(r, i, "error")
           \/ Fails("branch") /\ branch' \in {branch, cut} /\ End(r, i, "error")
        /\ Owner /\ UNCHANGED <<main, prs, seen>>

(* The sha to write against: none when the file, or the branch, is gone.   *)
ReadBranchFile(r, i) ==
    LET b == branch[i][run[r].version]
    IN  /\ At(r, i, "read")
        /\ \/ Set(r, i, [task[r][i] EXCEPT !.pc = "commit",
                           !.sha = IF b = NoBranch THEN Absent ELSE b.head])
           \/ Fails("read") /\ End(r, i, "error")
        /\ Local

CreateOrUpdateFile(r, i) ==
    LET v == run[r].version
        b == branch[i][v]
        file == task[r][i].file
        matches == b # NoBranch /\ task[r][i].sha \in {Absent, b.head}
        Written == /\ matches
                   /\ branch' = [branch EXCEPT ![i][v] = [base |-> b.base, head |-> file]]
                   /\ seen' = [seen EXCEPT ![i] = @ \cup {file}]
    IN  /\ At(r, i, "commit")
        /\ \/ Written /\ Goto(r, i, "list")
           \/ Fails("commit") /\ Written /\ End(r, i, "error")
           \/ /\ ~matches \/ Fails("commit")
              /\ UNCHANGED <<branch, seen>>
              /\ End(r, i, "error")
        /\ Owner /\ UNCHANGED <<main, prs>>

(* The PR is looked up by its head; a failed lookup counts as none.        *)
ListPRs(r, i) ==
    /\ At(r, i, "list")
    /\ \/ \E n \in OpenFor(i, run[r].version) :
             Set(r, i, [task[r][i] EXCEPT !.pc = "update", !.pr = n])
       \/ /\ OpenFor(i, run[r].version) = {} \/ Fails("list")
          /\ Goto(r, i, "create")
    /\ Local

UpdatePR(r, i) ==
    LET t == task[r][i]
        updated == [prs EXCEPT ![i][t.pr] = [@ EXCEPT !.hash = t.file,
             !.previous = baselineVersion(run[r].ds[i], run[r].version)]]
    IN  /\ At(r, i, "update")
        /\ \/ /\ prs' = updated
              /\ Set(r, i, [t EXCEPT !.pc = IF CloseStalePRs THEN "stale" ELSE "close",
                                     !.status = "updated"])
           \/ Fails("update") /\ prs' \in {prs, updated} /\ End(r, i, "error")
        /\ Owner /\ UNCHANGED <<main, branch, seen>>

(* GitHub refuses a second open PR for a head, and a head that is gone.    *)
(* When the reply is lost, nobody knows the number of the new PR.          *)
CreatePR(r, i) ==
    LET t == task[r][i]
        v == run[r].version
        accepted == branch[i][v] # NoBranch /\ OpenFor(i, v) = {} /\ Len(prs[i]) < MaxPRs
        PR == [version |-> v, hash |-> t.file, state |-> "open", labelled |-> FALSE,
               previous |-> baselineVersion(run[r].ds[i], v)]
        Opened == prs' = [prs EXCEPT ![i] = Append(@, PR)]
    IN  /\ At(r, i, "create")
        /\ \/ /\ accepted /\ Opened
              /\ Set(r, i, [t EXCEPT !.pc = "label", !.status = "created", !.pr = Len(prs[i]) + 1])
           \/ Fails("create") /\ accepted /\ Opened /\ End(r, i, "error")
           \/ (~accepted \/ Fails("create")) /\ UNCHANGED prs /\ End(r, i, "error")
        /\ Owner /\ UNCHANGED <<main, branch, seen>>

(* The label is a request of its own; when it fails the PR is kept.        *)
LabelPR(r, i) ==
    LET t == task[r][i]
        labelled == [prs EXCEPT ![i][t.pr].labelled = TRUE]
    IN  /\ At(r, i, "label")
        /\ \/ prs' = labelled
           \/ Fails("label") /\ UNCHANGED prs
        /\ Goto(r, i, IF CloseStalePRs THEN "stale" ELSE "close")
        /\ Owner /\ UNCHANGED <<main, branch, seen>>

(* closeStalePRs lists the open labelled PRs of the template and closes    *)
(* all but its own; errors are dropped.                                    *)
SameVersion(i, own) ==                      \* mutant: other versions are left
    {n \in DOMAIN prs[i] : /\ prs[i][n].state = "open" /\ prs[i][n].labelled
                           /\ n # own /\ prs[i][n].version = prs[i][own].version}
WithOwn(i, own) ==                          \* mutant: its own is not left out
    {n \in DOMAIN prs[i] : prs[i][n].state = "open" /\ prs[i][n].labelled}
Stale(i, own) ==
    {n \in DOMAIN prs[i] : prs[i][n].state = "open" /\ prs[i][n].labelled /\ n # own}
ListStalePRs(r, i) ==
    /\ At(r, i, "stale")
    /\ \E stale \in {Stale(i, task[r][i].pr)} \cup (IF Fails("stale") THEN {{}} ELSE {}) :
          Set(r, i, [task[r][i] EXCEPT !.pc = "close", !.stale = stale])
    /\ Local

ClosePR(r, i) ==
    /\ At(r, i, "close")
    /\ \E n \in task[r][i].stale :
          /\ \/ prs' = [prs EXCEPT ![i][n].state = IF @ = "open" THEN "closed" ELSE @]
             \/ Fails("close") /\ UNCHANGED prs
          /\ Set(r, i, [task[r][i] EXCEPT !.stale = @ \ {n}])
    /\ Owner /\ UNCHANGED <<main, branch, seen>>

(* The result goes into the run's deployment state.                        *)
Record(r, i) ==
    LET t == task[r][i]
        v == run[r].version
    IN  /\ At(r, i, "close")
        /\ t.stale = {}
        /\ SetTemplateState(r, i, [version |-> v, hash |-> t.file, pr |-> t.pr,
             status |-> "open", previous |-> baselineVersion(run[r].ds[i], v), stamp |-> r])
        /\ Set(r, i, [Blank EXCEPT !.pc = t.status, !.pr = t.pr])
        /\ UNCHANGED <<template, central>> /\ UNCHANGED remote

Errors(r) == {i \in Items : task[r][i].pc = "error"}
ExitUnsaved(r, saved) ==                    \* mutant: a failed save is only logged
    run' = [run EXCEPT ![r].phase = IF Errors(r) = {} THEN "ok" ELSE "failed"]
Exit(r, saved) == run' = [run EXCEPT ![r].phase =
                             IF saved /\ Errors(r) = {} THEN "ok" ELSE "failed"]

(* Is there anything to commit?  Not on a dry run, nor when nothing was    *)
(* recorded since the state was loaded.                                    *)
WantedOnDryRun(r) == run[r].ds # run[r].loaded              \* mutant: --dry-run saves
Wanted(r) == ~run[r].dryRun /\ run[r].ds # run[r].loaded

(* The conditional write of the state file; no sha writes whatever is there. *)
AnyMatches(r) == TRUE                       \* mutant: saved without the sha
Matches(r) == run[r].sha \in {0, central.rev}

(* Every worker is done: tally, save the state unless nothing was recorded *)
(* or this is a dry run, and exit.                                         *)
saveState(r) ==
    LET written == [rev |-> central.rev + 1, ds |-> run[r].ds]
    IN  /\ run[r].phase = "work"
        /\ \A i \in Items : task[r][i].pc \in Ended
        /\ \/ ~Wanted(r) /\ UNCHANGED central /\ Exit(r, TRUE)
           \/ Wanted(r) /\ Matches(r) /\ central' = written /\ Exit(r, TRUE)
           \/ Wanted(r) /\ ~Matches(r) /\ UNCHANGED central /\ Exit(r, FALSE)
           \/ /\ Wanted(r) /\ Fails("save") /\ Exit(r, FALSE)
              /\ central' \in {central} \cup (IF Matches(r) THEN {written} ELSE {})
        /\ UNCHANGED <<template, task>> /\ UNCHANGED remote

(* The process is killed, or its deadline passes: every later request of   *)
(* its context fails, the save included.                                   *)
Crash(r) ==
    /\ Active(r) /\ Fails("crash")
    /\ run' = [run EXCEPT ![r].phase = "crashed"]
    /\ UNCHANGED <<template, central, task>> /\ UNCHANGED remote

-----------------------------------------------------------------------------
(* People.                                                                 *)

Bump ==
    /\ "bump" \in Humans /\ template.version < MaxVersion
    /\ \E text \in Texts : template' = [version |-> template.version + 1, text |-> text]
    /\ UNCHANGED <<central, run, task>> /\ UNCHANGED remote

Edit(i) ==
    /\ "edit" \in Humans
    /\ \E f \in Edits \ {main[i]} :
          /\ main' = [main EXCEPT ![i] = f]
          /\ seen' = [seen EXCEPT ![i] = @ \cup {f}]
    /\ UNCHANGED <<template, branch, prs, central, run, task>>

(* One part of a three-way merge.                                          *)
Merged(base, ours, theirs) == IF theirs = base THEN ours ELSE theirs
Conflict(base, ours, theirs) == theirs # base /\ ours # base /\ ours # theirs

Merge(i, n) ==
    LET pr == prs[i][n]
        b == branch[i][pr.version]
        f == [own |-> Merged(b.base.own, main[i].own, b.head.own),
              managed |-> Merged(b.base.managed, main[i].managed, b.head.managed)]
    IN  /\ "merge" \in Humans
        /\ pr.state = "open" /\ b # NoBranch
        /\ ~Conflict(b.base.own, main[i].own, b.head.own)
        /\ ~Conflict(b.base.managed, main[i].managed, b.head.managed)
        /\ main' = [main EXCEPT ![i] = f]
        /\ seen' = [seen EXCEPT ![i] = @ \cup {f}]
        /\ prs' = [prs EXCEPT ![i][n].state = "merged"]
        /\ \E after \in {[base |-> b.head, head |-> b.head]}
                        \cup (IF "prune" \in Humans THEN {NoBranch} ELSE {}) :
              branch' = [branch EXCEPT ![i][pr.version] = after]
        /\ UNCHANGED <<template, central, run, task>>

Close(i, n) ==
    /\ "close" \in Humans /\ prs[i][n].state = "open"
    /\ prs' = [prs EXCEPT ![i][n].state = "closed"]
    /\ UNCHANGED <<template, main, branch, central, run, task, seen>>

Reopen(i, n) ==
    /\ "reopen" \in Humans /\ prs[i][n].state = "closed"
    /\ branch[i][prs[i][n].version] # NoBranch /\ OpenFor(i, prs[i][n].version) = {}
    /\ prs' = [prs EXCEPT ![i][n].state = "open"]
    /\ UNCHANGED <<template, main, branch, central, run, task, seen>>

-----------------------------------------------------------------------------
(* One target: decide whether it needs a change, then propose the change   *)
(* by a branch, a commit and a pull request.                               *)
decide(r, i) ==
    \/ ReadSource(r, i) \/ IsSymlink(r, i) \/ ReadExisting(r, i) \/ InSync(r, i)
    \/ HashSkip(r, i)
propose(r, i) ==
    \/ getBaseSHA(r, i) \/ CreateBranch(r, i)
    \/ ReadBranchFile(r, i) \/ CreateOrUpdateFile(r, i) \/ ListPRs(r, i)
    \/ UpdatePR(r, i) \/ CreatePR(r, i) \/ LabelPR(r, i) \/ ListStalePRs(r, i)
    \/ ClosePR(r, i) \/ Record(r, i)
syncOne(r, i) == decide(r, i) \/ propose(r, i)

Step(r) == loadState(r) \/ startFresh(r) \/ saveState(r) \/ \E i \in Items : syncOne(r, i)

People(i) == Edit(i) \/ \E n \in DOMAIN prs[i] : Merge(i, n) \/ Close(i, n) \/ Reopen(i, n)

Next ==
    \/ \E r \in Runs : Start(r) \/ Step(r) \/ Crash(r)
    \/ Bump
    \/ \E i \in Items : People(i)

Spec == Init /\ [][Next]_vars

(* A started process keeps running: its workers are goroutines, and every  *)
(* request ends by an answer or the client's 30 s timeout.                 *)
FairSpec == Spec /\ \A r \in Runs : WF_vars(Step(r))
=============================================================================
