# strspc-sync, specified in TLA+

`strspc` distributes AI configuration files from one central repository to the
repositories of a GitHub organization, by pull request. It is a batch program:
each `strspc sync`, `strspc monitor` or `strspc conflict` is a process of its
own, started by cron, by hand or by a workflow, that talks to GitHub, writes
what it did to one state file in the central repository and exits. Everything
that makes it hard is in that sentence: the only memory is on the other side
of requests that fail or lose their replies, two processes may run at once,
any of them may be killed between two requests, and people merge, close and
edit in between.

This directory holds the models, their TLC configurations and the TLAPS
proofs. `PROJECT.json` maps every definition to the lines it translates.

## 1. Inventory

| Component | State it keeps | Operations | Who it talks to |
|---|---|---|---|
| sync engine, `internal/sync/sync.go` | `s.state` under `stateMu`, `stateSHA`, `stateLoaded`; results under `mu`; a semaphore | `Run`, `syncOne`, `refreshPRStatus`, `recordInSync`, `closeStalePRs`, `loadState`, `saveState` | pull request and repository services, template, state |
| deployment state, `internal/state/state.go` | a map repository -> template -> record | `Load`, `Save`, `Fingerprint`, `Get/SetTemplateState` | a file of the central repository |
| conditional commit, `internal/github/repos.go`, `graphql.go` | none of its own; branch heads at GitHub | `CreateOrUpdateFile`, `commitFile` | GitHub |
| pull request service, `internal/github/pulls.go` | none | `List`, `Create` (and its label request), `Update`, `Close`, `Get`, `CreateBranch` | GitHub |
| repository service, `internal/github/repos.go` | none | reads, `GetDefaultBranch`, `IsSymlink`, `ListByOrg`, `ListByTopic` | GitHub |
| rate limiter, `internal/github/client.go` | `remaining`, `resetAt` under a mutex, shared by all workers | `do`, `waitIfBelowThreshold`, `updateRateLimitState`, `doRequest` | every request goes through it |
| drift monitor, `internal/monitor/monitor.go` | the issues of the central repository | `Run`, `findIssueByFingerprintOrTitle` | deployment state (read), issue service, repository service |
| issue service, `internal/github/issues.go` | none | `List`, `Create`, `Update`, `Close` | GitHub |
| registry, `internal/registry` | none | `Resolve`: include patterns, topics, exclude patterns, overrides | repository service |
| template rendering, `internal/template` | none | `Render`, markers, mustache, variables | called by sync |
| conflict detection, `internal/conflict` | the issues of the targets and of the central repository; `incomplete`, `missingTracked` of one run | `Run`: tiers 1 to 3, `createIssuesForConflicts`, `closeResolvedIssues` | deployment state (read), issue service, repository service |
| configuration, authentication, hash, log, command line, actions | flags, tokens | start-up, exit status, deadline | everything |

How they interact. `cmd/strspc/main.go` builds one client and one context with
a deadline. `sync.Run` resolves the targets, loads the state file, starts one
goroutine per work item behind a semaphore, waits, tallies, saves the state
conditionally on the sha it read, and the exit status is 0 only if nothing
failed. `syncOne` makes up to twelve requests, in the order: template source,
symlink test, destination file, earlier PR, base sha, branch, file on the
branch, commit, open PRs, update or create, label, stale PRs and their closing.
The monitor reads the state file sync writes and compares with the targets;
conflict detection takes its targets from the same file.
The only shared memory in a process is the state map, the result list and the
rate-limit counters, each behind a mutex; between processes it is GitHub.

What is hard, and what makes each component correct:

* **sync engine**: interleaving of workers, of runs and of people between any
  two of the requests of `syncOne`; requests whose effect happened although
  they failed; a process killed between branch, commit, PR and save; a stale
  read used after other people acted. Correct means: records are never false,
  overlapping runs do not undo each other, a dead run leaves nothing that
  breaks the next one, one open PR per target, a declined PR stays declined,
  a dry run writes nothing, an exit status 0 means it is recorded, every run
  ends.
* **conditional commit**: GitHub has no compare-and-swap on a file, only on a
  branch head; the code builds one from a read at a commit and
  `expectedHeadOid`. Correct means no lost update.
* **rate limiter**: the count is read under the lock and used after it;
  replies are applied out of order; retries. Correct means: nothing is carried
  out twice, the proactive wait keeps workers off the limit, every request ends.
* **drift monitor**: issues are listed once and used later; readers rename and
  close them; requests fail halfway. Correct means at most one open issue per
  file, no drift without, no issue left open for a file that is in sync.
* **conflict detection**: as the monitor, and the evidence is partial: targets
  leave and join the state file, reads fail one by one, and an issue about
  several repositories outlives runs that saw only some of them. Correct means
  at most one open issue per conflict, none missing, none closed while the
  conflict stands, none left open when it is gone.
* **registry**: listings arrive page by page while they change. Correct means
  no target outside the configuration, none missed, and an end.
* **closing stale PRs**: as the registry, and PRs are recognised by branch and
  title, of this release or an earlier one. Correct means all of the template's
  older PRs are closed and none of another template's.
* **template rendering**: the owners' text survives, the managed sections are
  those of the template, the result parses, and rendering it again changes
  nothing.

`PROJECT.json` lists the 40 hazards that matter most at the lines where they bite,
each with the properties that cover it or a note saying why none does; sections
6 and 7 name the others.

## 2. Plan

Written, in this order, the most important behaviour first; every component
has a module, an `MC` module that instantiates it and, where something is
proved of it, a `_proofs` module that extends it:

1. `AtomicFile`, `FileCommit`, `FileCommit_proofs`, `MCFileCommit`: the
   abstract conditional write, its implementation, the refinement, the proofs.
2. `SyncRun`, `SyncSafety`, `MCSync`: the sync engine, its properties, its
   instances. `SyncRun_proofs` has the inductive invariant of the engine,
   `SyncSafety_proofs` the properties.
3. `RateLimiter`, `RateLimiter_proofs`, `MCRateLimiter`.
4. `Monitor`, `Monitor_proofs`, `MCMonitor`.
5. `Marker`, `MCMarker`: marker rendering as pure operators on sequences,
   against a reference definition, over all short inputs.
6. `Conflict`, `Conflict_proofs`, `MCConflict`: conflict detection.
7. `Registry`, `Registry_proofs`, `MCRegistry`: which repositories a sync works
   on, over paged listings.
8. `StalePRs`, `StalePRs_proofs`, `MCStalePRs`: several templates per target,
   paged listings of pull requests, branches and titles.

Next: the substitution of variables in any order; a composition of `SyncRun`
with `Monitor` and `Conflict` over one state file; `SavesOwnScope` and
`MergedIsFinal` when only the first runs do not overlap; `ClosedOnlyWhenGone`
for runs that do; the form of `DeclinedStaysDeclined` that any edits keep.

## 3. The modules and the code

### FileCommit and AtomicFile

`AtomicFile` is the promise of `CreateOrUpdateFile`: a call takes effect at
one instant between its start and its return, only on a file that then has the
blob the caller read (any file, if the caller passed no sha), or not at all; a
call that reports success took effect, one that reports failure may have.

`FileCommit` is what the code does, one action per request: `GetDefaultBranch`
(an empty branch argument), `GetBranchSHA`, `Compare` (`GetFileContent` at the
commit just read, not at the branch: the whole point), `commitFile` (GitHub
accepts it while `expectedHeadOid` is still the head), and the reply, which can
get lost. `Push` and `Reset` are other people, who push, delete and force-push
between any two of these. A blob stands for its sha: `Blobs` are model values
and hashing is injective. The refinement maps the abstract file to `File(b)`,
the blob at the tip of the branch, and the abstract phase to the position of
the call before or after its commit.

### SyncRun and SyncSafety

A work item (`Items`) is a target repository with the one template it gets;
different items share nothing but the state file and the semaphore.

| TLA+ | Code and GitHub |
|---|---|
| `template` | version in the central configuration, text at the head of the central repository; they are read at different moments (`Start`, `ReadSource`) |
| `main`, `branch`, `prs` | default-branch file, sync branches (one name per version), pull requests with state, label, version, content and the baseline in the body |
| `central` | the deployment state file with its revision (`rev` plays the sha; 0 is no file) |
| `run[r]` | a process: phase, flags, `s.state` (`ds`), `stateLoaded`, `stateSHA` |
| `task[r][i]` | a worker: the request it makes next and its locals |
| `seen` | history: every content a target's file ever had, or a sync branch delivered |

A file is a record of what the owners wrote and what the template manages;
`Render` keeps the first with the marker strategy (`Markers`) and drops it
otherwise. One action per request of `syncOne`, each with the code's early
returns; a failing request is a disjunct of its action, with every outcome it
can have at GitHub (done, not done). `pulls.Create` is two requests and two
actions: `CreatePR` opens the PR without its label, `LabelPR` labels it, and a
PR that could not be labelled is kept. `Faulty` names the requests that can
fail in an instance. `Crash` is a kill or the deadline of the process at any
point: the save uses the same context, so both end the same way. `Bump`,
`Edit`, `Merge`, `Close`, `Reopen` are people. A merge is a three-way merge of
both parts of the file, refused on conflict, and may delete the branch.

`SyncSafety` states the properties; section 4 says which run checks which.

### RateLimiter

Each worker makes `Requests` requests, one after the other, through `Check`
(the proactive wait), `Send`, `Receive` (update the shared counters, then
return, retry or give up), with the clock as a variable and sleeps as wake-up
times. The server counts in windows; `OtherClient` uses up the same token.
Replies are separate from the server's step, so they reach the shared
counters in any order. `TransportError` is a broken connection before or
after the server acted, `Cancel` the deadline. `body` says what is left in
the reader of the request body.

### Monitor

One action per request of `monitor.Run`: `Load` (`loadDeploymentState`),
`List` (indexed by fingerprint and by title), `Fetch` and the decision it
leads to, `CloseIssue`, `UpdateIssue`, `CreateIssue`, `Finish`. The order of
the files is that of a Go map: any. A failing issue request ends the run,
whether or not GitHub did it. `Write` stands for syncs, merges and owners,
`Handle` for readers who close an issue or change its title or its body, one
of the two (an issue with neither is an issue no code could recognise).

### Marker

A file is a sequence of pieces: BEGIN and END markers with a name, text, LF
and CRLF. `renderMarker` is the code's operator: line ends of the template
normalised to the dominant one of the file, sections extracted by one ordered
scan, each section of the template replacing the first of its name or appended
after a line end. The scan and the loop over the sections are folds, with the
code's early returns. `Pairs`, `Named`, `Owned` are the reference: what a
reader of the file takes for a section, stated without a scan. The three
actions are a sync whose pull request is merged, a new template, and an edit.

### Conflict

One action per request of `strspc conflict`: `Load` (`loadDeploymentState`;
the targets are the repositories of the state), `runTier` (the reads of a tier
together, any of them may fail; tiers run in the order asked for, `Before`,
and tier 3 fails the run, as any but 1 and 2 does), `FindIssue` and `UpdateIssue` or `CreateIssue`
for each finding, then `ListResolved` and `CloseIssue`. `key` is what the
fingerprint of an issue is made of, type, repository and path; `fingerprint`
and `title` say whether readers left the body and the title as they were. A
file is a model value that has some findings or none. `standing` is history:
the participants an issue ever named whose copy has not been removed since.
`Write` and `Handle` stand for syncs, merges, owners and readers, as in
`Monitor`; `touched` exempts what they change during a run from the
properties about its end.

### Registry

`Resolve` reads one listing per include pattern and one search per topic and
organization, each page by page (`ReadPage`), and then takes out what the
exclude patterns match. A repository is its organization and its number there,
newest last, a glob the set of numbers it matches. Listings come newest first.
The code asks for no order; for a search, where GitHub's default is best match,
it is an assumption that entries keep their order between two pages and that
newcomers come first. `Add`, `Delete` and `Tag`
change GitHub between any two pages, so pages shift. Names of organizations
are spellings (`Account`), because the code compares strings where GitHub
ignores case. `first`, `ever` and `left` are history.

### StalePRs

The pull request of a template in `syncOne` and what follows: one worker per
template updates the open PR of its branch (`Existing`, `UpdatePR`) or opens and
labels one (`CreatePR`, `LabelPR`), then lists the open PRs of the target page
by page and closes those it recognises (`stale`) by label, number, branch and title. Ids, branches and
titles are sequences of their parts, so that prefixes and slashes are what
they are in the code; a version is one part, since the configuration admits
digits and dots only (`config.go:105`); the fixed parts of titles have names (`Update`, `To`,
`legacyTitlePrefix`), as the proofs compare them. `SyncRun` has one template per target and a listing in
one step; this module is the other half. People merge, close, reopen and open
PRs in between.

## 4. The runs

All bounds are constants of the `.cfg` files. TLC explores every reachable
state within them.

| Run | Checks | Instance and why it is enough |
|---|---|---|
| `file_commit` | `IInv`, `NoLostUpdate`, `AtomicSpec`, `CallsReturn` | two racing calls, one branch, a content or none, two commits beyond the initial one: room for the push between comparison and commit, and for both calls to commit. Larger values are the business of the proofs, here and in all the runs whose properties section 5 lists |
| `sync_sequential` | `AtMostOneOpen`, `DeclinedStaysDeclined` | three runs in a row (open, supersede, and one to see the result), two versions, forced or not, owners' edits and closed PRs in between |
| `sync_faults` | `IInv`, `DryRunTouchesNothing`, `OkIsRecorded` | two runs in a row, two versions and texts, every request may fail with or without effect, the save included, kills, dry and forced runs, all that people do. `IInv` is the invariant proved inductive, `RecordsAreReal` one of its parts |
| `sync_overlap` | `RecordsAreReal`, `SavesOwnScope`, `RunsEnd` | two runs at once, two targets, all target filters, one state file that exists; one semaphore slot for two workers and template reads that fail, so a leaked slot blocks |
| `sync_crash` | `LaterRunsSucceed`, `OkIsProposed`, `MergedIsFinal` | three runs, any of them killed anywhere, over two versions: a run may find the leftovers of two dead ones, and a PR may be recorded, merged, seen merged and recorded again |
| `limits` | `TypeOK`, `AppliedOnce`, `NeverRefused`, `EveryRequestReturns` | two workers with two requests each, one of them writing, a threshold of three; primary and secondary limits, other clients, broken connections, a deadline within two windows |
| `monitor` | `TypeOK`, `AtMostOneIssue`, `DriftIsReported`, `ResolvedIsClosed` | two runs in a row, two repositories and a target filter, two changes, any request but the load fails, readers close and rename |
| `marker` | `OwnedIsKept`, `ManagedIsCurrent`, `NeverLockedOut`, `SettlesAtOnce` | every file of up to three lines over two names and both line ends (malformed ones included), seven templates that replace each other, and one deletion by the owners anywhere; syncs make the files longer |
| `conflict` | `TypeOK`, `AtMostOnePerConflict`, `ParticipantsKept`, `ClosedOnlyWhenGone`, `ConflictIsReported`, `ResolvedIsClosed` | two runs in a row over three repositories, one of them the central one; one change in between or meanwhile, any request may fail, one read per tier; three repositories are needed for a participant that is neither of the two whose copies differ now. A dead cross-reference differs from the other findings only in what the file contains and is left out of the instance |
| `registry` | `TypeOK`, `TargetsAreWanted`, `NothingMissed`, `ResolveEnds` | two organizations with four and two repositories, pages of two (full last pages and empty ones occur), one topic, two changes, a search cap of three |
| `stale_prs` | `TypeOK`, `ClosesItsOwn`, `StaleAreClosed` | templates `guide` and `guide/t` at work, PRs of `guide-x` and of people among them, up to three PRs of any kind at first (of this version, of an earlier one, under other titles and branches), pages of two, one act of people, label, list and close requests may fail |
| `sync_forgets` | `EntriesSurvive` **violated** | two targets, two filtered runs, one failed read |

Deadlock is checked in `file_commit`, where others can always push, and in
`marker`, where the template can always change; elsewhere the processes stop once their work is done.

What the passing runs show, beyond the table:

* `limits`: the limiter reads `remaining` under the lock but spends it
  after, and a late reply overwrites a newer count. With n workers the
  proactive wait still works, provided the threshold is at least n(n+1)/2
  (section 5): 3 for two workers is enough, and 2 is not, TLC finds a refused
  request. The defaults of 50 and 5 leave a wide margin (15). `NeverRefused` speaks of windows in which no other
  client used the token (`alone`).
* `conflict`: with runs that do not overlap, the body markers (type,
  fingerprint, participants) are enough for the next run to pick up whatever a
  run that died left, as long as readers leave the title or the body alone.
  Three runs in a row and two changes are out of TLC's reach here.
* `registry`: additions shift entries to later pages, where they are read
  again, and `repoMap` removes the double. Only what leaves a listing makes
  others move to a page that has been read.
* `stale_prs`: the branch finds the PRs of any title prefix, the title those of
  earlier branch names, and the exact version segment keeps `guide` off
  `guide/t`.
* `sync_overlap`: with a state file in place, the conditional save turns two
  overlapping runs into one that records and one that fails and says so.
  `Seeded` is TRUE there: two *first* runs both start without a sha, and the
  second save overwrites the first, see `sync_forgets`.
* `sync_crash`: no step order of `syncOne` leaves a target that a later run
  cannot finish: `isAlreadyExists` and the lookup by head branch pick up the
  branch, the commit and the PR of a dead run.

### Fairness

`FairSpec` of `FileCommit`, `SyncRun`, `RateLimiter` and `Registry` adds weak fairness on
the steps of a call, of a run, of a request. The justification is the same in
each: steps are goroutines the Go scheduler keeps running, every request ends
by an answer or by the client's 30 s timeout (`NewClient`), and sleeps are
timers. Nothing is assumed of people, crashes, other clients or GitHub's
goodwill: a failing answer is an answer. In `Registry` a request that fails ends
`Resolve`, so only the requests that are answered need fairness (`Step`). The semaphore needs no strong
fairness: a slot that is given back is taken by one of finitely many workers.

## 5. What is proved

The proofs hold for all values of the constants that satisfy the named
assumptions of the modules: any number of calls, runs, targets, versions, pull
requests, workers, repositories, issues and pages. The assumptions say that
bounds are numbers, that sets have the types their uses need and that special
values (`Nil`, `Absent`, `Missing`, `Nobody`) are not among ordinary ones; TLC
evaluates them in every run. Those worth knowing: `NilIsNoState` of `SyncRun`
(no state file is no value of a state file), `RegistryAssumption` (`Repos` is
finite; every pattern's organization has an account at GitHub), and
`StalePRsAssumption` (names are sequences of strings).

Some theorems have a further hypothesis, most of them a definition of the proof
module. Each is met by the run that checks the property; the end of this
section says what happens without it.

| Module | Theorem | Under |
|---|---|---|
| `FileCommit_proofs` | `InvHolds`, `NoLostUpdateHolds`, `ImplementsAtomicFile` | |
| `SyncRun_proofs` | `InvHolds`, `RecordsAreRealHolds` | |
| `SyncSafety_proofs` | `DryRunHolds`, `OkIsRecordedHolds` | |
| | `SavesOwnScopeHolds`, `MergedIsFinalHolds` | `CleanLoad`: reading the state file does not fail, and it exists or runs do not overlap |
| | `AtMostOneOpenHolds` | `Tidy`: stale PRs are closed, the requests `create`, `label`, `stale`, `close` work, no run is killed, nobody reopens a PR. Runs may overlap |
| | `OkIsProposedHolds` | `Alone`: runs do not overlap, people close no PR |
| | `LaterRunsSucceedHolds` | `OnlyKilled`: nothing but kills goes wrong, runs do not overlap, no deleted branches or reopened PRs, and the bound `MaxPRs` leaves room for one PR per run |
| `RateLimiter_proofs` | `TypeHolds`, `AppliedOnceHolds` | |
| | `NeverRefusedHolds` | `LargeEnough`: threshold and quota are n(n+1)/2 at least for n workers |
| `Monitor_proofs` | `TypeHolds` | |
| | `AtMostOneIssueHolds` | runs do not overlap |
| | `DriftIsReportedHolds`, `ResolvedIsClosedHolds` | ... and the state file can be read |
| `Conflict_proofs` | `TypeHolds` | |
| | `AtMostOnePerConflictHolds`, `ParticipantsKeptHolds`, `ClosedOnlyWhenGoneHolds`, `ConflictIsReportedHolds`, `ResolvedIsClosedHolds` | runs do not overlap |
| `Registry_proofs` | `TypeHolds` | |
| | `TargetsAreWantedHolds` | `Spelled`: exclude patterns name organizations as GitHub does |
| | `NothingMissedHolds` | `Answered`: so do include patterns, and no search is answered in part |
| `StalePRs_proofs` | `TypeHolds` | |
| | `ClosesItsOwnHolds`, `StaleAreClosedHolds` | `Recognisable`: no id contains the part between id and version, and PRs of people and of earlier releases look like their own template's |

The arguments:

* **FileCommit.** The inductive invariant adds to the types that a call about
  to commit under a condition holds a head whose blob is the expected one. It
  stays true because a commit never changes its blob and ids are used once;
  GitHub's comparison of heads then gives the comparison of blobs. The
  refinement maps the accepted `commitFile` to the abstract `Apply`, others'
  steps to `Outside`, the replies to `Return` and everything else to
  stuttering.
* **SyncRun.** `RecordsAreReal` is not inductive: the record a worker writes at
  the end comes from locals it set many requests earlier. `IInv` adds what a
  worker carries (`Carries`: its content has been delivered from the commit on,
  its PR exists from the lookup on) and that the file in `main` has been seen.
  It is preserved because the facts are monotone: `seen` only grows, PRs are
  never deleted and merged is final (`RealGrows`, `CarriesGrows`). Each action
  then is one of a few kinds - a local step, a write to the target, a step of
  people, the end of a worker, a phase of the run - and each kind has a lemma.
* **SyncSafety.** `SaveInv` relates the memory of a run to the state file it
  was loaded from: as long as its save would be accepted (`Matches`), its
  records outside its scope are those of the file and a merged record is still
  there and merged (`KeptOK`); a worker with a result has recorded it under its
  own run's name, and every other record is that of a run that is over, so a
  report can be told from what was there before. `DryRunTouchesNothing` is the
  part of it that says where a dry run's worker can be.

  `TidyInv` is for `AtMostOneOpen`: of any two open PRs of a target, one is in
  the list some worker is going to close, or some worker has still to list
  (`Covers`). Two overlapping runs that both open one are covered because the
  one that lists later sees both; the one that listed earlier need not.
  `AloneInv` follows the PR of a worker through `closeStalePRs`. `KilledInv`
  says that nothing stands in the way of the next request, whatever dead runs
  left: the branch is there once it was asked for, its head is what was read,
  there is no open PR of this version where none was found, and a run opens one
  PR per target at most (`Room`).
* **RateLimiter.** `RequestInv` says of every request how often it was carried
  out, given where it is and what reply is on its way; only a refused request
  or one that can be repeated is sent again. `NeverRefused` needs a potential.
  In a window that belongs to the workers alone, let p workers be past their
  check, f be free to pass it, and h answers be on their way that, when they
  arrive, make the limiter believe in more than there is. Then the server has
  at least the threshold left, or at least p + f + h(2n + 1 - h)/2 (`AloneInv`):
  each such answer lets at most n - h + 1 others send before the next. At the
  moment the quota falls below the threshold this is at most n(n+1)/2, and no
  step increases it.
* **Monitor** and **Conflict.** Uniqueness of issues is not inductive without
  the run's index: an index of a run at work covers every open issue of what it
  has still to deal with, is exact for what readers have not touched, and the
  run's next request is what its observation calls for (`Indexes`, `Fits`;
  `Sends`). What a run has dealt with is in order until somebody touches it
  (`Answered`; `Files`, `Cleans`), and that gives the two properties of a run's
  end. Conflict detection adds what a run has read: its findings are those the
  files call for among what it read (`Reports`), and an issue it closes names
  nobody it did not read (`Closes`). Two runs that overlap share none of this.
* **Registry.** `TargetsAreWanted` follows from the same about what has been
  collected so far: `repoMap` holds only what was wanted at some time, which is
  what the owner check of topics gives (`MatchedIsWanted`), and the exclusions
  come last (`ExcludedIsGone`). `NothingMissed` needs where a repository is that
  has not been collected: on a page not read yet, that is, with at least
  `(page - 1) * PageSize` newer ones before it (`Unread`). Additions push it
  back only. That the loop ends at a page that is not full is right because
  every place ahead of an entry is taken (`PageIsFull`).
* **StalePRs.** The same argument about places carries `StaleAreClosed`
  (`Behind`): an older PR that is open has been found, or is on a page still to
  be read, until one leaves the listing (`left`), which is what `MCStalePRsShift`
  is about. That a worker recognises its own PRs and no other's under any
  prefix and version is a fact about sequences: what comes between the fixed
  parts of a branch name, and has no slash after it, is the id
  (`BranchOfOne`), and so for a title (`TitleOfOne`), for any ids without the
  part `To` and any version that is not a slash. What people and earlier
  releases called theirs has to be assumed.

Where the hypotheses come from. `MCSyncStale`, `MCMonitorOverlap`,
`MCMonitorLoad`, `MCConflictOverlap`, `MCRegistrySpelling` and
`MCStalePRsLegacy` (section 6) are counterexamples to a property without its
hypothesis. TLC finds the others when a constant of a
configuration is changed:

| Property | Fails in | With |
|---|---|---|
| `SavesOwnScope` | `MCSyncOverlap` | `Seeded` FALSE, or `"load"` in `Faulty` |
| `MergedIsFinal` | `MCSyncOverlap` | `Seeded` FALSE, three runs of one scope, people who merge |
| `AtMostOneOpen` | `MCSyncSequential` | `"reopen"` in `Humans`, or `"crash"` in `Faulty` |
| `OkIsProposed` | `MCSyncCrash` | `Overlap`, or `"close"` in `Humans` |
| `LaterRunsSucceed` | `MCSyncCrash` | `"prune"` in `Humans` |
| `NeverRefused` | `MCLimits` | a threshold of 2 |
| `NothingMissed` | `MCRegistry` | `"search"` in `Faulty`, or `Include <- MCIncludeSpelled` |
| `ResolvedIsClosed` of `Monitor` | `MCMonitor` | `Overlap` |
| `ConflictIsReported`, `ResolvedIsClosed` of `Conflict` | `MCConflictOverlap` | nothing changed |
| `ParticipantsKept` | `MCConflictOverlap` | three runs of tier 2, two of whose reads fail |

`ClosedOnlyWhenGone` is proved from `ParticipantsKept` and so inherits its
hypothesis; whether overlapping runs can break it too is open, as no instance
within reach shows it. None of these hypotheses is one the program enforces:
that runs do not overlap, for one, is a matter of the workflow that starts them.

Only model-checked:

* Liveness: `CallsReturn`, `RunsEnd`, `EveryRequestReturns` and `ResolveEnds`.
  Liveness under fairness and ENABLED are out of the prover's reach.
* The properties of `Marker`. What its folds compute is checked over bounded
  inputs, since induction over data cannot be carried out by the installed
  provers. No module declares a RECURSIVE operator.
* `DeclinedStaysDeclined`. It holds of the instance, where owners do not write
  managed sections. With edits that do, a run can record other content in
  between, by finding the file in sync with it, and the declined one is then
  proposed again after another edit; a hypothesis that excludes this would speak
  of what every owner and template may ever write.

## 6. Where code and documentation disagree

Checked by the violation run, and listed under "findings":

* `sync_forgets`: **any** error of `loadState` starts the run from an empty
  state (`sync.go:171`). If the file could not be read the run has no sha to
  save against and the save overwrites it; if it was read and did not parse,
  the save even has the right sha. Either way the records of all targets
  outside the filter are gone. For the target files the same package refuses
  to write after a failed read (`sync.go:436`).

Met on the way, each with a configuration, or one of the runs with a constant
changed, that gives TLC's counterexample when run by hand (`tlc -config X.cfg M`):

| Configuration | Module | Property | What happens |
|---|---|---|---|
| `MCSyncBaseline` | `MCSync` | `BaselineSurvives` | a first deployment has no previous version, so a forced re-run of its open PR rewrites the baseline to the proposed version itself; `state.go:23-26` says the baseline survives |
| `MCSyncStale` | `MCSync` | `AtMostOneOpen` | a PR whose label request failed is kept on purpose but `closeStalePRs` lists by label, so it is never superseded (SYNCPR-006) |
| `MCSyncNewer` | `MCSync` | `ClosesOnlyOlder` | of two overlapping runs the one with the older configuration closes the newer version's PR (SYNCPR-006) |
| `MCSyncEmptyPR` | `MCSync` | `UnchangedOpensNothing` | the earlier PR is merged after a forced run compared the content, and the run opens one that changes nothing (`README.md:25`) |
| `MCSyncOwn` | `MCSync` | `MergeKeepsOwn` | the destination is read before the base sha: an edit in between is on the base but not in the rendering, and the PR reverts it without a conflict |
| `MCSyncDrift` | `MCSync` | `EditsAreOverwritten` | the hash gate compares the rendering with the record, not with the file (`sync.go:394`), so drift of the managed part is never repaired by a later sync although the PR body says it is (`sync.go:678`) |
| `MCRetryBody` | `MCRateLimiter` | `RetriesAreWhole` | the retry loop hands on an `io.Reader` that is at its end: a retried write has no body, and SYNCACT-009 promises retries |
| `MCRetryAfter` | `MCRateLimiter` | `RetryAfterHonoured` | a 403 secondary limit with quota left is not retried, whatever its Retry-After (`client.go:470`) |
| `MCMarkerChurn` | `MCMarker` | `NoChurn` | in a file with both kinds of line end, replacing a section can change which one is dominant: the merged result renders to something else, and one more PR follows (`marker.go:135-137`) |
| `MCMonitorOverlap` | `MCMonitor` | `AtMostOneIssue` | two monitor runs at once both list, then both create (MNRACT-008) |
| `MCMonitorSince` | `MCMonitor` | `FirstDetectedKept` | each update resets First Detected (MNRACT-010) |
| `MCMonitorNotFound` | `MCMonitor` | `NotFoundIsTrue` | any fetch error is reported as a missing file |
| `MCMonitorLoad` | `MCMonitor` | `DriftIsReported` | an unreadable state is an empty one, and the run ends well with nothing checked |
| `MCConflictUnread` | `MCConflict` | `ClosedOnlyWhenAllRead` | only failed reads of an issue's participants keep it open, where `conflict.go:331-332` says "in any repo": a new target with a third copy that cannot be read does not count |
| `MCConflictOverlap` | `MCConflict` | `AtMostOnePerConflict` | two runs at once both list, then both create (CNFLACT-007) |
| `MCRegistryShift` | `MCRegistry` | `NothingMissedEver` | a repository is deleted, or loses the topic, between two pages, and one that was there all the time is missed by this run |
| `MCRegistry` with `Faulty = {"search"}` | `MCRegistry` | `NothingMissed` | `incomplete_results` of a search is not read (`repos.go:76`): what a timed-out search found is taken for all |
| `MCRegistry` with `Include <- MCIncludeSpelled` | `MCRegistry` | `NothingMissed` | an include pattern spells the organization in another case than GitHub: its listing works, but the owner check of topics compares strings and takes nothing a topic finds there |
| `MCRegistryCap` | `MCRegistry` | `ResolveSucceeds` | a search hands out a thousand results: with more the eleventh page is refused and every sync fails |
| `MCRegistrySpelling` | `MCRegistry` | `TargetsAreWanted` | owners are compared as strings (`registry.go:122`): `acme/*` excludes nothing of the organization GitHub calls `Acme`, while as an include pattern it lists it |
| `MCStalePRsLegacy` | `MCStalePRs` | `ClosesItsOwn` | the legacy title has nothing after the id: template `guide` closes the PR an earlier release opened for `guide-x` (`sync.go:641`; its comment, :635-638, claims the prefix problem only solved for the current format) |
| `MCStalePRsShift` | `MCStalePRs` | `StaleAreAlwaysClosed` | two templates of one target: while one worker reads the pages, the other closes a PR of an earlier page, and a stale PR slips to a page already read; the sync closes it at the next version only |

Conflict detection disagrees with its rules in ways that need no run:
`TargetFilter` is never used (CNFLACT-009), findings about one repository are
filed in that repository and not in the central one (CNFLACT-006), and skills
are grouped by the last component of their path (`tier2.go:59`), so two skill
templates that both end in `SKILL.md` are reported as a duplicate of each other.

`NeverLockedOut` and `SettlesAtOnce` suppose a well-formed template, because
`renderMarker` returns the template unparsed when there is no file yet
(`marker.go:131`): a malformed one is delivered to new targets, and from then
on their files fail to parse, also after the template has been repaired.
`SettlesAtOnce` supposes unique names too: two sections of one name in a
template render to one, the second, in a file that has that section, but a new
file gets both.

## 7. What is not modelled

* Several templates per target in `SyncRun`: one item per target keeps the
  state space of the engine's own interleavings within reach. What several
  templates have in common, the closing of stale PRs, is `StalePRs`.
* The overrides of the registry, which copy a branch, variables and template
  filters to a target, and the substitution of variables: `fullreplace.go` goes
  over a Go map, so a value that contains another placeholder renders
  differently from run to run; renderings are values here.
* Properties of the moment the template source is read: it is taken from the
  head of the central repository while the version comes from the configuration
  read earlier (`sync.go:309`). `SyncRun` models it, but the repository states
  nothing it breaks.
* Tier 3 of conflict detection, which returns an error in the code (and in
  `runTier`), and its informative findings, which are never filed. A tier that
  is asked for twice runs once in `Conflict`; in the code it runs again, and its
  findings update the issues they have just been given.
* Another order of search results than `Registry` assumes: entries that change
  places between two pages would be missed as those of `MCRegistryShift` are.
* The pages of issues: a central repository with more than a hundred open
  issues of one label. `StalePRs` shows what such pages do.
* Authentication and permission checks (once, before any request), YAML
  parsing and defaults (their results are the constants), logging, wording of
  PR bodies and issues beyond the fields a property needs, and cryptography:
  hashes identify contents.
* The `hash` stored in the state file is never verified by `Load`, so there
  is nothing to model until contents of the file are.

Bounds in guards: `MaxVersion` and `MaxPRs` in `SyncRun`, `Oids` in
`FileCommit`, `Requests` and `Deadline` in `RateLimiter`, `MaxIssues` and
`MaxWrites` in `Monitor` and `Conflict`, `MaxFailedReads` in `Conflict`,
`MaxChanges` in `Registry`, `MaxFirst` and `MaxActs` in `StalePRs`, `MaxLines`
and `MaxEdits` in `MCMarker` and `Marker`.
Each caps a counter the program does not bound.
