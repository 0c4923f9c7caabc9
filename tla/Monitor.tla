------------------------------- MODULE Monitor -------------------------------
(***************************************************************************)
(* strspc monitor (internal/monitor/monitor.go): each run loads the        *)
(* deployment state, lists the open drift issues of the central            *)
(* repository, then compares every recorded file with the one in its       *)
(* target and opens, rewrites or closes one issue.  One request per step;  *)
(* syncs, owners and readers of the issues act in between.                 *)
(***************************************************************************)
EXTENDS Integers, Sequences, FiniteSets

CONSTANTS
    Repos, Templates,
    Hashes,         \* contents a file can have
    Missing,        \* no file
    Nil,            \* not recorded
    Monitors,       \* processes: each runs strspc monitor at most once
    Scopes,         \* repositories --target-filter can select
    Configured,     \* templates the configuration still has
    AutoClose,      \* monitor.auto_close
    MaxIssues,      \* bound on drift issues
    MaxWrites,      \* bound on changes of files and records
    Overlap,        \* may two runs be active at once?
    Faulty,         \* the requests that can fail
    Readers         \* what people do to issues

Entries == Repos \X Templates
Acts == {"close", "retitle", "rewrite"}
Requests == {"load", "list", "fetch", "close", "update", "create"}

ASSUME MonitorAssumption ==
    /\ Scopes \subseteq SUBSET Repos /\ Configured \subseteq Templates
    /\ {AutoClose, Overlap} \subseteq BOOLEAN
    /\ MaxIssues \in Nat /\ MaxWrites \in Nat
    /\ Faulty \subseteq Requests /\ Readers \subseteq Acts
    /\ Nil \notin Hashes \cup {Missing} /\ Missing \notin Hashes

VARIABLES
    recorded,   \* recorded[e]: the hash in the deployment state
    actual,     \* actual[e]: what the target's file hashes to
    issues,     \* the drift issues, by number
    mon,        \* mon[m]: the run of process m
    writes      \* changes made so far

vars == <<recorded, actual, issues, mon, writes>>

(* fingerprint, title: does the issue still carry them?  shows, since: the *)
(* actual hash its body gives, and the run its First Detected comes from.  *)
Issue == [entry : Entries, open : BOOLEAN, fingerprint : BOOLEAN, title : BOOLEAN,
          shows : Hashes \cup {Missing}, since : Monitors]
Steps == {"fetch", "close", "update", "create"}
Run == [phase : {"idle", "list", "work", "ok", "failed"}, scope : SUBSET Repos,
        expected : [Entries -> Hashes \cup {Nil}],
        byFingerprint : [Entries -> 0..MaxIssues], byTitle : [Entries -> 0..MaxIssues],
        todo : SUBSET Entries, step : Steps, at : Entries \cup {Nil},
        content : Hashes \cup {Missing, Nil},
        touched : SUBSET Entries]       \* history: changed by others meanwhile
IdleRun == [phase |-> "idle", scope |-> {}, expected |-> [e \in Entries |-> Nil],
            byFingerprint |-> [e \in Entries |-> 0], byTitle |-> [e \in Entries |-> 0],
            todo |-> {}, step |-> "fetch", at |-> Nil, content |-> Nil, touched |-> {}]

TypeOK ==
    /\ recorded \in [Entries -> Hashes \cup {Nil}]
    /\ actual \in [Entries -> Hashes \cup {Missing}]
    /\ issues \in Seq(Issue) /\ Len(issues) <= MaxIssues
    /\ mon \in [Monitors -> Run]
    /\ writes \in 0..MaxWrites

Init ==
    /\ recorded = [e \in Entries |-> Nil]
    /\ actual \in [Entries -> Hashes \cup {Missing}]
    /\ issues = <<>>
    /\ mon = [m \in Monitors |-> IdleRun]
    /\ writes = 0

Active(m) == mon[m].phase \in {"list", "work"}
Fails(request) == request \in Faulty
Set(m, run) == mon' = [mon EXCEPT ![m] = run]
Exit(m, phase) == Set(m, [IdleRun EXCEPT !.phase = phase])
Abort(m) == Exit(m, "failed")
World == <<recorded, actual, writes>>

(* loadDeploymentState: a state that cannot be read is an empty state.     *)
Load(m) ==
    /\ mon[m].phase = "idle" /\ (Overlap \/ \A k \in Monitors : ~Active(k))
    /\ \E scope \in Scopes,
          state \in {recorded} \cup (IF Fails("load") THEN {IdleRun.expected} ELSE {}) :
          Set(m, [IdleRun EXCEPT !.phase = "list", !.scope = scope, !.expected = state])
    /\ UNCHANGED <<World, issues>>

(* The open issues, indexed by fingerprint and by title; the last one      *)
(* listed wins.                                                            *)
Indexed(has) == {f \in [Entries -> 0..Len(issues)] : \A e \in Entries :
    LET found == {n \in DOMAIN issues : issues[n].open /\ issues[n].entry = e
                                        /\ issues[n][has]}
    IN  IF found = {} THEN f[e] = 0 ELSE f[e] \in found}
List(m) ==
    /\ mon[m].phase = "list"
    /\ \/ \E byFingerprint \in Indexed("fingerprint"), byTitle \in Indexed("title") :
             Set(m, [mon[m] EXCEPT !.phase = "work",
                       !.byFingerprint = byFingerprint, !.byTitle = byTitle,
                       !.todo = {e \in Entries : /\ mon[m].expected[e] # Nil
                                                 /\ e[1] \in mon[m].scope
                                                 /\ e[2] \in Configured}])
       \/ Fails("list") /\ Abort(m)
    /\ UNCHANGED <<World, issues>>

(* findIssueByFingerprintOrTitle: 0 when there is none.                    *)
findByTitle(m, e) == mon[m].byTitle[e]                  \* mutant
findByFingerprint(m, e) == mon[m].byFingerprint[e]      \* mutant
findIssueByFingerprintOrTitle(m, e) ==
    IF mon[m].byFingerprint[e] # 0 THEN mon[m].byFingerprint[e] ELSE mon[m].byTitle[e]

(* GetFileContent: any error is taken for a missing file.                  *)
observedNothing(e) == {Nil}                             \* mutant: hash left unset
observed(e) == {actual[e]} \cup (IF Fails("fetch") THEN {Missing} ELSE {})

inSyncOrMissing(m, e, content) == content \in {mon[m].expected[e], Missing}   \* mutant
inSync(m, e, content) == content = mon[m].expected[e]

(* The next file, in the order of a Go map, and what to do about it.       *)
Fetch(m) ==
    /\ mon[m].phase = "work" /\ mon[m].step = "fetch"
    /\ \E e \in mon[m].todo : \E content \in observed(e) :
         LET existing == findIssueByFingerprintOrTitle(m, e)
             next == CASE inSync(m, e, content) /\ (~AutoClose \/ existing = 0) -> "fetch"
                       [] inSync(m, e, content) /\ AutoClose /\ existing # 0 -> "close"
                       [] OTHER -> IF existing # 0 THEN "update" ELSE "create"
         IN  Set(m, [mon[m] EXCEPT !.todo = @ \ {e}, !.step = next,
                       !.at = IF next = "fetch" THEN Nil ELSE e,
                       !.content = IF next = "fetch" THEN Nil ELSE content])
    /\ UNCHANGED <<World, issues>>

Handled(m) == Set(m, [mon[m] EXCEPT !.step = "fetch", !.at = Nil, !.content = Nil])
(* A request about an issue: it works, or the run is over, whether or not  *)
(* GitHub carried it out.                                                  *)
Request(m, step, after) ==
    /\ mon[m].phase = "work" /\ mon[m].step = step
    /\ \/ issues' = after /\ Handled(m)
       \/ Fails(step) /\ issues' \in {issues, after} /\ Abort(m)
    /\ UNCHANGED World

Found(m) == findIssueByFingerprintOrTitle(m, mon[m].at)
CloseIssue(m) ==
    mon[m].step = "close" /\ Request(m, "close", [issues EXCEPT ![Found(m)].open = FALSE])

(* driftIssueBody: the body is written anew, fingerprint included.         *)
UpdateIssue(m) ==
    mon[m].step = "update" /\ Request(m, "update",
        [issues EXCEPT ![Found(m)] =
            [@ EXCEPT !.fingerprint = TRUE, !.shows = mon[m].content, !.since = m]])
CreateIssue(m) ==
    /\ mon[m].step = "create" /\ Len(issues) < MaxIssues
    /\ Request(m, "create", Append(issues,
         [entry |-> mon[m].at, open |-> TRUE, fingerprint |-> TRUE, title |-> TRUE,
          shows |-> mon[m].content, since |-> m]))

Finish(m) ==
    /\ mon[m].phase = "work" /\ mon[m].step = "fetch" /\ mon[m].todo = {}
    /\ Exit(m, "ok")
    /\ UNCHANGED <<World, issues>>

-----------------------------------------------------------------------------
Touch(e) == mon' = [m \in Monitors |->
    IF Active(m) THEN [mon[m] EXCEPT !.touched = @ \cup {e}] ELSE mon[m]]

(* A sync records a delivery; a merge or an owner changes the file.        *)
Write(e) ==
    /\ writes < MaxWrites /\ writes' = writes + 1
    /\ \/ (\E h \in Hashes \ {recorded[e]} : recorded' = [recorded EXCEPT ![e] = h])
          /\ UNCHANGED actual
       \/ (\E h \in (Hashes \cup {Missing}) \ {actual[e]} : actual' = [actual EXCEPT ![e] = h])
          /\ UNCHANGED recorded
    /\ Touch(e) /\ UNCHANGED issues

(* Readers close an issue, or rewrite its title or its body, not both.     *)
Handle(n) ==
    /\ issues[n].open
    /\ \/ "close" \in Readers /\ issues' = [issues EXCEPT ![n].open = FALSE]
       \/ /\ "retitle" \in Readers /\ issues[n].fingerprint
          /\ issues' = [issues EXCEPT ![n].title = FALSE]
       \/ /\ "rewrite" \in Readers /\ issues[n].title
          /\ issues' = [issues EXCEPT ![n].fingerprint = FALSE]
    /\ Touch(issues[n].entry) /\ UNCHANGED World

Step(m) == Load(m) \/ List(m) \/ Fetch(m) \/ CloseIssue(m) \/ UpdateIssue(m)
           \/ CreateIssue(m) \/ Finish(m)
Next == \/ \E m \in Monitors : Step(m)
        \/ \E e \in Entries : Write(e)
        \/ \E n \in DOMAIN issues : Handle(n)
Spec == Init /\ [][Next]_vars

-----------------------------------------------------------------------------
OpenIssues(e) == {n \in DOMAIN issues : issues[n].open /\ issues[n].entry = e}
Ends(m) == mon[m].phase = "work" /\ mon'[m].phase = "ok"
(* What a run that ends answers for: recorded in its scope when it ended,  *)
(* and left alone by others while it ran.                                  *)
Settled(m) == {e \in Entries : /\ recorded[e] # Nil /\ e \notin mon[m].touched
                               /\ e[1] \in mon[m].scope /\ e[2] \in Configured}

(* MNRACT-008: one open issue per repository and template at most, when    *)
(* runs do not overlap, also after a run that lost the reply to a create,  *)
(* and after readers changed a title or a body (Run, find...OrTitle).      *)
AtMostOneIssue == \A e \in Entries : Cardinality(OpenIssues(e)) <= 1

(* MNRACT-006: once a run has ended well, what drifted has an open issue,  *)
(* whatever else failed and was skipped (Run, the fetch error branch).     *)
DriftIsReported ==
    [][\A m \in Monitors : Ends(m) =>
         \A e \in Settled(m) : actual[e] # recorded[e] => OpenIssues(e) # {}]_vars

(* MNRACT-009: ... and what is in sync has none, except one that calls     *)
(* missing a file the run could not fetch (Run, auto close).               *)
ResolvedIsClosed ==
    [][\A m \in Monitors : Ends(m) /\ AutoClose =>
         \A e \in Settled(m) : actual[e] = recorded[e] =>
            \A n \in OpenIssues(e) : Fails("fetch") /\ issues[n].shows = Missing]_vars

(* Stated by the repository and not kept by the code.                      *)

(* MNRACT-010, "time since drift was first detected": an update keeps it.  *)
FirstDetectedKept ==
    [][\A n \in 1..MaxIssues :
         n \in DOMAIN issues => issues'[n].since = issues[n].since]_vars

(* driftIssueBody, monitor.go:245, "_(file not found)_": an issue says so  *)
(* of files that are not there (and untouched by others meanwhile).        *)
NotFoundIsTrue ==
    [][\A m \in Monitors :
         /\ mon[m].step \in {"create", "update"} /\ mon'[m].step = "fetch"
         /\ mon[m].at \notin mon[m].touched /\ mon[m].content = Missing
         => actual[mon[m].at] = Missing]_vars
=============================================================================
