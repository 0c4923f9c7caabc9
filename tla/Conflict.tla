------------------------------ MODULE Conflict ------------------------------
(***************************************************************************)
(* strspc conflict (internal/conflict): each run takes its targets from    *)
(* the deployment state, reads their files tier by tier, files one issue   *)
(* per finding and then closes the open issues whose finding is gone.      *)
(* A finding about one repository is filed there; a duplicate skill, which *)
(* is about several, is filed in the central repository, and its body      *)
(* lists the participants.  One request per step, the reads of one tier    *)
(* together; syncs, owners and readers act in between.                     *)
(*                                                                         *)
(* One marker template, whose destination is CLAUDE.md (the document), and *)
(* one skill template, not recorded, are configured; the section twice is  *)
(* one that another managed file has too.  No title or path is parsed: an  *)
(* issue carries its type and path as its key.                             *)
(* The third finding of tier 1, an unmanaged file, is only informative and *)
(* never filed.                                                            *)
(***************************************************************************)
EXTENDS Integers, Sequences, FiniteSetsExt

CONSTANTS
    Repos, Central,     \* the central repository may be a target too
    Hashes, Versions,   \* contents a file can have, the ones a sync delivers
    Missing, Nil,       \* no file; no record
    Broken, Overlapping,\* documents with a dead reference, with a section twice
    Documented, Skilled,\* repositories where there can be a document, a skill
    Scanners,           \* processes: each runs strspc conflict at most once
    TierChoices,        \* what --tiers or the configuration can ask for, in order
    AutoClose,          \* conflicts.auto_close
    MaxIssues,          \* bound on issues
    MaxWrites,          \* bound on changes by others: files, records, issues
    MaxFailedReads,     \* bound on failed reads of one tier
    Overlap,            \* may two runs be active at once?
    Faulty,             \* the requests that can fail
    Readers             \* what people do to issues

LocalTypes == {"version-drift", "cross-reference-broken", "manual-override"}
DuplicateSkill == <<"duplicate-skill", Central>>
Keys == (LocalTypes \X Repos) \cup {DuplicateSkill}
Home(k) == k[2]

(* tierOfType, and the types a tier looks for.                             *)
tierOfType(k) == IF k[1] \in {"version-drift", "cross-reference-broken"} THEN 1 ELSE 2
TypesOf(tier) == {k[1] : k \in {j \in Keys : tierOfType(j) = tier}}

ASSUME ConflictAssumption ==
    /\ Central \in Repos /\ Documented \subseteq Repos /\ Skilled \subseteq Repos
    /\ {Versions, Broken, Overlapping} \subseteq SUBSET Hashes
    /\ Missing \notin Hashes /\ Nil \notin Hashes
    /\ TierChoices \subseteq Seq(1..3) \ {<<>>}
    /\ {AutoClose, Overlap} \subseteq BOOLEAN
    /\ {MaxIssues, MaxWrites, MaxFailedReads} \subseteq Nat
    /\ Faulty \subseteq {"load", "read", "list", "update", "create", "close"}
    /\ Readers \subseteq {"close", "retitle", "rewrite"}

VARIABLES
    recorded,   \* recorded[r]: the document's hash in the deployment state
    document,   \* document[r], skill[r]: what the files hash to
    skill,
    issues,     \* the conflict issues, by number
    scan,       \* scan[m]: the run of process m
    writes      \* changes by others so far

vars == <<recorded, document, skill, issues, scan, writes>>

(* fingerprint: is the body as written, with fingerprint, type and         *)
(* participants?  title: is the title?  standing: history, the repositories *)
(* named so far whose copy of the skill has been there since.              *)
Issue == [key : Keys, open : BOOLEAN, fingerprint : BOOLEAN, title : BOOLEAN,
          repos : SUBSET Repos, standing : SUBSET Repos]
Run == [phase : {"idle", "scan", "file", "send", "ok", "failed"},
        asked : Seq(1..3), tiers : SUBSET (1..3), expected : [Repos -> Versions \cup {Nil}],
        todo : SUBSET (1..3),       \* tiers still to run
        incomplete : SUBSET Repos, missingTracked : SUBSET Repos,
        reported : SUBSET Keys, participants : SUBSET Repos,
        pending : SUBSET Keys,      \* findings still to file
        at : Keys \cup {Nil}, found : 0..MaxIssues, previous : SUBSET Repos,
        repos : SUBSET Repos, closing : SUBSET (1..MaxIssues),  \* still to clean up
        touched : SUBSET Keys]      \* history: changed by others meanwhile
IdleRun ==
    [phase |-> "idle", asked |-> <<>>, tiers |-> {},
     expected |-> [r \in Repos |-> Nil], todo |-> {}, incomplete |-> {}, missingTracked |-> {}, reported |-> {}, participants |-> {},
     pending |-> {}, at |-> Nil, found |-> 0, previous |-> {},
     repos |-> {}, closing |-> {}, touched |-> {}]

TypeOK ==
    /\ recorded \in [Repos -> Versions \cup {Nil}]
    /\ {document, skill} \subseteq [Repos -> Hashes \cup {Missing}]
    /\ issues \in Seq(Issue) /\ Len(issues) <= MaxIssues
    /\ scan \in [Scanners -> Run]
    /\ writes \in 0..MaxWrites

(* At first every skill is there.                                          *)
Init ==
    /\ recorded \in [Repos -> Versions \cup {Nil}]
    /\ document \in {f \in [Repos -> Hashes \cup {Missing}] :
                       \A r \in Repos \ Documented : f[r] = Missing}
    /\ skill \in {f \in [Repos -> Hashes \cup {Missing}] :
                    \A r \in Repos : f[r] = Missing <=> r \notin Skilled}
    /\ issues = <<>> /\ writes = 0
    /\ scan = [m \in Scanners |-> IdleRun]

Active(m) == scan[m].phase \in {"scan", "file", "send"}
Targets(run) == {r \in Repos : run.expected[r] # Nil}
Fails(request) == request \in Faulty
Set(m, run) == scan' = [scan EXCEPT ![m] = run]
Exit(m, phase) == Set(m, [IdleRun EXCEPT !.phase = phase])
Abort(m) == Exit(m, "failed")
World == <<recorded, document, skill, writes>>

(* loadDeploymentState: a state that cannot be read is an empty state.     *)
Load(m) ==
    /\ scan[m].phase = "idle" /\ (Overlap \/ \A k \in Scanners : ~Active(k))
    /\ \E asked \in TierChoices,
          state \in {recorded} \cup (IF Fails("load") THEN {IdleRun.expected} ELSE {}) :
          LET tiers == {asked[i] : i \in DOMAIN asked}
          IN  Set(m, [IdleRun EXCEPT !.phase = "scan", !.asked = asked, !.tiers = tiers,
                                     !.todo = tiers, !.expected = state])
    /\ UNCHANGED <<World, issues>>

(* Tiers run, and their findings are filed, in the order asked for; one    *)
(* that is asked for twice runs once.                                      *)
Before(run, s, t) == \E i, j \in DOMAIN run.asked :
                        i <= j /\ run.asked[i] = s /\ run.asked[j] = t

(* The findings about one repository, from its files and its record.       *)
checkVersionDrift(r, expected) == document[r] \notin {Missing, expected}
checkCrossReferences(r) == document[r] \in Broken
checkSectionOverlap(r) == document[r] \in Overlapping
FindingsIn(r, expected) ==
    {k \in LocalTypes \X {r} :
        \/ k[1] = "version-drift" /\ checkVersionDrift(r, expected)
        \/ k[1] = "cross-reference-broken" /\ checkCrossReferences(r)
        \/ k[1] = "manual-override" /\ checkSectionOverlap(r)}

(* Skills of one name and different contents, and the repositories where   *)
(* there is one: the central repository's finding.                         *)
Differ(among) == \E a, b \in among : Missing \notin {skill[a], skill[b]}
                                     /\ skill[a] # skill[b]
DuplicatesIn(among) == IF Differ(among) THEN {DuplicateSkill} ELSE {}

(* readFile: a failed read marks the repository and loses what it was for; *)
(* an absent tracked file is noted, its drift was not checked.  Tier 3 is  *)
(* not implemented and fails the run.  After the last tier the findings    *)
(* are to be filed, and with auto close and a target the issues of the     *)
(* targets and of the central repository to be gone through.               *)
FailedReads(tier, targets) == {failed \in SUBSET (TypesOf(tier) \X targets) :
    Cardinality(failed) <= (IF Fails("read") THEN MaxFailedReads ELSE 0)}
runTier(m) ==
    /\ scan[m].phase = "scan"
    /\ \E tier \in scan[m].todo :
       /\ \A t \in scan[m].todo : Before(scan[m], tier, t)
       /\ LET run == scan[m]
              targets == Targets(run)
              last == run.todo = {tier}
          IN
           IF tier = 3 THEN Abort(m) ELSE
           \E failed \in FailedReads(tier, targets) :
             LET read(type) == {r \in targets : <<type, r>> \notin failed}
                 findings == UNION {FindingsIn(r, run.expected[r]) : r \in targets}
                 found == {k \in findings \ failed : tierOfType(k) = tier}
                 skills == {r \in read("duplicate-skill") : skill[r] # Missing}
                 reported == run.reported \cup found
                             \cup (IF tier = 2 THEN DuplicatesIn(skills) ELSE {})
             IN  Set(m, [run EXCEPT
                   !.phase = IF last THEN "file" ELSE @,
                   !.todo = @ \ {tier},
                   !.incomplete = @ \cup {f[2] : f \in failed},
                   !.missingTracked = @ \cup (IF tier = 1
                       THEN {r \in read("version-drift") : document[r] = Missing} ELSE {}),
                   !.reported = reported,
                   !.participants = IF tier = 2 /\ DuplicateSkill \in reported
                                     THEN skills ELSE @,
                   !.pending = IF last THEN reported ELSE @,
                   !.repos = IF last /\ AutoClose /\ targets # {}
                             THEN targets \cup {Central} ELSE @])
    /\ UNCHANGED <<World, issues>>

OpenIssues(k) == {n \in DOMAIN issues : issues[n].open /\ issues[n].key = k}
anyState(k) == {n \in DOMAIN issues : issues[n].key = k}               \* mutant
byFingerprint(k) == {n \in OpenIssues(k) : issues[n].fingerprint}       \* mutant
(* By fingerprint or title, the latest issue first.                        *)
matching(k) == {n \in OpenIssues(k) : issues[n].fingerprint \/ issues[n].title}
issueReposSplit(n) == IF issues[n].fingerprint THEN issues[n].repos ELSE {Nil}  \* mutant
issueRepos(n) == IF issues[n].fingerprint THEN issues[n].repos ELSE {}   \* {}: no list

(* Issues.List before each finding of the first tier left is filed.        *)
FindIssue(m) ==
    /\ scan[m].phase = "file"
    /\ \/ \E k \in scan[m].pending :
            /\ \A j \in scan[m].pending : Before(scan[m], tierOfType(k), tierOfType(j))
            /\ LET n == IF matching(k) = {} THEN 0 ELSE Max(matching(k))
               IN  Set(m, [scan[m] EXCEPT !.phase = "send", !.at = k, !.found = n,
                             !.pending = @ \ {k},
                             !.previous = IF n = 0 THEN {} ELSE issueRepos(n)])
       \/ scan[m].pending # {} /\ Fails("list") /\ Abort(m)
    /\ UNCHANGED <<World, issues>>

mergeScanned(run) == run.participants                                  \* mutant
(* mergeParticipants: who is in conflict now, and who was and is not       *)
(* cleared by this run.                                                    *)
mergeParticipants(run) ==
    run.participants \cup
    {r \in run.previous : r \notin Targets(run) \/ r \in run.incomplete}

Filed(m) == Set(m, [scan[m] EXCEPT !.phase = "file", !.at = Nil, !.found = 0,
                                   !.previous = {}])
(* A request about an issue: it works, or the run is over, whether or not  *)
(* GitHub carried it out.                                                  *)
Request(m, request, after, then) ==
    /\ \/ issues' = after /\ then
       \/ Fails(request) /\ issues' \in {issues, after} /\ Abort(m)
    /\ UNCHANGED World

(* What the new body names, and who then is in conflict.                   *)
InConflict(m) == IF scan[m].at = DuplicateSkill
                 THEN {r \in scan[m].participants : skill[r] # Missing} ELSE {}
UpdateIssue(m) ==
    LET n == scan[m].found
    IN  /\ scan[m].phase = "send" /\ n # 0
        /\ Request(m, "update",
             [issues EXCEPT ![n] =
                [@ EXCEPT !.fingerprint = TRUE,
                          !.repos = IF scan[m].previous = {} THEN {}
                                    ELSE mergeParticipants(scan[m]),
                          !.standing = issues[n].standing \cup InConflict(m)]], Filed(m))
CreateIssue(m) ==
    /\ scan[m].phase = "send" /\ scan[m].found = 0 /\ Len(issues) < MaxIssues
    /\ Request(m, "create",
         Append(issues, [key |-> scan[m].at, open |-> TRUE, fingerprint |-> TRUE,
            title |-> TRUE, standing |-> InConflict(m),
            repos |-> IF scan[m].at = DuplicateSkill THEN scan[m].participants
                      ELSE {}]), Filed(m))

coveredScanned(run, repos) == repos # {} /\ repos \subseteq Targets(run)   \* mutant
coveredAllRead(run, repos) == coveredScanned(run, repos) /\ run.incomplete = {}   \* mutant
covered(run, repos) == /\ repos # {} /\ repos \subseteq Targets(run)
                       /\ repos \cap run.incomplete = {}

(* The issues of repository r this run can vouch for.                      *)
resolved(run, n) ==
    LET k == issues[n].key
    IN  /\ k \notin run.reported /\ tierOfType(k) \in run.tiers
        /\ IF k = DuplicateSkill THEN covered(run, issueRepos(n))
           ELSE Home(k) \in Targets(run)
        /\ ~(k[1] = "version-drift" /\ Home(k) \in run.missingTracked)
(* closeResolvedIssues goes through the targets, then the central          *)
(* repository.                                                             *)
ListResolved(m) ==
    /\ scan[m].phase = "file" /\ scan[m].pending = {} /\ scan[m].closing = {}
    /\ \E r \in scan[m].repos :
         /\ r \in Targets(scan[m]) \/ scan[m].repos = {r}
         /\ \/ Set(m, [scan[m] EXCEPT !.repos = @ \ {r},
                !.closing = IF r \in scan[m].incomplete THEN {}
                            ELSE {n \in DOMAIN issues : /\ issues[n].open
                                                        /\ Home(issues[n].key) = r
                                                        /\ resolved(scan[m], n)}])
            \/ r \notin scan[m].incomplete /\ Fails("list") /\ Abort(m)
    /\ UNCHANGED <<World, issues>>
CloseIssue(m) ==
    /\ scan[m].closing # {}
    /\ LET n == Max(scan[m].closing)
       IN  Request(m, "close", [issues EXCEPT ![n].open = FALSE],
                   Set(m, [scan[m] EXCEPT !.closing = @ \ {n}]))
Finish(m) ==
    /\ scan[m].phase = "file"
    /\ {scan[m].pending, scan[m].repos, scan[m].closing} = {{}}
    /\ Exit(m, "ok") /\ UNCHANGED <<World, issues>>

-----------------------------------------------------------------------------
Touch(keys) == scan' = [m \in Scanners |->
    IF Active(m) THEN [scan[m] EXCEPT !.touched = @ \cup keys] ELSE scan[m]]

(* A sync records a delivery or drops the repository; owners and merges    *)
(* change files.                                                           *)
Write(r) ==
    /\ writes < MaxWrites /\ writes' = writes + 1
    /\ \/ /\ \E h \in (Versions \cup {Nil}) \ {recorded[r]} : recorded' = [recorded EXCEPT ![r] = h]
          /\ Touch({<<"version-drift", r>>})
          /\ UNCHANGED <<document, skill, issues>>
       \/ /\ r \in Documented
          /\ \E h \in (Hashes \cup {Missing}) \ {document[r]} :
                document' = [document EXCEPT ![r] = h]
          /\ Touch(LocalTypes \X {r})
          /\ UNCHANGED <<recorded, skill, issues>>
       \/ /\ r \in Skilled
          /\ \E h \in (Hashes \cup {Missing}) \ {skill[r]} :
                /\ skill' = [skill EXCEPT ![r] = h]
                /\ issues' = IF h # Missing THEN issues ELSE
                     [n \in DOMAIN issues |-> [issues[n] EXCEPT !.standing = @ \ {r}]]
          /\ Touch({DuplicateSkill})
          /\ UNCHANGED <<recorded, document>>

(* Readers close an issue, or rewrite its title or its body, not both.     *)
Handle(n) ==
    /\ issues[n].open /\ writes < MaxWrites /\ writes' = writes + 1
    /\ \/ "close" \in Readers /\ issues' = [issues EXCEPT ![n].open = FALSE]
       \/ /\ "retitle" \in Readers /\ issues[n].fingerprint
          /\ issues' = [issues EXCEPT ![n].title = FALSE]
       \/ /\ "rewrite" \in Readers /\ issues[n].title
          /\ issues' = [issues EXCEPT ![n].fingerprint = FALSE]
    /\ Touch({issues[n].key}) /\ UNCHANGED <<recorded, document, skill>>

Step(m) == Load(m) \/ runTier(m) \/ FindIssue(m) \/ UpdateIssue(m)
           \/ CreateIssue(m) \/ ListResolved(m) \/ CloseIssue(m)
           \/ Finish(m)
Next == \/ \E m \in Scanners : Step(m)
        \/ \E r \in Repos : Write(r)
        \/ \E n \in DOMAIN issues : Handle(n)
Spec == Init /\ [][Next]_vars

-----------------------------------------------------------------------------
(* CNFLACT-007: a conflict has one open issue at most, when runs do not    *)
(* overlap, also after a run that lost the reply to a create and after     *)
(* readers changed a title or a body (createIssuesForConflicts).           *)
AtMostOnePerConflict == \A k \in Keys : Cardinality(OpenIssues(k)) <= 1

(* The participant list of an open issue, when it has one, names every     *)
(* repository it ever named whose copy of the skill is still there: runs   *)
(* that did not scan it or failed to read it do not forget it              *)
(* (mergeParticipants).                                                    *)
ParticipantsKept ==
    \A n \in DOMAIN issues :
        issues[n].open /\ issueRepos(n) # {} => issues[n].standing \subseteq issues[n].repos

(* closeResolvedIssues, "when this run can vouch for it": a run closes an  *)
(* issue only when its conflict is gone from the files, for a duplicate    *)
(* skill among the repositories ever named and the targets it could read,  *)
(* unless others changed what it is about during the run.                  *)
Gone(k, among) ==
    /\ k \notin FindingsIn(Home(k), recorded[Home(k)])
    /\ k[1] = "version-drift" => document[Home(k)] # Missing
    /\ k = DuplicateSkill => ~Differ(among)
Readable(m) == Targets(scan[m]) \ scan[m].incomplete
ClosesOnly(among(_)) ==
    \A m \in Scanners : \A n \in scan[m].closing \ scan'[m].closing :
        /\ issues[n].open /\ ~issues'[n].open /\ issues[n].key \notin scan[m].touched
        => Gone(issues[n].key, issues[n].standing \cup among(m))
ClosedOnlyWhenGone == [][ClosesOnly(Readable)]_vars

(* Of a run that ended well: did it check k, with no read failed?          *)
Ends(m) == scan[m].phase = "file" /\ scan'[m].phase = "ok"
Vouches(run, k) == /\ tierOfType(k) \in run.tiers /\ k \notin run.touched
                   /\ k # DuplicateSkill => Home(k) \in Targets(run) \ run.incomplete

(* Once a run has ended well, every conflict among the files it could read *)
(* has an open issue, whatever failed elsewhere (runTier1, runTier2,       *)
(* createIssuesForConflicts; tier 3 never ends well).                      *)
ConflictIsReported ==
    [][\A m \in Scanners : Ends(m) =>
         \A k \in Keys :
            /\ Vouches(scan[m], k)
            /\ IF k = DuplicateSkill
               THEN Differ(Readable(m))
               ELSE k \in FindingsIn(Home(k), recorded[Home(k)])
            => OpenIssues(k) # {}]_vars

(* ... and an issue whose conflict is gone is closed; one about several    *)
(* repositories only if it still lists them and all of them were read, and *)
(* drift only if the tracked file is there (closeResolvedIssues).          *)
ResolvedIsClosed ==
    [][\A m \in Scanners : Ends(m) /\ AutoClose /\ Targets(scan[m]) # {} =>
         \A k \in Keys :
            /\ Vouches(scan[m], k) /\ Home(k) \notin scan[m].incomplete
            /\ Gone(k, Targets(scan[m]))
            => \A n \in OpenIssues(k) :
                  /\ k = DuplicateSkill
                  /\ \/ issueRepos(n) = {}
                     \/ ~(issues[n].repos \subseteq Readable(m))]_vars

(* Stated by the repository and not kept by the code: "no content read     *)
(* failed in the repo the issue is about (for a central-repo issue about   *)
(* several repos, in any repo)" (conflict.go:331).  Only the failed reads  *)
(* of the participants count.                                              *)
AllTargets(m) == Targets(scan[m])
ClosedOnlyWhenAllRead == [][ClosesOnly(AllTargets)]_vars
=============================================================================
