--------------------------- MODULE Conflict_proofs ---------------------------
(***************************************************************************)
(* Runs of strspc conflict that do not overlap: one open issue for each    *)
(* conflict, participant lists that forget nobody, and an issue that is    *)
(* open or closed as the files call for.  For every number of repositories, *)
(* runs, failed requests and changes by people.                            *)
(***************************************************************************)
EXTENDS Conflict, FiniteSetTheorems, SequenceTheorems, WellFoundedInduction, TLAPS

(* A run that is about to file a finding knows which, and only a run in    *)
(* progress closes issues.                                                 *)
Aims(run) == /\ run.phase = "send" => run.at \in Keys
             /\ run.closing # {} => run.phase \in {"scan", "file", "send"}
TypeInv == TypeOK /\ \A m \in Scanners : Aims(scan[m])

(* The issues of a finding, and the findings about one repository.         *)
Opens(list, k) == {n \in DOMAIN list : list[n].open /\ list[n].key = k}
Locals == LocalTypes \X Repos
Holds(k, doc, expected) ==
    \/ k[1] = "version-drift" /\ doc[Home(k)] \notin {Missing, expected[Home(k)]}
    \/ k[1] = "cross-reference-broken" /\ doc[Home(k)] \in Broken
    \/ k[1] = "manual-override" /\ doc[Home(k)] \in Overlapping
Differing(skl, among) ==
    \E a, b \in among : Missing \notin {skl[a], skl[b]} /\ skl[a] # skl[b]

(* The issues: one for each finding, which a run can recognize; only those *)
(* of a duplicate skill have participants, whose copies are there, and the *)
(* list in the body names them all.                                        *)
Unique(list) == \A k \in Keys : \A n, o \in Opens(list, k) : n = o
Marked(list) == \A n \in DOMAIN list : list[n].open => list[n].fingerprint \/ list[n].title
Standing(list, skl) == \A n \in DOMAIN list :
    /\ list[n].key # DuplicateSkill => list[n].standing = {}
    /\ \A r \in list[n].standing : skl[r] # Missing
Kept(list) == \A n \in DOMAIN list :
    list[n].open /\ list[n].fingerprint /\ list[n].repos # {}
        => list[n].standing \subseteq list[n].repos
ListInv(list, skl) == Unique(list) /\ Marked(list) /\ Standing(list, skl) /\ Kept(list)

(* What a run has read, which findings it has looked for, and what it then *)
(* vouches for.                                                            *)
Read(run) == Targets(run) \ run.incomplete
Checks(run, k) == /\ k \notin run.touched /\ tierOfType(k) \in run.tiers \ run.todo
                  /\ k \in Locals => Home(k) \in Read(run)
Vouched(run, k) == /\ k \notin run.reported /\ tierOfType(k) \in run.tiers
                   /\ k \in Locals => Home(k) \in Read(run)
                   /\ k[1] = "version-drift" => Home(k) \notin run.missingTracked
ListsRead(run, i) == i.fingerprint /\ i.repos # {} /\ i.repos \subseteq Read(run)

Shape(run) ==
    /\ run.todo \subseteq run.tiers
    /\ run.phase = "scan" => run.todo # {} /\ run.pending = {} /\ run.closing = {}
    /\ run.phase # "scan" => run.todo = {}
    /\ run.phase # "file" \/ run.pending # {} => run.closing = {}
    /\ run.pending \subseteq run.reported
    /\ \A k \in run.reported : tierOfType(k) \notin run.todo
    /\ 1 \in run.todo => run.missingTracked = {}
(* What the run reports is what the files call for.                        *)
Reports(run, rec, doc, skl) ==
    /\ \A r \in Targets(run) :
          <<"version-drift", r>> \notin run.touched => run.expected[r] = rec[r]
    /\ \A k \in Locals : Checks(run, k) =>
          (k \in run.reported <=> Holds(k, doc, run.expected))
    /\ \A r \in Repos : Checks(run, <<"version-drift", r>>) =>
          (r \in run.missingTracked <=> doc[r] = Missing)
    /\ Checks(run, DuplicateSkill) =>
          /\ Differing(skl, Read(run)) => DuplicateSkill \in run.reported
          /\ DuplicateSkill \in run.reported => Differing(skl, Targets(run))
(* Whoever was in conflict, and was read, is among the participants.       *)
Names(run, list) ==
    DuplicateSkill \in run.reported =>
        \A n \in DOMAIN list : list[n].standing \cap Read(run) \subseteq run.participants
(* What was reported is still to be filed, or is filed.                    *)
Files(run, list) ==
    run.phase # "scan" => \A k \in run.reported :
        \/ k \in run.pending \cup run.touched \/ (run.phase = "send" /\ k = run.at)
        \/ Opens(list, k) # {}
(* The issue found for the finding at hand is the one there is.            *)
Sends(run, list) ==
    run.phase = "send" =>
        /\ run.at \in run.reported
        /\ \A n \in Opens(list, run.at) : n = run.found
        /\ run.found # 0 =>
              /\ run.found \in DOMAIN list /\ list[run.found].key = run.at
              /\ run.at \notin run.touched => list[run.found].open
              /\ run.previous # {} => list[run.found].standing \subseteq run.previous
(* What is to be closed, and what else is left of what the run vouches for. *)
Closes(run, list) ==
    \A n \in run.closing :
        /\ n \in DOMAIN list /\ Vouched(run, list[n].key)
        /\ list[n].key = DuplicateSkill => list[n].standing \subseteq Read(run)
Cleans(run, list) ==
    run.phase # "scan" /\ AutoClose /\ Targets(run) # {} =>
        \A k \in Keys :
           Vouched(run, k) /\ k \notin run.touched /\ Home(k) \notin run.incomplete =>
             \/ Home(k) \in run.repos
             \/ \A n \in Opens(list, k) : \/ n \in run.closing
                                          \/ k = DuplicateSkill /\ ~ListsRead(run, list[n])
RunOK(run, rec, doc, skl, list) ==
    run.phase \in {"scan", "file", "send"} =>
        /\ Shape(run) /\ Reports(run, rec, doc, skl) /\ Names(run, list)
        /\ Files(run, list) /\ Sends(run, list) /\ Closes(run, list) /\ Cleans(run, list)

OneRun == \A m, k \in Scanners : Active(m) /\ Active(k) => m = k
ConflictInv == /\ TypeInv /\ ListInv(issues, skill) /\ OneRun
               /\ \A m \in Scanners : RunOK(scan[m], recorded, document, skill, issues)
-----------------------------------------------------------------------------
LEMMA Bounds ==
    /\ MaxIssues \in Nat /\ MaxWrites \in Nat /\ Central \in Repos
    /\ Missing \notin Hashes /\ Versions \subseteq Hashes
    /\ \A asked \in TierChoices : asked \in Seq(1..3) /\ asked # <<>>
    /\ Broken \subseteq Hashes /\ Overlapping \subseteq Hashes /\ Nil \notin Versions
BY ConflictAssumption DEF ConflictAssumption

LEMMA KeysAre ==
    /\ Keys = Locals \cup {DuplicateSkill} /\ DuplicateSkill \notin Locals
    /\ Home(DuplicateSkill) = Central /\ tierOfType(DuplicateSkill) = 2
    /\ DuplicateSkill[1] # "version-drift"
    /\ \A k \in Keys : Home(k) \in Repos /\ tierOfType(k) \in {1, 2}
    /\ \A r \in Repos : /\ <<"version-drift", r>> \in Locals
                        /\ Home(<<"version-drift", r>>) = r
                        /\ tierOfType(<<"version-drift", r>>) = 1
    /\ \A k \in Locals : k[1] = "version-drift" => k = <<"version-drift", Home(k)>>
BY Bounds DEF Keys, Locals, LocalTypes, DuplicateSkill, Home, tierOfType

(* The largest of a bounded set of numbers.                                *)
LEMMA HasMax ==
    ASSUME NEW N \in Nat, NEW S \in SUBSET (1..N), S # {}
    PROVE  Max(S) \in S /\ \A y \in S : y <= Max(S)
<1> DEFINE R == OpToRel(<, Nat)
           T == {i \in Nat : N - i \in S}
<1>1. IsWellFoundedOn(R, Nat)
  BY NatLessThanWellFounded
<1>2. \A x, y \in Nat : y < x => <<y, x>> \in R
  BY DEF OpToRel
<1>3. T # {} /\ T \subseteq Nat
  <2>1. PICK s \in S : TRUE
    OBVIOUS
  <2>2. N - s \in Nat /\ N - (N - s) = s
    OBVIOUS
  <2> QED BY <2>1, <2>2
<1> HIDE DEF R
<1>4. PICK i \in T : \A j \in T : ~ (<<j, i>> \in R)
  <2> HIDE DEF T
  <2> QED BY <1>1, <1>3, WFMin
<1>5. \A y \in S : y <= N - i
  <2> SUFFICES ASSUME NEW y \in S, ~(y <= N - i) PROVE FALSE
    OBVIOUS
  <2>1. N - y \in T /\ N - y < i
    OBVIOUS
  <2> QED BY <1>2, <1>3, <1>4, <2>1
<1>6. N - i \in S
  OBVIOUS
<1>7. \E x \in S : \A y \in S : x >= y
  BY <1>5, <1>6
<1>8. Max(S) \in S /\ \A y \in S : Max(S) >= y
  BY <1>7 DEF Max
<1> QED BY <1>8

LEMMA IdleTyped ==
    /\ IdleRun \in Run /\ Aims(IdleRun)
    /\ \A p \in {"ok", "failed"} :
         [IdleRun EXCEPT !.phase = p] \in Run /\ Aims([IdleRun EXCEPT !.phase = p])
<1>1. /\ [r \in Repos |-> Nil] \in [Repos -> Versions \cup {Nil}]
      /\ 0 \in 0..MaxIssues /\ <<>> \in Seq(1..3)
  BY Bounds
<1>2. IdleRun \in Run /\ IdleRun.phase = "idle" /\ IdleRun.closing = {}
  BY <1>1 DEF IdleRun, Run
<1>3. \A p \in {"ok", "failed"} : /\ [IdleRun EXCEPT !.phase = p] \in Run
                                 /\ [IdleRun EXCEPT !.phase = p].phase = p
                                 /\ [IdleRun EXCEPT !.phase = p].closing = {}
  BY <1>2 DEF Run
<1> QED BY <1>2, <1>3 DEF Aims

(* What stays typed when one run changes.                                  *)
LEMMA SetTyped ==
    ASSUME scan \in [Scanners -> Run], \A k \in Scanners : Aims(scan[k]),
           NEW m \in Scanners, NEW q \in Run, Aims(q), Set(m, q)
    PROVE  /\ scan' \in [Scanners -> Run] /\ \A k \in Scanners : Aims(scan'[k])
           /\ scan'[m] = q /\ \A k \in Scanners \ {m} : scan'[k] = scan[k]
BY DEF Set

LEMMA ExitTyped ==
    ASSUME scan \in [Scanners -> Run], \A k \in Scanners : Aims(scan[k]),
           NEW m \in Scanners, NEW p \in {"ok", "failed"}, Exit(m, p)
    PROVE  /\ scan' \in [Scanners -> Run] /\ \A k \in Scanners : Aims(scan'[k])
           /\ scan'[m].phase = p /\ \A k \in Scanners \ {m} : scan'[k] = scan[k]
<1>1. /\ [IdleRun EXCEPT !.phase = p] \in Run /\ Aims([IdleRun EXCEPT !.phase = p])
  BY IdleTyped
<1>2. [IdleRun EXCEPT !.phase = p].phase = p
  BY DEF IdleRun
<1> QED BY <1>1, <1>2, SetTyped DEF Exit

(* The runs a step can leave behind.                                       *)
LEMMA LoadTyped ==
    ASSUME TypeInv, NEW m \in Scanners, Load(m)
    PROVE  \E q \in Run : /\ Set(m, q) /\ Aims(q) /\ q.phase = "scan"
                          /\ q.tiers = q.todo /\ q.todo # {}
                          /\ q.pending = {} /\ q.closing = {} /\ q.reported = {}
                          /\ q.missingTracked = {}
                          /\ \/ q.expected = recorded
                             \/ q.expected = [r \in Repos |-> Nil]
<1>1. PICK asked \in TierChoices,
           state \in {recorded} \cup (IF Fails("load") THEN {IdleRun.expected} ELSE {}) :
           LET tiers == {asked[i] : i \in DOMAIN asked}
           IN  Set(m, [IdleRun EXCEPT !.phase = "scan", !.asked = asked, !.tiers = tiers,
                                      !.todo = tiers, !.expected = state])
  BY DEF Load
<1> DEFINE tiers == {asked[i] : i \in DOMAIN asked}
<1>2. asked \in Seq(1..3) /\ tiers \in SUBSET (1..3) /\ tiers # {}
  <2>1. asked \in Seq(1..3) /\ asked # <<>>
    BY Bounds
  <2>2. \A i \in DOMAIN asked : asked[i] \in 1..3
    BY <2>1
  <2>3. 1 \in DOMAIN asked
    BY <2>1
  <2> QED BY <2>1, <2>2, <2>3
<1>3. /\ state \in [Repos -> Versions \cup {Nil}]
      /\ state = recorded \/ state = [r \in Repos |-> Nil]
  BY DEF IdleRun, TypeInv, TypeOK
<1> DEFINE q == [IdleRun EXCEPT !.phase = "scan", !.asked = asked, !.tiers = tiers,
                                !.todo = tiers, !.expected = state]
<1>4. IdleRun \in Run /\ IdleRun.pending = {} /\ IdleRun.closing = {}
      /\ IdleRun.reported = {} /\ IdleRun.missingTracked = {}
  BY IdleTyped DEF IdleRun
<1>7. Set(m, q)
  BY <1>1
<1> HIDE DEF tiers
<1>5. /\ q \in Run /\ q.phase = "scan" /\ q.tiers = tiers /\ q.todo = tiers
      /\ q.pending = {} /\ q.closing = {} /\ q.reported = {} /\ q.expected = state
      /\ q.missingTracked = {}
  BY <1>2, <1>3, <1>4 DEF Run
<1> HIDE DEF q
<1>6. Aims(q)
  BY <1>5 DEF Aims
<1> QED BY <1>2, <1>3, <1>5, <1>6, <1>7

(* One tier: what was found and read, by the reads that failed.            *)
FoundBy(run, tier, failed) ==
    {k \in Locals : /\ Home(k) \in Targets(run) /\ k \notin failed /\ tierOfType(k) = tier
                    /\ Holds(k, document, run.expected)}
SkillsRead(run, failed) ==
    {r \in Targets(run) : <<"duplicate-skill", r>> \notin failed /\ skill[r] # Missing}
AbsentRead(run, failed) ==
    {r \in Targets(run) : <<"version-drift", r>> \notin failed /\ document[r] = Missing}
Tiered(run, q, tier, failed) ==
    /\ q.tiers = run.tiers /\ q.expected = run.expected /\ q.touched = run.touched
    /\ q.closing = run.closing
    /\ q.todo = run.todo \ {tier}
    /\ q.phase = IF run.todo = {tier} THEN "file" ELSE "scan"
    /\ q.incomplete = run.incomplete \cup {f[2] : f \in failed}
    /\ q.missingTracked = run.missingTracked
                          \cup (IF tier = 1 THEN AbsentRead(run, failed) ELSE {})
    /\ q.reported = run.reported \cup FoundBy(run, tier, failed)
         \cup (IF tier = 2 /\ Differing(skill, SkillsRead(run, failed))
               THEN {DuplicateSkill} ELSE {})
    /\ q.participants = IF tier = 2 /\ DuplicateSkill \in q.reported
                        THEN SkillsRead(run, failed) ELSE run.participants
    /\ q.pending = IF run.todo = {tier} THEN q.reported ELSE run.pending
    /\ q.repos = IF run.todo = {tier} /\ AutoClose /\ Targets(run) # {}
                 THEN Targets(run) \cup {Central} ELSE run.repos

TierRun(run, tier, failed, reported) ==
    LET last == run.todo = {tier}
    IN  [run EXCEPT
           !.phase = IF last THEN "file" ELSE @,
           !.todo = @ \ {tier},
           !.incomplete = @ \cup {f[2] : f \in failed},
           !.missingTracked = @ \cup (IF tier = 1 THEN AbsentRead(run, failed) ELSE {}),
           !.reported = reported,
           !.participants = IF tier = 2 /\ DuplicateSkill \in reported
                            THEN SkillsRead(run, failed) ELSE @,
           !.pending = IF last THEN reported ELSE @,
           !.repos = IF last /\ AutoClose /\ Targets(run) # {}
                     THEN Targets(run) \cup {Central} ELSE @]
TierFinds(run, tier, failed) ==
    run.reported \cup FoundBy(run, tier, failed)
      \cup (IF tier = 2 /\ Differing(skill, SkillsRead(run, failed))
            THEN {DuplicateSkill} ELSE {})

LEMMA FindingsAre ==
    ASSUME NEW run, NEW tier, NEW failed
    PROVE  {k \in (UNION {FindingsIn(r, run.expected[r]) : r \in Targets(run)}) \ failed :
              tierOfType(k) = tier} = FoundBy(run, tier, failed)
<1>1. \A r \in Repos : FindingsIn(r, run.expected[r]) =
                         {k \in Locals : Home(k) = r /\ Holds(k, document, run.expected)}
  BY DEF FindingsIn, Locals, Home, Holds, checkVersionDrift, checkCrossReferences,
         checkSectionOverlap
<1>2. Targets(run) \subseteq Repos
  BY DEF Targets
<1>3. \A k : k \in UNION {FindingsIn(r, run.expected[r]) : r \in Targets(run)} <=>
             k \in Locals /\ Home(k) \in Targets(run) /\ Holds(k, document, run.expected)
  BY <1>1, <1>2
<1> QED BY <1>3 DEF FoundBy

LEMMA TierTyped ==
    ASSUME TypeInv, NEW m \in Scanners, runTier(m), ~Abort(m)
    PROVE  \E tier \in scan[m].todo \ {3} :
             \E failed \in SUBSET (TypesOf(tier) \X Targets(scan[m])), q \in Run :
                Set(m, q) /\ Aims(q) /\ Tiered(scan[m], q, tier, failed)
<1> DEFINE run == scan[m]
           targets == Targets(run)
<1>1. PICK tier, failed :
        /\ tier \in scan[m].todo \ {3} /\ failed \in FailedReads(tier, targets)
        /\ LET last == run.todo = {tier}
               read(type) == {r \in targets : <<type, r>> \notin failed}
               findings == UNION {FindingsIn(r, run.expected[r]) : r \in targets}
               found == {k \in findings \ failed : tierOfType(k) = tier}
               skills == {r \in read("duplicate-skill") : skill[r] # Missing}
               reported == run.reported \cup found
                           \cup (IF tier = 2 THEN DuplicatesIn(skills) ELSE {})
           IN  Set(m, [run EXCEPT
                 !.phase = IF last THEN "file" ELSE @,
                 !.todo = @ \ {tier},
                 !.incomplete = @ \cup {f[2] : f \in failed},
                 !.missingTracked = @ \cup (IF tier = 1
                     THEN {r \in read("version-drift") : document[r] = Missing} ELSE {}),
                 !.reported = reported,
                 !.participants = IF tier = 2 /\ DuplicateSkill \in reported
                                  THEN skills ELSE @,
                 !.pending = IF last THEN reported ELSE @,
                 !.repos = IF last /\ AutoClose /\ targets # {}
                           THEN targets \cup {Central} ELSE @])
  BY DEF runTier
<1> DEFINE last == run.todo = {tier}
<1>2. /\ {r \in {x \in targets : <<"duplicate-skill", x>> \notin failed} : skill[r] # Missing}
           = SkillsRead(run, failed)
      /\ {r \in {x \in targets : <<"version-drift", x>> \notin failed} : document[r] = Missing}
           = AbsentRead(run, failed)
  BY DEF SkillsRead, AbsentRead
<1>3. DuplicatesIn(SkillsRead(run, failed)) =
        IF Differing(skill, SkillsRead(run, failed)) THEN {DuplicateSkill} ELSE {}
  BY DEF DuplicatesIn, Differ, Differing
<1>4. Set(m, TierRun(run, tier, failed, TierFinds(run, tier, failed)))
  <2>1. {k \in (UNION {FindingsIn(r, run.expected[r]) : r \in targets}) \ failed :
            tierOfType(k) = tier} = FoundBy(run, tier, failed)
    BY FindingsAre
  <2> HIDE DEF run, targets
  <2> QED BY <1>1, <1>2, <1>3, <2>1 DEF TierRun, TierFinds, targets
<1>5. run \in Run /\ run.phase = "scan" /\ targets \subseteq Repos
  BY DEF TypeInv, TypeOK, runTier, Targets
<1>6. failed \in SUBSET (TypesOf(tier) \X targets)
  BY <1>1 DEF FailedReads
<1> DEFINE reported == TierFinds(run, tier, failed)
<1>7. reported \in SUBSET Keys
  BY <1>5, KeysAre DEF Run, TierFinds, FoundBy
<1>8. /\ {f[2] : f \in failed} \in SUBSET Repos
      /\ SkillsRead(run, failed) \in SUBSET Repos /\ AbsentRead(run, failed) \in SUBSET Repos
  BY <1>5, <1>6 DEF SkillsRead, AbsentRead
<1> DEFINE q == TierRun(run, tier, failed, reported)
<1>9. q \in Run /\ Tiered(run, q, tier, failed)
  <2> DEFINE absent == run.missingTracked
                       \cup (IF tier = 1 THEN AbsentRead(run, failed) ELSE {})
             part == IF tier = 2 /\ DuplicateSkill \in reported
                     THEN SkillsRead(run, failed) ELSE run.participants
             repos == IF last /\ AutoClose /\ targets # {} THEN targets \cup {Central}
                      ELSE run.repos
             pending == IF last THEN reported ELSE run.pending
             phase == IF last THEN "file" ELSE "scan"
             inc == run.incomplete \cup {f[2] : f \in failed}
             todo == run.todo \ {tier}
  <2>1. /\ absent \in SUBSET Repos /\ part \in SUBSET Repos /\ repos \in SUBSET Repos
        /\ pending \in SUBSET Keys /\ phase \in {"file", "scan"} /\ inc \in SUBSET Repos
        /\ todo \in SUBSET (1..3)
    BY <1>5, <1>7, <1>8, Bounds DEF Run
  <2>2. q = [run EXCEPT !.phase = phase, !.todo = todo, !.incomplete = inc,
               !.missingTracked = absent, !.reported = reported, !.participants = part,
               !.pending = pending, !.repos = repos]
    BY <1>5 DEF TierRun
  <2> HIDE DEF absent, part, repos, pending, phase, inc, todo, reported, q, run
  <2>3. /\ q \in Run /\ q.tiers = run.tiers /\ q.expected = run.expected
        /\ q.touched = run.touched /\ q.closing = run.closing /\ q.todo = todo
        /\ q.phase = phase /\ q.incomplete = inc /\ q.missingTracked = absent
        /\ q.reported = reported /\ q.participants = part /\ q.pending = pending
        /\ q.repos = repos
    BY <1>5, <1>7, <2>1, <2>2 DEF Run
  <2> QED BY <2>3 DEF absent, part, repos, pending, phase, inc, todo, reported, Tiered,
                      TierFinds
<1> HIDE DEF q
<1>10. Aims(q)
  BY <1>9 DEF Aims, Tiered
<1>11. tier \in scan[m].todo \ {3}
  BY <1>1
<1> QED BY <1>4, <1>6, <1>9, <1>10, <1>11 DEF q

(* A run keeps what it read and reported.                                  *)
SameRun(run, q) ==
    /\ q.tiers = run.tiers /\ q.expected = run.expected /\ q.todo = run.todo
    /\ q.incomplete = run.incomplete /\ q.missingTracked = run.missingTracked
    /\ q.reported = run.reported /\ q.participants = run.participants
    /\ q.touched = run.touched

LEMMA MatchingIs ==
    ASSUME TypeInv, NEW k
    PROVE  LET n == IF matching(k) = {} THEN 0 ELSE Max(matching(k))
           IN  /\ n \in 0..MaxIssues
               /\ matching(k) # {} => n \in matching(k)
               /\ n # 0 <=> matching(k) # {}
<1>1. /\ matching(k) \in SUBSET (1..Len(issues)) /\ Len(issues) \in Nat
      /\ Len(issues) <= MaxIssues
  BY DEF TypeInv, TypeOK, matching, OpenIssues
<1>2. CASE matching(k) = {}
  BY <1>2, Bounds
<1>3. CASE matching(k) # {}
  <2>1. Max(matching(k)) \in matching(k)
    BY <1>1, <1>3, HasMax
  <2> QED BY <1>1, <1>3, <2>1, Bounds
<1> QED BY <1>2, <1>3

LEMMA FindTyped ==
    ASSUME TypeInv, NEW m \in Scanners, FindIssue(m), ~Abort(m)
    PROVE  \E k \in scan[m].pending, q \in Run :
              /\ Set(m, q) /\ Aims(q) /\ SameRun(scan[m], q) /\ k \in Keys
              /\ q.phase = "send" /\ q.at = k /\ q.pending = scan[m].pending \ {k}
              /\ q.closing = scan[m].closing /\ q.repos = scan[m].repos
              /\ matching(k) # {} => q.found \in matching(k)
              /\ q.found # 0 <=> matching(k) # {}
              /\ q.found # 0 => q.previous = issueRepos(q.found)
<1> DEFINE run == scan[m]
           num(k) == IF matching(k) = {} THEN 0 ELSE Max(matching(k))
<1>1. PICK k \in run.pending :
         Set(m, [run EXCEPT !.phase = "send", !.at = k, !.found = num(k),
                            !.pending = @ \ {k},
                            !.previous = IF num(k) = 0 THEN {} ELSE issueRepos(num(k))])
  BY DEF FindIssue
<1>2. run \in Run /\ run.phase = "file" /\ issues \in Seq(Issue) /\ k \in Keys
  BY DEF TypeInv, TypeOK, FindIssue, Run
<1> DEFINE n == num(k)
<1>3. /\ n \in 0..MaxIssues /\ (matching(k) # {} => n \in matching(k))
      /\ (n # 0 <=> matching(k) # {})
  BY MatchingIs
<1> HIDE DEF num
<1> DEFINE previous == IF n = 0 THEN {} ELSE issueRepos(n)
<1>4. previous \in SUBSET Repos
  <2>1. n # 0 => n \in DOMAIN issues
    BY <1>3 DEF matching, OpenIssues
  <2>2. n # 0 => issues[n] \in Issue
    BY <1>2, <2>1, ElementOfSeq
  <2> QED BY <2>2 DEF issueRepos, Issue
<1> DEFINE q == [run EXCEPT !.phase = "send", !.at = k, !.found = n,
                            !.pending = @ \ {k}, !.previous = previous]
<1>5. /\ q \in Run /\ SameRun(run, q) /\ q.phase = "send" /\ q.at = k /\ q.found = n
      /\ q.pending = run.pending \ {k} /\ q.closing = run.closing /\ q.repos = run.repos
      /\ q.previous = previous
  <2> HIDE DEF n, previous, run
  <2> QED BY <1>2, <1>3, <1>4 DEF Run, SameRun
<1>6. Set(m, q)
  BY <1>1
<1> HIDE DEF q
<1>7. Aims(q)
  BY <1>2, <1>5 DEF Aims
<1> QED BY <1>2, <1>3, <1>5, <1>6, <1>7

Continues(run, q) == /\ SameRun(run, q) /\ q.phase = "file" /\ q.pending = run.pending
                     /\ q.closing = run.closing /\ q.repos = run.repos
LEMMA FiledTyped ==
    ASSUME TypeInv, NEW m \in Scanners, Filed(m)
    PROVE  \E q \in Run : Set(m, q) /\ Aims(q) /\ Continues(scan[m], q)
<1> DEFINE q == [scan[m] EXCEPT !.phase = "file", !.at = Nil, !.found = 0, !.previous = {}]
<1>1. scan[m] \in Run
  BY DEF TypeInv, TypeOK
<1>2. Nil \in Keys \cup {Nil} /\ 0 \in 0..MaxIssues /\ {} \in SUBSET Repos
  BY Bounds
<1>3. q \in Run /\ Aims(q) /\ Continues(scan[m], q)
  BY <1>1, <1>2 DEF Run, Aims, Continues, SameRun
<1>4. Set(m, q)
  BY DEF Filed
<1> HIDE DEF q
<1> QED BY <1>3, <1>4

(* Which issues a run is to close after it went through a repository.      *)
ToClose(run, r) == IF r \in run.incomplete THEN {}
                   ELSE {n \in DOMAIN issues : /\ issues[n].open /\ Home(issues[n].key) = r
                                               /\ resolved(run, n)}
LEMMA CleanTyped ==
    ASSUME TypeInv, NEW m \in Scanners, ListResolved(m), ~Abort(m)
    PROVE  \E r \in scan[m].repos, q \in Run :
              /\ Set(m, q) /\ Aims(q) /\ SameRun(scan[m], q) /\ q.phase = "file"
              /\ q.pending = {} /\ q.repos = scan[m].repos \ {r}
              /\ q.closing = ToClose(scan[m], r)
<1> DEFINE run == scan[m]
<1>1. PICK r \in run.repos :
         Set(m, [run EXCEPT !.repos = @ \ {r}, !.closing = ToClose(run, r)])
  BY DEF ListResolved, ToClose
<1>2. run \in Run /\ run.phase = "file" /\ run.pending = {}
      /\ issues \in Seq(Issue) /\ Len(issues) <= MaxIssues
  BY DEF TypeInv, TypeOK, ListResolved
<1>3. ToClose(run, r) \in SUBSET (1..MaxIssues)
  <2>1. ToClose(run, r) \subseteq DOMAIN issues /\ DOMAIN issues = 1..Len(issues)
    BY <1>2 DEF ToClose
  <2> QED BY <1>2, <2>1, Bounds
<1> HIDE DEF run
<1> DEFINE q == [run EXCEPT !.repos = @ \ {r}, !.closing = ToClose(run, r)]
<1>4. /\ q \in Run /\ SameRun(run, q) /\ q.phase = "file" /\ q.pending = {}
      /\ q.repos = run.repos \ {r} /\ q.closing = ToClose(run, r)
  BY <1>2, <1>3 DEF Run, SameRun
<1>5. Aims(q) /\ Set(m, q)
  BY <1>1, <1>4 DEF Aims
<1> HIDE DEF q
<1> QED BY <1>4, <1>5 DEF run

LEMMA ClosingTyped ==
    ASSUME TypeInv, NEW m \in Scanners, NEW n, Set(m, [scan[m] EXCEPT !.closing = @ \ {n}])
    PROVE  \E q \in Run :
              /\ Set(m, q) /\ Aims(q) /\ SameRun(scan[m], q) /\ q.phase = scan[m].phase
              /\ q.pending = scan[m].pending /\ q.repos = scan[m].repos
              /\ q.at = scan[m].at /\ q.found = scan[m].found
              /\ q.previous = scan[m].previous
              /\ q.closing = scan[m].closing \ {n}
<1> DEFINE q == [scan[m] EXCEPT !.closing = @ \ {n}]
<1>1. scan[m] \in Run /\ Aims(scan[m])
  BY DEF TypeInv, TypeOK
<1>2. /\ q \in Run /\ SameRun(scan[m], q) /\ q.phase = scan[m].phase
      /\ q.pending = scan[m].pending /\ q.repos = scan[m].repos
      /\ q.at = scan[m].at /\ q.found = scan[m].found /\ q.previous = scan[m].previous
      /\ q.closing = scan[m].closing \ {n}
  BY <1>1 DEF Run, SameRun
<1>3. Set(m, q)
  OBVIOUS
<1> HIDE DEF q
<1>4. Aims(q)
  BY <1>1, <1>2 DEF Aims
<1> QED BY <1>2, <1>3, <1>4

(* Others touch findings: the runs in progress remember which.             *)
Touched(run, q, T) ==
    /\ q.phase = run.phase /\ q.tiers = run.tiers /\ q.expected = run.expected
    /\ q.todo = run.todo
    /\ q.incomplete = run.incomplete /\ q.missingTracked = run.missingTracked
    /\ q.reported = run.reported /\ q.participants = run.participants
    /\ q.pending = run.pending /\ q.at = run.at /\ q.found = run.found
    /\ q.previous = run.previous /\ q.repos = run.repos /\ q.closing = run.closing
    /\ q.touched = run.touched \cup T
LEMMA TouchTyped ==
    ASSUME TypeInv, NEW T \in SUBSET Keys, Touch(T)
    PROVE  /\ scan' \in [Scanners -> Run] /\ \A m \in Scanners : Aims(scan'[m])
           /\ \A m \in Scanners : ~Active(m) => scan'[m] = scan[m]
           /\ \A m \in Scanners : Active(m) => Touched(scan[m], scan'[m], T)
<1>1. scan \in [Scanners -> Run] /\ \A m \in Scanners : Aims(scan[m])
  BY DEF TypeInv, TypeOK
<1>2. ASSUME NEW m \in Scanners
      PROVE  LET q == [scan[m] EXCEPT !.touched = @ \cup T]
             IN  q \in Run /\ Aims(q) /\ Touched(scan[m], q, T)
  BY <1>1 DEF Run, Aims, Touched
<1> QED BY <1>1, <1>2 DEF Touch

-----------------------------------------------------------------------------
(* What requests, readers and owners do to the issues: they are appended   *)
(* and edited, never removed.                                              *)
Keeps(list, later) == /\ later \in Seq(Issue) /\ Len(later) = Len(list)
                      /\ DOMAIN later = DOMAIN list
                      /\ \A o \in DOMAIN list : later[o].key = list[o].key

LEMMA EditIssue ==
    ASSUME NEW list \in Seq(Issue), NEW n, NEW i,
           n \in DOMAIN list => i \in Issue /\ i.key = list[n].key
    PROVE  LET later == [list EXCEPT ![n] = i]
           IN  /\ Keeps(list, later)
               /\ n \in DOMAIN list => later[n] = i
               /\ \A o \in DOMAIN list : o # n => later[o] = list[o]
<1>1. CASE n \in DOMAIN list
  BY <1>1, ExceptSeq DEF Keeps
<1>2. CASE n \notin DOMAIN list
  <2>1. list \in [1..Len(list) -> Issue]
    BY LenProperties
  <2>2. [list EXCEPT ![n] = i] = list
    BY <1>2, <2>1
  <2> QED BY <1>2, <2>2 DEF Keeps
<1> QED BY <1>1, <1>2

LEMMA IssuesAre ==
    ASSUME NEW list \in Seq(Issue)
    PROVE  \A o \in DOMAIN list : /\ list[o] \in Issue /\ list[o].key \in Keys
                                  /\ list[o].repos \in SUBSET Repos
                                  /\ list[o].standing \in SUBSET Repos
<1>1. \A o \in DOMAIN list : list[o] \in Issue
  BY ElementOfSeq
<1> QED BY <1>1 DEF Issue

Closed(list, n) == [list EXCEPT ![n].open = FALSE]
IsClosed(list, later, n) ==
    /\ Keeps(list, later)
    /\ \A o \in DOMAIN list : /\ later[o].open => o # n /\ list[o].open
                              /\ o # n => later[o] = list[o]
                              /\ later[o].repos = list[o].repos
                              /\ later[o].standing = list[o].standing
LEMMA Closing ==
    ASSUME NEW list \in Seq(Issue), NEW n
    PROVE  IsClosed(list, Closed(list, n), n)
<1> DEFINE i == [list[n] EXCEPT !.open = FALSE]
           later == [list EXCEPT ![n] = i]
<1>0. n \in DOMAIN list => list[n] \in Issue
  BY IssuesAre
<1>1. n \in DOMAIN list => /\ i \in Issue /\ ~i.open /\ i.key = list[n].key
                           /\ i.repos = list[n].repos /\ i.standing = list[n].standing
  BY <1>0 DEF Issue
<1>2. Closed(list, n) = later
  BY DEF Closed
<1> HIDE DEF i
<1>3. Keeps(list, later)
  BY <1>1, EditIssue
<1>4. \A o \in DOMAIN list : /\ later[o].open => o # n /\ list[o].open
                             /\ o # n => later[o] = list[o]
                             /\ later[o].repos = list[o].repos
                             /\ later[o].standing = list[o].standing
  BY <1>1, EditIssue
<1> QED BY <1>2, <1>3, <1>4 DEF IsClosed

Rewritten(list, n, names, conflict) ==
    [list EXCEPT ![n] = [@ EXCEPT !.fingerprint = TRUE, !.repos = names,
                                  !.standing = list[n].standing \cup conflict]]
IsRewritten(list, later, n, names, conflict) ==
    /\ Keeps(list, later)
    /\ \A o \in DOMAIN list : /\ later[o].open = list[o].open
                              /\ o # n => later[o] = list[o]
    /\ n \in DOMAIN list => /\ later[n].fingerprint /\ later[n].repos = names
                            /\ later[n].standing = list[n].standing \cup conflict
LEMMA Rewriting ==
    ASSUME NEW list \in Seq(Issue), NEW n, NEW names \in SUBSET Repos,
           NEW conflict \in SUBSET Repos
    PROVE  IsRewritten(list, Rewritten(list, n, names, conflict), n, names, conflict)
<1> DEFINE i == [list[n] EXCEPT !.fingerprint = TRUE, !.repos = names,
                                !.standing = list[n].standing \cup conflict]
           later == [list EXCEPT ![n] = i]
<1>0. n \in DOMAIN list => list[n] \in Issue
  BY IssuesAre
<1>1. n \in DOMAIN list =>
         /\ i \in Issue /\ i.open = list[n].open /\ i.key = list[n].key
         /\ i.fingerprint = TRUE /\ i.repos = names
         /\ i.standing = list[n].standing \cup conflict
  BY <1>0 DEF Issue
<1>2. Rewritten(list, n, names, conflict) = later
  BY DEF Rewritten
<1> HIDE DEF i
<1>3. Keeps(list, later)
  BY <1>1, EditIssue
<1>4. \A o \in DOMAIN list : later[o].open = list[o].open /\ (o # n => later[o] = list[o])
  BY <1>1, EditIssue
<1>5. ASSUME n \in DOMAIN list
      PROVE  /\ later[n].fingerprint /\ later[n].repos = names
             /\ later[n].standing = list[n].standing \cup conflict
  <2>1. later[n] = i
    BY <1>1, <1>5, EditIssue
  <2> QED BY <1>1, <1>5, <2>1
<1> QED BY <1>2, <1>3, <1>4, <1>5 DEF IsRewritten

IsMarked(list, later, n) ==
    /\ Keeps(list, later)
    /\ \A o \in DOMAIN list : /\ later[o].open = list[o].open
                              /\ later[o].fingerprint => list[o].fingerprint
                              /\ later[o].repos = list[o].repos
                              /\ later[o].standing = list[o].standing
                              /\ o # n => later[o] = list[o]
    /\ later[n].fingerprint \/ later[n].title
LEMMA Marking ==
    ASSUME NEW list \in Seq(Issue), NEW n \in DOMAIN list, NEW later,
           \/ list[n].fingerprint /\ later = [list EXCEPT ![n].title = FALSE]
           \/ list[n].title /\ later = [list EXCEPT ![n].fingerprint = FALSE]
    PROVE  IsMarked(list, later, n)
<1>1. list[n] \in Issue
  BY IssuesAre
<1>2. PICK i \in Issue : /\ later = [list EXCEPT ![n] = i] /\ i.key = list[n].key
                         /\ i.open = list[n].open /\ i.repos = list[n].repos
                         /\ i.standing = list[n].standing
                         /\ i.fingerprint => list[n].fingerprint
                         /\ i.fingerprint \/ i.title
  <2>1. CASE list[n].fingerprint /\ later = [list EXCEPT ![n].title = FALSE]
    <3> DEFINE i == [list[n] EXCEPT !.title = FALSE]
    <3>1. /\ i \in Issue /\ i.key = list[n].key
          /\ i.open = list[n].open /\ i.repos = list[n].repos
          /\ i.standing = list[n].standing /\ i.fingerprint
      BY <1>1, <2>1 DEF Issue
    <3>2. later = [list EXCEPT ![n] = i]
      BY <2>1
    <3> HIDE DEF i
    <3> QED BY <2>1, <3>1, <3>2
  <2>2. CASE list[n].title /\ later = [list EXCEPT ![n].fingerprint = FALSE]
    <3> DEFINE i == [list[n] EXCEPT !.fingerprint = FALSE]
    <3>1. /\ i \in Issue /\ i.key = list[n].key
          /\ i.open = list[n].open /\ i.repos = list[n].repos
          /\ i.standing = list[n].standing /\ ~i.fingerprint /\ i.title
      BY <1>1, <2>2 DEF Issue
    <3>2. later = [list EXCEPT ![n] = i]
      BY <2>2
    <3> HIDE DEF i
    <3> QED BY <3>1, <3>2
  <2> QED BY <2>1, <2>2
<1>3. Keeps(list, later)
  BY <1>2, EditIssue
<1>4. \A o \in DOMAIN list : /\ later[o].open = list[o].open
                             /\ later[o].fingerprint => list[o].fingerprint
                             /\ later[o].repos = list[o].repos
                             /\ later[o].standing = list[o].standing
                             /\ o # n => later[o] = list[o]
  BY <1>2, EditIssue
<1>5. later[n].fingerprint \/ later[n].title
  BY <1>2, EditIssue
<1> QED BY <1>3, <1>4, <1>5 DEF IsMarked

IsDropped(list, later) ==
    /\ Keeps(list, later)
    /\ \A o \in DOMAIN list : /\ later[o].open = list[o].open
                              /\ later[o].fingerprint = list[o].fingerprint
                              /\ later[o].title = list[o].title
                              /\ later[o].repos = list[o].repos
LEMMA Dropping ==
    ASSUME NEW list \in Seq(Issue), NEW r
    PROVE  LET later == [n \in DOMAIN list |-> [list[n] EXCEPT !.standing = @ \ {r}]]
           IN  /\ IsDropped(list, later)
               /\ \A o \in DOMAIN list : later[o].standing = list[o].standing \ {r}
<1> DEFINE i(n) == [list[n] EXCEPT !.standing = @ \ {r}]
           later == [n \in DOMAIN list |-> i(n)]
<1>1. \A n \in DOMAIN list :
         /\ i(n) \in Issue /\ i(n).open = list[n].open /\ i(n).key = list[n].key
         /\ i(n).fingerprint = list[n].fingerprint /\ i(n).title = list[n].title
         /\ i(n).repos = list[n].repos /\ i(n).standing = list[n].standing \ {r}
  BY IssuesAre DEF Issue
<1> HIDE DEF i
<1>2. DOMAIN list = 1..Len(list) /\ Len(list) \in Nat
  OBVIOUS
<1>3. later \in Seq(Issue) /\ Len(later) = Len(list) /\ DOMAIN later = DOMAIN list
  <2>1. later \in [1..Len(list) -> Issue]
    BY <1>1, <1>2
  <2>2. later \in Seq(Issue)
    BY <1>2, <2>1, SeqDef
  <2> QED BY <1>2, <2>1, <2>2
<1>4. \A o \in DOMAIN list : later[o] = i(o)
  OBVIOUS
<1> HIDE DEF later
<1>5. IsDropped(list, later)
  BY <1>1, <1>3, <1>4 DEF IsDropped, Keeps
<1> QED BY <1>1, <1>4, <1>5 DEF i, later

LEMMA Opening ==
    ASSUME NEW list \in Seq(Issue), NEW i \in Issue
    PROVE  LET later == Append(list, i)
           IN  /\ later \in Seq(Issue) /\ Len(later) = Len(list) + 1
               /\ DOMAIN later = DOMAIN list \cup {Len(list) + 1}
               /\ Len(list) + 1 \notin DOMAIN list
               /\ \A o \in DOMAIN list : later[o] = list[o]
               /\ later[Len(list) + 1] = i
<1>1. Len(Append(list, i)) = Len(list) + 1 /\ Len(list) \in Nat
  OBVIOUS
<1>2. DOMAIN Append(list, i) = DOMAIN list \cup {Len(list) + 1}
      /\ Len(list) + 1 \notin DOMAIN list
  <2>1. DOMAIN Append(list, i) = 1..(Len(list) + 1) /\ DOMAIN list = 1..Len(list)
    OBVIOUS
  <2> QED BY <1>1, <2>1
<1> QED BY <1>1, <1>2

-----------------------------------------------------------------------------
(* What a request about an issue does: to the issues, and to the run.      *)
LEMMA FiledStep ==
    ASSUME TypeInv, NEW m \in Scanners, NEW request, NEW after,
           Request(m, request, after, Filed(m))
    PROVE  /\ issues' \in {issues, after}
           /\ UNCHANGED <<recorded, document, skill, writes>>
           /\ \A k \in Scanners \ {m} : scan'[k] = scan[k]
           /\ scan' \in [Scanners -> Run] /\ \A k \in Scanners : Aims(scan'[k])
           /\ \/ issues' = after /\ Continues(scan[m], scan'[m])
              \/ scan'[m].phase = "failed"
<1>1. scan \in [Scanners -> Run] /\ \A k \in Scanners : Aims(scan[k])
  BY DEF TypeInv, TypeOK
<1>2. CASE issues' = after /\ Filed(m)
  <2>1. PICK q \in Run : Set(m, q) /\ Aims(q) /\ Continues(scan[m], q)
    BY <1>2, FiledTyped
  <2>2. scan'[m] = q /\ scan' \in [Scanners -> Run] /\ (\A k \in Scanners : Aims(scan'[k]))
        /\ \A k \in Scanners \ {m} : scan'[k] = scan[k]
    BY <1>1, <2>1, SetTyped
  <2> QED BY <1>2, <2>1, <2>2 DEF Request, World
<1>3. CASE issues' \in {issues, after} /\ Abort(m)
  BY <1>1, <1>3, ExitTyped DEF Abort, Request, World
<1> QED BY <1>2, <1>3 DEF Request

LEMMA CloseStep ==
    ASSUME TypeInv, NEW m \in Scanners, CloseIssue(m)
    PROVE  LET run == scan[m]
               q == scan'[m]
               n == Max(run.closing)
               after == Closed(issues, n)
           IN  /\ run.closing # {} /\ issues' \in {issues, after}
               /\ UNCHANGED <<recorded, document, skill, writes>>
               /\ \A k \in Scanners \ {m} : scan'[k] = scan[k]
               /\ scan' \in [Scanners -> Run] /\ \A k \in Scanners : Aims(scan'[k])
               /\ \/ /\ issues' = after /\ SameRun(run, q) /\ q.phase = run.phase
                     /\ q.pending = run.pending /\ q.repos = run.repos
                     /\ q.at = run.at /\ q.found = run.found /\ q.previous = run.previous
                     /\ q.closing = run.closing \ {n}
                  \/ q.phase = "failed"
<1> DEFINE n == Max(scan[m].closing)
           after == Closed(issues, n)
<1>1. scan \in [Scanners -> Run] /\ \A k \in Scanners : Aims(scan[k])
  BY DEF TypeInv, TypeOK
<1>2. /\ scan[m].closing # {} /\ UNCHANGED <<recorded, document, skill, writes>>
      /\ \/ issues' = after /\ Set(m, [scan[m] EXCEPT !.closing = @ \ {n}])
         \/ issues' \in {issues, after} /\ Abort(m)
  BY DEF CloseIssue, Request, Closed, World
<1> HIDE DEF n, after
<1>3. CASE issues' = after /\ Set(m, [scan[m] EXCEPT !.closing = @ \ {n}])
  <2>1. PICK q \in Run :
              /\ Set(m, q) /\ Aims(q) /\ SameRun(scan[m], q) /\ q.phase = scan[m].phase
              /\ q.pending = scan[m].pending /\ q.repos = scan[m].repos
              /\ q.at = scan[m].at /\ q.found = scan[m].found
              /\ q.previous = scan[m].previous
              /\ q.closing = scan[m].closing \ {n}
    BY <1>3, ClosingTyped
  <2>2. scan'[m] = q /\ scan' \in [Scanners -> Run] /\ (\A k \in Scanners : Aims(scan'[k]))
        /\ \A k \in Scanners \ {m} : scan'[k] = scan[k]
    BY <1>1, <2>1, SetTyped
  <2> QED BY <1>2, <1>3, <2>1, <2>2 DEF n, after
<1>4. CASE issues' \in {issues, after} /\ Abort(m)
  <2>1. /\ scan' \in [Scanners -> Run] /\ (\A k \in Scanners : Aims(scan'[k]))
        /\ scan'[m].phase = "failed" /\ \A k \in Scanners \ {m} : scan'[k] = scan[k]
    BY <1>1, <1>4, ExitTyped DEF Abort
  <2> QED BY <1>2, <1>4, <2>1 DEF n, after
<1> QED BY <1>2, <1>3, <1>4

(* The bodies a run writes.                                                *)
Naming(m) == IF scan[m].previous = {} THEN {} ELSE mergeParticipants(scan[m])
NewIssue(m) ==
    [key |-> scan[m].at, open |-> TRUE, fingerprint |-> TRUE, title |-> TRUE,
     standing |-> InConflict(m),
     repos |-> IF scan[m].at = DuplicateSkill THEN scan[m].participants ELSE {}]
LEMMA Bodies ==
    ASSUME TypeInv, NEW m \in Scanners
    PROVE  /\ Naming(m) \in SUBSET Repos /\ InConflict(m) \in SUBSET Repos
           /\ scan[m].phase = "send" => NewIssue(m) \in Issue
<1>1. scan[m] \in Run /\ Aims(scan[m])
  BY DEF TypeInv, TypeOK
<1>2. scan[m].participants \in SUBSET Repos /\ scan[m].previous \in SUBSET Repos
  BY <1>1 DEF Run
<1>3. Naming(m) \in SUBSET Repos /\ InConflict(m) \in SUBSET Repos
  BY <1>2 DEF Naming, mergeParticipants, InConflict
<1> QED BY <1>1, <1>2, <1>3 DEF NewIssue, Issue, Aims

LEMMA InitTyped == Init => TypeInv
<1> SUFFICES ASSUME Init PROVE TypeInv
  OBVIOUS
<1>1. issues \in Seq(Issue) /\ Len(issues) = 0
  BY DEF Init
<1>2. {document, skill} \subseteq [Repos -> Hashes \cup {Missing}]
  BY DEF Init
<1> QED BY <1>1, <1>2, IdleTyped, Bounds DEF Init, TypeInv, TypeOK

LEMMA WriteTyped ==
    ASSUME TypeInv, NEW r \in Repos, Write(r)
    PROVE  \E T \in SUBSET Keys :
              /\ Touch(T)
              /\ recorded' \in [Repos -> Versions \cup {Nil}]
              /\ document' \in [Repos -> Hashes \cup {Missing}]
              /\ skill' \in [Repos -> Hashes \cup {Missing}]
              /\ issues' = issues \/ IsDropped(issues, issues')
              /\ writes' \in 0..MaxWrites
<1>1. /\ recorded \in [Repos -> Versions \cup {Nil}]
      /\ document \in [Repos -> Hashes \cup {Missing}]
      /\ skill \in [Repos -> Hashes \cup {Missing}] /\ issues \in Seq(Issue)
      /\ writes \in 0..MaxWrites /\ writes < MaxWrites /\ writes' = writes + 1
  BY DEF TypeInv, TypeOK, Write
<1>2. writes' \in 0..MaxWrites
  BY <1>1, Bounds
<1>3. /\ {<<"version-drift", r>>} \in SUBSET Keys /\ LocalTypes \X {r} \in SUBSET Keys
      /\ {DuplicateSkill} \in SUBSET Keys
  BY DEF Keys, LocalTypes
<1>4. CASE /\ \E h \in (Versions \cup {Nil}) \ {recorded[r]} : recorded' = [recorded EXCEPT ![r] = h]
           /\ Touch({<<"version-drift", r>>})
           /\ UNCHANGED <<document, skill, issues>>
  BY <1>1, <1>2, <1>3, <1>4
<1>5. CASE /\ \E h \in (Hashes \cup {Missing}) \ {document[r]} :
                document' = [document EXCEPT ![r] = h]
           /\ Touch(LocalTypes \X {r})
           /\ UNCHANGED <<recorded, skill, issues>>
  BY <1>1, <1>2, <1>3, <1>5
<1>6. CASE /\ \E h \in (Hashes \cup {Missing}) \ {skill[r]} :
                /\ skill' = [skill EXCEPT ![r] = h]
                /\ issues' = IF h # Missing THEN issues ELSE
                     [n \in DOMAIN issues |-> [issues[n] EXCEPT !.standing = @ \ {r}]]
           /\ Touch({DuplicateSkill})
           /\ UNCHANGED <<recorded, document>>
  <2>1. skill' \in [Repos -> Hashes \cup {Missing}]
    BY <1>1, <1>6
  <2>2. issues' = issues \/ IsDropped(issues, issues')
    <3>1. \/ issues' = issues
          \/ issues' = [n \in DOMAIN issues |-> [issues[n] EXCEPT !.standing = @ \ {r}]]
      BY <1>6
    <3>2. IsDropped(issues, [n \in DOMAIN issues |-> [issues[n] EXCEPT !.standing = @ \ {r}]])
      BY <1>1, Dropping
    <3> QED BY <3>1, <3>2, Zenon
  <2> QED BY <1>1, <1>2, <1>3, <1>6, <2>1, <2>2
<1> QED BY <1>4, <1>5, <1>6 DEF Write

LEMMA NextTyped == ASSUME TypeInv, [Next]_vars PROVE TypeInv'
<1>0. /\ scan \in [Scanners -> Run] /\ (\A k \in Scanners : Aims(scan[k]))
      /\ issues \in Seq(Issue) /\ Len(issues) \in Nat /\ Len(issues) <= MaxIssues
      /\ recorded \in [Repos -> Versions \cup {Nil}]
      /\ {document, skill} \subseteq [Repos -> Hashes \cup {Missing}]
      /\ writes \in 0..MaxWrites
  BY DEF TypeInv, TypeOK
<1>1. ASSUME scan' \in [Scanners -> Run], \A k \in Scanners : Aims(scan'[k]),
             UNCHANGED <<recorded, document, skill, writes>>,
             issues' \in Seq(Issue), Len(issues') <= MaxIssues
      PROVE  TypeInv'
  BY <1>0, <1>1 DEF TypeInv, TypeOK
<1>2. ASSUME NEW m \in Scanners, Step(m) PROVE TypeInv'
  <2>1. ASSUME UNCHANGED <<recorded, document, skill, writes>>, issues' = issues,
               (\E q \in Run : Set(m, q) /\ Aims(q)) \/ Abort(m) \/ Exit(m, "ok")
        PROVE  TypeInv'
    <3>1. scan' \in [Scanners -> Run] /\ \A k \in Scanners : Aims(scan'[k])
      BY <1>0, <2>1, SetTyped, ExitTyped DEF Abort
    <3> QED BY <1>0, <1>1, <2>1, <3>1
  <2>2. CASE Load(m)
    BY <2>1, <2>2, LoadTyped DEF Load, World
  <2>3. CASE runTier(m)
    <3>1. (\E q \in Run : Set(m, q) /\ Aims(q)) \/ Abort(m)
      BY <2>3, TierTyped
    <3> QED BY <2>1, <2>3, <3>1 DEF runTier, World
  <2>4. CASE FindIssue(m)
    <3>1. (\E q \in Run : Set(m, q) /\ Aims(q)) \/ Abort(m)
      BY <2>4, FindTyped
    <3> QED BY <2>1, <2>4, <3>1 DEF FindIssue, World
  <2>5. CASE UpdateIssue(m)
    <3> DEFINE after == Rewritten(issues, scan[m].found, Naming(m), InConflict(m))
    <3>1. Request(m, "update", after, Filed(m))
      BY <2>5 DEF UpdateIssue, Rewritten, Naming
    <3>2. Keeps(issues, after)
      BY <1>0, Bodies, Rewriting DEF IsRewritten
    <3> HIDE DEF after
    <3>3. after \in Seq(Issue) /\ Len(after) <= MaxIssues
      BY <1>0, <3>2 DEF Keeps
    <3>4. /\ issues' \in {issues, after} /\ UNCHANGED <<recorded, document, skill, writes>>
          /\ scan' \in [Scanners -> Run] /\ \A k \in Scanners : Aims(scan'[k])
      BY <3>1, FiledStep
    <3>5. issues' \in Seq(Issue) /\ Len(issues') <= MaxIssues
      BY <1>0, <3>3, <3>4
    <3> QED BY <1>1, <3>4, <3>5
  <2>6. CASE CreateIssue(m)
    <3> DEFINE after == Append(issues, NewIssue(m))
    <3>1. Request(m, "create", after, Filed(m)) /\ Len(issues) < MaxIssues
          /\ scan[m].phase = "send"
      BY <2>6 DEF CreateIssue, NewIssue
    <3>2. after \in Seq(Issue) /\ Len(after) = Len(issues) + 1
      BY <1>0, <3>1, Bodies, Opening
    <3> HIDE DEF after
    <3>3. after \in Seq(Issue) /\ Len(after) <= MaxIssues
      BY <1>0, <3>1, <3>2, Bounds
    <3>4. /\ issues' \in {issues, after} /\ UNCHANGED <<recorded, document, skill, writes>>
          /\ scan' \in [Scanners -> Run] /\ \A k \in Scanners : Aims(scan'[k])
      BY <3>1, FiledStep
    <3>5. issues' \in Seq(Issue) /\ Len(issues') <= MaxIssues
      BY <1>0, <3>3, <3>4
    <3> QED BY <1>1, <3>4, <3>5
  <2>7. CASE ListResolved(m)
    <3>1. (\E q \in Run : Set(m, q) /\ Aims(q)) \/ Abort(m)
      BY <2>7, CleanTyped
    <3> QED BY <2>1, <2>7, <3>1 DEF ListResolved, World
  <2>8. CASE CloseIssue(m)
    <3>1. /\ issues' \in {issues, Closed(issues, Max(scan[m].closing))}
          /\ UNCHANGED <<recorded, document, skill, writes>>
          /\ scan' \in [Scanners -> Run] /\ \A k \in Scanners : Aims(scan'[k])
      BY <2>8, CloseStep
    <3>2. Keeps(issues, Closed(issues, Max(scan[m].closing)))
      BY <1>0, Closing DEF IsClosed
    <3>3. issues' \in Seq(Issue) /\ Len(issues') <= MaxIssues
      BY <1>0, <3>1, <3>2 DEF Keeps
    <3> QED BY <1>1, <3>1, <3>3
  <2>9. CASE Finish(m)
    BY <2>1, <2>9 DEF Finish, World
  <2> QED BY <1>2, <2>2, <2>3, <2>4, <2>5, <2>6, <2>7, <2>8, <2>9 DEF Step
<1>3. ASSUME NEW r \in Repos, Write(r) PROVE TypeInv'
  <2>1. PICK T \in SUBSET Keys :
              /\ Touch(T)
              /\ recorded' \in [Repos -> Versions \cup {Nil}]
              /\ document' \in [Repos -> Hashes \cup {Missing}]
              /\ skill' \in [Repos -> Hashes \cup {Missing}]
              /\ issues' = issues \/ IsDropped(issues, issues')
              /\ writes' \in 0..MaxWrites
    BY <1>3, WriteTyped
  <2>2. scan' \in [Scanners -> Run] /\ \A m \in Scanners : Aims(scan'[m])
    <3>1. Touch(T)
      BY <2>1
    <3> QED BY <3>1, TouchTyped
  <2>3. issues' \in Seq(Issue) /\ Len(issues') <= MaxIssues
    <3>1. issues' = issues \/ IsDropped(issues, issues')
      BY <2>1
    <3> QED BY <1>0, <3>1 DEF IsDropped, Keeps
  <2> QED BY <2>1, <2>2, <2>3 DEF TypeInv, TypeOK
<1>4. ASSUME NEW n \in DOMAIN issues, Handle(n) PROVE TypeInv'
  <2>1. {issues[n].key} \in SUBSET Keys
    BY <1>0, IssuesAre
  <2>2. scan' \in [Scanners -> Run] /\ \A m \in Scanners : Aims(scan'[m])
    BY <1>4, <2>1, TouchTyped DEF Handle
  <2>3. Keeps(issues, issues')
    <3>1. CASE issues' = Closed(issues, n)
      BY <1>0, <3>1, Closing DEF IsClosed
    <3>2. CASE \/ issues[n].fingerprint /\ issues' = [issues EXCEPT ![n].title = FALSE]
               \/ issues[n].title /\ issues' = [issues EXCEPT ![n].fingerprint = FALSE]
      BY <1>0, <3>2, Marking DEF IsMarked
    <3> QED BY <1>4, <3>1, <3>2 DEF Handle, Closed
  <2>4. issues' \in Seq(Issue) /\ Len(issues') <= MaxIssues
    BY <1>0, <2>3 DEF Keeps
  <2>5. writes' \in 0..MaxWrites
    BY <1>0, <1>4, Bounds DEF Handle
  <2> QED BY <1>0, <1>4, <2>2, <2>4, <2>5 DEF Handle, TypeInv, TypeOK
<1>5. CASE UNCHANGED vars
  BY <1>5 DEF vars, TypeInv, TypeOK
<1> QED BY <1>2, <1>3, <1>4, <1>5 DEF Next

(* The state of the conflict runs keeps its types, whether they overlap or *)
(* not.                                                                    *)
THEOREM TypeHolds == Spec => []TypeOK
<1>1. TypeInv /\ [Next]_vars => TypeInv'
  BY NextTyped
<1>2. TypeInv => TypeOK
  BY DEF TypeInv
<1> QED BY <1>1, <1>2, InitTyped, PTL DEF Spec

-----------------------------------------------------------------------------
(* What the vouching of a run is made of.                                  *)
LEMMA SameReports ==
    ASSUME NEW run, NEW q, NEW rec, NEW doc, NEW skl, SameRun(run, q)
    PROVE  /\ Targets(q) = Targets(run) /\ Read(q) = Read(run)
           /\ \A k : Vouched(q, k) <=> Vouched(run, k)
           /\ \A i : ListsRead(q, i) <=> ListsRead(run, i)
           /\ Reports(run, rec, doc, skl) => Reports(q, rec, doc, skl)
<1>1. Targets(q) = Targets(run) /\ Read(q) = Read(run)
  BY DEF SameRun, Targets, Read
<1>2. \A k : Checks(q, k) <=> Checks(run, k)
  BY <1>1 DEF SameRun, Checks
<1>3. \A k : Vouched(q, k) <=> Vouched(run, k)
  BY <1>1 DEF SameRun, Vouched
<1>4. \A i : ListsRead(q, i) <=> ListsRead(run, i)
  BY <1>1 DEF ListsRead
<1>5. Reports(run, rec, doc, skl) => Reports(q, rec, doc, skl)
  BY <1>1, <1>2 DEF Reports, SameRun
<1> QED BY <1>1, <1>3, <1>4, <1>5

(* What others do concerns the findings in T only; issues may be closed,   *)
(* and lose marks, and repositories leave the histories.                   *)
Elsewhere(T, rec, doc, skl, list, rec2, doc2, skl2, later) ==
    /\ \A r \in Repos : <<"version-drift", r>> \notin T => rec2[r] = rec[r]
    /\ \A k \in Locals : k \notin T => doc2[Home(k)] = doc[Home(k)]
    /\ DuplicateSkill \notin T => skl2 = skl
    /\ DOMAIN later = DOMAIN list
    /\ \A k \in Keys : Opens(later, k) \subseteq Opens(list, k)
    /\ \A k \in Keys : k \notin T => Opens(list, k) \subseteq Opens(later, k)
    /\ \A n \in DOMAIN list : /\ later[n].key = list[n].key
                              /\ later[n].repos = list[n].repos
                              /\ later[n].fingerprint => list[n].fingerprint
                              /\ later[n].standing \subseteq list[n].standing

LEMMA FrameReports ==
    ASSUME NEW run, NEW q, NEW T, NEW rec, NEW doc, NEW skl, NEW list,
           NEW rec2, NEW doc2, NEW skl2, NEW later,
           Elsewhere(T, rec, doc, skl, list, rec2, doc2, skl2, later),
           Touched(run, q, T), Reports(run, rec, doc, skl)
    PROVE  Reports(q, rec2, doc2, skl2)
<1>1. Targets(q) = Targets(run) /\ Read(q) = Read(run) /\ Targets(run) \subseteq Repos
  BY DEF Touched, Targets, Read
<1>2. \A k : Checks(q, k) => Checks(run, k) /\ k \notin T
  BY <1>1 DEF Touched, Checks
<1>3. /\ q.expected = run.expected /\ q.reported = run.reported
      /\ q.missingTracked = run.missingTracked /\ q.touched = run.touched \cup T
  BY DEF Touched
<1>4. ASSUME NEW r \in Targets(q), <<"version-drift", r>> \notin q.touched
      PROVE  q.expected[r] = rec2[r]
  BY <1>1, <1>3, <1>4 DEF Reports, Elsewhere
<1>5. ASSUME NEW k \in Locals, Checks(q, k)
      PROVE  k \in q.reported <=> Holds(k, doc2, q.expected)
  <2>1. k \in run.reported <=> Holds(k, doc, run.expected)
    BY <1>2, <1>5 DEF Reports
  <2>2. doc2[Home(k)] = doc[Home(k)]
    BY <1>2, <1>5 DEF Elsewhere
  <2> QED BY <1>3, <2>1, <2>2 DEF Holds
<1>6. ASSUME NEW r \in Repos, Checks(q, <<"version-drift", r>>)
      PROVE  r \in q.missingTracked <=> doc2[r] = Missing
  <2>1. r \in run.missingTracked <=> doc[r] = Missing
    BY <1>2, <1>6 DEF Reports
  <2>2. doc2[r] = doc[r]
    BY <1>2, <1>6, KeysAre DEF Elsewhere
  <2> QED BY <1>3, <2>1, <2>2
<1>7. ASSUME Checks(q, DuplicateSkill)
      PROVE  /\ Differing(skl2, Read(q)) => DuplicateSkill \in q.reported
             /\ DuplicateSkill \in q.reported => Differing(skl2, Targets(q))
  BY <1>1, <1>2, <1>3, <1>7 DEF Reports, Elsewhere
<1> QED BY <1>4, <1>5, <1>6, <1>7 DEF Reports

LEMMA Frame ==
    ASSUME NEW run \in Run, NEW q, NEW T, NEW rec, NEW doc, NEW skl, NEW list,
           NEW rec2, NEW doc2, NEW skl2, NEW later,
           Elsewhere(T, rec, doc, skl, list, rec2, doc2, skl2, later), Aims(run),
           Touched(run, q, T), RunOK(run, rec, doc, skl, list)
    PROVE  RunOK(q, rec2, doc2, skl2, later)
<1> SUFFICES ASSUME q.phase \in {"scan", "file", "send"}
             PROVE  /\ Shape(q) /\ Reports(q, rec2, doc2, skl2) /\ Names(q, later)
                    /\ Files(q, later) /\ Sends(q, later) /\ Closes(q, later)
                    /\ Cleans(q, later)
  BY DEF RunOK
<1>0. run.phase \in {"scan", "file", "send"} /\ q.phase = run.phase
  BY DEF Touched
<1>1. /\ Shape(run) /\ Reports(run, rec, doc, skl) /\ Names(run, list) /\ Files(run, list)
      /\ Sends(run, list) /\ Closes(run, list) /\ Cleans(run, list)
  BY <1>0 DEF RunOK
<1>2. /\ Targets(q) = Targets(run) /\ Read(q) = Read(run)
      /\ \A k : Vouched(q, k) <=> Vouched(run, k)
  BY DEF Touched, Targets, Read, Vouched
<1>3. /\ DOMAIN later = DOMAIN list
      /\ \A k \in Keys : Opens(later, k) \subseteq Opens(list, k)
      /\ \A k \in Keys : k \notin T => Opens(list, k) \subseteq Opens(later, k)
      /\ \A n \in DOMAIN list : /\ later[n].key = list[n].key
                                /\ later[n].repos = list[n].repos
                                /\ later[n].fingerprint => list[n].fingerprint
                                /\ later[n].standing \subseteq list[n].standing
  BY DEF Elsewhere
<1>4. /\ q.reported = run.reported /\ q.participants = run.participants
      /\ q.pending = run.pending /\ q.at = run.at /\ q.found = run.found
      /\ q.previous = run.previous /\ q.repos = run.repos /\ q.closing = run.closing
      /\ q.incomplete = run.incomplete /\ q.touched = run.touched \cup T
  BY DEF Touched
<1>5. run.reported \subseteq Keys
  BY DEF Run
<1>6. Shape(q)
  BY <1>1 DEF Shape, Touched
<1>7. Reports(q, rec2, doc2, skl2)
  BY <1>1, FrameReports
<1>8. Names(q, later)
  BY <1>1, <1>2, <1>3, <1>4 DEF Names
<1>9. Files(q, later)
  BY <1>0, <1>1, <1>3, <1>4, <1>5 DEF Files
<1>10. Sends(q, later)
  <2> SUFFICES ASSUME run.phase = "send" PROVE Sends(q, later)
    BY <1>0 DEF Sends
  <2>1. /\ run.at \in run.reported /\ run.at \in Keys
        /\ \A n \in Opens(list, run.at) : n = run.found
        /\ run.found # 0 =>
              /\ run.found \in DOMAIN list /\ list[run.found].key = run.at
              /\ run.at \notin run.touched => list[run.found].open
              /\ run.previous # {} => list[run.found].standing \subseteq run.previous
    BY <1>1 DEF Sends, Aims
  <2>2. \A n \in Opens(later, run.at) : n = run.found
    BY <1>3, <2>1
  <2>3. ASSUME run.found # 0, run.at \notin q.touched PROVE later[run.found].open
    <3>1. run.found \in Opens(list, run.at) /\ run.at \notin T
      BY <1>4, <2>1, <2>3 DEF Opens
    <3>2. run.found \in Opens(later, run.at)
      BY <1>3, <2>1, <3>1
    <3> QED BY <3>2 DEF Opens
  <2> QED BY <1>3, <1>4, <2>1, <2>2, <2>3 DEF Sends
<1>11. Closes(q, later)
  BY <1>1, <1>2, <1>3, <1>4 DEF Closes
<1>12. Cleans(q, later)
  <2> SUFFICES ASSUME run.phase # "scan", AutoClose, Targets(run) # {}, NEW k \in Keys,
                      Vouched(run, k), k \notin q.touched, Home(k) \notin run.incomplete,
                      Home(k) \notin run.repos, NEW n \in Opens(later, k)
               PROVE  n \in run.closing \/ (k = DuplicateSkill /\ ~ListsRead(q, later[n]))
    BY <1>0, <1>2, <1>4 DEF Cleans
  <2>1. n \in Opens(list, k) /\ n \in DOMAIN list /\ k \notin run.touched
    BY <1>3, <1>4 DEF Opens
  <2>2. n \in run.closing \/ (k = DuplicateSkill /\ ~ListsRead(run, list[n]))
    BY <1>1, <2>1 DEF Cleans
  <2>3. ListsRead(q, later[n]) => ListsRead(run, list[n])
    BY <1>2, <1>3, <2>1 DEF ListsRead
  <2> QED BY <2>2, <2>3
<1> QED BY <1>6, <1>7, <1>8, <1>9, <1>10, <1>11, <1>12

-----------------------------------------------------------------------------
(* What each step of a run makes of what it has read, reported and filed.  *)
LEMMA LoadOK ==
    ASSUME NEW q \in Run, NEW rec, NEW doc, NEW skl, NEW list,
           q.phase = "scan", q.tiers = q.todo, q.todo # {},
           q.pending = {}, q.closing = {}, q.reported = {}, q.missingTracked = {},
           q.expected = rec \/ q.expected = [r \in Repos |-> Nil]
    PROVE  RunOK(q, rec, doc, skl, list)
<1>1. Shape(q)
  BY DEF Shape
<1>2. \A k : ~Checks(q, k)
  BY DEF Checks
<1>3. \A r \in Targets(q) : q.expected[r] = rec[r]
  BY DEF Targets
<1>4. Reports(q, rec, doc, skl)
  BY <1>2, <1>3, KeysAre DEF Reports
<1>5. /\ Names(q, list) /\ Files(q, list) /\ Sends(q, list)
      /\ Closes(q, list) /\ Cleans(q, list)
  BY DEF Names, Files, Sends, Closes, Cleans
<1> QED BY <1>1, <1>4, <1>5 DEF RunOK

(* A tier reports exactly what the files it read call for.                 *)
LEMMA TierReports ==
    ASSUME NEW run \in Run, NEW q \in Run, NEW tier \in run.todo, tier # 3,
           NEW failed \in SUBSET (TypesOf(tier) \X Targets(run)),
           Tiered(run, q, tier, failed), Shape(run), NEW rec,
           Reports(run, rec, document, skill)
    PROVE  Reports(q, rec, document, skill)
<1>1. /\ q.expected = run.expected /\ q.touched = run.touched /\ q.tiers = run.tiers
      /\ q.todo = run.todo \ {tier}
      /\ q.incomplete = run.incomplete \cup {f[2] : f \in failed}
      /\ q.missingTracked = run.missingTracked
                            \cup (IF tier = 1 THEN AbsentRead(run, failed) ELSE {})
      /\ q.reported = run.reported \cup FoundBy(run, tier, failed)
           \cup (IF tier = 2 /\ Differing(skill, SkillsRead(run, failed))
                 THEN {DuplicateSkill} ELSE {})
  BY DEF Tiered
<1>2. Targets(q) = Targets(run) /\ Read(q) \subseteq Read(run) /\ Read(run) \subseteq Targets(run)
  BY <1>1 DEF Targets, Read
<1>3. /\ \A k \in run.reported : tierOfType(k) # tier
      /\ tier = 1 => run.missingTracked = {}
      /\ run.todo \subseteq run.tiers
  BY DEF Shape
<1>4. \A k : Checks(q, k) => tierOfType(k) = tier \/ Checks(run, k)
  BY <1>1, <1>2 DEF Checks
<1>5. \A k \in failed : k[2] \notin Read(q)
  BY <1>1 DEF Read
<1>6. ASSUME NEW r \in Targets(q), <<"version-drift", r>> \notin q.touched
      PROVE  q.expected[r] = rec[r]
  BY <1>1, <1>2, <1>6 DEF Reports
<1>7. ASSUME NEW k \in Locals, Checks(q, k)
      PROVE  k \in q.reported <=> Holds(k, document, q.expected)
  <2>1. k # DuplicateSkill /\ Home(k) \in Read(q)
    BY <1>7, KeysAre DEF Checks
  <2>2. k \in q.reported <=> k \in run.reported \/ k \in FoundBy(run, tier, failed)
    BY <1>1, <2>1
  <2>3. CASE tierOfType(k) = tier
    <3>1. k \notin run.reported /\ k \notin failed /\ Home(k) \in Targets(run)
      BY <1>2, <1>3, <1>5, <2>1, <2>3 DEF Home
    <3> QED BY <1>1, <2>2, <2>3, <3>1 DEF FoundBy
  <2>4. CASE tierOfType(k) # tier
    <3>1. k \notin FoundBy(run, tier, failed) /\ Checks(run, k)
      BY <1>4, <1>7, <2>4 DEF FoundBy
    <3>2. k \in run.reported <=> Holds(k, document, run.expected)
      BY <3>1 DEF Reports
    <3> QED BY <1>1, <2>2, <3>1, <3>2
  <2> QED BY <2>3, <2>4
<1>8. ASSUME NEW r \in Repos, Checks(q, <<"version-drift", r>>)
      PROVE  r \in q.missingTracked <=> document[r] = Missing
  <2>1. /\ <<"version-drift", r>> \in Locals /\ Home(<<"version-drift", r>>) = r
        /\ tierOfType(<<"version-drift", r>>) = 1
    BY KeysAre
  <2>2. r \in Read(q)
    BY <1>8, <2>1 DEF Checks
  <2>3. CASE tier = 1
    <3>1. <<"version-drift", r>> \notin failed /\ r \in Targets(run)
      BY <1>2, <1>5, <2>2
    <3> QED BY <1>1, <1>3, <2>3, <3>1 DEF AbsentRead
  <2>4. CASE tier # 1
    <3>1. Checks(run, <<"version-drift", r>>)
      BY <1>4, <1>8, <2>1, <2>4
    <3>2. r \in run.missingTracked <=> document[r] = Missing
      BY <3>1 DEF Reports
    <3> QED BY <1>1, <2>4, <3>2
  <2> QED BY <2>3, <2>4
<1>9. ASSUME Checks(q, DuplicateSkill)
      PROVE  /\ Differing(skill, Read(q)) => DuplicateSkill \in q.reported
             /\ DuplicateSkill \in q.reported => Differing(skill, Targets(q))
  <2>1. DuplicateSkill \notin FoundBy(run, tier, failed) /\ tierOfType(DuplicateSkill) = 2
    BY KeysAre DEF FoundBy
  <2>2. CASE tier = 2
    <3>1. DuplicateSkill \notin run.reported
      BY <1>3, <2>1, <2>2
    <3>2. SkillsRead(run, failed) \subseteq Targets(run)
      BY DEF SkillsRead
    <3>3. Read(q) \cap {r \in Repos : skill[r] # Missing} \subseteq SkillsRead(run, failed)
      BY <1>2, <1>5 DEF SkillsRead
    <3>4. Read(q) \subseteq Repos
      BY DEF Read, Targets
    <3>5. Differing(skill, Read(q)) => Differing(skill, SkillsRead(run, failed))
      BY <3>3, <3>4 DEF Differing
    <3>6. Differing(skill, SkillsRead(run, failed)) => Differing(skill, Targets(q))
      BY <1>2, <3>2 DEF Differing
    <3> QED BY <1>1, <2>1, <2>2, <3>1, <3>5, <3>6
  <2>3. CASE tier # 2
    <3>1. Checks(run, DuplicateSkill)
      BY <1>4, <1>9, <2>1, <2>3
    <3>2. DuplicateSkill \in q.reported <=> DuplicateSkill \in run.reported
      BY <1>1, <2>1, <2>3
    <3>3. Differing(skill, Read(q)) => Differing(skill, Read(run))
      BY <1>2 DEF Differing
    <3> QED BY <1>2, <3>1, <3>2, <3>3 DEF Reports
  <2> QED BY <2>2, <2>3
<1> QED BY <1>6, <1>7, <1>8, <1>9 DEF Reports

LEMMA TierOK ==
    ASSUME NEW run \in Run, NEW q \in Run, NEW tier \in run.todo, tier # 3,
           run.phase = "scan",
           NEW failed \in SUBSET (TypesOf(tier) \X Targets(run)),
           Tiered(run, q, tier, failed), NEW rec, NEW list, Standing(list, skill),
           RunOK(run, rec, document, skill, list)
    PROVE  RunOK(q, rec, document, skill, list)
<1>1. Shape(run) /\ Reports(run, rec, document, skill) /\ Names(run, list)
  BY DEF RunOK
<1>2. /\ q.tiers = run.tiers /\ q.todo = run.todo \ {tier}
      /\ q.phase = IF run.todo = {tier} THEN "file" ELSE "scan"
      /\ q.closing = {} /\ run.pending = {}
      /\ q.incomplete = run.incomplete \cup {f[2] : f \in failed}
      /\ q.missingTracked = run.missingTracked
                            \cup (IF tier = 1 THEN AbsentRead(run, failed) ELSE {})
      /\ q.reported = run.reported \cup FoundBy(run, tier, failed)
           \cup (IF tier = 2 /\ Differing(skill, SkillsRead(run, failed))
                 THEN {DuplicateSkill} ELSE {})
      /\ q.participants = IF tier = 2 /\ DuplicateSkill \in q.reported
                          THEN SkillsRead(run, failed) ELSE run.participants
      /\ q.pending = IF run.todo = {tier} THEN q.reported ELSE run.pending
      /\ q.repos = IF run.todo = {tier} /\ AutoClose /\ Targets(run) # {}
                   THEN Targets(run) \cup {Central} ELSE run.repos
      /\ Targets(q) = Targets(run)
  BY <1>1 DEF Tiered, Shape, Targets
<1>3. run.todo \subseteq 1..3 /\ tier \in {1, 2}
  BY DEF Run
<1>4. DuplicateSkill \in q.reported => tier = 2 \/ DuplicateSkill \in run.reported
  <2>1. DuplicateSkill \notin FoundBy(run, tier, failed)
    BY KeysAre DEF FoundBy
  <2> QED BY <1>2, <2>1
<1>5. \A k \in q.reported : tierOfType(k) \notin q.todo
  <2> SUFFICES ASSUME NEW k \in q.reported PROVE tierOfType(k) \notin q.todo
    OBVIOUS
  <2>1. CASE k \in run.reported
    BY <1>1, <1>2, <2>1 DEF Shape
  <2>2. CASE k \in FoundBy(run, tier, failed)
    BY <1>2, <2>2 DEF FoundBy
  <2>3. CASE k = DuplicateSkill /\ tier = 2
    BY <1>2, <2>3, KeysAre
  <2> QED BY <1>2, <2>1, <2>2, <2>3
<1>6. Shape(q)
  <2>1. q.todo \subseteq q.tiers /\ (q.phase = "scan" => q.todo # {}) /\ (q.phase # "scan" => q.todo = {})
    BY <1>1, <1>2 DEF Shape
  <2>2. 1 \in q.todo => q.missingTracked = {}
    BY <1>1, <1>2, <1>3 DEF Shape
  <2>3. (q.phase = "scan" => q.pending = {}) /\ q.pending \subseteq q.reported
    BY <1>2
  <2> QED BY <1>2, <1>5, <2>1, <2>2, <2>3 DEF Shape
<1>7. Reports(q, rec, document, skill)
  BY <1>1, TierReports
<1>8. Names(q, list)
  <2> SUFFICES ASSUME DuplicateSkill \in q.reported, NEW n \in DOMAIN list,
                      NEW r \in list[n].standing, r \in Read(q)
               PROVE  r \in q.participants
    BY DEF Names
  <2>1. skill[r] # Missing
    BY DEF Standing
  <2>2. r \in Targets(run) /\ <<"duplicate-skill", r>> \notin failed
    BY <1>2 DEF Read
  <2>3. CASE tier = 2
    BY <1>2, <2>1, <2>2, <2>3 DEF SkillsRead
  <2>4. CASE tier # 2
    <3>1. DuplicateSkill \in run.reported /\ r \in Read(run)
      BY <1>2, <1>4, <2>4 DEF Read
    <3> QED BY <1>1, <1>2, <2>4, <3>1 DEF Names
  <2> QED BY <2>3, <2>4
<1>9. Files(q, list) /\ Sends(q, list) /\ Closes(q, list)
  BY <1>2 DEF Files, Sends, Closes
<1>10. Cleans(q, list)
  <2> SUFFICES ASSUME q.phase # "scan", AutoClose, Targets(q) # {}, NEW k \in Keys,
                      Vouched(q, k)
               PROVE  Home(k) \in q.repos
    BY DEF Cleans
  <2>1. q.repos = Targets(q) \cup {Central}
    BY <1>2
  <2> QED BY <2>1, KeysAre DEF Vouched, Read
<1> QED BY <1>6, <1>7, <1>8, <1>9, <1>10 DEF RunOK

(* The issue a run finds is the open one of its finding.                   *)
LEMMA FindOK ==
    ASSUME NEW run \in Run, NEW q \in Run, NEW k \in run.pending, NEW rec,
           ListInv(issues, skill), RunOK(run, rec, document, skill, issues),
           run.phase = "file", SameRun(run, q), k \in Keys,
           q.phase = "send", q.at = k, q.pending = run.pending \ {k},
           q.closing = run.closing, q.repos = run.repos,
           matching(k) # {} => q.found \in matching(k),
           q.found # 0 <=> matching(k) # {},
           q.found # 0 => q.previous = issueRepos(q.found)
    PROVE  RunOK(q, rec, document, skill, issues)
<1>1. /\ Shape(run) /\ Reports(run, rec, document, skill) /\ Names(run, issues)
      /\ Files(run, issues) /\ Closes(run, issues) /\ Cleans(run, issues)
  BY DEF RunOK
<1>2. Targets(q) = Targets(run) /\ Read(q) = Read(run)
      /\ (\A j : Vouched(q, j) <=> Vouched(run, j))
      /\ (\A i : ListsRead(q, i) <=> ListsRead(run, i))
      /\ Reports(q, rec, document, skill)
  BY <1>1, SameReports
<1>3. /\ q.reported = run.reported /\ q.touched = run.touched /\ q.todo = run.todo
      /\ q.tiers = run.tiers /\ q.participants = run.participants
      /\ q.missingTracked = run.missingTracked /\ q.incomplete = run.incomplete
  BY DEF SameRun
<1>4. Shape(q)
  BY <1>1, <1>3 DEF Shape
<1>5. matching(k) = Opens(issues, k)
  BY DEF ListInv, Marked, matching, OpenIssues, Opens
<1>6. Sends(q, issues)
  <2>1. \A n \in Opens(issues, k) : n = q.found
    BY <1>5 DEF ListInv, Unique
  <2>2. k \in q.reported
    BY <1>1, <1>3 DEF Shape
  <2>3. ASSUME q.found # 0
        PROVE  /\ q.found \in DOMAIN issues /\ issues[q.found].key = k
               /\ issues[q.found].open
               /\ q.previous # {} => issues[q.found].standing \subseteq q.previous
    <3>1. /\ q.found \in DOMAIN issues /\ issues[q.found].key = k
          /\ issues[q.found].open
      BY <1>5, <2>3 DEF Opens
    <3>2. q.previous # {} => issues[q.found].standing \subseteq q.previous
      BY <2>3, <3>1 DEF issueRepos, ListInv, Kept
    <3> QED BY <3>1, <3>2
  <2> QED BY <2>1, <2>2, <2>3 DEF Sends
<1>7. Names(q, issues)
  BY <1>1, <1>2, <1>3 DEF Names
<1>8. Files(q, issues)
  BY <1>1, <1>3 DEF Files
<1>9. Closes(q, issues)
  BY <1>1, <1>2 DEF Closes
<1>10. Cleans(q, issues)
  BY <1>1, <1>2, <1>3 DEF Cleans
<1> QED BY <1>2, <1>4, <1>6, <1>7, <1>8, <1>9, <1>10 DEF RunOK

(* A finding is filed: its issue is open, and the others stand.            *)
Filing(run, list, later) ==
    /\ DOMAIN list \subseteq DOMAIN later
    /\ \A k \in Keys : k # run.at => Opens(later, k) = Opens(list, k)
    /\ run.at \in run.touched \/ Opens(later, run.at) # {}
    /\ \A n \in DOMAIN list : list[n].key # run.at => later[n] = list[n]
    /\ \A n \in DOMAIN later : \A r \in later[n].standing :
          r \in run.participants \/ (n \in DOMAIN list /\ r \in list[n].standing)
LEMMA FiledOK ==
    ASSUME NEW run \in Run, NEW q \in Run, NEW rec, NEW list, NEW later,
           RunOK(run, rec, document, skill, list), run.phase = "send",
           Continues(run, q), Filing(run, list, later)
    PROVE  RunOK(q, rec, document, skill, later)
<1>1. /\ Shape(run) /\ Reports(run, rec, document, skill) /\ Names(run, list)
      /\ Files(run, list) /\ Sends(run, list) /\ Cleans(run, list)
  BY DEF RunOK
<1>2. SameRun(run, q) /\ q.phase = "file" /\ q.pending = run.pending
      /\ q.closing = run.closing /\ q.repos = run.repos
  BY DEF Continues
<1>3. Targets(q) = Targets(run) /\ Read(q) = Read(run)
      /\ (\A j : Vouched(q, j) <=> Vouched(run, j))
      /\ (\A i : ListsRead(q, i) <=> ListsRead(run, i))
      /\ Reports(q, rec, document, skill)
  BY <1>1, <1>2, SameReports
<1>4. /\ q.reported = run.reported /\ q.touched = run.touched /\ q.todo = run.todo
      /\ q.tiers = run.tiers /\ q.participants = run.participants
      /\ q.missingTracked = run.missingTracked /\ q.incomplete = run.incomplete
  BY <1>2 DEF SameRun
<1>5. run.closing = {} /\ run.at \in run.reported /\ run.reported \subseteq Keys
  BY <1>1 DEF Shape, Sends, Run
<1>6. Shape(q)
  BY <1>1, <1>2, <1>4 DEF Shape
<1>7. Names(q, later)
  BY <1>1, <1>3, <1>4 DEF Names, Filing
<1>8. Files(q, later)
  BY <1>1, <1>2, <1>4, <1>5 DEF Files, Filing
<1>9. Sends(q, later) /\ Closes(q, later)
  BY <1>2, <1>5 DEF Sends, Closes
<1>10. Cleans(q, later)
  <2> SUFFICES ASSUME AutoClose, Targets(run) # {}, NEW k \in Keys,
                      Vouched(run, k), k \notin run.touched, Home(k) \notin run.incomplete,
                      Home(k) \notin run.repos, NEW n \in Opens(later, k)
               PROVE  k = DuplicateSkill /\ ~ListsRead(run, later[n])
    BY <1>2, <1>3, <1>4 DEF Cleans
  <2>1. k # run.at
    BY <1>5 DEF Vouched
  <2>2. n \in Opens(list, k) /\ later[n] = list[n]
    BY <2>1 DEF Filing, Opens
  <2> QED BY <1>1, <1>5, <2>2 DEF Cleans
<1> QED BY <1>3, <1>6, <1>7, <1>8, <1>9, <1>10 DEF RunOK

(* The issues to close are those the run can vouch for.                    *)
LEMMA CleanOK ==
    ASSUME NEW run \in Run, NEW q \in Run, NEW x \in run.repos, NEW rec,
           issues \in Seq(Issue), ListInv(issues, skill),
           RunOK(run, rec, document, skill, issues), run.phase = "file",
           run.pending = {}, run.closing = {}, SameRun(run, q), q.phase = "file",
           q.pending = {}, q.repos = run.repos \ {x}, q.closing = ToClose(run, x)
    PROVE  RunOK(q, rec, document, skill, issues)
<1>1. /\ Shape(run) /\ Reports(run, rec, document, skill) /\ Names(run, issues)
      /\ Files(run, issues) /\ Cleans(run, issues)
  BY DEF RunOK
<1>2. Targets(q) = Targets(run) /\ Read(q) = Read(run)
      /\ (\A j : Vouched(q, j) <=> Vouched(run, j))
      /\ (\A i : ListsRead(q, i) <=> ListsRead(run, i))
      /\ Reports(q, rec, document, skill)
  BY <1>1, SameReports
<1>3. /\ q.reported = run.reported /\ q.touched = run.touched /\ q.todo = run.todo
      /\ q.tiers = run.tiers /\ q.participants = run.participants
      /\ q.missingTracked = run.missingTracked /\ q.incomplete = run.incomplete
  BY DEF SameRun
<1>4. Shape(q)
  BY <1>1, <1>3 DEF Shape
<1>5. Names(q, issues)
  BY <1>1, <1>2, <1>3 DEF Names
<1>6. Files(q, issues) /\ Sends(q, issues)
  BY <1>1, <1>3 DEF Files, Sends
<1>7. Read(run) = Targets(run) \ run.incomplete
  BY DEF Read
<1>8. ASSUME NEW n \in DOMAIN issues
      PROVE  covered(run, issueRepos(n)) <=> ListsRead(run, issues[n])
  BY <1>7 DEF covered, issueRepos, ListsRead
<1>9. Closes(q, issues)
  <2> SUFFICES ASSUME NEW n \in ToClose(run, x)
               PROVE  /\ n \in DOMAIN issues /\ Vouched(run, issues[n].key)
                      /\ issues[n].key = DuplicateSkill => issues[n].standing \subseteq Read(run)
    BY <1>2 DEF Closes
  <2> DEFINE k == issues[n].key
  <2>1. /\ x \notin run.incomplete /\ n \in DOMAIN issues /\ issues[n].open /\ Home(k) = x
        /\ k \notin run.reported /\ tierOfType(k) \in run.tiers
        /\ k = DuplicateSkill => covered(run, issueRepos(n))
        /\ k # DuplicateSkill => Home(k) \in Targets(run)
        /\ ~(k[1] = "version-drift" /\ Home(k) \in run.missingTracked)
    BY DEF ToClose, resolved
  <2> HIDE DEF k
  <2>2. Vouched(run, k)
    BY <1>7, <2>1, KeysAre DEF Vouched
  <2>3. ASSUME k = DuplicateSkill PROVE issues[n].standing \subseteq Read(run)
    <3>1. ListsRead(run, issues[n])
      BY <1>8, <2>1, <2>3
    <3> QED BY <2>1, <3>1 DEF ListsRead, ListInv, Kept
  <2> QED BY <2>1, <2>2, <2>3 DEF k
<1>10. Cleans(q, issues)
  <2> SUFFICES ASSUME AutoClose, Targets(run) # {}, NEW k \in Keys,
                      Vouched(run, k), k \notin run.touched, Home(k) \notin run.incomplete,
                      Home(k) \notin q.repos, NEW n \in Opens(issues, k)
               PROVE  n \in q.closing \/ (k = DuplicateSkill /\ ~ListsRead(run, issues[n]))
    BY <1>2, <1>3 DEF Cleans
  <2>1. n \in DOMAIN issues /\ issues[n].open /\ issues[n].key = k
    BY DEF Opens
  <2>2. CASE Home(k) \notin run.repos
    BY <1>1, <2>2 DEF Cleans
  <2>3. CASE Home(k) \in run.repos
    <3>1. Home(k) = x
      BY <2>3
    <3>2. ASSUME k = DuplicateSkill => ListsRead(run, issues[n]) PROVE resolved(run, n)
      <4>1. k # DuplicateSkill => Home(k) \in Targets(run)
        BY <1>7, KeysAre DEF Vouched
      <4>2. k = DuplicateSkill => covered(run, issueRepos(n))
        BY <1>8, <2>1, <3>2
      <4> QED BY <2>1, <4>1, <4>2 DEF resolved, Vouched
    <3> QED BY <2>1, <3>1, <3>2 DEF ToClose
  <2> QED BY <2>2, <2>3
<1> QED BY <1>2, <1>4, <1>5, <1>6, <1>9, <1>10 DEF RunOK

(* An issue that is closed is not one of a finding this run reports.       *)
LEMMA CloseOK ==
    ASSUME NEW run \in Run, NEW q \in Run, NEW n \in run.closing, NEW rec, NEW list,
           NEW later, RunOK(run, rec, document, skill, list),
           run.phase \in {"scan", "file", "send"},
           SameRun(run, q), q.phase = run.phase, q.pending = run.pending,
           q.repos = run.repos, q.at = run.at, q.found = run.found,
           q.previous = run.previous, q.closing = run.closing \ {n},
           IsClosed(list, later, n)
    PROVE  RunOK(q, rec, document, skill, later)
<1>1. /\ Shape(run) /\ Reports(run, rec, document, skill) /\ Names(run, list)
      /\ Files(run, list) /\ Closes(run, list) /\ Cleans(run, list)
  BY DEF RunOK
<1>2. Targets(q) = Targets(run) /\ Read(q) = Read(run)
      /\ (\A j : Vouched(q, j) <=> Vouched(run, j))
      /\ (\A i : ListsRead(q, i) <=> ListsRead(run, i))
      /\ Reports(q, rec, document, skill)
  BY <1>1, SameReports
<1>3. /\ q.reported = run.reported /\ q.touched = run.touched /\ q.todo = run.todo
      /\ q.tiers = run.tiers /\ q.participants = run.participants
      /\ q.missingTracked = run.missingTracked /\ q.incomplete = run.incomplete
  BY DEF SameRun
<1>4. run.phase = "file" /\ run.pending = {}
  BY <1>1 DEF Shape
<1>5. Shape(q)
  BY <1>1, <1>3, <1>4 DEF Shape
<1>6. /\ DOMAIN later = DOMAIN list
      /\ \A o \in DOMAIN list : /\ later[o].key = list[o].key
                                /\ later[o].open => o # n /\ list[o].open
                                /\ o # n => later[o] = list[o]
                                /\ later[o].repos = list[o].repos
                                /\ later[o].standing = list[o].standing
  BY DEF IsClosed, Keeps
<1>7. \A k : /\ Opens(later, k) \subseteq Opens(list, k) \ {n}
             /\ Opens(list, k) \ {n} \subseteq Opens(later, k)
  BY <1>6 DEF Opens
<1>8. list[n].key \notin run.reported /\ n \in DOMAIN list
  BY <1>1 DEF Closes, Vouched
<1>9. \A k \in run.reported : Opens(list, k) \subseteq Opens(later, k)
  <2>1. \A k \in run.reported : n \notin Opens(list, k)
    BY <1>8 DEF Opens
  <2> QED BY <1>7, <2>1
<1>10. Names(q, later)
  BY <1>1, <1>2, <1>3, <1>6 DEF Names
<1>11. Files(q, later) /\ Sends(q, later)
  BY <1>1, <1>3, <1>4, <1>9 DEF Files, Sends
<1>12. Closes(q, later)
  BY <1>1, <1>2, <1>6 DEF Closes
<1>13. Cleans(q, later)
  <2> SUFFICES ASSUME AutoClose, Targets(run) # {}, NEW k \in Keys,
                      Vouched(run, k), k \notin run.touched, Home(k) \notin run.incomplete,
                      Home(k) \notin run.repos, NEW o \in Opens(later, k)
               PROVE  o \in q.closing \/ (k = DuplicateSkill /\ ~ListsRead(run, later[o]))
    BY <1>2, <1>3 DEF Cleans
  <2>1. o \in Opens(list, k) /\ o # n /\ o \in DOMAIN list
    BY <1>7 DEF Opens
  <2>2. o \in run.closing \/ (k = DuplicateSkill /\ ~ListsRead(run, list[o]))
    BY <1>1, <1>4, <2>1 DEF Cleans
  <2> QED BY <1>6, <2>1, <2>2
<1> QED BY <1>2, <1>5, <1>10, <1>11, <1>12, <1>13 DEF RunOK

-----------------------------------------------------------------------------
(* What becomes of the issues.                                             *)
LEMMA ClosedList ==
    ASSUME NEW list, NEW later, NEW n, NEW skl, ListInv(list, skl), IsClosed(list, later, n)
    PROVE  ListInv(later, skl)
<1>1. /\ DOMAIN later = DOMAIN list
      /\ \A o \in DOMAIN list : /\ later[o].key = list[o].key
                                /\ later[o].open => o # n /\ list[o].open
                                /\ o # n => later[o] = list[o]
                                /\ later[o].repos = list[o].repos
                                /\ later[o].standing = list[o].standing
  BY DEF IsClosed, Keeps
<1>2. \A k : Opens(later, k) \subseteq Opens(list, k)
  BY <1>1 DEF Opens
<1>3. Unique(later)
  BY <1>2 DEF ListInv, Unique
<1>4. Marked(later)
  BY <1>1 DEF ListInv, Marked
<1>5. Standing(later, skl)
  BY <1>1 DEF ListInv, Standing
<1>6. Kept(later)
  BY <1>1 DEF ListInv, Kept
<1> QED BY <1>3, <1>4, <1>5, <1>6 DEF ListInv

LEMMA MarkedList ==
    ASSUME NEW list, NEW later, NEW n, NEW skl, ListInv(list, skl), IsMarked(list, later, n)
    PROVE  ListInv(later, skl)
<1>1. /\ DOMAIN later = DOMAIN list
      /\ \A o \in DOMAIN list : /\ later[o].key = list[o].key
                                /\ later[o].open => list[o].open
                                /\ later[o].fingerprint => list[o].fingerprint
                                /\ later[o].repos = list[o].repos
                                /\ later[o].standing = list[o].standing
                                /\ o # n => later[o] = list[o]
      /\ later[n].fingerprint \/ later[n].title
  BY DEF IsMarked, Keeps
<1>2. \A k : Opens(later, k) \subseteq Opens(list, k)
  BY <1>1 DEF Opens
<1>3. Unique(later)
  BY <1>2 DEF ListInv, Unique
<1>4. Marked(later)
  BY <1>1 DEF ListInv, Marked
<1>5. Standing(later, skl)
  BY <1>1 DEF ListInv, Standing
<1>6. Kept(later)
  BY <1>1 DEF ListInv, Kept
<1> QED BY <1>3, <1>4, <1>5, <1>6 DEF ListInv

(* A copy of the skill changes; when it is gone, its repository leaves the *)
(* histories.                                                              *)
LEMMA DroppedList ==
    ASSUME NEW list, NEW later, NEW skl, NEW skl2, ListInv(list, skl),
           later = list \/ IsDropped(list, later),
           \A o \in DOMAIN list : /\ later[o].standing \subseteq list[o].standing
                                  /\ \A r \in later[o].standing :
                                        skl[r] # Missing => skl2[r] # Missing
    PROVE  ListInv(later, skl2)
<1>1. /\ DOMAIN later = DOMAIN list
      /\ \A o \in DOMAIN list : /\ later[o].key = list[o].key
                                /\ later[o].open => list[o].open
                                /\ later[o].fingerprint = list[o].fingerprint
                                /\ later[o].title = list[o].title
                                /\ later[o].repos = list[o].repos
  BY DEF IsDropped, Keeps
<1>2. \A k : Opens(later, k) \subseteq Opens(list, k)
  BY <1>1 DEF Opens
<1>3. Unique(later)
  BY <1>2 DEF ListInv, Unique
<1>4. Marked(later)
  BY <1>1 DEF ListInv, Marked
<1>5. Standing(later, skl2)
  BY <1>1 DEF ListInv, Standing
<1>6. Kept(later)
  BY <1>1 DEF ListInv, Kept
<1> QED BY <1>3, <1>4, <1>5, <1>6 DEF ListInv

(* What a run in progress rests on.                                        *)
LEMMA Resting ==
    ASSUME ConflictInv, NEW m \in Scanners
    PROVE  /\ TypeInv /\ ListInv(issues, skill) /\ issues \in Seq(Issue)
           /\ RunOK(scan[m], recorded, document, skill, issues)
           /\ scan \in [Scanners -> Run] /\ Aims(scan[m]) /\ scan[m] \in Run
           /\ (\A k \in Scanners : Aims(scan[k]))
BY DEF ConflictInv, TypeInv, TypeOK

(* The participants the new body names are all that were ever named, and   *)
(* are there: a repository that is not among them was read, and had no     *)
(* copy.                                                                   *)
LEMMA MergeKeeps ==
    ASSUME ConflictInv, NEW m \in Scanners, scan[m].phase = "send", scan[m].found # 0,
           scan[m].at = DuplicateSkill, scan[m].previous # {}
    PROVE  issues[scan[m].found].standing \cup InConflict(m) \subseteq Naming(m)
<1> DEFINE run == scan[m]
           n == run.found
<1>1. Sends(run, issues) /\ Names(run, issues) /\ issues \in Seq(Issue)
  BY Resting DEF RunOK
<1>2. /\ n \in DOMAIN issues /\ issues[n].standing \subseteq run.previous
      /\ issues[n].standing \cap Read(run) \subseteq run.participants
  BY <1>1 DEF Sends, Names
<1>3. Naming(m) = mergeParticipants(run) /\ InConflict(m) \subseteq run.participants
  BY DEF Naming, InConflict
<1> QED BY <1>2, <1>3 DEF mergeParticipants, Read

LEMMA UpdateStep ==
    ASSUME ConflictInv, NEW m \in Scanners, UpdateIssue(m)
    PROVE  /\ ListInv(issues', skill')
           /\ RunOK(scan'[m], recorded', document', skill', issues')
           /\ \A k \in Scanners \ {m} : scan'[k] = scan[k]
           /\ scan'[m].phase \in {"file", "failed"}
<1> DEFINE run == scan[m]
           n == run.found
           names == Naming(m)
           conflict == InConflict(m)
           after == Rewritten(issues, n, names, conflict)
<1>1. Request(m, "update", after, Filed(m)) /\ run.phase = "send" /\ n # 0
  BY DEF UpdateIssue, Rewritten, Naming
<1>2. /\ TypeInv /\ ListInv(issues, skill) /\ issues \in Seq(Issue) /\ run \in Run
      /\ RunOK(run, recorded, document, skill, issues) /\ Aims(run)
  BY Resting
<1>3. IsRewritten(issues, after, n, names, conflict)
  BY <1>2, Bodies, Rewriting
<1>4. /\ n \in DOMAIN issues /\ issues[n].key = run.at /\ run.at \in Keys
      /\ run.at \notin run.touched => issues[n].open
  BY <1>1, <1>2 DEF RunOK, Sends, Aims
<1>5. /\ run.at = DuplicateSkill /\ run.previous # {} =>
            issues[n].standing \cup conflict \subseteq names
      /\ run.previous = {} => names = {}
  BY <1>1, MergeKeeps DEF Naming
<1>6. /\ run.at # DuplicateSkill => conflict = {}
      /\ conflict \subseteq run.participants
      /\ \A r \in conflict : skill[r] # Missing
  BY DEF InConflict
<1> HIDE DEF after, names, conflict, n
<1>7. /\ DOMAIN after = DOMAIN issues
      /\ \A o \in DOMAIN issues : /\ after[o].key = issues[o].key
                                  /\ after[o].open = issues[o].open
                                  /\ o # n => after[o] = issues[o]
      /\ after[n].fingerprint /\ after[n].repos = names
      /\ after[n].standing = issues[n].standing \cup conflict
  BY <1>3, <1>4 DEF IsRewritten, Keeps
<1>8. \A k : Opens(after, k) = Opens(issues, k)
  BY <1>7 DEF Opens
<1>9. ListInv(after, skill)
  <2>1. Unique(after)
    BY <1>2, <1>8 DEF ListInv, Unique
  <2>2. Marked(after)
    BY <1>2, <1>7 DEF ListInv, Marked
  <2>3. Standing(after, skill)
    BY <1>2, <1>4, <1>6, <1>7 DEF ListInv, Standing
  <2>4. Kept(after)
    <3>1. ASSUME after[n].repos # {} PROVE after[n].standing \subseteq after[n].repos
      <4>1. CASE run.at = DuplicateSkill
        BY <1>5, <1>7, <3>1, <4>1
      <4>2. CASE run.at # DuplicateSkill
        <5>1. issues[n].standing = {}
          BY <1>2, <1>4, <4>2 DEF ListInv, Standing
        <5> QED BY <1>6, <1>7, <4>2, <5>1
      <4> QED BY <4>1, <4>2
    <3> QED BY <1>2, <1>7, <3>1 DEF ListInv, Kept
  <2> QED BY <2>1, <2>2, <2>3, <2>4 DEF ListInv
<1>10. /\ issues' \in {issues, after} /\ UNCHANGED <<recorded, document, skill, writes>>
       /\ \A k \in Scanners \ {m} : scan'[k] = scan[k]
       /\ scan' \in [Scanners -> Run]
       /\ \/ issues' = after /\ Continues(run, scan'[m])
          \/ scan'[m].phase = "failed"
  BY <1>1, <1>2, FiledStep
<1>11. ListInv(issues', skill')
  BY <1>2, <1>9, <1>10
<1>12. CASE scan'[m].phase = "failed"
  BY <1>10, <1>11, <1>12 DEF RunOK
<1>13. CASE issues' = after /\ Continues(run, scan'[m])
  <2>1. Filing(run, issues, after)
    <3>1. run.at \in run.touched \/ Opens(after, run.at) # {}
      BY <1>4, <1>8 DEF Opens
    <3>2. \A o \in DOMAIN issues : issues[o].key # run.at => after[o] = issues[o]
      BY <1>4, <1>7
    <3>3. \A o \in DOMAIN after : \A r \in after[o].standing :
             r \in run.participants \/ (o \in DOMAIN issues /\ r \in issues[o].standing)
      BY <1>6, <1>7
    <3> QED BY <1>7, <1>8, <3>1, <3>2, <3>3 DEF Filing
  <2>2. scan'[m] \in Run
    BY <1>10
  <2>3. RunOK(scan'[m], recorded, document, skill, after)
    BY <1>1, <1>2, <1>13, <2>1, <2>2, FiledOK
  <2> QED BY <1>10, <1>11, <1>13, <2>3 DEF Continues
<1> QED BY <1>10, <1>12, <1>13

LEMMA CreateStep ==
    ASSUME ConflictInv, NEW m \in Scanners, CreateIssue(m)
    PROVE  /\ ListInv(issues', skill')
           /\ RunOK(scan'[m], recorded', document', skill', issues')
           /\ \A k \in Scanners \ {m} : scan'[k] = scan[k]
           /\ scan'[m].phase \in {"file", "failed"}
<1> DEFINE run == scan[m]
           i == NewIssue(m)
           n == Len(issues) + 1
           conflict == InConflict(m)
           after == Append(issues, i)
<1>1. Request(m, "create", after, Filed(m)) /\ run.phase = "send" /\ run.found = 0
  BY DEF CreateIssue, NewIssue
<1>2. /\ TypeInv /\ ListInv(issues, skill) /\ issues \in Seq(Issue) /\ run \in Run
      /\ RunOK(run, recorded, document, skill, issues) /\ Aims(run)
  BY Resting
<1>3. /\ i \in Issue /\ i.key = run.at /\ i.open /\ i.fingerprint /\ i.standing = conflict
      /\ i.repos = IF run.at = DuplicateSkill THEN run.participants ELSE {}
  BY <1>1, <1>2, Bodies DEF NewIssue
<1>4. /\ run.at # DuplicateSkill => conflict = {}
      /\ conflict \subseteq run.participants
      /\ \A r \in conflict : skill[r] # Missing
  BY DEF InConflict
<1>5. Opens(issues, run.at) = {}
  <2>1. \A o \in Opens(issues, run.at) : o = 0
    BY <1>1, <1>2 DEF RunOK, Sends
  <2>2. 0 \notin DOMAIN issues
    BY <1>2
  <2> QED BY <2>1, <2>2 DEF Opens
<1> HIDE DEF i, conflict
<1>6. /\ DOMAIN after = DOMAIN issues \cup {n} /\ n \notin DOMAIN issues
      /\ \A o \in DOMAIN issues : after[o] = issues[o]
      /\ after[n] = i
  BY <1>2, <1>3, Opening
<1> HIDE DEF after, n
<1>7. /\ \A k : k # run.at => Opens(after, k) = Opens(issues, k)
      /\ Opens(after, run.at) = {n}
  <2>1. \A k : k # run.at => Opens(after, k) = Opens(issues, k)
    BY <1>3, <1>6 DEF Opens
  <2>2. Opens(after, run.at) = Opens(issues, run.at) \cup {n}
    BY <1>3, <1>6 DEF Opens
  <2> QED BY <1>5, <2>1, <2>2
<1>8. ListInv(after, skill)
  <2>1. Unique(after)
    <3> SUFFICES ASSUME NEW k \in Keys PROVE \A o, p \in Opens(after, k) : o = p
      BY DEF Unique
    <3>1. \A o, p \in Opens(issues, k) : o = p
      BY <1>2 DEF ListInv, Unique
    <3> QED BY <1>7, <3>1
  <2>2. Marked(after)
    BY <1>2, <1>3, <1>6 DEF ListInv, Marked
  <2>3. Standing(after, skill)
    BY <1>2, <1>3, <1>4, <1>6 DEF ListInv, Standing
  <2>4. Kept(after)
    BY <1>2, <1>3, <1>4, <1>6 DEF ListInv, Kept
  <2> QED BY <2>1, <2>2, <2>3, <2>4 DEF ListInv
<1>9. /\ issues' \in {issues, after} /\ UNCHANGED <<recorded, document, skill, writes>>
      /\ \A k \in Scanners \ {m} : scan'[k] = scan[k]
      /\ scan' \in [Scanners -> Run]
      /\ \/ issues' = after /\ Continues(run, scan'[m])
         \/ scan'[m].phase = "failed"
  BY <1>1, <1>2, FiledStep
<1>10. ListInv(issues', skill')
  BY <1>2, <1>8, <1>9
<1>11. CASE scan'[m].phase = "failed"
  BY <1>9, <1>10, <1>11 DEF RunOK
<1>12. CASE issues' = after /\ Continues(run, scan'[m])
  <2>1. Filing(run, issues, after)
    <3>1. \A o \in DOMAIN after : \A r \in after[o].standing :
             r \in run.participants \/ (o \in DOMAIN issues /\ r \in issues[o].standing)
      BY <1>3, <1>4, <1>6
    <3> QED BY <1>6, <1>7, <3>1 DEF Filing
  <2>2. scan'[m] \in Run
    BY <1>9
  <2>3. RunOK(scan'[m], recorded, document, skill, after)
    BY <1>1, <1>2, <1>12, <2>1, <2>2, FiledOK
  <2> QED BY <1>9, <1>10, <1>12, <2>3 DEF Continues
<1> QED BY <1>9, <1>11, <1>12

LEMMA ClosingStep ==
    ASSUME ConflictInv, NEW m \in Scanners, CloseIssue(m)
    PROVE  /\ ListInv(issues', skill')
           /\ RunOK(scan'[m], recorded', document', skill', issues')
           /\ \A k \in Scanners \ {m} : scan'[k] = scan[k]
           /\ scan'[m].phase \in {"file", "failed"}
<1> DEFINE run == scan[m]
           n == Max(run.closing)
           after == Closed(issues, n)
<1>1. /\ TypeInv /\ ListInv(issues, skill) /\ issues \in Seq(Issue) /\ run \in Run
      /\ RunOK(run, recorded, document, skill, issues) /\ Aims(run)
  BY Resting
<1>2. run.closing # {} /\ run.closing \in SUBSET (1..MaxIssues)
  BY <1>1 DEF CloseIssue, Run
<1>3. n \in run.closing
  BY <1>2, HasMax, Bounds
<1>4. IsClosed(issues, after, n)
  BY <1>1, Closing
<1>5. ListInv(after, skill)
  BY <1>1, <1>4, ClosedList
<1>6. /\ issues' \in {issues, after} /\ UNCHANGED <<recorded, document, skill, writes>>
      /\ \A k \in Scanners \ {m} : scan'[k] = scan[k]
      /\ scan' \in [Scanners -> Run]
      /\ \/ /\ issues' = after /\ SameRun(run, scan'[m]) /\ scan'[m].phase = run.phase
            /\ scan'[m].pending = run.pending /\ scan'[m].repos = run.repos
            /\ scan'[m].at = run.at /\ scan'[m].found = run.found
            /\ scan'[m].previous = run.previous
            /\ scan'[m].closing = run.closing \ {n}
         \/ scan'[m].phase = "failed"
  BY <1>1, CloseStep
<1> HIDE DEF after, n
<1>7. ListInv(issues', skill')
  BY <1>1, <1>5, <1>6
<1>8. CASE scan'[m].phase = "failed"
  BY <1>6, <1>7, <1>8 DEF RunOK
<1>9. CASE /\ issues' = after /\ SameRun(run, scan'[m]) /\ scan'[m].phase = run.phase
           /\ scan'[m].pending = run.pending /\ scan'[m].repos = run.repos
           /\ scan'[m].at = run.at /\ scan'[m].found = run.found
           /\ scan'[m].previous = run.previous
           /\ scan'[m].closing = run.closing \ {n}
  <2>1. run.phase = "file" /\ run.phase \in {"scan", "file", "send"}
    BY <1>1, <1>2 DEF RunOK, Shape, Aims
  <2>2. scan'[m] \in Run
    BY <1>6
  <2>3. RunOK(scan'[m], recorded, document, skill, after)
    BY <1>1, <1>3, <1>4, <1>9, <2>1, <2>2, CloseOK
  <2> QED BY <1>6, <1>7, <1>9, <2>1, <2>3
<1> QED BY <1>6, <1>8, <1>9

(* Only one run is active: what the others know is of no account.          *)
LEMMA OneActive ==
    ASSUME ~Overlap, TypeInv, OneRun, NEW m \in Scanners, Step(m)
    PROVE  \A k \in Scanners \ {m} : ~Active(k)
<1>1. Aims(scan[m])
  BY DEF TypeInv
<1>2. Active(m) \/ \A k \in Scanners : ~Active(k)
  BY <1>1 DEF Step, Load, runTier, FindIssue, UpdateIssue, CreateIssue, ListResolved,
     CloseIssue, Finish, Active, Aims
<1> QED BY <1>2 DEF OneRun

LEMMA RunStep ==
    ASSUME ~Overlap, ConflictInv, NEW m \in Scanners, Step(m), TypeInv',
           \A k \in Scanners \ {m} : scan'[k] = scan[k],
           ListInv(issues', skill'),
           RunOK(scan'[m], recorded', document', skill', issues')
    PROVE  ConflictInv'
<1>1. \A k \in Scanners \ {m} : scan'[k].phase \notin {"scan", "file", "send"}
  BY OneActive DEF ConflictInv, Active
<1>2. OneRun'
  BY <1>1 DEF OneRun, Active
<1>3. \A k \in Scanners : RunOK(scan'[k], recorded', document', skill', issues')
  BY <1>1 DEF RunOK
<1> QED BY <1>2, <1>3 DEF ConflictInv

LEMMA OthersStep ==
    ASSUME ConflictInv, TypeInv', NEW T \in SUBSET Keys, Touch(T),
           Elsewhere(T, recorded, document, skill, issues,
                     recorded', document', skill', issues'),
           ListInv(issues', skill')
    PROVE  ConflictInv'
<1>1. TypeInv
  BY DEF ConflictInv
<1>2. /\ \A m \in Scanners : ~Active(m) => scan'[m] = scan[m]
      /\ \A m \in Scanners : Active(m) => Touched(scan[m], scan'[m], T)
  BY <1>1, TouchTyped
<1>3. ASSUME NEW m \in Scanners
      PROVE  RunOK(scan'[m], recorded', document', skill', issues')
  <2>1. CASE Active(m)
    <3>1. /\ RunOK(scan[m], recorded, document, skill, issues) /\ Aims(scan[m])
          /\ scan[m] \in Run
      BY Resting
    <3>2. Touched(scan[m], scan'[m], T)
      BY <1>2, <2>1
    <3> QED BY <3>1, <3>2, Frame
  <2>2. CASE ~Active(m)
    BY <1>2, <2>2 DEF Active, RunOK
  <2> QED BY <2>1, <2>2
<1>4. \A m \in Scanners : scan'[m].phase = scan[m].phase
  BY <1>2 DEF Touched
<1>5. OneRun'
  BY <1>4 DEF ConflictInv, OneRun, Active
<1> QED BY <1>3, <1>5 DEF ConflictInv

LEMMA WriteStep ==
    ASSUME ConflictInv, TypeInv', NEW r \in Repos, Write(r)
    PROVE  ConflictInv'
<1>1. /\ ListInv(issues, skill) /\ issues \in Seq(Issue)
      /\ recorded \in [Repos -> Versions \cup {Nil}]
      /\ document \in [Repos -> Hashes \cup {Missing}]
      /\ skill \in [Repos -> Hashes \cup {Missing}]
  BY DEF ConflictInv, TypeInv, TypeOK
<1>2. CASE /\ \E h \in (Versions \cup {Nil}) \ {recorded[r]} : recorded' = [recorded EXCEPT ![r] = h]
           /\ Touch({<<"version-drift", r>>})
           /\ UNCHANGED <<document, skill, issues>>
  <2>1. /\ Touch({<<"version-drift", r>>}) /\ {<<"version-drift", r>>} \in SUBSET Keys
        /\ \A x \in Repos : x # r => recorded'[x] = recorded[x]
    BY <1>1, <1>2, KeysAre
  <2>2. Elsewhere({<<"version-drift", r>>}, recorded, document, skill, issues,
                  recorded', document', skill', issues')
    BY <1>2, <2>1 DEF Elsewhere
  <2>3. ListInv(issues', skill')
    BY <1>1, <1>2
  <2> QED BY <2>1, <2>2, <2>3, OthersStep
<1>3. CASE /\ \E h \in (Hashes \cup {Missing}) \ {document[r]} :
                document' = [document EXCEPT ![r] = h]
           /\ Touch(LocalTypes \X {r})
           /\ UNCHANGED <<recorded, skill, issues>>
  <2>1. /\ Touch(LocalTypes \X {r})
        /\ \A x \in Repos : x # r => document'[x] = document[x]
    BY <1>1, <1>3
  <2>2. LocalTypes \X {r} \in SUBSET Keys
    BY DEF Keys
  <2>3. \A k \in Locals : Home(k) \in Repos /\ (k \notin LocalTypes \X {r} => Home(k) # r)
    BY DEF Locals, Home
  <2>4. Elsewhere(LocalTypes \X {r}, recorded, document, skill, issues,
                  recorded', document', skill', issues')
    BY <1>3, <2>1, <2>3 DEF Elsewhere
  <2>5. ListInv(issues', skill')
    BY <1>1, <1>3
  <2> QED BY <2>1, <2>2, <2>4, <2>5, OthersStep
<1>4. CASE /\ \E h \in (Hashes \cup {Missing}) \ {skill[r]} :
                /\ skill' = [skill EXCEPT ![r] = h]
                /\ issues' = IF h # Missing THEN issues ELSE
                     [n \in DOMAIN issues |-> [issues[n] EXCEPT !.standing = @ \ {r}]]
           /\ Touch({DuplicateSkill})
           /\ UNCHANGED <<recorded, document>>
  <2> DEFINE dropped == [n \in DOMAIN issues |-> [issues[n] EXCEPT !.standing = @ \ {r}]]
  <2>1. /\ \A x \in Repos : x # r => skill'[x] = skill[x]
        /\ \/ issues' = issues /\ skill'[r] # Missing
           \/ issues' = dropped
    BY <1>1, <1>4
  <2>2. /\ IsDropped(issues, dropped)
        /\ \A o \in DOMAIN issues : dropped[o].standing = issues[o].standing \ {r}
    BY <1>1, Dropping
  <2>3. \A o \in DOMAIN issues : issues[o].standing \subseteq Repos
    BY <1>1, IssuesAre
  <2> HIDE DEF dropped
  <2>4. /\ issues' = issues \/ IsDropped(issues, issues')
        /\ \A o \in DOMAIN issues :
             /\ issues'[o].standing \subseteq issues[o].standing
             /\ \A x \in issues'[o].standing : skill[x] # Missing => skill'[x] # Missing
    <3>1. CASE issues' = issues /\ skill'[r] # Missing
      BY <2>1, <2>3, <3>1
    <3>2. CASE issues' = dropped
      <4>1. \A o \in DOMAIN issues :
             /\ issues'[o].standing \subseteq issues[o].standing \ {r}
             /\ issues'[o].standing \subseteq Repos
        BY <2>2, <2>3, <3>2
      <4>2. IsDropped(issues, issues')
        BY <2>2, <3>2
      <4> QED BY <2>1, <4>1, <4>2
    <3> QED BY <2>1, <3>1, <3>2
  <2>5. ListInv(issues', skill')
    BY <1>1, <2>4, DroppedList
  <2>6. /\ DOMAIN issues' = DOMAIN issues
        /\ \A o \in DOMAIN issues : /\ issues'[o].key = issues[o].key
                                    /\ issues'[o].open = issues[o].open
                                    /\ issues'[o].fingerprint = issues[o].fingerprint
                                    /\ issues'[o].repos = issues[o].repos
    BY <2>4 DEF IsDropped, Keeps
  <2>7. \A k : Opens(issues', k) = Opens(issues, k)
    BY <2>6 DEF Opens
  <2>8. Elsewhere({DuplicateSkill}, recorded, document, skill, issues,
                  recorded', document', skill', issues')
    BY <1>4, <2>4, <2>6, <2>7 DEF Elsewhere
  <2>9. Touch({DuplicateSkill}) /\ {DuplicateSkill} \in SUBSET Keys
    BY <1>4, KeysAre
  <2> QED BY <2>5, <2>8, <2>9, OthersStep
<1> QED BY <1>2, <1>3, <1>4 DEF Write

LEMMA HandleStep ==
    ASSUME ConflictInv, TypeInv', NEW n \in DOMAIN issues, Handle(n)
    PROVE  ConflictInv'
<1>1. ListInv(issues, skill) /\ issues \in Seq(Issue)
  BY DEF ConflictInv, TypeInv, TypeOK
<1> DEFINE T == {issues[n].key}
<1>2. T \in SUBSET Keys /\ Touch(T) /\ UNCHANGED <<recorded, document, skill>>
  BY <1>1, IssuesAre DEF Handle
<1>3. /\ ListInv(issues', skill)
      /\ DOMAIN issues' = DOMAIN issues
      /\ \A o \in DOMAIN issues : /\ issues'[o].key = issues[o].key
                                  /\ issues'[o].open => issues[o].open
                                  /\ o # n => issues'[o] = issues[o]
                                  /\ issues'[o].fingerprint => issues[o].fingerprint
                                  /\ issues'[o].repos = issues[o].repos
                                  /\ issues'[o].standing = issues[o].standing
  <2>1. CASE issues' = Closed(issues, n)
    <3>1. IsClosed(issues, issues', n)
      BY <1>1, <2>1, Closing
    <3>2. ListInv(issues', skill)
      BY <1>1, <3>1, ClosedList
    <3>3. issues[n] \in Issue
      BY <1>1, IssuesAre
    <3>4. issues'[n].fingerprint => issues[n].fingerprint
      BY <1>1, <2>1, <3>3 DEF Closed, Issue
    <3> QED BY <3>1, <3>2, <3>4 DEF IsClosed, Keeps
  <2>2. CASE \/ issues[n].fingerprint /\ issues' = [issues EXCEPT ![n].title = FALSE]
             \/ issues[n].title /\ issues' = [issues EXCEPT ![n].fingerprint = FALSE]
    <3>1. IsMarked(issues, issues', n)
      BY <1>1, <2>2, Marking
    <3>2. ListInv(issues', skill)
      BY <1>1, <3>1, MarkedList
    <3> QED BY <3>1, <3>2 DEF IsMarked, Keeps
  <2> QED BY <2>1, <2>2 DEF Handle, Closed
<1>4. /\ \A k : Opens(issues', k) \subseteq Opens(issues, k)
      /\ \A k : k \notin T => Opens(issues, k) \subseteq Opens(issues', k)
  BY <1>3 DEF Opens
<1> HIDE DEF T
<1>5. Elsewhere(T, recorded, document, skill, issues, recorded', document', skill', issues')
  BY <1>2, <1>3, <1>4 DEF Elsewhere
<1> QED BY <1>2, <1>3, <1>5, OthersStep

-----------------------------------------------------------------------------
LEMMA InitConflict == Init => ConflictInv
<1> SUFFICES ASSUME Init PROVE ConflictInv
  OBVIOUS
<1>1. issues = <<>> /\ \A m \in Scanners : scan[m].phase = "idle"
  BY DEF Init, IdleRun
<1>2. ListInv(issues, skill)
  BY <1>1 DEF ListInv, Unique, Marked, Standing, Kept, Opens
<1>3. OneRun /\ \A m \in Scanners : RunOK(scan[m], recorded, document, skill, issues)
  BY <1>1 DEF OneRun, Active, RunOK
<1> QED BY <1>2, <1>3, InitTyped DEF ConflictInv

LEMMA NextConflict == ASSUME ~Overlap, ConflictInv, [Next]_vars PROVE ConflictInv'
<1>1. TypeInv'
  BY NextTyped DEF ConflictInv
<1>2. ASSUME NEW m \in Scanners, Step(m) PROVE ConflictInv'
  <2>1. /\ TypeInv /\ ListInv(issues, skill) /\ issues \in Seq(Issue)
        /\ RunOK(scan[m], recorded, document, skill, issues)
        /\ scan \in [Scanners -> Run] /\ Aims(scan[m]) /\ scan[m] \in Run
        /\ (\A k \in Scanners : Aims(scan[k]))
    BY Resting
  <2>2. ASSUME recorded' = recorded, document' = document, skill' = skill, issues' = issues,
               \A k \in Scanners \ {m} : scan'[k] = scan[k],
               RunOK(scan'[m], recorded, document, skill, issues)
        PROVE  ConflictInv'
    BY <1>1, <1>2, <2>1, <2>2, RunStep
  <2>3. ASSUME recorded' = recorded, document' = document, skill' = skill, issues' = issues,
               NEW p \in {"ok", "failed"}, Exit(m, p)
        PROVE  ConflictInv'
    <3>1. scan'[m].phase = p /\ \A k \in Scanners \ {m} : scan'[k] = scan[k]
      BY <2>1, <2>3, ExitTyped
    <3>2. RunOK(scan'[m], recorded, document, skill, issues)
      BY <3>1 DEF RunOK
    <3> QED BY <2>2, <2>3, <3>1, <3>2
  <2>4. ASSUME Abort(m), recorded' = recorded, document' = document, skill' = skill,
               issues' = issues
        PROVE  ConflictInv'
    BY <2>3, <2>4 DEF Abort
  <2>5. CASE Load(m)
    <3>1. PICK q \in Run : /\ Set(m, q) /\ Aims(q) /\ q.phase = "scan"
                           /\ q.tiers = q.todo /\ q.todo # {}
                           /\ q.pending = {} /\ q.closing = {} /\ q.reported = {}
                           /\ q.missingTracked = {}
                           /\ \/ q.expected = recorded
                              \/ q.expected = [r \in Repos |-> Nil]
      BY <2>1, <2>5, LoadTyped
    <3>2. /\ scan'[m] = q /\ (\A k \in Scanners \ {m} : scan'[k] = scan[k])
          /\ recorded' = recorded /\ document' = document /\ skill' = skill
          /\ issues' = issues
      BY <2>1, <2>5, <3>1, SetTyped DEF Load, World
    <3>3. RunOK(q, recorded, document, skill, issues)
      BY <3>1, LoadOK
    <3> QED BY <2>2, <3>2, <3>3
  <2>6. CASE runTier(m)
    <3>1. /\ recorded' = recorded /\ document' = document /\ skill' = skill
          /\ issues' = issues /\ scan[m].phase = "scan"
      BY <2>6 DEF runTier, World
    <3>2. CASE Abort(m)
      BY <2>4, <3>1, <3>2
    <3>3. CASE ~Abort(m)
      <4>1. PICK tier \in scan[m].todo \ {3} :
              \E failed \in SUBSET (TypesOf(tier) \X Targets(scan[m])), q \in Run :
                 Set(m, q) /\ Aims(q) /\ Tiered(scan[m], q, tier, failed)
        BY <2>1, <2>6, <3>3, TierTyped
      <4>2. PICK failed \in SUBSET (TypesOf(tier) \X Targets(scan[m])), q \in Run :
                 Set(m, q) /\ Aims(q) /\ Tiered(scan[m], q, tier, failed)
        BY <4>1
      <4>3. RunOK(scan[m], recorded, document, skill, issues)
        BY <2>1
      <4>5. scan'[m] = q /\ \A k \in Scanners \ {m} : scan'[k] = scan[k]
        BY <2>1, <4>2, SetTyped
      <4>6. Standing(issues, skill)
        BY <2>1 DEF ListInv
      <4>7. RunOK(q, recorded, document, skill, issues)
        BY <2>1, <3>1, <4>1, <4>2, <4>3, <4>6, TierOK
      <4> QED BY <2>2, <3>1, <4>5, <4>7
    <3> QED BY <3>2, <3>3
  <2>7. CASE FindIssue(m)
    <3>1. /\ recorded' = recorded /\ document' = document /\ skill' = skill
          /\ issues' = issues /\ scan[m].phase = "file"
      BY <2>7 DEF FindIssue, World
    <3>2. CASE Abort(m)
      BY <2>4, <3>1, <3>2
    <3>3. CASE ~Abort(m)
      <4>1. PICK k \in scan[m].pending, q \in Run :
              /\ Set(m, q) /\ Aims(q) /\ SameRun(scan[m], q) /\ k \in Keys
              /\ q.phase = "send" /\ q.at = k /\ q.pending = scan[m].pending \ {k}
              /\ q.closing = scan[m].closing /\ q.repos = scan[m].repos
              /\ matching(k) # {} => q.found \in matching(k)
              /\ q.found # 0 <=> matching(k) # {}
              /\ q.found # 0 => q.previous = issueRepos(q.found)
        BY <2>1, <2>7, <3>3, FindTyped
      <4>2. scan'[m] = q /\ \A j \in Scanners \ {m} : scan'[j] = scan[j]
        BY <2>1, <4>1, SetTyped
      <4>3. RunOK(q, recorded, document, skill, issues)
        BY <2>1, <3>1, <4>1, FindOK
      <4> QED BY <2>2, <3>1, <4>2, <4>3
    <3> QED BY <3>2, <3>3
  <2>8. CASE UpdateIssue(m)
    BY <1>1, <1>2, <2>8, UpdateStep, RunStep
  <2>9. CASE CreateIssue(m)
    BY <1>1, <1>2, <2>9, CreateStep, RunStep
  <2>10. CASE ListResolved(m)
    <3>1. /\ recorded' = recorded /\ document' = document /\ skill' = skill
          /\ issues' = issues /\ scan[m].phase = "file" /\ scan[m].pending = {}
          /\ scan[m].closing = {}
      BY <2>10 DEF ListResolved, World
    <3>2. CASE Abort(m)
      BY <2>4, <3>1, <3>2
    <3>3. CASE ~Abort(m)
      <4>1. PICK x \in scan[m].repos, q \in Run :
              /\ Set(m, q) /\ Aims(q) /\ SameRun(scan[m], q) /\ q.phase = "file"
              /\ q.pending = {} /\ q.repos = scan[m].repos \ {x}
              /\ q.closing = ToClose(scan[m], x)
        BY <2>1, <2>10, <3>3, CleanTyped
      <4>2. scan'[m] = q /\ \A k \in Scanners \ {m} : scan'[k] = scan[k]
        BY <2>1, <4>1, SetTyped
      <4>3. RunOK(q, recorded, document, skill, issues)
        BY <2>1, <3>1, <4>1, CleanOK
      <4> QED BY <2>2, <3>1, <4>2, <4>3
    <3> QED BY <3>2, <3>3
  <2>11. CASE CloseIssue(m)
    BY <1>1, <1>2, <2>11, ClosingStep, RunStep
  <2>12. CASE Finish(m)
    BY <2>3, <2>12 DEF Finish, World
  <2> QED BY <1>2, <2>5, <2>6, <2>7, <2>8, <2>9, <2>10, <2>11, <2>12 DEF Step
<1>3. ASSUME NEW r \in Repos, Write(r) PROVE ConflictInv'
  BY <1>1, <1>3, WriteStep
<1>4. ASSUME NEW n \in DOMAIN issues, Handle(n) PROVE ConflictInv'
  BY <1>1, <1>4, HandleStep
<1>5. CASE UNCHANGED vars
  BY <1>5, <1>1 DEF vars, ConflictInv, OneRun, Active
<1> QED BY <1>2, <1>3, <1>4, <1>5 DEF Next

LEMMA ConflictInvHolds == ASSUME ~Overlap PROVE Spec => []ConflictInv
<1>1. ConflictInv /\ [Next]_vars => ConflictInv'
  BY NextConflict
<1> QED BY <1>1, InitConflict, PTL DEF Spec

(* Runs that do not overlap leave one open issue for each conflict at most:*)
(* the next run recognizes the issue by its fingerprint or its title,      *)
(* whatever request of an earlier run failed and whatever readers changed. *)
THEOREM AtMostOnePerConflictHolds == ASSUME ~Overlap PROVE Spec => []AtMostOnePerConflict
<1>1. ConflictInv => AtMostOnePerConflict
  <2> SUFFICES ASSUME ConflictInv, NEW k \in Keys PROVE Cardinality(OpenIssues(k)) <= 1
    BY DEF AtMostOnePerConflict
  <2>1. \A n, o \in OpenIssues(k) : n = o
    BY DEF ConflictInv, ListInv, Unique, Opens, OpenIssues
  <2>2. CASE OpenIssues(k) = {}
    BY <2>2, FS_EmptySet
  <2>3. ASSUME NEW n \in OpenIssues(k) PROVE Cardinality(OpenIssues(k)) <= 1
    <3>1. OpenIssues(k) = {n}
      BY <2>1, <2>3
    <3> QED BY <3>1, FS_Singleton
  <2> QED BY <2>2, <2>3
<1> QED BY <1>1, ConflictInvHolds, PTL

(* The participant list of an open issue forgets no repository whose copy  *)
(* of the skill is still there, whichever runs could not read it.          *)
THEOREM ParticipantsKeptHolds == ASSUME ~Overlap PROVE Spec => []ParticipantsKept
<1>1. ConflictInv => ParticipantsKept
  <2> SUFFICES ASSUME ConflictInv, NEW n \in DOMAIN issues, issues[n].open,
                      issueRepos(n) # {}
               PROVE  issues[n].standing \subseteq issues[n].repos
    BY DEF ParticipantsKept
  <2>1. issues[n].fingerprint /\ issues[n].repos # {}
    BY DEF issueRepos
  <2> QED BY <2>1 DEF ConflictInv, ListInv, Kept
<1> QED BY <1>1, ConflictInvHolds, PTL

(* What the files of a repository call for, by the record a run started    *)
(* from and by the present one.                                            *)
LEMMA FindingsHold ==
    ASSUME NEW run, NEW rec, NEW skl, Reports(run, rec, document, skl), NEW k \in Locals,
           k \notin run.touched, Home(k) \in Targets(run)
    PROVE  k \in FindingsIn(Home(k), rec[Home(k)]) <=> Holds(k, document, run.expected)
<1>1. k \in LocalTypes \X {Home(k)}
  BY DEF Locals, Home
<1>2. k \in FindingsIn(Home(k), rec[Home(k)]) <=> Holds(k, document, rec)
  BY <1>1 DEF FindingsIn, Holds, checkVersionDrift, checkCrossReferences, checkSectionOverlap
<1>3. k[1] = "version-drift" => run.expected[Home(k)] = rec[Home(k)]
  <2> SUFFICES ASSUME k[1] = "version-drift" PROVE run.expected[Home(k)] = rec[Home(k)]
    OBVIOUS
  <2>1. k = <<"version-drift", Home(k)>>
    BY KeysAre
  <2>2. <<"version-drift", Home(k)>> \notin run.touched
    BY <2>1
  <2> QED BY <2>2 DEF Reports
<1> QED BY <1>2, <1>3 DEF Holds

(* An issue to be closed is about a conflict that is gone.                 *)
LEMMA ClosingGone ==
    ASSUME ConflictInv, NEW m \in Scanners, NEW n \in scan[m].closing,
           issues[n].key \notin scan[m].touched
    PROVE  Gone(issues[n].key, issues[n].standing \cup Readable(m))
<1> DEFINE run == scan[m]
           k == issues[n].key
<1>1. /\ RunOK(run, recorded, document, skill, issues) /\ Aims(run)
      /\ issues \in Seq(Issue)
  BY Resting
<1>2. /\ Shape(run) /\ Reports(run, recorded, document, skill) /\ Closes(run, issues)
  BY <1>1 DEF RunOK, Aims
<1>3. /\ n \in DOMAIN issues /\ Vouched(run, k)
      /\ k = DuplicateSkill => issues[n].standing \subseteq Read(run)
  BY <1>2 DEF Closes
<1>4. k \in Keys /\ Read(run) = Readable(m) /\ Read(run) \subseteq Targets(run)
  BY <1>1, <1>3, IssuesAre DEF Read, Readable
<1>5. run.todo = {}
  BY <1>2 DEF Shape
<1> HIDE DEF k
<1>6. k \notin run.touched
  BY DEF k
<1>7. Checks(run, k) /\ k \notin run.reported
  BY <1>3, <1>5, <1>6 DEF Checks, Vouched
<1>8. CASE k \in Locals
  <2>1. Home(k) \in Targets(run) /\ k # DuplicateSkill
    BY <1>3, <1>4, <1>8, KeysAre DEF Vouched
  <2>2. ~Holds(k, document, run.expected)
    BY <1>2, <1>7, <1>8 DEF Reports
  <2>3. k \notin FindingsIn(Home(k), recorded[Home(k)])
    BY <1>2, <1>6, <1>8, <2>1, <2>2, FindingsHold
  <2>4. k[1] = "version-drift" => document[Home(k)] # Missing
    <3> SUFFICES ASSUME k[1] = "version-drift" PROVE document[Home(k)] # Missing
      OBVIOUS
    <3>1. k = <<"version-drift", Home(k)>> /\ Home(k) \in Repos
      BY <1>4, <1>8, KeysAre
    <3>2. Checks(run, <<"version-drift", Home(k)>>)
      BY <1>7, <3>1
    <3>3. Home(k) \in run.missingTracked <=> document[Home(k)] = Missing
      BY <1>2, <3>1, <3>2 DEF Reports
    <3> QED BY <1>3, <3>3 DEF Vouched
  <2> QED BY <2>1, <2>3, <2>4 DEF Gone, k
<1>9. CASE k = DuplicateSkill
  <2>1. ~Differing(skill, Read(run))
    BY <1>2, <1>7, <1>9 DEF Reports
  <2>2. ~Differ(issues[n].standing \cup Readable(m))
    BY <1>3, <1>4, <1>9, <2>1 DEF Differ, Differing
  <2>3. k \notin FindingsIn(Home(k), recorded[Home(k)])
    BY <1>9 DEF FindingsIn, DuplicateSkill, LocalTypes
  <2>4. k[1] # "version-drift"
    BY <1>9, KeysAre
  <2> QED BY <2>2, <2>3, <2>4 DEF Gone, k
<1> QED BY <1>4, <1>8, <1>9, KeysAre

(* A run closes an issue only when its conflict is gone from the files,    *)
(* among the repositories ever named and those it could read.              *)
THEOREM ClosedOnlyWhenGoneHolds == ASSUME ~Overlap PROVE Spec => ClosedOnlyWhenGone
<1>1. ConflictInv => ClosesOnly(Readable)
  BY ClosingGone DEF ClosesOnly
<1>2. ConflictInv /\ [Next]_vars => [ClosesOnly(Readable)]_vars
  BY <1>1
<1> QED BY <1>2, ConflictInvHolds, PTL DEF Spec, ClosedOnlyWhenGone

(* A run that ends well has nothing left to file, to go through or to      *)
(* close.                                                                  *)
LEMMA EndsDone ==
    ASSUME ConflictInv, [Next]_vars, NEW m \in Scanners, Ends(m)
    PROVE  /\ scan[m].pending = {} /\ scan[m].repos = {} /\ scan[m].closing = {}
           /\ scan[m].phase = "file"
<1>1. /\ TypeInv /\ scan \in [Scanners -> Run] /\ (\A k \in Scanners : Aims(scan[k]))
      /\ RunOK(scan[m], recorded, document, skill, issues)
      /\ scan[m].phase = "file" /\ scan'[m].phase = "ok" /\ issues \in Seq(Issue)
  BY Resting DEF Ends
<1>2. ASSUME NEW T \in SUBSET Keys, Touch(T) PROVE FALSE
  <2>1. scan'[m].phase = scan[m].phase
    BY <1>1, <1>2, TouchTyped DEF Touched
  <2> QED BY <1>1, <2>1
<1>3. ASSUME NEW r \in Repos, Write(r) PROVE FALSE
  <2>1. \E T \in SUBSET Keys : Touch(T)
    BY <1>1, <1>3, WriteTyped
  <2> QED BY <1>2, <2>1
<1>4. ASSUME NEW n \in DOMAIN issues, Handle(n) PROVE FALSE
  <2>1. {issues[n].key} \in SUBSET Keys /\ Touch({issues[n].key})
    BY <1>1, <1>4, IssuesAre DEF Handle
  <2> QED BY <1>2, <2>1
<1>5. ASSUME NEW k \in Scanners, Step(k) PROVE Finish(m)
  <2>1. ASSUME NEW q \in Run, Set(k, q), Aims(q), q.phase # "ok" PROVE FALSE
    <3>1. scan'[m] = IF m = k THEN q ELSE scan[m]
      BY <1>1, <2>1, SetTyped
    <3> QED BY <1>1, <2>1, <3>1
  <2>2. ASSUME Abort(k) PROVE FALSE
    <3>1. scan'[k].phase = "failed" /\ \A j \in Scanners \ {k} : scan'[j] = scan[j]
      BY <1>1, <2>2, ExitTyped DEF Abort
    <3> QED BY <1>1, <3>1
  <2>3. CASE Load(k)
    <3>1. \E q \in Run : Set(k, q) /\ Aims(q) /\ q.phase = "scan"
      BY <1>1, <2>3, LoadTyped
    <3> QED BY <2>1, <3>1
  <2>4. CASE runTier(k)
    <3>1. CASE ~Abort(k)
      <4>1. \E q \in Run : Set(k, q) /\ Aims(q) /\ q.phase # "ok"
        BY <1>1, <2>4, <3>1, TierTyped DEF Tiered
      <4> QED BY <2>1, <4>1
    <3> QED BY <2>2, <3>1
  <2>5. CASE FindIssue(k)
    <3>1. CASE ~Abort(k)
      <4>1. \E q \in Run : Set(k, q) /\ Aims(q) /\ q.phase = "send"
        BY <1>1, <2>5, <3>1, FindTyped
      <4> QED BY <2>1, <4>1
    <3> QED BY <2>2, <3>1
  <2>6. ASSUME NEW request, NEW after, Request(k, request, after, Filed(k)) PROVE FALSE
    <3>1. CASE Filed(k)
      <4>1. \E q \in Run : Set(k, q) /\ Aims(q) /\ q.phase = "file"
        BY <1>1, <3>1, FiledTyped DEF Continues
      <4> QED BY <2>1, <4>1
    <3> QED BY <2>2, <2>6, <3>1 DEF Request
  <2>7. CASE UpdateIssue(k)
    BY <2>6, <2>7 DEF UpdateIssue
  <2>8. CASE CreateIssue(k)
    BY <2>6, <2>8 DEF CreateIssue
  <2>9. CASE ListResolved(k)
    <3>1. CASE ~Abort(k)
      <4>1. \E q \in Run : Set(k, q) /\ Aims(q) /\ q.phase = "file"
        BY <1>1, <2>9, <3>1, CleanTyped
      <4> QED BY <2>1, <4>1
    <3> QED BY <2>2, <3>1
  <2>10. CASE CloseIssue(k)
    <3>1. /\ scan[k].closing # {}
          /\ \A j \in Scanners \ {k} : scan'[j] = scan[j]
          /\ scan'[k].phase = scan[k].phase \/ scan'[k].phase = "failed"
      BY <1>1, <2>10, CloseStep
    <3>2. k # m
      BY <1>1, <3>1
    <3> QED BY <1>1, <3>1, <3>2
  <2>11. CASE Finish(k)
    <3>1. k # m => scan'[m] = scan[m]
      BY <1>1, <2>11, ExitTyped DEF Finish
    <3>2. k = m
      BY <1>1, <3>1
    <3> QED BY <2>11, <3>2
  <2> QED BY <1>5, <2>3, <2>4, <2>5, <2>7, <2>8, <2>9, <2>10, <2>11 DEF Step
<1>6. ASSUME UNCHANGED vars PROVE FALSE
  BY <1>1, <1>6 DEF vars
<1>7. Finish(m)
  BY <1>3, <1>4, <1>5, <1>6 DEF Next
<1> QED BY <1>1, <1>7 DEF Finish

LEMMA EndReports ==
    ASSUME ConflictInv, [Next]_vars, NEW m \in Scanners, Ends(m), NEW k \in Keys,
           Vouches(scan[m], k),
           IF k = DuplicateSkill THEN Differ(Readable(m))
           ELSE k \in FindingsIn(Home(k), recorded[Home(k)])
    PROVE  OpenIssues(k) # {}
<1> DEFINE run == scan[m]
<1>1. run.phase = "file" /\ run.pending = {}
  BY EndsDone
<1>2. /\ Shape(run) /\ Reports(run, recorded, document, skill) /\ Files(run, issues)
  BY <1>1, Resting DEF RunOK
<1>3. Read(run) = Readable(m) /\ Read(run) \subseteq Targets(run)
  BY DEF Read, Readable
<1>4. k \notin run.touched /\ Checks(run, k)
  BY <1>1, <1>2, <1>3, KeysAre DEF Vouches, Checks, Shape, Readable
<1>5. k \in run.reported
  <2>1. CASE k = DuplicateSkill
    <3>1. Differing(skill, Read(run))
      BY <1>3, <2>1 DEF Differ, Differing
    <3> QED BY <1>2, <1>4, <2>1, <3>1 DEF Reports
  <2>2. CASE k \in Locals
    <3>1. k # DuplicateSkill /\ Home(k) \in Targets(run)
      BY <1>3, <1>4, <2>2, KeysAre DEF Checks
    <3>2. Holds(k, document, run.expected)
      BY <1>2, <1>4, <2>2, <3>1, FindingsHold
    <3> QED BY <1>2, <1>4, <2>2, <3>2 DEF Reports
  <2> QED BY <2>1, <2>2, KeysAre
<1>6. Opens(issues, k) # {}
  BY <1>1, <1>2, <1>4, <1>5 DEF Files
<1> QED BY <1>6 DEF Opens, OpenIssues

(* Every conflict among the files a run could read has an open issue once  *)
(* the run has ended well.                                                 *)
THEOREM ConflictIsReportedHolds == ASSUME ~Overlap PROVE Spec => ConflictIsReported
<1>1. ConflictInv /\ [Next]_vars =>
         [\A m \in Scanners : Ends(m) =>
            \A k \in Keys :
               /\ Vouches(scan[m], k)
               /\ IF k = DuplicateSkill
                  THEN Differ(Readable(m))
                  ELSE k \in FindingsIn(Home(k), recorded[Home(k)])
               => OpenIssues(k) # {}]_vars
  BY EndReports
<1> QED BY <1>1, ConflictInvHolds, PTL DEF Spec, ConflictIsReported

LEMMA EndCloses ==
    ASSUME ConflictInv, [Next]_vars, NEW m \in Scanners, Ends(m), AutoClose,
           Targets(scan[m]) # {}, NEW k \in Keys, Vouches(scan[m], k),
           Home(k) \notin scan[m].incomplete, Gone(k, Targets(scan[m])),
           NEW n \in OpenIssues(k)
    PROVE  /\ k = DuplicateSkill
           /\ issueRepos(n) = {} \/ ~(issues[n].repos \subseteq Readable(m))
<1> DEFINE run == scan[m]
<1>1. run.phase = "file" /\ run.repos = {} /\ run.closing = {}
  BY EndsDone
<1>2. /\ Shape(run) /\ Reports(run, recorded, document, skill) /\ Cleans(run, issues)
  BY <1>1, Resting DEF RunOK
<1>3. Read(run) = Readable(m) /\ Read(run) \subseteq Targets(run)
  BY DEF Read, Readable
<1>4. k \notin run.touched /\ Checks(run, k) /\ tierOfType(k) \in run.tiers
  BY <1>1, <1>2, <1>3, KeysAre DEF Vouches, Checks, Shape, Readable
<1>5. k \in Locals => k # DuplicateSkill /\ Home(k) \in Read(run) /\ Home(k) \in Targets(run)
  BY <1>3, <1>4, KeysAre DEF Checks
<1>6. k \notin run.reported
  <2>1. CASE k = DuplicateSkill
    <3>1. ~Differing(skill, Targets(run))
      BY <2>1 DEF Gone, Differ, Differing
    <3> QED BY <1>2, <1>4, <2>1, <3>1 DEF Reports
  <2>2. CASE k \in Locals
    <3>1. k \notin FindingsIn(Home(k), recorded[Home(k)])
      BY DEF Gone
    <3>2. ~Holds(k, document, run.expected)
      BY <1>2, <1>4, <1>5, <2>2, <3>1, FindingsHold
    <3> QED BY <1>2, <1>4, <2>2, <3>2 DEF Reports
  <2> QED BY <2>1, <2>2, KeysAre
<1>7. k[1] = "version-drift" => Home(k) \notin run.missingTracked
  <2> SUFFICES ASSUME k[1] = "version-drift" PROVE Home(k) \notin run.missingTracked
    OBVIOUS
  <2>1. k = <<"version-drift", Home(k)>> /\ Home(k) \in Repos
    BY KeysAre
  <2>2. Checks(run, <<"version-drift", Home(k)>>)
    BY <1>4, <2>1
  <2>3. Home(k) \in run.missingTracked <=> document[Home(k)] = Missing
    BY <1>2, <2>1, <2>2 DEF Reports
  <2> QED BY <2>3 DEF Gone
<1>8. Vouched(run, k)
  BY <1>4, <1>5, <1>6, <1>7 DEF Vouched
<1>9. k = DuplicateSkill /\ ~ListsRead(run, issues[n])
  <2>1. n \in Opens(issues, k)
    BY DEF Opens, OpenIssues
  <2> QED BY <1>1, <1>2, <1>4, <1>8, <2>1 DEF Cleans
<1> QED BY <1>3, <1>9 DEF ListsRead, issueRepos

(* An issue whose conflict is gone is closed once a run that checked it    *)
(* has ended well; one about several repositories only if it still lists   *)
(* them and the run read them all.                                         *)
THEOREM ResolvedIsClosedHolds == ASSUME ~Overlap PROVE Spec => ResolvedIsClosed
<1>1. ConflictInv /\ [Next]_vars =>
         [\A m \in Scanners : Ends(m) /\ AutoClose /\ Targets(scan[m]) # {} =>
            \A k \in Keys :
               /\ Vouches(scan[m], k) /\ Home(k) \notin scan[m].incomplete
               /\ Gone(k, Targets(scan[m]))
               => \A n \in OpenIssues(k) :
                     /\ k = DuplicateSkill
                     /\ \/ issueRepos(n) = {}
                        \/ ~(issues[n].repos \subseteq Readable(m))]_vars
  BY EndCloses
<1> QED BY <1>1, ConflictInvHolds, PTL DEF Spec, ResolvedIsClosed
=============================================================================
