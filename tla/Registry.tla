------------------------------ MODULE Registry ------------------------------
(***************************************************************************)
(* How a sync finds its targets (internal/registry/registry.go, Resolve):  *)
(* the repositories of every organization named by an include pattern, and *)
(* those with a topic in these organizations, minus the excluded ones.     *)
(* GitHub answers both listings page by page (internal/github/repos.go),   *)
(* newest repository first, while repositories and topics come and go.     *)
(* The code asks for no order: for a search, that newcomers come first and *)
(* the others keep their order is an assumption about GitHub.              *)
(*                                                                         *)
(* A repository is its organization and its number there, in the order of  *)
(* creation; a glob is the set of the numbers whose names it matches.      *)
(***************************************************************************)
EXTENDS Integers, FiniteSets

CONSTANTS
    Orgs,           \* GitHub's organizations
    Account,        \* Account[s]: the organization spelling s stands for
    Repos,          \* the repositories there can be
    Include, Exclude,   \* patterns, [org |-> spelling, glob |-> numbers]
    Topics,         \* topics that include a repository
    Taggable,       \* repositories whose topics change
    PageSize,       \* entries of a page
    SearchCap,      \* entries of a search GitHub hands out at most
    MaxChanges,     \* bound on changes of repositories and topics
    Faulty          \* "request": a request can fail; "search": be answered in part

ASSUME RegistryAssumption ==
    /\ Repos \subseteq Orgs \X Nat /\ IsFiniteSet(Repos) /\ Taggable \subseteq Repos
    /\ \A o \in Orgs : Account[o] = o
    /\ Include \cup Exclude \subseteq [org : DOMAIN Account, glob : SUBSET Nat]
    /\ \A p \in Include \cup Exclude : Account[p.org] \in Orgs
    /\ PageSize \in Nat \ {0} /\ {SearchCap, MaxChanges} \subseteq Nat
    /\ Faulty \subseteq {"request", "search"}

VARIABLES
    exists,     \* the repositories there are
    tagged,     \* tagged[t]: those with topic t
    changes,    \* changes by others so far
    phase,      \* of Resolve: "listing", "done" or "failed"
    todo,       \* the listings it has not finished
    page,       \* the page it asks for next
    repoMap,    \* the repositories taken from the listings so far
    targets,    \* what it returned
    first,      \* history: the repositories wanted when it began
    ever,       \* history: those wanted at some time since
    left        \* history: has a repository left a listing since?

vars == <<exists, tagged, changes, phase, todo, page, repoMap, targets, first, ever, left>>

(* One listing per include pattern, then one search per topic and          *)
(* organization in scope, in some fixed order.                             *)
inScopeOrgs == {p.org : p \in Include}
Queries == Include \cup [topic : Topics, org : inScopeOrgs]
IsSearch(q) == q \notin Include
Current == CHOOSE q \in todo : IsSearch(q) => \A k \in todo : IsSearch(k)

(* What GitHub lists, and the page of it with p - 1 full pages of newer    *)
(* repositories before.                                                    *)
Listing(q) == {r \in exists : /\ r[1] = Account[q.org]
                              /\ IsSearch(q) => r \in tagged[q.topic]}
Page(q, p) == {r \in Listing(q) :
    Cardinality({s \in Listing(q) : s[2] > r[2]}) \div PageSize = p - 1}

(* What the configuration asks for, whatever its spelling.                 *)
Wanted(there, tags) == {r \in there :
    \E p \in Include : /\ Account[p.org] = r[1]
                       /\ r[2] \in p.glob \/ \E t \in Topics : r \in tags[t]}
Unwanted == {r \in Repos : \E p \in Exclude : Account[p.org] = r[1] /\ r[2] \in p.glob}

TypeOK ==
    /\ exists \subseteq Repos /\ tagged \in [Topics -> SUBSET Taggable]
    /\ changes \in 0..MaxChanges
    /\ phase \in {"listing", "done", "failed"}
    /\ todo \subseteq Queries /\ page \in 1..Cardinality(Repos) + 1
    /\ {repoMap, targets, first, ever} \subseteq SUBSET Repos
    /\ left \in BOOLEAN

Init ==
    /\ exists \in SUBSET Repos /\ tagged \in [Topics -> SUBSET Taggable]
    /\ changes = 0
    /\ phase = "listing" /\ todo = Queries /\ page = 1 /\ repoMap = {} /\ targets = {}
    /\ first = Wanted(exists, tagged) /\ ever = first /\ left = FALSE

World == <<exists, tagged, changes, first, ever, left>>
Fail == phase' = "failed" /\ UNCHANGED <<World, todo, page, repoMap, targets>>

(* The entries Resolve takes: by name, or by owner.                        *)
matched(q, r) == IF IsSearch(q) THEN r[1] \in inScopeOrgs ELSE r[2] \in q.glob

Endless(got) == TRUE                                              \* mutant
NotLast(got) == Cardinality(got) > PageSize                       \* mutant
SamePage(p) == p                                                  \* mutant
AnotherPage(got) == Cardinality(got) >= PageSize
NextPage(p) == p + 1

(* ListByOrg, ListByTopic: a page, and the next one unless it was short.   *)
ReadPage ==
    /\ phase = "listing" /\ todo # {}
    /\ LET q == Current
           whole == Page(q, page)
       IN  /\ IsSearch(q) => (page - 1) * PageSize < SearchCap
           /\ \E got \in {whole} \cup
                     (IF IsSearch(q) /\ "search" \in Faulty THEN SUBSET whole ELSE {}) :
                /\ repoMap' = repoMap \cup {r \in got : matched(q, r)}
                /\ IF AnotherPage(got)
                   THEN page' = NextPage(page) /\ UNCHANGED todo
                   ELSE page' = 1 /\ todo' = todo \ {q}
    /\ UNCHANGED <<World, phase, targets>>

(* A failed request fails Resolve; so does one past what a search hands    *)
(* out.                                                                    *)
FailedRequest == /\ "request" \in Faulty
                 /\ phase = "listing" /\ todo # {} /\ Fail
PastSearch == /\ phase = "listing" /\ todo # {}
              /\ IsSearch(Current) /\ (page - 1) * PageSize >= SearchCap
              /\ Fail

(* The exclusions come last; an owner is compared with the spelling.       *)
excludeIncluded(repos) ==                                         \* mutant
    {r \in repos : ~\E p \in Exclude : /\ p.org = r[1] /\ r[2] \in p.glob
                      /\ \E i \in Include : i.org = r[1] /\ r[2] \in i.glob}
exclude(repos) ==
    {r \in repos : ~\E p \in Exclude : p.org = r[1] /\ r[2] \in p.glob}
Resolve ==
    /\ phase = "listing" /\ todo = {}
    /\ phase' = "done" /\ targets' = exclude(repoMap)
    /\ UNCHANGED <<World, todo, page, repoMap>>

-----------------------------------------------------------------------------
Change(there, tags) ==
    /\ phase = "listing" /\ changes < MaxChanges /\ changes' = changes + 1
    /\ exists' = there /\ tagged' = tags
    /\ ever' = ever \cup Wanted(there, tags)
    /\ left' = (left \/ ~(exists \subseteq there)
                     \/ \E t \in DOMAIN tagged : ~(tagged[t] \subseteq tags[t]))
    /\ UNCHANGED <<phase, todo, page, repoMap, targets, first>>
Add == \E r \in Repos : /\ \A s \in exists : s[1] = r[1] => s[2] < r[2]
                        /\ Change(exists \cup {r}, tagged)
Delete == \E r \in exists : Change(exists \ {r}, tagged)
Tag == \E t \in DOMAIN tagged : \E r \in Taggable :
    \/ r \in tagged[t] /\ Change(exists, [tagged EXCEPT ![t] = @ \ {r}])
    \/ r \notin tagged[t] /\ Change(exists, [tagged EXCEPT ![t] = @ \cup {r}])

Step == ReadPage \/ PastSearch \/ Resolve
Next == Step \/ FailedRequest \/ Add \/ Delete \/ Tag
Spec == Init /\ [][Next]_vars
FairSpec == Spec /\ WF_vars(Step)

-----------------------------------------------------------------------------
(* registry.go:86, "topic resolution is confined to these": a target is in *)
(* an organization of an include pattern and was matched or tagged at some *)
(* time of the run, and no exclude pattern matches it, however it was      *)
(* found (Resolve).                                                        *)
TargetsAreWanted == targets \subseteq ever \ Unwanted

(* What it rests on: nothing is taken that is not wanted.                  *)
IInv ==
    /\ exists \subseteq Repos /\ todo \subseteq Queries
    /\ Wanted(exists, tagged) \subseteq ever
    /\ repoMap \subseteq ever \cap Repos
    /\ TargetsAreWanted
(* ... when the exclude patterns name organizations as GitHub does.        *)
Spelled == \A p \in Exclude : p.org \in Orgs

(* When nothing left a listing meanwhile, Resolve misses no repository     *)
(* that was wanted from the beginning to the end, although the pages shift *)
(* under it when repositories come (ListByOrg, ListByTopic).               *)
NothingMissed ==
    phase = "done" /\ ~left =>
        (first \cap Wanted(exists, tagged)) \ Unwanted \subseteq targets

(* Resolve ends, with targets or with an error.                            *)
ResolveEnds == <>(phase # "listing")

(* What the code does not keep: it misses nothing, whatever leaves, ...    *)
NothingMissedEver ==
    phase = "done" => (first \cap Wanted(exists, tagged)) \ Unwanted \subseteq targets
(* ... and ends with targets when no request fails.                        *)
ResolveSucceeds == <>(phase = "done")
=============================================================================
