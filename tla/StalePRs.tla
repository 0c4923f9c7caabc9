------------------------------ MODULE StalePRs ------------------------------
(***************************************************************************)
(* The pull request of a template in syncOne and what follows: the worker  *)
(* creates it and labels it, or updates the one its branch has; then it    *)
(* lists the open pull requests of the target page by page and closes      *)
(* those it takes for older ones of its template (closeStalePRs).  Several *)
(* workers, one per template, and people act on the same repository, and   *)
(* any of them makes the pages shift.  SyncRun has one template per target *)
(* and a listing that is one step.  A worker whose creation or update      *)
(* fails closes nothing: here, it takes no further step.                   *)
(*                                                                         *)
(* Template ids, branches and titles are sequences of their parts; a       *)
(* version is one part, as the configuration admits none with a slash.     *)
(***************************************************************************)
EXTENDS Integers, Sequences, SequencesExt, FiniteSets

CONSTANTS
    Ids,            \* template ids, sequences of parts; "/" may be one of them
    Templates,      \* those with a worker in this run
    Nobody,         \* the template of a pull request that is no sync's
    Version, Prefix,    \* the version and the title prefix now configured
    Kinds,          \* the pull requests there can be at first
    MaxFirst,       \* bound on these
    PageSize,       \* entries of a page
    MaxActs,        \* bound on what people do
    Faulty          \* the requests that can fail

SyncBranch(id, version) == <<"steerspec-sync/">> \o id \o <<"/", version>>
Update == ": update "
To == " to "
legacyTitlePrefix == "[SteerSpec] Update "
updateMessage(prefix, id, version) == <<prefix, Update>> \o id \o <<To, version>>
legacyTitle(id) == <<legacyTitlePrefix>> \o id

(* template: history, the one it was opened for.                           *)
PullRequest == [template : Ids \cup {Nobody}, head : Seq(STRING), title : Seq(STRING),
                labelled : BOOLEAN]

ASSUME StalePRsAssumption ==
    /\ Ids \subseteq Seq(STRING) /\ {Version, Prefix} \subseteq STRING
    /\ Kinds \subseteq PullRequest /\ Templates \subseteq Ids /\ Nobody \notin Ids
    /\ PageSize \in Nat \ {0} /\ {MaxFirst, MaxActs} \subseteq Nat
    /\ Faulty \subseteq {"label", "list", "close"}

VARIABLES
    prs,        \* the pull requests of the target, by number
    open,       \* the numbers of the open ones
    worker,     \* worker[t]: closeStalePRs for template t
    acts        \* what people did so far

vars == <<prs, open, worker, acts>>

(* older: history, those the listing should find and nobody reopened;      *)
(* left: history, did one leave the listing while it was read?; refused:   *)
(* history, failed closes.                                                 *)
Numbers == Nat \ {0}
Worker == [phase : {"open", "label", "list", "close", "done", "unlisted"}, own : Nat, page : Numbers,
           found : SUBSET Numbers, older : SUBSET Numbers, left : BOOLEAN,
           refused : SUBSET Numbers]
TypeOK ==
    /\ \A n \in DOMAIN prs : prs[n].template \in Ids \cup {Nobody}
    /\ open \subseteq DOMAIN prs
    /\ acts \in 0..MaxActs
    /\ \A t \in Templates :
          /\ worker[t].found \cup worker[t].older \subseteq DOMAIN prs \ {worker[t].own}
          /\ worker[t].page <= Len(prs) + 1
          /\ worker[t].phase = "done" => worker[t].found = {}

(* A branch has one open pull request at most, which is GitHub's rule.     *)
Init ==
    /\ prs \in UNION {[1..k -> Kinds] : k \in 0..MaxFirst}
    /\ \A n, k \in DOMAIN prs : prs[n].head = prs[k].head => n = k
    /\ open = DOMAIN prs
    /\ worker = [t \in Templates |-> [phase |-> "open", own |-> 0, page |-> 1, found |-> {},
                                      older |-> {}, left |-> FALSE, refused |-> {}]]
    /\ acts = 0

Fails(request) == request \in Faulty
Set(t, w) == worker' = [worker EXCEPT ![t] = w]
Of(t) == {n \in open : prs[n].template = t /\ prs[n].labelled}

(* The pull request of this version: the one the branch has, whatever its  *)
(* label, with the title as it is now, or a new one.                       *)
Existing(t) == {n \in open : prs[n].head = SyncBranch(t, Version)}
UpdatePR(t) ==
    /\ worker[t].phase = "open"
    /\ \E n \in Existing(t) :
         /\ prs' = [prs EXCEPT ![n].title = updateMessage(Prefix, t, Version)]
         /\ Set(t, [worker[t] EXCEPT !.phase = "list", !.own = n, !.older = Of(t) \ {n}])
    /\ UNCHANGED <<open, acts>>
CreatePR(t) ==
    /\ worker[t].phase = "open" /\ Existing(t) = {}
    /\ prs' = Append(prs, [template |-> t, head |-> SyncBranch(t, Version),
                           title |-> updateMessage(Prefix, t, Version), labelled |-> FALSE])
    /\ open' = open \cup {Len(prs) + 1}
    /\ Set(t, [worker[t] EXCEPT !.phase = "label", !.own = Len(prs) + 1])
    /\ UNCHANGED acts

(* A request of its own; a pull request that gets no label is kept.        *)
LabelPR(t) ==
    /\ worker[t].phase = "label"
    /\ \/ prs' = [prs EXCEPT ![worker[t].own].labelled = TRUE]
       \/ Fails("label") /\ prs' = prs
    /\ Set(t, [worker[t] EXCEPT !.phase = "list", !.older = Of(t) \ {worker[t].own}])
    /\ UNCHANGED <<open, acts>>

(* GitHub's page p of the open pull requests, newest first.                *)
Page(p) == {n \in open : Cardinality({k \in open : k > n}) \div PageSize = p - 1}

Rest(seq, start) == SubSeq(seq, Len(start) + 1, Len(seq))
anyBranchUnder(head, id) == IsPrefix(<<"steerspec-sync/">> \o id \o <<"/">>, head)  \* mutant
isSyncBranchForTemplate(head, id) ==
    LET start == <<"steerspec-sync/">> \o id \o <<"/">>
    IN  /\ IsPrefix(start, head) /\ Rest(head, start) # <<>>
        /\ "/" \notin ToSet(Rest(head, start))
isSyncPRForTemplate(title, id) ==
    \/ IsPrefix(<<Prefix, Update>> \o id \o <<To>>, title)
    \/ IsPrefix(legacyTitle(id), title)

ownToo(t, n) == /\ prs[n].labelled                               \* mutant
                /\ \/ isSyncBranchForTemplate(prs[n].head, t)
                   \/ isSyncPRForTemplate(prs[n].title, t)
stale(t, n) == /\ prs[n].labelled /\ n # worker[t].own
               /\ \/ isSyncBranchForTemplate(prs[n].head, t)
                  \/ isSyncPRForTemplate(prs[n].title, t)

lastWhenFull(got) == Cardinality(got) > PageSize                 \* mutant
AnotherPage(got) == Cardinality(got) >= PageSize

(* List: the pages one after the other; any error is taken for no stale    *)
(* pull request at all.                                                    *)
ReadPage(t) ==
    /\ worker[t].phase = "list"
    /\ LET got == Page(worker[t].page)
           found == worker[t].found \cup {n \in got : stale(t, n)}
       IN  \/ AnotherPage(got)
              /\ Set(t, [worker[t] EXCEPT !.page = @ + 1, !.found = found])
           \/ ~AnotherPage(got)
              /\ Set(t, [worker[t] EXCEPT !.found = found,
                           !.phase = IF found = {} THEN "done" ELSE "close"])
           \/ Fails("list") /\ Set(t, [worker[t] EXCEPT !.found = {}, !.phase = "unlisted"])
    /\ UNCHANGED <<prs, open, acts>>

(* A pull request leaves the listing of every worker that reads it.        *)
Leaves(n, workers) == [t \in Templates |->
    IF workers[t].phase = "list" /\ n \in open THEN [workers[t] EXCEPT !.left = TRUE]
    ELSE workers[t]]

(* Close, in the order of the listing; an error is ignored.                *)
ClosePR(t) ==
    /\ worker[t].phase = "close"
    /\ \E n \in worker[t].found :
         /\ \A k \in worker[t].found : k <= n
         /\ LET next == [worker EXCEPT ![t].found = @ \ {n},
                           ![t].phase = IF worker[t].found = {n} THEN "done" ELSE @]
            IN  \/ open' = open \ {n} /\ worker' = Leaves(n, next)
                \/ /\ Fails("close") /\ UNCHANGED open
                   /\ worker' = [next EXCEPT ![t].refused = @ \cup {n}]
    /\ UNCHANGED <<prs, acts>>

-----------------------------------------------------------------------------
(* People merge or close a pull request, reopen one, or open one of their  *)
(* own.                                                                    *)
Human ==
    /\ acts < MaxActs /\ acts' = acts + 1
    /\ \/ \E n \in open : open' = open \ {n} /\ worker' = Leaves(n, worker)
          /\ UNCHANGED prs
       \/ \E n \in DOMAIN prs \ open :
             /\ \A k \in open : prs[k].head # prs[n].head
             /\ open' = open \cup {n} /\ UNCHANGED prs
             /\ worker' = [t \in Templates |-> [worker[t] EXCEPT !.older = @ \ {n}]]
       \/ /\ prs' = Append(prs, [template |-> Nobody, head |-> <<"fix">>, title |-> <<"fix">>,
                                 labelled |-> TRUE])
          /\ open' = open \cup {Len(prs) + 1} /\ UNCHANGED worker

Step(t) == UpdatePR(t) \/ CreatePR(t) \/ LabelPR(t) \/ ReadPage(t) \/ ClosePR(t)
Next == Human \/ \E t \in Templates : Step(t)
Spec == Init /\ [][Next]_vars

-----------------------------------------------------------------------------
(* isSyncBranchForTemplate and isSyncPRForTemplate, "does not claim PRs    *)
(* for": a worker closes only pull requests of its own template, and not   *)
(* the one it has just opened or updated.                                  *)
ClosesItsOwn ==
    [][\A t \in Templates : \A n \in worker[t].found \ worker'[t].found :
         n \notin open' => prs[n].template = t /\ n # worker[t].own]_vars

(* SYNCPR-006: when a worker is done, no older labelled pull request of    *)
(* its template is open any more, whatever its branch and its title were   *)
(* called, except one it failed to close, if none left the listing while   *)
(* it was read and nobody reopened it (closeStalePRs, List).               *)
StaleAreClosed ==
    [][\A t \in Templates :
         worker[t].phase \in {"list", "close"} /\ worker'[t].phase = "done" /\ ~worker'[t].left
         => worker[t].older \cap open' \subseteq worker'[t].refused]_vars

(* What the code does not keep: ... whatever leaves the listing.           *)
StaleAreAlwaysClosed ==
    [][\A t \in Templates :
         worker[t].phase \in {"list", "close"} /\ worker'[t].phase = "done"
         => worker[t].older \cap open' \subseteq worker'[t].refused]_vars
=============================================================================
