---------------------------- MODULE Monitor_proofs ----------------------------
(***************************************************************************)
(* Runs of the drift monitor that do not overlap leave one open issue per  *)
(* recorded file at most, and a run that ends well answers for its files:  *)
(* for every number of repositories, templates, runs, failed requests and  *)
(* changes by people.                                                      *)
(***************************************************************************)
EXTENDS Monitor, FiniteSetTheorems, SequenceTheorems, TLAPS

(* A run that is about to make a request knows which file it is about and  *)
(* what it observed.                                                       *)
Aims(r) == r.step # "fetch" => r.at \in Entries /\ r.content \in Hashes \cup {Missing}
TypeInv == TypeOK /\ \A m \in Monitors : Aims(mon[m])

(* The issue the listing gave the run for a file; the files it has still   *)
(* to deal with.                                                           *)
Listed(r, e) == IF r.byFingerprint[e] # 0 THEN r.byFingerprint[e] ELSE r.byTitle[e]
Handles(r) == r.todo \cup (IF r.step = "fetch" THEN {} ELSE {r.at})

(* Which files a run is about: recorded, in scope and configured.          *)
Wanted(r) == {e \in Entries : r.expected[e] # Nil /\ e[1] \in r.scope /\ e[2] \in Configured}

(* The open issues of a file in a list of issues.                          *)
Opens(list, e) == {n \in DOMAIN list : list[n].open /\ list[n].entry = e}

(* A file a run has dealt with, and nobody has touched since.              *)
Answered(list, e, rec, act) ==
    /\ act # rec => Opens(list, e) # {}
    /\ AutoClose /\ act = rec =>
          \A n \in Opens(list, e) : Fails("fetch") /\ list[n].shows = Missing

(* The index of a run covers every open issue of a file it has still to    *)
(* deal with, and is exact for those nobody has touched since.             *)
Indexes(r, e, list) ==
    /\ \A n \in Opens(list, e) : n = Listed(r, e)
    /\ Listed(r, e) # 0 => /\ Listed(r, e) \in DOMAIN list
                           /\ list[Listed(r, e)].entry = e
                           /\ e \notin r.touched => list[Listed(r, e)].open
(* What a run is about to do is what its observation calls for.            *)
Fits(r, act) ==
    /\ r.step # "fetch" =>
          /\ r.at \notin r.todo
          /\ r.at \notin r.touched => r.content = act[r.at]
                                      \/ (Fails("fetch") /\ r.content = Missing)
    /\ r.step = "create" => Listed(r, r.at) = 0
    /\ r.step \in {"close", "update"} => Listed(r, r.at) # 0
    /\ r.step = "close" => AutoClose /\ r.content = r.expected[r.at]
    /\ r.step \in {"update", "create"} => r.content # r.expected[r.at]
(* A run in progress, the records, the files and the issues.               *)
RunOK(r, rec, act, list) ==
    r.phase \in {"list", "work"} =>
        /\ ~Fails("load") => \A e \in Entries \ r.touched : r.expected[e] = rec[e]
        /\ r.phase = "list" => r.step = "fetch"
        /\ r.phase = "work" =>
              /\ Fits(r, act)
              /\ \A e \in Handles(r) : Indexes(r, e, list)
              /\ ~Fails("load") => \A e \in Wanted(r) \ (Handles(r) \cup r.touched) :
                                       Answered(list, e, rec[e], act[e])

(* One open issue per file, which a run can recognize.                     *)
Unique(list) == \A e \in Entries : \A n, k \in Opens(list, e) : n = k
Marked(list) == \A n \in DOMAIN list : list[n].open => list[n].fingerprint \/ list[n].title
OneRun == \A m, k \in Monitors : Active(m) /\ Active(k) => m = k
MonitorInv == /\ TypeInv /\ Unique(issues) /\ Marked(issues) /\ OneRun
              /\ \A m \in Monitors : RunOK(mon[m], recorded, actual, issues)

-----------------------------------------------------------------------------
(* Issues are appended and edited, never removed.                          *)
LEMMA EditIssue ==
    ASSUME NEW list \in Seq(Issue), NEW n, NEW i, n \in DOMAIN list => i \in Issue
    PROVE  LET later == [list EXCEPT ![n] = i]
           IN  /\ later \in Seq(Issue) /\ Len(later) = Len(list) /\ DOMAIN later = DOMAIN list
               /\ n \in DOMAIN list => later[n] = i
               /\ \A k \in DOMAIN list : k # n => later[k] = list[k]
<1>1. CASE n \in DOMAIN list
  BY <1>1, ExceptSeq
<1>2. CASE n \notin DOMAIN list
  <2>1. list \in [1..Len(list) -> Issue]
    BY LenProperties
  <2>2. [list EXCEPT ![n] = i] = list
    BY <1>2, <2>1
  <2> QED BY <1>2, <2>2
<1> QED BY <1>1, <1>2

LEMMA Bounds == /\ MaxIssues \in Nat /\ MaxWrites \in Nat
                /\ Nil \notin Hashes \cup {Missing} /\ Missing \notin Hashes
BY MonitorAssumption DEF MonitorAssumption

LEMMA IdleTyped == /\ IdleRun \in Run /\ Aims(IdleRun)
                   /\ \A p \in {"list", "ok", "failed"} :
                        [IdleRun EXCEPT !.phase = p] \in Run /\ Aims([IdleRun EXCEPT !.phase = p])
<1>1. IdleRun \in Run
  <2>1. /\ [e \in Entries |-> Nil] \in [Entries -> Hashes \cup {Nil}]
        /\ [e \in Entries |-> 0] \in [Entries -> 0..MaxIssues]
    BY Bounds
  <2> QED BY <2>1 DEF IdleRun, Run, Steps
<1>2. IdleRun.step = "fetch"
  BY DEF IdleRun
<1>3. \A p \in {"list", "ok", "failed"} : /\ [IdleRun EXCEPT !.phase = p] \in Run
                                         /\ [IdleRun EXCEPT !.phase = p].step = "fetch"
  BY <1>1, <1>2 DEF Run
<1> QED BY <1>1, <1>2, <1>3 DEF Aims

(* What stays typed when one run changes.                                  *)
LEMMA SetTyped ==
    ASSUME mon \in [Monitors -> Run], \A k \in Monitors : Aims(mon[k]),
           NEW m \in Monitors, NEW q \in Run, Aims(q), Set(m, q)
    PROVE  /\ mon' \in [Monitors -> Run] /\ \A k \in Monitors : Aims(mon'[k])
           /\ mon'[m] = q /\ \A k \in Monitors \ {m} : mon'[k] = mon[k]
BY DEF Set

LEMMA ExitTyped ==
    ASSUME mon \in [Monitors -> Run], \A k \in Monitors : Aims(mon[k]),
           NEW m \in Monitors, NEW p \in {"ok", "failed"}, Exit(m, p)
    PROVE  /\ mon' \in [Monitors -> Run] /\ \A k \in Monitors : Aims(mon'[k])
           /\ mon'[m].phase = p /\ \A k \in Monitors \ {m} : mon'[k] = mon[k]
<1>1. /\ [IdleRun EXCEPT !.phase = p] \in Run /\ Aims([IdleRun EXCEPT !.phase = p])
  BY IdleTyped
<1>2. [IdleRun EXCEPT !.phase = p].phase = p
  BY DEF IdleRun
<1> QED BY <1>1, <1>2, SetTyped DEF Exit

(* The runs a step can leave behind.                                       *)
LEMMA LoadTyped ==
    ASSUME TypeInv, NEW m \in Monitors, Load(m)
    PROVE  \E q \in Run : /\ Set(m, q) /\ Aims(q) /\ q.phase = "list" /\ q.touched = {}
                          /\ q.step = "fetch"
                          /\ ~Fails("load") => q.expected = recorded
<1>1. PICK scope \in Scopes,
           state \in {recorded} \cup (IF Fails("load") THEN {IdleRun.expected} ELSE {}) :
           Set(m, [IdleRun EXCEPT !.phase = "list", !.scope = scope, !.expected = state])
  BY DEF Load
<1>2. scope \in SUBSET Repos /\ state \in [Entries -> Hashes \cup {Nil}]
  BY MonitorAssumption DEF MonitorAssumption, TypeInv, TypeOK, IdleRun
<1> DEFINE q == [IdleRun EXCEPT !.phase = "list", !.scope = scope, !.expected = state]
<1>3. q \in Run /\ Aims(q) /\ q.phase = "list" /\ q.touched = {} /\ q.step = "fetch"
      /\ q.expected = state
  <2>1. IdleRun.touched = {} /\ IdleRun.step = "fetch" /\ IdleRun \in Run
    BY IdleTyped DEF IdleRun
  <2> HIDE DEF q
  <2>2. q = [IdleRun EXCEPT !.phase = "list", !.scope = scope, !.expected = state]
    BY DEF q
  <2> QED BY <1>2, <2>1, <2>2 DEF Run, Aims
<1>4. ~Fails("load") => state = recorded
  OBVIOUS
<1> HIDE DEF q
<1> QED BY <1>1, <1>3, <1>4 DEF q

Placed(r, f, g) == [r EXCEPT !.phase = "work", !.byFingerprint = f, !.byTitle = g,
                             !.todo = Wanted(r)]
LEMMA ListTyped ==
    ASSUME TypeInv, NEW m \in Monitors, List(m), ~Abort(m)
    PROVE  \E f \in Indexed("fingerprint"), g \in Indexed("title"), q \in Run :
              /\ Set(m, q) /\ Aims(q) /\ q.phase = "work"
              /\ q.byFingerprint = f /\ q.byTitle = g /\ q.todo = Wanted(q)
              /\ q.step = mon[m].step /\ q.at = mon[m].at /\ q.content = mon[m].content
              /\ q.touched = mon[m].touched
              /\ q.expected = mon[m].expected /\ q.scope = mon[m].scope
<1>1. PICK f \in Indexed("fingerprint"), g \in Indexed("title") : Set(m, Placed(mon[m], f, g))
  BY DEF List, Placed, Wanted
<1> DEFINE q == Placed(mon[m], f, g)
<1>2. mon[m] \in Run /\ Aims(mon[m]) /\ Len(issues) \in Nat /\ Len(issues) <= MaxIssues
  BY DEF TypeInv, TypeOK
<1>3. /\ f \in [Entries -> 0..MaxIssues] /\ g \in [Entries -> 0..MaxIssues]
      /\ Wanted(mon[m]) \in SUBSET Entries
  <2>1. f \in [Entries -> 0..Len(issues)] /\ g \in [Entries -> 0..Len(issues)]
    BY DEF Indexed
  <2> QED BY <1>2, <2>1, Bounds DEF Wanted
<1>4. /\ q \in Run /\ q.todo = Wanted(mon[m]) /\ q.phase = "work"
      /\ q.byFingerprint = f /\ q.byTitle = g
      /\ q.step = mon[m].step /\ q.at = mon[m].at /\ q.content = mon[m].content
      /\ q.touched = mon[m].touched
      /\ q.expected = mon[m].expected /\ q.scope = mon[m].scope
  BY <1>2, <1>3 DEF Run, Placed
<1> HIDE DEF q
<1>5. Wanted(q) = Wanted(mon[m]) /\ Aims(q)
  BY <1>2, <1>4 DEF Wanted, Aims
<1> QED BY <1>1, <1>4, <1>5 DEF q

Picked(r, e, next, content) ==
    [r EXCEPT !.todo = @ \ {e}, !.step = next,
              !.at = IF next = "fetch" THEN Nil ELSE e,
              !.content = IF next = "fetch" THEN Nil ELSE content]
LEMMA FetchTyped ==
    ASSUME TypeInv, NEW m \in Monitors, Fetch(m)
    PROVE  \E e \in mon[m].todo, content \in Hashes \cup {Missing}, q \in Run :
              /\ Set(m, q) /\ Aims(q) /\ e \in Entries
              /\ content = actual[e] \/ (Fails("fetch") /\ content = Missing)
              /\ q.todo = mon[m].todo \ {e}
              /\ q.step # "fetch" => q.at = e /\ q.content = content
              /\ q.step = "fetch" => content = mon[m].expected[e]
                                     /\ (~AutoClose \/ Listed(mon[m], e) = 0)
              /\ q.step = "close" => content = mon[m].expected[e] /\ AutoClose
              /\ q.step \in {"update", "create"} => content # mon[m].expected[e]
              /\ q.step \in {"close", "update"} => Listed(mon[m], e) # 0
              /\ q.step = "create" => Listed(mon[m], e) = 0
              /\ q.phase = mon[m].phase /\ q.touched = mon[m].touched
              /\ q.expected = mon[m].expected /\ q.scope = mon[m].scope
              /\ q.byFingerprint = mon[m].byFingerprint /\ q.byTitle = mon[m].byTitle
<1> DEFINE Calls(e, content, next) ==
              /\ next = "fetch" => content = mon[m].expected[e]
                                   /\ (~AutoClose \/ Listed(mon[m], e) = 0)
              /\ next = "close" => content = mon[m].expected[e] /\ AutoClose
              /\ next \in {"update", "create"} => content # mon[m].expected[e]
              /\ next \in {"close", "update"} => Listed(mon[m], e) # 0
              /\ next = "create" => Listed(mon[m], e) = 0
<1> DEFINE Call(e, content) ==
              CASE inSync(m, e, content) /\ (~AutoClose \/ Listed(mon[m], e) = 0) -> "fetch"
                [] inSync(m, e, content) /\ AutoClose /\ Listed(mon[m], e) # 0 -> "close"
                [] OTHER -> IF Listed(mon[m], e) # 0 THEN "update" ELSE "create"
<1>1. PICK e \in mon[m].todo : \E content \in observed(e) :
         Set(m, Picked(mon[m], e, Call(e, content), content))
  BY DEF Fetch, Picked, findIssueByFingerprintOrTitle, Listed
<1>2. PICK content \in observed(e) : Set(m, Picked(mon[m], e, Call(e, content), content))
  BY <1>1
<1>3. Call(e, content) \in Steps /\ Calls(e, content, Call(e, content))
  BY MonitorAssumption DEF MonitorAssumption, Steps, inSync
<1> HIDE DEF Call
<1>4. PICK next \in Steps :
         Calls(e, content, next) /\ Set(m, Picked(mon[m], e, next, content))
  BY <1>2, <1>3
<1>5. mon[m] \in Run /\ e \in Entries /\ content \in Hashes \cup {Missing}
      /\ (content = actual[e] \/ (Fails("fetch") /\ content = Missing))
  BY DEF TypeInv, TypeOK, Run, observed
<1> HIDE DEF Calls
<1> DEFINE q == Picked(mon[m], e, next, content)
<1>6. /\ q \in Run /\ q.todo = mon[m].todo \ {e} /\ q.step = next
      /\ next # "fetch" => q.at = e /\ q.content = content
      /\ q.phase = mon[m].phase /\ q.touched = mon[m].touched
      /\ q.expected = mon[m].expected /\ q.scope = mon[m].scope
      /\ q.byFingerprint = mon[m].byFingerprint /\ q.byTitle = mon[m].byTitle
  <2>1. Nil \in Entries \cup {Nil} /\ Nil \in Hashes \cup {Missing, Nil}
    OBVIOUS
  <2> QED BY <1>5, <2>1 DEF Run, Picked
<1> HIDE DEF q
<1>7. Aims(q)
  BY <1>5, <1>6 DEF Aims
<1> QED BY <1>4, <1>5, <1>6, <1>7 DEF q, Calls

(* A run keeps what it loaded and listed, and goes on to the next file.    *)
SameRun(r, q) ==
    /\ q.phase = r.phase /\ q.scope = r.scope /\ q.expected = r.expected
    /\ q.byFingerprint = r.byFingerprint /\ q.byTitle = r.byTitle
Continues(r, q) ==
    SameRun(r, q) /\ q.touched = r.touched /\ q.todo = r.todo /\ q.step = "fetch"

LEMMA HandledTyped ==
    ASSUME TypeInv, NEW m \in Monitors, Handled(m)
    PROVE  \E q \in Run : Set(m, q) /\ Aims(q) /\ Continues(mon[m], q)
<1> DEFINE q == [mon[m] EXCEPT !.step = "fetch", !.at = Nil, !.content = Nil]
<1>1. mon[m] \in Run
  BY DEF TypeInv, TypeOK
<1>2. Nil \in Entries \cup {Nil} /\ Nil \in Hashes \cup {Missing, Nil} /\ "fetch" \in Steps
  BY DEF Steps
<1>3. q \in Run /\ Aims(q) /\ Continues(mon[m], q)
  BY <1>1, <1>2 DEF Run, Aims, Continues, SameRun
<1>4. Set(m, q)
  BY DEF Handled
<1> HIDE DEF q
<1> QED BY <1>3, <1>4

LEMMA TouchTyped ==
    ASSUME TypeInv, NEW e \in Entries, Touch(e)
    PROVE  /\ mon' \in [Monitors -> Run] /\ \A m \in Monitors : Aims(mon'[m])
           /\ \A m \in Monitors : ~Active(m) => mon'[m] = mon[m]
           /\ \A m \in Monitors : Active(m) =>
                mon'[m] = [mon[m] EXCEPT !.touched = @ \cup {e}]
<1>1. mon \in [Monitors -> Run] /\ \A m \in Monitors : Aims(mon[m])
  BY DEF TypeInv, TypeOK
<1>2. \A m \in Monitors : /\ [mon[m] EXCEPT !.touched = @ \cup {e}] \in Run
                          /\ Aims([mon[m] EXCEPT !.touched = @ \cup {e}])
  BY <1>1 DEF Run, Aims
<1> QED BY <1>1, <1>2 DEF Touch

-----------------------------------------------------------------------------
(* What the requests and the readers do to the issues.                     *)
Keeps(list, later) == /\ later \in Seq(Issue) /\ Len(later) = Len(list)
                      /\ DOMAIN later = DOMAIN list
                      /\ \A k \in DOMAIN list : later[k].entry = list[k].entry

Closed(list, n) == [list EXCEPT ![n].open = FALSE]
LEMMA Closing ==
    ASSUME NEW list \in Seq(Issue), NEW n
    PROVE  LET later == Closed(list, n)
           IN  /\ Keeps(list, later)
               /\ \A k \in DOMAIN list : /\ later[k].open => k # n /\ list[k].open
                                         /\ k # n => later[k] = list[k]
                                         /\ later[k].shows = list[k].shows
<1> DEFINE i == [list[n] EXCEPT !.open = FALSE]
           later == [list EXCEPT ![n] = i]
<1>1. \A k \in DOMAIN list : list[k] \in Issue
  BY ElementOfSeq
<1>2. n \in DOMAIN list => i \in Issue /\ ~i.open /\ i.entry = list[n].entry
                           /\ i.shows = list[n].shows
  BY <1>1 DEF Issue
<1> HIDE DEF i
<1>3. Keeps(list, later)
  BY <1>2, EditIssue DEF Keeps
<1>4. \A k \in DOMAIN list : /\ later[k].open => k # n /\ list[k].open
                             /\ k # n => later[k] = list[k]
                             /\ later[k].shows = list[k].shows
  BY <1>2, EditIssue
<1>5. Closed(list, n) = later
  BY DEF Closed, i
<1> QED BY <1>3, <1>4, <1>5

Rewritten(list, n, content, m) ==
    [list EXCEPT ![n] = [@ EXCEPT !.fingerprint = TRUE, !.shows = content, !.since = m]]
Rewrites(list, later, n, content) ==
    /\ Keeps(list, later)
    /\ \A k \in DOMAIN list : /\ later[k].open = list[k].open
                              /\ k # n => later[k] = list[k]
    /\ n \in DOMAIN list => later[n].fingerprint /\ later[n].shows = content
LEMMA Rewriting ==
    ASSUME NEW list \in Seq(Issue), NEW n, NEW content \in Hashes \cup {Missing},
           NEW m \in Monitors
    PROVE  Rewrites(list, Rewritten(list, n, content, m), n, content)
<1> DEFINE i == [list[n] EXCEPT !.fingerprint = TRUE, !.shows = content, !.since = m]
           later == [list EXCEPT ![n] = i]
<1>1. \A k \in DOMAIN list : list[k] \in Issue
  BY ElementOfSeq
<1>2. n \in DOMAIN list => i \in Issue /\ i.open = list[n].open /\ i.entry = list[n].entry
                           /\ i.fingerprint = TRUE /\ i.shows = content
  BY <1>1 DEF Issue
<1> HIDE DEF i
<1>3. Keeps(list, later)
  <2>1. \A k \in DOMAIN list : later[k].entry = list[k].entry
    BY <1>2, EditIssue
  <2> QED BY <1>2, <2>1, EditIssue DEF Keeps
<1>4. \A k \in DOMAIN list : later[k].open = list[k].open /\ (k # n => later[k] = list[k])
  BY <1>2, EditIssue
<1>5. ASSUME n \in DOMAIN list PROVE later[n].fingerprint /\ later[n].shows = content
  <2>1. later[n] = i
    BY <1>2, <1>5, EditIssue
  <2> QED BY <1>2, <1>5, <2>1
<1>6. Rewritten(list, n, content, m) = later
  BY DEF Rewritten, i
<1> QED BY <1>3, <1>4, <1>5, <1>6 DEF Rewrites

LEMMA Opening ==
    ASSUME NEW list \in Seq(Issue), NEW i \in Issue
    PROVE  LET later == Append(list, i)
           IN  /\ later \in Seq(Issue) /\ Len(later) = Len(list) + 1
               /\ DOMAIN later = DOMAIN list \cup {Len(list) + 1}
               /\ \A k \in DOMAIN list : later[k] = list[k]
               /\ later[Len(list) + 1] = i
<1>1. Len(Append(list, i)) = Len(list) + 1 /\ Len(list) \in Nat
  OBVIOUS
<1>2. DOMAIN Append(list, i) = DOMAIN list \cup {Len(list) + 1}
  <2>1. DOMAIN Append(list, i) = 1..(Len(list) + 1) /\ DOMAIN list = 1..Len(list)
    OBVIOUS
  <2> QED BY <1>1, <2>1
<1> QED BY <1>1, <1>2

LEMMA Marking ==
    ASSUME NEW list \in Seq(Issue), NEW n \in DOMAIN list, NEW later,
           \/ list[n].fingerprint /\ later = [list EXCEPT ![n].title = FALSE]
           \/ list[n].title /\ later = [list EXCEPT ![n].fingerprint = FALSE]
    PROVE  /\ Keeps(list, later)
           /\ \A k \in DOMAIN list : /\ later[k].open = list[k].open
                                     /\ later[k].shows = list[k].shows
                                     /\ k # n => later[k] = list[k]
           /\ later[n].fingerprint \/ later[n].title
<1>1. list[n] \in Issue
  BY ElementOfSeq
<1>2. CASE list[n].fingerprint /\ later = [list EXCEPT ![n].title = FALSE]
  <2> DEFINE i == [list[n] EXCEPT !.title = FALSE]
  <2>1. i \in Issue /\ i.open = list[n].open /\ i.shows = list[n].shows
        /\ i.entry = list[n].entry /\ i.fingerprint
    BY <1>1, <1>2 DEF Issue
  <2>2. later = [list EXCEPT ![n] = i]
    BY <1>2
  <2> HIDE DEF i
  <2> QED BY <2>1, <2>2, EditIssue DEF Keeps
<1>3. CASE list[n].title /\ later = [list EXCEPT ![n].fingerprint = FALSE]
  <2> DEFINE i == [list[n] EXCEPT !.fingerprint = FALSE]
  <2>1. i \in Issue /\ i.open = list[n].open /\ i.shows = list[n].shows
        /\ i.entry = list[n].entry /\ i.title
    BY <1>1, <1>3 DEF Issue
  <2>2. later = [list EXCEPT ![n] = i]
    BY <1>3
  <2> HIDE DEF i
  <2> QED BY <2>1, <2>2, EditIssue DEF Keeps
<1> QED BY <1>2, <1>3

-----------------------------------------------------------------------------
(* What the steps of a run do: to the issues, and to the run itself.       *)
LEMMA RequestStep ==
    ASSUME TypeInv, NEW m \in Monitors, NEW step, NEW after, Request(m, step, after)
    PROVE  /\ mon[m].phase = "work" /\ mon[m].step = step /\ issues' \in {issues, after}
           /\ UNCHANGED <<recorded, actual, writes>>
           /\ \A k \in Monitors \ {m} : mon'[k] = mon[k]
           /\ mon' \in [Monitors -> Run] /\ \A k \in Monitors : Aims(mon'[k])
           /\ \/ issues' = after /\ Continues(mon[m], mon'[m])
              \/ mon'[m].phase = "failed"
<1>1. mon \in [Monitors -> Run] /\ \A k \in Monitors : Aims(mon[k])
  BY DEF TypeInv, TypeOK
<1>2. CASE issues' = after /\ Handled(m)
  <2>1. PICK q \in Run : Set(m, q) /\ Aims(q) /\ Continues(mon[m], q)
    BY <1>2, HandledTyped
  <2>2. mon'[m] = q /\ mon' \in [Monitors -> Run] /\ (\A k \in Monitors : Aims(mon'[k]))
        /\ \A k \in Monitors \ {m} : mon'[k] = mon[k]
    BY <1>1, <2>1, SetTyped
  <2> QED BY <1>2, <2>1, <2>2 DEF Request, World
<1>3. CASE issues' \in {issues, after} /\ Abort(m)
  BY <1>1, <1>3, ExitTyped DEF Abort, Request, World
<1> QED BY <1>2, <1>3 DEF Request

LEMMA InitTyped == Init => TypeInv
<1> SUFFICES ASSUME Init PROVE TypeInv
  OBVIOUS
<1>1. recorded \in [Entries -> Hashes \cup {Nil}] /\ issues \in Seq(Issue) /\ Len(issues) = 0
  BY DEF Init
<1> QED BY <1>1, IdleTyped, Bounds DEF Init, TypeInv, TypeOK

LEMMA NextTyped == ASSUME TypeInv, [Next]_vars PROVE TypeInv'
<1>0. /\ mon \in [Monitors -> Run] /\ (\A k \in Monitors : Aims(mon[k]))
      /\ issues \in Seq(Issue) /\ Len(issues) \in Nat /\ Len(issues) <= MaxIssues
      /\ recorded \in [Entries -> Hashes \cup {Nil}]
      /\ actual \in [Entries -> Hashes \cup {Missing}] /\ writes \in 0..MaxWrites
  BY DEF TypeInv, TypeOK
<1>1. ASSUME mon' \in [Monitors -> Run], \A k \in Monitors : Aims(mon'[k]),
             UNCHANGED <<recorded, actual, writes>>,
             issues' \in Seq(Issue), Len(issues') <= MaxIssues
      PROVE  TypeInv'
  BY <1>0, <1>1 DEF TypeInv, TypeOK
<1>2. ASSUME NEW m \in Monitors, Step(m) PROVE TypeInv'
  <2>1. CASE Load(m)
    <3>1. mon' \in [Monitors -> Run] /\ \A k \in Monitors : Aims(mon'[k])
      BY <1>0, <2>1, LoadTyped, SetTyped
    <3> QED BY <1>0, <1>1, <2>1, <3>1 DEF Load, World
  <2>2. CASE List(m)
    <3>1. mon' \in [Monitors -> Run] /\ \A k \in Monitors : Aims(mon'[k])
      <4>1. CASE Abort(m)
        BY <1>0, <4>1, ExitTyped DEF Abort
      <4>2. CASE ~Abort(m)
        <5>1. PICK q \in Run : Set(m, q) /\ Aims(q)
          BY <2>2, <4>2, ListTyped
        <5> QED BY <1>0, <5>1, SetTyped
      <4> QED BY <4>1, <4>2
    <3> QED BY <1>0, <1>1, <2>2, <3>1 DEF List, World
  <2>3. CASE Fetch(m)
    <3>1. PICK q \in Run : Set(m, q) /\ Aims(q)
      BY <2>3, FetchTyped
    <3>2. mon' \in [Monitors -> Run] /\ \A k \in Monitors : Aims(mon'[k])
      BY <1>0, <3>1, SetTyped
    <3> QED BY <1>0, <1>1, <2>3, <3>2 DEF Fetch, World
  <2>4. CASE CloseIssue(m)
    <3>1. PICK after : Request(m, "close", after)
                       /\ after = Closed(issues, Found(m))
      BY <2>4 DEF CloseIssue, Closed
    <3>2. after \in Seq(Issue) /\ Len(after) = Len(issues)
      BY <1>0, <3>1, Closing DEF Keeps
    <3> QED BY <1>0, <1>1, <3>1, <3>2, RequestStep
  <2>5. CASE UpdateIssue(m)
    <3>1. PICK after : Request(m, "update", after) /\
             after = Rewritten(issues, Found(m), mon[m].content, m)
      BY <2>5 DEF UpdateIssue, Rewritten
    <3>2. mon[m].content \in Hashes \cup {Missing}
      BY <1>0, <2>5 DEF UpdateIssue, Aims
    <3>3. after \in Seq(Issue) /\ Len(after) = Len(issues)
      <4>1. Keeps(issues, after)
        BY <1>0, <3>1, <3>2, Rewriting DEF Rewrites
      <4> QED BY <4>1 DEF Keeps
    <3> QED BY <1>0, <1>1, <3>1, <3>3, RequestStep
  <2>6. CASE CreateIssue(m)
    <3> DEFINE i == [entry |-> mon[m].at, open |-> TRUE, fingerprint |-> TRUE, title |-> TRUE,
                     shows |-> mon[m].content, since |-> m]
    <3>1. Request(m, "create", Append(issues, i)) /\ Len(issues) < MaxIssues
          /\ mon[m].step = "create"
      BY <2>6 DEF CreateIssue
    <3>2. i \in Issue
      BY <1>0, <3>1 DEF Issue, Aims
    <3> HIDE DEF i
    <3>3. Append(issues, i) \in Seq(Issue) /\ Len(Append(issues, i)) <= MaxIssues
      BY <1>0, <3>1, <3>2, Bounds
    <3>4. /\ issues' \in {issues, Append(issues, i)} /\ UNCHANGED <<recorded, actual, writes>>
          /\ mon' \in [Monitors -> Run] /\ \A k \in Monitors : Aims(mon'[k])
      BY <3>1, RequestStep
    <3>5. issues' \in Seq(Issue) /\ Len(issues') <= MaxIssues
      BY <1>0, <3>3, <3>4
    <3> QED BY <1>1, <3>4, <3>5
  <2>7. CASE Finish(m)
    BY <1>0, <1>1, <2>7, ExitTyped DEF Finish, World
  <2> QED BY <1>2, <2>1, <2>2, <2>3, <2>4, <2>5, <2>6, <2>7 DEF Step
<1>3. ASSUME NEW e \in Entries, Write(e) PROVE TypeInv'
  <2>1. mon' \in [Monitors -> Run] /\ \A k \in Monitors : Aims(mon'[k])
    BY <1>3, TouchTyped DEF Write
  <2>2. /\ recorded' \in [Entries -> Hashes \cup {Nil}]
        /\ actual' \in [Entries -> Hashes \cup {Missing}]
    BY <1>0, <1>3 DEF Write
  <2>3. writes' \in 0..MaxWrites
    BY <1>0, <1>3, Bounds DEF Write
  <2> QED BY <1>0, <1>3, <2>1, <2>2, <2>3 DEF Write, TypeInv, TypeOK
<1>4. ASSUME NEW n \in DOMAIN issues, Handle(n) PROVE TypeInv'
  <2>1. issues[n] \in Issue /\ issues[n].entry \in Entries
    <3>1. issues[n] \in Issue
      BY <1>0, ElementOfSeq
    <3> QED BY <3>1 DEF Issue
  <2>2. mon' \in [Monitors -> Run] /\ \A k \in Monitors : Aims(mon'[k])
    BY <1>4, <2>1, TouchTyped DEF Handle
  <2>3. issues' \in Seq(Issue) /\ Len(issues') = Len(issues)
    <3>1. CASE issues' = Closed(issues, n)
      BY <1>0, <3>1, Closing DEF Keeps
    <3>2. CASE \/ issues[n].fingerprint /\ issues' = [issues EXCEPT ![n].title = FALSE]
               \/ issues[n].title /\ issues' = [issues EXCEPT ![n].fingerprint = FALSE]
      BY <1>0, <3>2, Marking DEF Keeps
    <3> QED BY <1>4, <3>1, <3>2 DEF Handle, Closed
  <2> QED BY <1>0, <1>1, <1>4, <2>2, <2>3 DEF Handle, World
<1>5. CASE UNCHANGED vars
  BY <1>5 DEF vars, TypeInv, TypeOK
<1> QED BY <1>2, <1>3, <1>4, <1>5 DEF Next

(* The state of the monitor keeps its types.                               *)
THEOREM TypeHolds == Spec => []TypeOK
<1>1. TypeInv /\ [Next]_vars => TypeInv'
  BY NextTyped
<1>2. TypeInv => TypeOK
  BY DEF TypeInv
<1> QED BY <1>1, <1>2, InitTyped, PTL DEF Spec
-----------------------------------------------------------------------------
(* What others change is touched: the rest of the run's work stands.       *)
Elsewhere(e, rec, act, list, rec2, act2, later) ==
    /\ \A x \in Entries \ {e} : /\ rec2[x] = rec[x] /\ act2[x] = act[x]
                                /\ Opens(later, x) = Opens(list, x)
    /\ \A x \in Entries : Opens(later, x) \subseteq Opens(list, x)
    /\ DOMAIN later = DOMAIN list
    /\ \A n \in DOMAIN list : /\ later[n].entry = list[n].entry
                              /\ later[n].shows = list[n].shows
Touched(r, q, e) ==
    /\ SameRun(r, q) /\ q.todo = r.todo /\ q.step = r.step /\ q.at = r.at
    /\ q.content = r.content /\ q.touched = r.touched \cup {e}

LEMMA Frame ==
    ASSUME NEW r \in Run, NEW q, NEW rec, NEW act, NEW list, NEW rec2, NEW act2, NEW later,
           NEW e, RunOK(r, rec, act, list), Aims(r), Touched(r, q, e),
           Elsewhere(e, rec, act, list, rec2, act2, later)
    PROVE  RunOK(q, rec2, act2, later)
<1> USE DEF Touched, Elsewhere
<1>0. r.todo \subseteq Entries
  BY DEF Run
<1>1. /\ Handles(q) = Handles(r) /\ Wanted(q) = Wanted(r) /\ Handles(r) \subseteq Entries
      /\ \A x : Listed(q, x) = Listed(r, x)
  BY <1>0 DEF SameRun, Handles, Wanted, Listed, Aims
<1> SUFFICES ASSUME q.phase \in {"list", "work"}
             PROVE  /\ ~Fails("load") =>
                         \A x \in Entries \ q.touched : q.expected[x] = rec2[x]
                    /\ q.phase = "list" => q.step = "fetch"
                    /\ q.phase = "work" =>
                          /\ Fits(q, act2)
                          /\ \A x \in Handles(q) : Indexes(q, x, later)
                          /\ ~Fails("load") => \A x \in Wanted(q) \ (Handles(q) \cup q.touched) :
                                Answered(later, x, rec2[x], act2[x])
  BY DEF RunOK
<1>2. ASSUME ~Fails("load"), NEW x \in Entries \ q.touched PROVE q.expected[x] = rec2[x]
  BY <1>2 DEF RunOK, SameRun
<1>3. q.phase = "list" => q.step = "fetch"
  BY DEF RunOK, SameRun
<1>4. ASSUME q.phase = "work" PROVE Fits(q, act2)
  <2>1. Fits(r, act)
    BY <1>4 DEF RunOK, SameRun
  <2> QED BY <1>1, <2>1 DEF Fits, SameRun, Aims
<1>5. ASSUME q.phase = "work", NEW x \in Handles(q) PROVE Indexes(q, x, later)
  <2>1. Indexes(r, x, list) /\ x \in Entries
    BY <1>1, <1>5 DEF RunOK, SameRun
  <2>2. \A n \in Opens(later, x) : n = Listed(q, x)
    BY <1>1, <2>1 DEF Indexes
  <2>3. ASSUME Listed(q, x) # 0
        PROVE  /\ Listed(q, x) \in DOMAIN later /\ later[Listed(q, x)].entry = x
               /\ x \notin q.touched => later[Listed(q, x)].open
    <3>1. Listed(r, x) \in DOMAIN list /\ later[Listed(r, x)].entry = x
          /\ list[Listed(r, x)].entry = x
      BY <1>1, <2>1, <2>3 DEF Indexes
    <3>2. ASSUME x \notin q.touched PROVE later[Listed(r, x)].open
      <4>1. Listed(r, x) \in Opens(list, x)
        BY <1>1, <2>1, <2>3, <3>1, <3>2 DEF Indexes, Opens
      <4>2. Listed(r, x) \in Opens(later, x)
        BY <2>1, <3>2, <4>1
      <4> QED BY <4>2 DEF Opens
    <3> QED BY <1>1, <3>1, <3>2
  <2> QED BY <2>2, <2>3 DEF Indexes
<1>6. ASSUME q.phase = "work", ~Fails("load"),
             NEW x \in Wanted(q) \ (Handles(q) \cup q.touched)
      PROVE  Answered(later, x, rec2[x], act2[x])
  <2>1. Answered(list, x, rec[x], act[x]) /\ x \in Entries \ {e}
    BY <1>1, <1>6 DEF RunOK, SameRun, Wanted
  <2>2. \A n \in Opens(list, x) : n \in DOMAIN list
    BY DEF Opens
  <2> QED BY <2>1, <2>2 DEF Answered
<1> QED BY <1>2, <1>3, <1>4, <1>5, <1>6

(* The run lists the issues: at most one open issue for each file, found   *)
(* by one mark or the other.                                               *)
LEMMA ListOK ==
    ASSUME NEW r, NEW q, Unique(issues), Marked(issues), issues \in Seq(Issue),
           NEW f \in Indexed("fingerprint"), NEW g \in Indexed("title"),
           RunOK(r, recorded, actual, issues), r.phase = "list",
           q.phase = "work", q.byFingerprint = f, q.byTitle = g, q.todo = Wanted(q),
           q.step = r.step, q.touched = r.touched, q.expected = r.expected
    PROVE  RunOK(q, recorded, actual, issues)
<1>1. q.step = "fetch" /\ Handles(q) = Wanted(q)
  BY DEF RunOK, Handles
<1>2. ASSUME NEW e \in Handles(q) PROVE Indexes(q, e, issues)
  <2>1. e \in Entries
    BY <1>1 DEF Wanted
  <2> DEFINE found(has) == {n \in DOMAIN issues : issues[n].open /\ issues[n].entry = e
                                                  /\ issues[n][has]}
  <2>2. /\ IF found("fingerprint") = {} THEN f[e] = 0 ELSE f[e] \in found("fingerprint")
        /\ IF found("title") = {} THEN g[e] = 0 ELSE g[e] \in found("title")
    BY <2>1 DEF Indexed
  <2>3. DOMAIN issues \subseteq Nat \ {0}
    OBVIOUS
  <2>4. \A n \in Opens(issues, e) : n \in found("fingerprint") \/ n \in found("title")
    BY DEF Marked, Opens
  <2>5. found("fingerprint") \subseteq Opens(issues, e) /\ found("title") \subseteq Opens(issues, e)
    BY DEF Opens
  <2>6. \A n, k \in Opens(issues, e) : n = k
    BY <2>1 DEF Unique
  <2>7. 0 \notin Opens(issues, e)
    BY <2>3 DEF Opens
  <2> HIDE DEF found
  <2>8. Listed(q, e) = IF f[e] # 0 THEN f[e] ELSE g[e]
    BY DEF Listed
  <2>9. \A n \in Opens(issues, e) : n = Listed(q, e)
    BY <2>2, <2>4, <2>5, <2>6, <2>7, <2>8
  <2>10. Listed(q, e) # 0 => Listed(q, e) \in Opens(issues, e)
    BY <2>2, <2>5, <2>8
  <2> QED BY <2>9, <2>10 DEF Indexes, Opens
<1> QED BY <1>1, <1>2 DEF RunOK, Fits

(* What was observed of a file is what is there, or a failed request.      *)
Observes(content, e, act) == content = act[e] \/ (Fails("fetch") /\ content = Missing)

(* The run looks at a file: in sync with no issue to close, it is dealt    *)
(* with.                                                                   *)
LEMMA FetchOK ==
    ASSUME NEW r \in Run, NEW q \in Run, NEW e \in r.todo,
           NEW rec \in [Entries -> Hashes \cup {Nil}],
           NEW act \in [Entries -> Hashes \cup {Missing}], NEW list \in Seq(Issue),
           NEW content \in Hashes \cup {Missing}, Observes(content, e, act),
           RunOK(r, rec, act, list), r.phase = "work", r.step = "fetch",
           SameRun(r, q), q.touched = r.touched, q.todo = r.todo \ {e},
           q.step # "fetch" => q.at = e /\ q.content = content,
           q.step = "fetch" => content = r.expected[e] /\ (~AutoClose \/ Listed(r, e) = 0),
           q.step = "close" => content = r.expected[e] /\ AutoClose,
           q.step \in {"update", "create"} => content # r.expected[e],
           q.step \in {"close", "update"} => Listed(r, e) # 0,
           q.step = "create" => Listed(r, e) = 0
    PROVE  RunOK(q, rec, act, list)
<1>1. Handles(r) = r.todo /\ r.todo \subseteq Entries /\ e \in Entries
  BY DEF Handles, Run
<1>2. /\ Wanted(q) = Wanted(r) /\ \A x : Listed(q, x) = Listed(r, x)
      /\ q.phase = "work" /\ q.expected = r.expected
  BY DEF SameRun, Wanted, Listed
<1>3. Handles(q) = IF q.step = "fetch" THEN r.todo \ {e} ELSE r.todo
  BY DEF Handles
<1>4. Fits(q, act)
  BY <1>2 DEF Fits, Observes
<1>5. ASSUME NEW x \in Handles(q) PROVE Indexes(q, x, list)
  <2>1. Indexes(r, x, list)
    BY <1>1, <1>3, <1>5 DEF RunOK
  <2> QED BY <1>2, <2>1 DEF Indexes
<1>6. ASSUME ~Fails("load"), NEW x \in Wanted(q) \ (Handles(q) \cup q.touched)
      PROVE  Answered(list, x, rec[x], act[x])
  <2>1. CASE x \notin r.todo
    BY <1>1, <1>2, <1>6, <2>1 DEF RunOK
  <2>2. CASE x \in r.todo
    <3>1. x = e /\ q.step = "fetch"
      BY <1>3, <1>6, <2>2
    <3>2. r.expected[e] = rec[e] /\ e \in Entries
      BY <1>1, <1>6, <3>1 DEF RunOK
    <3>3. rec[e] \in Hashes \cup {Nil} /\ rec[e] # Nil
      BY <1>2, <1>6, <3>1, <3>2 DEF Wanted
    <3>4. act[e] = rec[e]
      BY <3>1, <3>2, <3>3, Bounds DEF Observes
    <3>5. Opens(list, e) = {} \/ ~AutoClose
      <4>1. Indexes(r, e, list)
        BY <1>1 DEF RunOK
      <4>2. 0 \notin Opens(list, e)
        BY DEF Opens
      <4> QED BY <3>1, <4>1, <4>2 DEF Indexes
    <3> QED BY <3>1, <3>4, <3>5 DEF Answered
  <2> QED BY <2>1, <2>2
<1> QED BY <1>2, <1>4, <1>5, <1>6, <1>1 DEF RunOK, SameRun

(* A request about the issue of a file: the files it is not about stand,   *)
(* and the file it is about is answered.                                   *)
LEMMA RequestOK ==
    ASSUME NEW r \in Run, NEW q \in Run, NEW rec, NEW act, NEW list, NEW later,
           RunOK(r, rec, act, list), r.phase = "work", r.step # "fetch", Aims(r),
           Continues(r, q),
           DOMAIN list \subseteq DOMAIN later,
           \A n \in DOMAIN list : later[n].entry = list[n].entry,
           \A e \in Entries \ {r.at} : Opens(later, e) = Opens(list, e),
           \A n \in DOMAIN list : list[n].entry # r.at =>
                (list[n].open => later[n].open) /\ later[n].shows = list[n].shows,
           ~Fails("load") /\ r.at \in Wanted(r) \ r.touched =>
                Answered(later, r.at, rec[r.at], act[r.at])
    PROVE  RunOK(q, rec, act, later)
<1>1. /\ Handles(q) = r.todo /\ Handles(r) = r.todo \cup {r.at}
      /\ r.todo \subseteq Entries /\ r.at \in Entries /\ r.at \notin r.todo
  BY DEF Continues, Handles, Run, Aims, RunOK, Fits
<1>2. /\ Wanted(q) = Wanted(r) /\ \A x : Listed(q, x) = Listed(r, x)
      /\ q.phase = "work" /\ q.expected = r.expected
  BY DEF Continues, SameRun, Wanted, Listed
<1>3. Fits(q, act)
  BY DEF Fits, Continues
<1>4. ASSUME NEW x \in Handles(q) PROVE Indexes(q, x, later)
  <2>1. Indexes(r, x, list) /\ x \in Entries \ {r.at}
    BY <1>1, <1>4 DEF RunOK
  <2> QED BY <1>2, <2>1 DEF Indexes, Continues
<1>5. ASSUME ~Fails("load"), NEW x \in Wanted(q) \ (Handles(q) \cup q.touched)
      PROVE  Answered(later, x, rec[x], act[x])
  <2>1. CASE x = r.at
    BY <1>2, <1>5, <2>1 DEF Continues
  <2>2. CASE x # r.at
    <3>1. Answered(list, x, rec[x], act[x]) /\ x \in Entries
      BY <1>1, <1>2, <1>5, <2>2 DEF RunOK, Wanted, Continues
    <3>2. \A n \in Opens(list, x) : n \in DOMAIN list /\ list[n].entry = x
      BY DEF Opens
    <3> QED BY <2>2, <3>1, <3>2 DEF Answered
  <2> QED BY <2>1, <2>2
<1> QED BY <1>2, <1>3, <1>4, <1>5 DEF RunOK, SameRun, Continues

-----------------------------------------------------------------------------
(* Only one run is active: what the others know is of no account.          *)
LEMMA OneActive ==
    ASSUME ~Overlap, TypeInv, OneRun, NEW m \in Monitors, Step(m)
    PROVE  \A k \in Monitors \ {m} : ~Active(k)
BY DEF Step, Load, List, Fetch, CloseIssue, UpdateIssue, CreateIssue, Request, Finish, OneRun,
       Active

LEMMA RunStep ==
    ASSUME ~Overlap, MonitorInv, NEW m \in Monitors, Step(m), TypeInv',
           \A k \in Monitors \ {m} : mon'[k] = mon[k],
           Unique(issues'), Marked(issues'), RunOK(mon'[m], recorded', actual', issues')
    PROVE  MonitorInv'
<1>1. \A k \in Monitors \ {m} : mon'[k].phase \notin {"list", "work"}
  BY OneActive DEF MonitorInv, Active
<1>2. OneRun'
  BY <1>1 DEF OneRun, Active
<1>3. \A k \in Monitors : RunOK(mon'[k], recorded', actual', issues')
  BY <1>1 DEF RunOK
<1> QED BY <1>2, <1>3 DEF MonitorInv

LEMMA CloseStep ==
    ASSUME MonitorInv, NEW m \in Monitors, CloseIssue(m)
    PROVE  /\ Unique(issues') /\ Marked(issues')
           /\ RunOK(mon'[m], recorded', actual', issues')
           /\ \A k \in Monitors \ {m} : mon'[k] = mon[k]
           /\ mon'[m].phase \in {"work", "failed"}
<1> DEFINE n == Found(m)
           after == Closed(issues, n)
<1>1. Request(m, "close", after)
  BY DEF CloseIssue, Closed
<1>2. /\ TypeInv /\ Unique(issues) /\ Marked(issues) /\ issues \in Seq(Issue)
      /\ RunOK(mon[m], recorded, actual, issues)
      /\ mon \in [Monitors -> Run] /\ Aims(mon[m]) /\ mon[m] \in Run
      /\ recorded \in [Entries -> Hashes \cup {Nil}]
      /\ actual \in [Entries -> Hashes \cup {Missing}]
  BY DEF MonitorInv, TypeInv, TypeOK
<1>3. n = Listed(mon[m], mon[m].at)
  BY DEF Found, findIssueByFingerprintOrTitle, Listed
<1>4. /\ Keeps(issues, after)
      /\ \A k \in DOMAIN issues : /\ after[k].open => k # n /\ issues[k].open
                                  /\ k # n => after[k] = issues[k]
                                  /\ after[k].shows = issues[k].shows
  BY <1>2, Closing
<1> HIDE DEF after, n
<1>5. \A e : Opens(after, e) = Opens(issues, e) \ {n}
  BY <1>4 DEF Opens, Keeps
<1>6. Unique(after) /\ Marked(after)
  <2>1. Unique(after)
    BY <1>2, <1>5 DEF Unique
  <2>2. Marked(after)
    BY <1>2, <1>4 DEF Marked, Keeps
  <2> QED BY <2>1, <2>2
<1>7. /\ mon[m].phase = "work" /\ mon[m].step = "close" /\ issues' \in {issues, after}
      /\ recorded' = recorded /\ actual' = actual
      /\ \A k \in Monitors \ {m} : mon'[k] = mon[k]
      /\ mon'[m] \in Run
      /\ \/ issues' = after /\ Continues(mon[m], mon'[m])
         \/ mon'[m].phase = "failed"
  BY <1>1, <1>2, RequestStep
<1>8. Unique(issues') /\ Marked(issues')
  BY <1>2, <1>6, <1>7
<1>9. CASE mon'[m].phase = "failed"
  BY <1>7, <1>8, <1>9 DEF RunOK
<1>10. CASE issues' = after /\ Continues(mon[m], mon'[m])
  <2> DEFINE r == mon[m]
  <2>1. /\ Fits(r, actual) /\ r.at \in Entries /\ Indexes(r, r.at, issues)
    BY <1>2, <1>7 DEF RunOK, Aims, Handles
  <2>2. /\ n \in DOMAIN issues /\ issues[n].entry = r.at /\ AutoClose
        /\ r.content = r.expected[r.at] /\ \A k \in Opens(issues, r.at) : k = n
    BY <1>3, <1>7, <2>1 DEF Fits, Indexes
  <2>3. ASSUME ~Fails("load"), r.at \in Wanted(r) \ r.touched
        PROVE  Answered(after, r.at, recorded[r.at], actual[r.at])
    <3>1. r.expected[r.at] = recorded[r.at] /\ r.expected[r.at] # Nil
      BY <1>2, <1>7, <2>1, <2>3 DEF RunOK, Wanted
    <3>2. r.content = actual[r.at] \/ r.content = Missing
      BY <1>7, <2>1, <2>3 DEF Fits
    <3>3. actual[r.at] = recorded[r.at]
      BY <1>2, <2>1, <2>2, <3>1, <3>2, Bounds
    <3>4. Opens(after, r.at) = {}
      BY <1>5, <2>2
    <3> QED BY <3>3, <3>4 DEF Answered
  <2>4. /\ \A e \in Entries \ {r.at} : Opens(after, e) = Opens(issues, e)
        /\ \A k \in DOMAIN issues : issues[k].entry # r.at =>
                (issues[k].open => after[k].open) /\ after[k].shows = issues[k].shows
        /\ DOMAIN issues \subseteq DOMAIN after
        /\ \A k \in DOMAIN issues : after[k].entry = issues[k].entry
    <3>1. \A e \in Entries \ {r.at} : n \notin Opens(issues, e)
      BY <2>2 DEF Opens
    <3>2. \A e \in Entries \ {r.at} : Opens(after, e) = Opens(issues, e)
      BY <1>5, <3>1
    <3>3. \A k \in DOMAIN issues : issues[k].entry # r.at => after[k] = issues[k]
      BY <1>4, <2>2
    <3> QED BY <1>4, <3>2, <3>3 DEF Keeps
  <2>5. RunOK(mon'[m], recorded, actual, after)
    BY <1>2, <1>7, <1>10, <2>3, <2>4, RequestOK
  <2> QED BY <1>7, <1>8, <1>10, <2>5 DEF Continues, SameRun
<1> QED BY <1>7, <1>9, <1>10

(* What a run in progress rests on.                                        *)
LEMMA Resting ==
    ASSUME MonitorInv, NEW m \in Monitors
    PROVE  /\ TypeInv /\ Unique(issues) /\ Marked(issues) /\ issues \in Seq(Issue)
           /\ RunOK(mon[m], recorded, actual, issues)
           /\ mon \in [Monitors -> Run] /\ Aims(mon[m]) /\ mon[m] \in Run
           /\ (\A k \in Monitors : Aims(mon[k]))
           /\ recorded \in [Entries -> Hashes \cup {Nil}]
           /\ actual \in [Entries -> Hashes \cup {Missing}]
BY DEF MonitorInv, TypeInv, TypeOK

LEMMA UpdateStep ==
    ASSUME MonitorInv, NEW m \in Monitors, UpdateIssue(m)
    PROVE  /\ Unique(issues') /\ Marked(issues')
           /\ RunOK(mon'[m], recorded', actual', issues')
           /\ \A k \in Monitors \ {m} : mon'[k] = mon[k]
           /\ mon'[m].phase \in {"work", "failed"}
<1> DEFINE n == Found(m)
           r == mon[m]
           after == Rewritten(issues, n, r.content, m)
<1>1. Request(m, "update", after)
  BY DEF UpdateIssue, Rewritten
<1>2. /\ TypeInv /\ Unique(issues) /\ Marked(issues) /\ issues \in Seq(Issue)
      /\ RunOK(r, recorded, actual, issues) /\ Aims(r) /\ r \in Run
  BY Resting
<1>3. n = Listed(r, r.at)
  BY DEF Found, findIssueByFingerprintOrTitle, Listed
<1>4. r.content \in Hashes \cup {Missing} /\ r.at \in Entries
  BY <1>2 DEF UpdateIssue, Aims
<1>5. /\ Keeps(issues, after)
      /\ \A k \in DOMAIN issues : /\ after[k].open = issues[k].open
                                  /\ k # n => after[k] = issues[k]
      /\ n \in DOMAIN issues => after[n].fingerprint /\ after[n].shows = r.content
  <2>1. Rewrites(issues, after, n, r.content)
    BY <1>2, <1>4, Rewriting
  <2> QED BY <2>1 DEF Rewrites
<1> HIDE DEF after, n
<1>6. \A e : Opens(after, e) = Opens(issues, e)
  BY <1>5 DEF Opens, Keeps
<1>7. Unique(after) /\ Marked(after)
  <2>1. Unique(after)
    BY <1>2, <1>6 DEF Unique
  <2>2. Marked(after)
    BY <1>2, <1>5 DEF Marked, Keeps
  <2> QED BY <2>1, <2>2
<1>8. /\ r.phase = "work" /\ r.step = "update" /\ issues' \in {issues, after}
      /\ recorded' = recorded /\ actual' = actual
      /\ \A k \in Monitors \ {m} : mon'[k] = mon[k]
      /\ mon'[m] \in Run
      /\ \/ issues' = after /\ Continues(r, mon'[m])
         \/ mon'[m].phase = "failed"
  BY <1>1, <1>2, RequestStep
<1>9. Unique(issues') /\ Marked(issues')
  BY <1>2, <1>7, <1>8
<1>10. CASE mon'[m].phase = "failed"
  BY <1>8, <1>9, <1>10 DEF RunOK
<1>11. CASE issues' = after /\ Continues(r, mon'[m])
  <2>1. Fits(r, actual) /\ Indexes(r, r.at, issues)
    BY <1>2, <1>8 DEF RunOK, Handles
  <2>2. /\ n \in DOMAIN issues /\ issues[n].entry = r.at /\ r.content # r.expected[r.at]
        /\ \A k \in Opens(issues, r.at) : k = n
        /\ r.at \notin r.touched => n \in Opens(issues, r.at)
    BY <1>3, <1>8, <2>1 DEF Fits, Indexes, Opens
  <2>3. ASSUME ~Fails("load"), r.at \in Wanted(r) \ r.touched
        PROVE  Answered(after, r.at, recorded[r.at], actual[r.at])
    <3>1. r.content # recorded[r.at]
      BY <1>2, <1>4, <1>8, <2>2, <2>3 DEF RunOK
    <3>2. r.content = actual[r.at] \/ (Fails("fetch") /\ r.content = Missing)
      BY <1>8, <2>1, <2>3 DEF Fits
    <3>3. n \in Opens(after, r.at)
      BY <1>6, <2>2, <2>3
    <3>4. \A k \in Opens(after, r.at) : after[k].shows = r.content
      BY <1>5, <1>6, <2>2
    <3> QED BY <3>1, <3>2, <3>3, <3>4 DEF Answered
  <2>4. /\ \A e \in Entries \ {r.at} : Opens(after, e) = Opens(issues, e)
        /\ \A k \in DOMAIN issues : issues[k].entry # r.at =>
                (issues[k].open => after[k].open) /\ after[k].shows = issues[k].shows
        /\ DOMAIN issues \subseteq DOMAIN after
        /\ \A k \in DOMAIN issues : after[k].entry = issues[k].entry
    <3>1. \A k \in DOMAIN issues : issues[k].entry # r.at => after[k] = issues[k]
      BY <1>5, <2>2
    <3> QED BY <1>5, <1>6, <3>1 DEF Keeps
  <2>5. RunOK(mon'[m], recorded, actual, after)
    BY <1>2, <1>8, <1>11, <2>3, <2>4, RequestOK
  <2> QED BY <1>8, <1>9, <1>11, <2>5 DEF Continues, SameRun
<1> QED BY <1>8, <1>10, <1>11

LEMMA CreateStep ==
    ASSUME MonitorInv, NEW m \in Monitors, CreateIssue(m)
    PROVE  /\ Unique(issues') /\ Marked(issues')
           /\ RunOK(mon'[m], recorded', actual', issues')
           /\ \A k \in Monitors \ {m} : mon'[k] = mon[k]
           /\ mon'[m].phase \in {"work", "failed"}
<1> DEFINE r == mon[m]
           i == [entry |-> r.at, open |-> TRUE, fingerprint |-> TRUE, title |-> TRUE,
                 shows |-> r.content, since |-> m]
           n == Len(issues) + 1
           after == Append(issues, i)
<1>1. Request(m, "create", after)
  BY DEF CreateIssue
<1>2. /\ TypeInv /\ Unique(issues) /\ Marked(issues) /\ issues \in Seq(Issue)
      /\ RunOK(r, recorded, actual, issues) /\ Aims(r) /\ r \in Run
  BY Resting
<1>3. r.content \in Hashes \cup {Missing} /\ r.at \in Entries
  BY <1>2 DEF CreateIssue, Aims
<1>4. /\ i \in Issue /\ i.entry = r.at /\ i.open /\ i.fingerprint /\ i.shows = r.content
  BY <1>3 DEF Issue
<1> HIDE DEF i
<1>5. /\ DOMAIN after = DOMAIN issues \cup {n}
      /\ \A k \in DOMAIN issues : after[k] = issues[k]
      /\ after[n] = i /\ n \notin DOMAIN issues
  <2>1. n \notin DOMAIN issues
    BY <1>2
  <2> QED BY <1>2, <1>4, <2>1, Opening
<1> HIDE DEF after, n
<1>6. /\ \A e : e # r.at => Opens(after, e) = Opens(issues, e)
      /\ Opens(after, r.at) = Opens(issues, r.at) \cup {n}
  BY <1>4, <1>5 DEF Opens
<1>7. /\ r.phase = "work" /\ r.step = "create" /\ issues' \in {issues, after}
      /\ recorded' = recorded /\ actual' = actual
      /\ \A k \in Monitors \ {m} : mon'[k] = mon[k]
      /\ mon'[m] \in Run
      /\ \/ issues' = after /\ Continues(r, mon'[m])
         \/ mon'[m].phase = "failed"
  BY <1>1, <1>2, RequestStep
<1>8. Fits(r, actual) /\ Indexes(r, r.at, issues)
  BY <1>2, <1>7 DEF RunOK, Handles
<1>9. Opens(issues, r.at) = {}
  <2>1. 0 \notin Opens(issues, r.at)
    BY <1>2 DEF Opens
  <2> QED BY <1>7, <1>8, <2>1 DEF Fits, Indexes
<1>10. Unique(after) /\ Marked(after)
  <2>1. Unique(after)
    BY <1>2, <1>6, <1>9 DEF Unique
  <2>2. Marked(after)
    BY <1>2, <1>4, <1>5 DEF Marked
  <2> QED BY <2>1, <2>2
<1>11. Unique(issues') /\ Marked(issues')
  BY <1>2, <1>7, <1>10
<1>12. CASE mon'[m].phase = "failed"
  BY <1>7, <1>11, <1>12 DEF RunOK
<1>13. CASE issues' = after /\ Continues(r, mon'[m])
  <2>1. ASSUME ~Fails("load"), r.at \in Wanted(r) \ r.touched
        PROVE  Answered(after, r.at, recorded[r.at], actual[r.at])
    <3>1. r.content # recorded[r.at]
      BY <1>2, <1>3, <1>7, <1>8, <2>1 DEF RunOK, Fits
    <3>2. r.content = actual[r.at] \/ (Fails("fetch") /\ r.content = Missing)
      BY <1>7, <1>8, <2>1 DEF Fits
    <3>3. Opens(after, r.at) = {n} /\ after[n].shows = r.content
      BY <1>4, <1>5, <1>6, <1>9
    <3> QED BY <3>1, <3>2, <3>3 DEF Answered
  <2>2. /\ \A e \in Entries \ {r.at} : Opens(after, e) = Opens(issues, e)
        /\ \A k \in DOMAIN issues : issues[k].entry # r.at =>
                (issues[k].open => after[k].open) /\ after[k].shows = issues[k].shows
        /\ DOMAIN issues \subseteq DOMAIN after
        /\ \A k \in DOMAIN issues : after[k].entry = issues[k].entry
    BY <1>5, <1>6
  <2>3. RunOK(mon'[m], recorded, actual, after)
    BY <1>2, <1>7, <1>13, <2>1, <2>2, RequestOK
  <2> QED BY <1>7, <1>11, <1>13, <2>3 DEF Continues, SameRun
<1> QED BY <1>7, <1>12, <1>13

-----------------------------------------------------------------------------
(* Others change a file, a record or an issue, and touch the file.         *)
LEMMA TouchStep ==
    ASSUME MonitorInv, NEW e \in Entries, Touch(e), TypeInv', Unique(issues'), Marked(issues'),
           Elsewhere(e, recorded, actual, issues, recorded', actual', issues')
    PROVE  MonitorInv'
<1>1. /\ \A m \in Monitors : ~Active(m) => mon'[m] = mon[m]
      /\ \A m \in Monitors : Active(m) =>
            mon'[m] = [mon[m] EXCEPT !.touched = @ \cup {e}]
  BY TouchTyped DEF MonitorInv
<1>2. ASSUME NEW m \in Monitors, Active(m)
      PROVE  /\ mon'[m].phase = mon[m].phase
             /\ RunOK(mon'[m], recorded', actual', issues')
  <2>1. mon[m] \in Run /\ Aims(mon[m]) /\ RunOK(mon[m], recorded, actual, issues)
    BY Resting
  <2>2. Touched(mon[m], mon'[m], e)
    BY <1>1, <1>2, <2>1 DEF Run, SameRun, Touched
  <2>3. RunOK(mon'[m], recorded', actual', issues')
    BY <2>1, <2>2, Frame
  <2> QED BY <2>2, <2>3 DEF SameRun, Touched
<1>3. \A m \in Monitors : RunOK(mon'[m], recorded', actual', issues')
  BY <1>1, <1>2 DEF Active, RunOK
<1>4. OneRun'
  BY <1>1, <1>2 DEF OneRun, Active, MonitorInv
<1> QED BY <1>3, <1>4 DEF MonitorInv

LEMMA HandleStep ==
    ASSUME MonitorInv, NEW n \in DOMAIN issues, Handle(n), TypeInv'
    PROVE  MonitorInv'
<1> DEFINE e == issues[n].entry
<1>1. /\ TypeInv /\ Unique(issues) /\ Marked(issues) /\ issues \in Seq(Issue)
  BY DEF MonitorInv, TypeInv, TypeOK
<1>2. e \in Entries
  <2>1. issues[n] \in Issue
    BY <1>1, ElementOfSeq
  <2> QED BY <2>1 DEF Issue
<1>3. Touch(e) /\ recorded' = recorded /\ actual' = actual
  BY DEF Handle, World
<1>4. CASE issues' = Closed(issues, n)
  <2>1. /\ Keeps(issues, issues')
        /\ \A k \in DOMAIN issues : /\ issues'[k].open => k # n /\ issues[k].open
                                    /\ k # n => issues'[k] = issues[k]
                                    /\ issues'[k].shows = issues[k].shows
    BY <1>1, <1>4, Closing
  <2>2. \A x : Opens(issues', x) = Opens(issues, x) \ {n}
    BY <2>1 DEF Opens, Keeps
  <2>3. Unique(issues') /\ Marked(issues')
    <3>1. Unique(issues')
      BY <1>1, <2>2 DEF Unique
    <3>2. Marked(issues')
      BY <1>1, <2>1 DEF Marked, Keeps
    <3> QED BY <3>1, <3>2
  <2>4. \A x \in Entries \ {e} : Opens(issues', x) = Opens(issues, x)
    <3>1. \A x \in Entries \ {e} : n \notin Opens(issues, x)
      BY DEF Opens
    <3> QED BY <2>2, <3>1
  <2>5. DOMAIN issues' = DOMAIN issues /\ \A x \in Entries : Opens(issues', x) \subseteq Opens(issues, x)
    BY <2>1, <2>2 DEF Keeps
  <2>6. \A k \in DOMAIN issues : /\ issues'[k].entry = issues[k].entry
                                 /\ issues'[k].shows = issues[k].shows
    BY <2>1 DEF Keeps
  <2> HIDE DEF e
  <2>7. Elsewhere(e, recorded, actual, issues, recorded', actual', issues')
    BY <1>3, <2>4, <2>5, <2>6 DEF Elsewhere
  <2> QED BY <1>2, <1>3, <2>3, <2>7, TouchStep
<1>5. CASE \/ issues[n].fingerprint /\ issues' = [issues EXCEPT ![n].title = FALSE]
           \/ issues[n].title /\ issues' = [issues EXCEPT ![n].fingerprint = FALSE]
  <2>1. /\ Keeps(issues, issues')
        /\ \A k \in DOMAIN issues : /\ issues'[k].open = issues[k].open
                                    /\ issues'[k].shows = issues[k].shows
                                    /\ k # n => issues'[k] = issues[k]
        /\ issues'[n].fingerprint \/ issues'[n].title
    BY <1>1, <1>5, Marking
  <2>2. \A x : Opens(issues', x) = Opens(issues, x)
    BY <2>1 DEF Opens, Keeps
  <2>3. Unique(issues') /\ Marked(issues')
    <3>1. Unique(issues')
      BY <1>1, <2>2 DEF Unique
    <3>2. Marked(issues')
      BY <1>1, <2>1 DEF Marked, Keeps
    <3> QED BY <3>1, <3>2
  <2>4. DOMAIN issues' = DOMAIN issues
        /\ \A k \in DOMAIN issues : /\ issues'[k].entry = issues[k].entry
                                    /\ issues'[k].shows = issues[k].shows
    BY <2>1 DEF Keeps
  <2> HIDE DEF e
  <2>5. Elsewhere(e, recorded, actual, issues, recorded', actual', issues')
    BY <1>3, <2>2, <2>4 DEF Elsewhere
  <2> QED BY <1>2, <1>3, <2>3, <2>5, TouchStep
<1> QED BY <1>4, <1>5 DEF Handle, Closed

LEMMA WriteStep ==
    ASSUME MonitorInv, NEW e \in Entries, Write(e), TypeInv'
    PROVE  MonitorInv'
<1>1. Touch(e) /\ issues' = issues
      /\ \A x \in Entries \ {e} : recorded'[x] = recorded[x] /\ actual'[x] = actual[x]
  <2>1. /\ recorded \in [Entries -> Hashes \cup {Nil}]
        /\ actual \in [Entries -> Hashes \cup {Missing}]
    BY DEF MonitorInv, TypeInv, TypeOK
  <2> QED BY <2>1 DEF Write
<1>2. Unique(issues') /\ Marked(issues')
  BY <1>1 DEF MonitorInv
<1>3. Elsewhere(e, recorded, actual, issues, recorded', actual', issues')
  BY <1>1 DEF Elsewhere
<1> QED BY <1>1, <1>2, <1>3, TouchStep

LEMMA InitMonitor == Init => MonitorInv
<1> SUFFICES ASSUME Init PROVE MonitorInv
  OBVIOUS
<1>1. TypeInv
  BY InitTyped
<1>2. \A m \in Monitors : mon[m].phase = "idle"
  BY DEF Init, IdleRun
<1>3. issues = <<>>
  BY DEF Init
<1>4. Unique(issues) /\ Marked(issues)
  BY <1>3 DEF Unique, Marked, Opens
<1> QED BY <1>1, <1>2, <1>4 DEF MonitorInv, OneRun, Active, RunOK

LEMMA NextMonitor == ASSUME ~Overlap, MonitorInv, [Next]_vars PROVE MonitorInv'
<1>1. TypeInv'
  BY NextTyped DEF MonitorInv
<1>2. ASSUME NEW m \in Monitors, Step(m) PROVE MonitorInv'
  <2>1. /\ TypeInv /\ Unique(issues) /\ Marked(issues) /\ issues \in Seq(Issue)
        /\ RunOK(mon[m], recorded, actual, issues) /\ mon[m] \in Run
        /\ mon \in [Monitors -> Run] /\ (\A k \in Monitors : Aims(mon[k]))
        /\ recorded \in [Entries -> Hashes \cup {Nil}]
        /\ actual \in [Entries -> Hashes \cup {Missing}]
    BY Resting
  <2>2. CASE Load(m)
    <3>1. PICK q \in Run : /\ Set(m, q) /\ Aims(q) /\ q.phase = "list"
                           /\ q.step = "fetch"
                           /\ ~Fails("load") => q.expected = recorded
      BY <2>1, <2>2, LoadTyped
    <3>2. /\ mon'[m] = q /\ (\A k \in Monitors \ {m} : mon'[k] = mon[k])
          /\ recorded' = recorded /\ actual' = actual /\ issues' = issues
      BY <2>1, <2>2, <3>1, SetTyped DEF Load, World
    <3>3. RunOK(q, recorded, actual, issues)
      BY <3>1 DEF RunOK
    <3> QED BY <1>1, <1>2, <2>1, <3>2, <3>3, RunStep
  <2>3. CASE List(m)
    <3>1. recorded' = recorded /\ actual' = actual /\ issues' = issues
      BY <2>3 DEF List, World
    <3>2. /\ \A k \in Monitors \ {m} : mon'[k] = mon[k]
          /\ RunOK(mon'[m], recorded, actual, issues)
      <4>1. CASE Abort(m)
        <5>1. mon'[m].phase = "failed" /\ \A k \in Monitors \ {m} : mon'[k] = mon[k]
          BY <2>1, <4>1, ExitTyped DEF Abort
        <5> QED BY <5>1 DEF RunOK
      <4>2. CASE ~Abort(m)
        <5>1. PICK f \in Indexed("fingerprint"), g \in Indexed("title"), q \in Run :
                 /\ Set(m, q) /\ Aims(q) /\ q.phase = "work"
                 /\ q.byFingerprint = f /\ q.byTitle = g /\ q.todo = Wanted(q)
                 /\ q.step = mon[m].step /\ q.touched = mon[m].touched
                 /\ q.expected = mon[m].expected
          BY <2>1, <2>3, <4>2, ListTyped
        <5>2. mon'[m] = q /\ \A k \in Monitors \ {m} : mon'[k] = mon[k]
          BY <2>1, <5>1, SetTyped
        <5>3. mon[m].phase = "list"
          BY <2>3 DEF List
        <5>4. RunOK(q, recorded, actual, issues)
          BY <2>1, <5>1, <5>3, ListOK
        <5> QED BY <5>2, <5>4
      <4> QED BY <4>1, <4>2
    <3> QED BY <1>1, <1>2, <2>1, <3>1, <3>2, RunStep
  <2>4. CASE Fetch(m)
    <3>1. PICK e \in mon[m].todo, content \in Hashes \cup {Missing}, q \in Run :
              /\ Set(m, q) /\ Aims(q) /\ e \in Entries
              /\ content = actual[e] \/ (Fails("fetch") /\ content = Missing)
              /\ q.todo = mon[m].todo \ {e}
              /\ q.step # "fetch" => q.at = e /\ q.content = content
              /\ q.step = "fetch" => content = mon[m].expected[e]
                                     /\ (~AutoClose \/ Listed(mon[m], e) = 0)
              /\ q.step = "close" => content = mon[m].expected[e] /\ AutoClose
              /\ q.step \in {"update", "create"} => content # mon[m].expected[e]
              /\ q.step \in {"close", "update"} => Listed(mon[m], e) # 0
              /\ q.step = "create" => Listed(mon[m], e) = 0
              /\ q.phase = mon[m].phase /\ q.touched = mon[m].touched
              /\ q.expected = mon[m].expected /\ q.scope = mon[m].scope
              /\ q.byFingerprint = mon[m].byFingerprint /\ q.byTitle = mon[m].byTitle
      BY <2>1, <2>4, FetchTyped
    <3>2. mon'[m] = q /\ \A k \in Monitors \ {m} : mon'[k] = mon[k]
      BY <2>1, <3>1, SetTyped
    <3>3. /\ recorded' = recorded /\ actual' = actual /\ issues' = issues
          /\ mon[m].phase = "work" /\ mon[m].step = "fetch"
      BY <2>4 DEF Fetch, World
    <3>4. Observes(content, e, actual) /\ SameRun(mon[m], q)
      BY <3>1 DEF Observes, SameRun
    <3>5. RunOK(q, recorded, actual, issues)
      BY <2>1, <3>1, <3>3, <3>4, FetchOK
    <3> QED BY <1>1, <1>2, <2>1, <3>2, <3>3, <3>5, RunStep
  <2>5. CASE CloseIssue(m)
    BY <1>1, <1>2, <2>5, CloseStep, RunStep
  <2>6. CASE UpdateIssue(m)
    BY <1>1, <1>2, <2>6, UpdateStep, RunStep
  <2>7. CASE CreateIssue(m)
    BY <1>1, <1>2, <2>7, CreateStep, RunStep
  <2>8. CASE Finish(m)
    <3>1. /\ mon'[m].phase = "ok" /\ (\A k \in Monitors \ {m} : mon'[k] = mon[k])
          /\ recorded' = recorded /\ actual' = actual /\ issues' = issues
      BY <2>1, <2>8, ExitTyped DEF Finish, World
    <3>2. RunOK(mon'[m], recorded', actual', issues')
      BY <3>1 DEF RunOK
    <3> QED BY <1>1, <1>2, <2>1, <3>1, <3>2, RunStep
  <2> QED BY <1>2, <2>2, <2>3, <2>4, <2>5, <2>6, <2>7, <2>8 DEF Step
<1>3. ASSUME NEW e \in Entries, Write(e) PROVE MonitorInv'
  BY <1>1, <1>3, WriteStep
<1>4. ASSUME NEW n \in DOMAIN issues, Handle(n) PROVE MonitorInv'
  BY <1>1, <1>4, HandleStep
<1>5. CASE UNCHANGED vars
  <2>1. UNCHANGED <<recorded, actual, issues, mon>>
    BY <1>5 DEF vars
  <2> QED BY <1>1, <2>1 DEF MonitorInv, OneRun, Active
<1> QED BY <1>2, <1>3, <1>4, <1>5 DEF Next

LEMMA MonitorInvHolds == ASSUME ~Overlap PROVE Spec => []MonitorInv
<1>1. MonitorInv /\ [Next]_vars => MonitorInv'
  BY NextMonitor
<1> QED BY <1>1, InitMonitor, PTL DEF Spec

-----------------------------------------------------------------------------
(* Runs that do not overlap leave one open issue for each file at most:    *)
(* the next run recognizes the issue by its fingerprint or its title,      *)
(* whatever request of an earlier run failed and whatever readers changed. *)
THEOREM AtMostOneIssueHolds == ASSUME ~Overlap PROVE Spec => []AtMostOneIssue
<1>1. MonitorInv => AtMostOneIssue
  <2> SUFFICES ASSUME MonitorInv, NEW e \in Entries PROVE Cardinality(OpenIssues(e)) <= 1
    BY DEF AtMostOneIssue
  <2>1. \A n, k \in OpenIssues(e) : n = k
    BY DEF MonitorInv, Unique, Opens, OpenIssues
  <2>2. CASE OpenIssues(e) = {}
    BY <2>2, FS_EmptySet
  <2>3. ASSUME NEW n \in OpenIssues(e) PROVE Cardinality(OpenIssues(e)) <= 1
    <3>1. OpenIssues(e) = {n}
      BY <2>1, <2>3
    <3> QED BY <3>1, FS_Singleton
  <2> QED BY <2>2, <2>3
<1> QED BY <1>1, MonitorInvHolds, PTL

LEMMA EndStep ==
    ASSUME ~Overlap, ~Fails("load"), MonitorInv, [Next]_vars, NEW m \in Monitors, Ends(m)
    PROVE  \A e \in Settled(m) : Answered(issues, e, recorded[e], actual[e])
<1>1. /\ TypeInv /\ mon \in [Monitors -> Run] /\ (\A k \in Monitors : Aims(mon[k]))
      /\ RunOK(mon[m], recorded, actual, issues)
      /\ mon[m].phase = "work" /\ mon'[m].phase = "ok"
  BY Resting DEF Ends
<1>2. Finish(m)
  <2>1. ~ \E e \in Entries : Write(e)
    <3> SUFFICES ASSUME NEW e \in Entries, Touch(e) PROVE FALSE
      BY DEF Write
    <3>1. mon'[m] = [mon[m] EXCEPT !.touched = @ \cup {e}] \/ mon'[m] = mon[m]
      BY <1>1, TouchTyped
    <3> QED BY <1>1, <3>1 DEF Run
  <2>2. ~ \E n \in DOMAIN issues : Handle(n)
    <3> SUFFICES ASSUME NEW e, Touch(e) PROVE FALSE
      BY DEF Handle
    <3> QED BY <1>1 DEF Touch, Run
  <2>3. ASSUME NEW k \in Monitors, Step(k) PROVE Finish(m)
    <3>1. CASE Load(k)
      BY <1>1, <3>1, LoadTyped, SetTyped DEF Load
    <3>2. CASE List(k)
      <4>1. CASE Abort(k)
        BY <1>1, <4>1, ExitTyped DEF Abort
      <4>2. CASE ~Abort(k)
        BY <1>1, <3>2, <4>2, ListTyped, SetTyped
      <4> QED BY <4>1, <4>2
    <3>3. CASE Fetch(k)
      <4>1. PICK q \in Run : Set(k, q) /\ Aims(q) /\ q.phase = mon[k].phase
        BY <1>1, <3>3, FetchTyped
      <4> QED BY <1>1, <4>1, SetTyped
    <3>4. CASE CloseIssue(k)
      BY <1>1, <3>4, CloseStep
    <3>5. CASE UpdateIssue(k)
      BY <1>1, <3>5, UpdateStep
    <3>6. CASE CreateIssue(k)
      BY <1>1, <3>6, CreateStep
    <3>7. CASE Finish(k)
      <4>1. \A j \in Monitors \ {k} : mon'[j] = mon[j]
        BY <1>1, <3>7, ExitTyped DEF Finish
      <4>2. k = m
        BY <1>1, <4>1
      <4> QED BY <3>7, <4>2
    <3> QED BY <2>3, <3>1, <3>2, <3>3, <3>4, <3>5, <3>6, <3>7 DEF Step
  <2>4. ~UNCHANGED vars
    BY <1>1 DEF vars
  <2> QED BY <2>1, <2>2, <2>3, <2>4 DEF Next
<1>3. Handles(mon[m]) = {}
  BY <1>2 DEF Finish, Handles
<1>4. \A e \in Settled(m) : e \in Wanted(mon[m]) \ (Handles(mon[m]) \cup mon[m].touched)
  BY <1>1, <1>3 DEF Settled, Wanted, RunOK
<1> QED BY <1>1, <1>4 DEF RunOK

(* A run that ends well leaves an open issue for every file that drifted,  *)
(* whatever request of it or of another run failed, when the state could   *)
(* be read.                                                                *)
THEOREM DriftIsReportedHolds ==
    ASSUME ~Overlap, ~Fails("load") PROVE Spec => DriftIsReported
<1>1. ASSUME MonitorInv, [Next]_vars
      PROVE  [\A m \in Monitors : Ends(m) =>
                \A e \in Settled(m) : actual[e] # recorded[e] => OpenIssues(e) # {}]_vars
  BY <1>1, EndStep DEF Answered, Opens, OpenIssues
<1> QED BY <1>1, MonitorInvHolds, PTL DEF Spec, DriftIsReported

(* ... and closes the issue of every file that is in sync again, but the   *)
(* one of a file it could not fetch.                                       *)
THEOREM ResolvedIsClosedHolds ==
    ASSUME ~Overlap, ~Fails("load") PROVE Spec => ResolvedIsClosed
<1>1. ASSUME MonitorInv, [Next]_vars
      PROVE  [\A m \in Monitors : Ends(m) /\ AutoClose =>
                \A e \in Settled(m) : actual[e] = recorded[e] =>
                   \A n \in OpenIssues(e) : Fails("fetch") /\ issues[n].shows = Missing]_vars
  BY <1>1, EndStep DEF Answered, Opens, OpenIssues
<1> QED BY <1>1, MonitorInvHolds, PTL DEF Spec, ResolvedIsClosed
=============================================================================
