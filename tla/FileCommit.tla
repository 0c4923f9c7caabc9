----------------------------- MODULE FileCommit -----------------------------
(***************************************************************************)
(* CreateOrUpdateFile (internal/github/repos.go) over createCommitOnBranch *)
(* (internal/github/graphql.go): resolve the branch, read its head, compare *)
(* the file at that head with the sha the caller read, then commit on top  *)
(* of that head.  Several calls run at once and other people push, delete  *)
(* and force-push the same branches between any two of the requests.       *)
(***************************************************************************)
EXTENDS FiniteSets

CONSTANTS
    Callers,        \* concurrent calls of CreateOrUpdateFile
    Branches,       \* branches of the repository
    DefaultBranch,  \* the branch an empty branch argument stands for
    Blobs,          \* contents of the file; a blob sha identifies one
    Oids,           \* commit ids (a bound: that many commits can be made)
    NoArg,          \* an empty string argument: branch == "" or sha == ""
    Absent,         \* no such file in that commit
    Unmade,         \* blob of an id no commit has yet
    NoOid           \* the branch does not exist

ASSUME BranchAssumption == DefaultBranch \in Branches /\ NoArg \notin Branches
ASSUME BlobAssumption == Absent \notin Blobs /\ Unmade \notin Blobs
                         /\ NoArg \notin Blobs /\ Absent # Unmade /\ NoArg # Absent
ASSUME OidAssumption == NoOid \notin Oids

VARIABLES
    tip,    \* tip[b]: the commit branch b points at
    blob,   \* blob[o]: the file in commit o; a commit never changes
    arg,    \* arg[c]: the arguments of call c
    pc,     \* pc[c]: the request call c makes next
    head    \* head[c]: the commit call c read as the branch head

vars == <<tip, blob, arg, pc, head>>

Arg == [branch : Branches \cup {NoArg}, content : Blobs, sha : Blobs \cup {NoArg}]
Pcs == {"default", "head", "compare", "commit", "reply", "ok", "failed"}

TypeOK ==
    /\ tip \in [Branches -> Oids \cup {NoOid}]
    /\ blob \in [Oids -> Blobs \cup {Absent, Unmade}]
    /\ arg \in [Callers -> Arg]
    /\ pc \in [Callers -> Pcs]
    /\ head \in [Callers -> Oids \cup {NoOid}]

-----------------------------------------------------------------------------
Made == {o \in Oids : blob[o] # Unmade}

(* The file on branch b.                                                   *)
File(b) == IF tip[b] = NoOid THEN Absent ELSE blob[tip[b]]

(* The branch a call writes to: GetDefaultBranch answers an empty one.     *)
Target(c) == IF arg[c].branch = NoArg THEN DefaultBranch ELSE arg[c].branch

Init ==
    /\ \E o \in Oids, x \in Blobs \cup {Absent} :
          /\ blob = [p \in Oids |-> IF p = o THEN x ELSE Unmade]
          /\ tip \in [Branches -> {o, NoOid}]
    /\ arg \in [Callers -> Arg]
    /\ pc = [c \in Callers |-> IF arg[c].branch = NoArg THEN "default" ELSE "head"]
    /\ head = [c \in Callers |-> NoOid]

Goto(c, l) == pc' = [pc EXCEPT ![c] = l]

GetDefaultBranch(c) ==
    /\ pc[c] = "default"
    /\ Goto(c, "head")
    /\ UNCHANGED <<tip, blob, arg, head>>

(* A conditional write compares before it commits; an unconditional one    *)
(* goes straight to the commit.                                            *)
GetBranchSHA(c) ==
    /\ pc[c] = "head"
    /\ tip[Target(c)] # NoOid
    /\ head' = [head EXCEPT ![c] = tip[Target(c)]]
    /\ Goto(c, IF arg[c].sha = NoArg THEN "commit" ELSE "compare")
    /\ UNCHANGED <<tip, blob, arg>>

AnyBlob(c) == TRUE                              \* mutant: no comparison
SameAtTip(c) == File(Target(c)) = arg[c].sha    \* mutant: read at the branch
SameBlob(c) == blob[head[c]] = arg[c].sha

(* The read is at the commit, not at the branch: its answer cannot go stale *)
(* without the head moving.  A 404 is a file that is gone.                 *)
Compare(c) ==
    /\ pc[c] = "compare"
    /\ Goto(c, IF SameBlob(c) THEN "commit" ELSE "failed")
    /\ UNCHANGED <<tip, blob, arg, head>>

AnyHead(c) == TRUE                              \* mutant: no expectedHeadOid
HeadUnmoved(c) == tip[Target(c)] = head[c]

(* createCommitOnBranch at GitHub: refused unless expectedHeadOid is still *)
(* the head of the branch.                                                 *)
commitFile(c) ==
    /\ pc[c] = "commit"
    /\ HeadUnmoved(c)
    /\ \E o \in Oids \ Made :
          /\ blob' = [blob EXCEPT ![o] = arg[c].content]
          /\ tip' = [tip EXCEPT ![Target(c)] = o]
    /\ Goto(c, "reply")
    /\ UNCHANGED <<arg, head>>

commitRetried(c) ==                             \* mutant: start over for ever
    /\ pc[c] = "commit"
    /\ ~HeadUnmoved(c)
    /\ Goto(c, "head")
    /\ UNCHANGED <<tip, blob, arg, head>>
commitRefused(c) ==
    /\ pc[c] = "commit"
    /\ ~HeadUnmoved(c)
    /\ Goto(c, "failed")
    /\ UNCHANGED <<tip, blob, arg, head>>

Reply(c) ==
    /\ pc[c] = "reply"
    /\ Goto(c, "ok")
    /\ UNCHANGED <<tip, blob, arg, head>>

(* Any request can fail without effect (network, 5xx, rate limit, deadline, *)
(* a branch that is gone), and the reply to a commit that landed can be    *)
(* lost: the caller sees the same error.                                   *)
Fail(c) ==
    /\ pc[c] \notin {"ok", "failed"}
    /\ Goto(c, "failed")
    /\ UNCHANGED <<tip, blob, arg, head>>

(* Somebody else commits: to this file, or with x its content, to another. *)
Push(b) ==
    /\ \E o \in Oids \ Made, x \in Blobs \cup {Absent} :
          /\ blob' = [blob EXCEPT ![o] = x]
          /\ tip' = [tip EXCEPT ![b] = o]
    /\ UNCHANGED <<arg, pc, head>>

(* ... or points the branch at a commit it had before, or deletes it.      *)
Reset(b) ==
    /\ \E o \in Made \cup {NoOid} : tip' = [tip EXCEPT ![b] = o]
    /\ UNCHANGED <<blob, arg, pc, head>>

Step(c) ==
    \/ GetDefaultBranch(c) \/ GetBranchSHA(c) \/ Compare(c)
    \/ commitFile(c) \/ commitRefused(c) \/ Reply(c) \/ Fail(c)

Next ==
    \/ \E c \in Callers : Step(c)
    \/ \E b \in Branches : Push(b) \/ Reset(b)

Spec == Init /\ [][Next]_vars

(* Every request has an answer or a timeout: http.Client{Timeout: 30s}.    *)
FairSpec == Spec /\ \A c \in Callers : WF_vars(Step(c))

-----------------------------------------------------------------------------
(* The heads read and the tips are commits that exist, and past the        *)
(* comparison of a conditional write the head holds the expected blob.     *)
HeadMade == \A c \in Callers :
    /\ pc[c] \in {"compare", "commit"} => head[c] # NoOid
    /\ head[c] # NoOid => blob[head[c]] # Unmade
TipMade == \A b \in Branches : tip[b] # NoOid => blob[tip[b]] # Unmade
CheckedHead == \A c \in Callers :
    pc[c] = "commit" /\ arg[c].sha # NoArg => blob[head[c]] = arg[c].sha

IInv == TypeOK /\ HeadMade /\ TipMade /\ CheckedHead

(* No lost update: a conditional write lands only on the blob its caller   *)
(* read, whoever committed between the comparison and the commit           *)
(* (repos.go:243-260, "the write fails if the file at the branch head has  *)
(* changed since").                                                        *)
NoLostUpdate ==
    [][\A c \in Callers :
         pc[c] = "commit" /\ pc'[c] = "reply" /\ arg[c].sha # NoArg
            => File(Target(c)) = arg[c].sha]_vars

(* Every call returns, whatever the others and the outside do.             *)
CallsReturn == \A c \in Callers : <>(pc[c] \in {"ok", "failed"})

(* The promise of the interface: every call is one atomic write or none.   *)
outcomeBar == [c \in Callers |->
    CASE pc[c] = "ok" -> "ok"
      [] pc[c] = "failed" -> "failed"
      [] pc[c] = "reply" -> "applied"
      [] OTHER -> "pending"]
requestBar == [c \in Callers |->
    [branch |-> Target(c), content |-> arg[c].content, sha |-> arg[c].sha]]
fileBar == [b \in Branches |-> File(b)]

Atomic == INSTANCE AtomicFile WITH
    AnySha <- NoArg, file <- fileBar, request <- requestBar, outcome <- outcomeBar
AtomicSpec == Atomic!Spec
=============================================================================
