----------------------------- MODULE AtomicFile -----------------------------
(***************************************************************************)
(* What CreateOrUpdateFile promises its callers: one file per branch, and  *)
(* writes that each happen at a single instant or not at all.  A write that *)
(* names the blob its caller read takes effect only while that blob is     *)
(* still the file; a write that names none (sha == "") is unconditional.   *)
(*                                                                         *)
(* Anything outside the program may change the files at any time.          *)
(***************************************************************************)

CONSTANTS
    Callers,    \* concurrent calls of CreateOrUpdateFile
    Branches,   \* the branches of the repository
    Blobs,      \* contents the file can have
    Absent,     \* the file does not exist
    AnySha      \* the empty sha: write whatever is there

VARIABLES
    file,       \* file[b]: the blob (or Absent) on branch b
    request,    \* request[c]: what call c was asked to write
    outcome     \* outcome[c]: how far call c is, as its caller can tell

vars == <<file, request, outcome>>

Request == [branch : Branches, content : Blobs, sha : Blobs \cup {AnySha}]

(* "pending": running, nothing written.  "applied": written, no reply yet. *)
(* "ok", "failed": returned.  A failed call may still have written: the    *)
(* reply that would have said so can be lost.                              *)
Outcomes == {"pending", "applied", "ok", "failed"}

Init ==
    /\ file \in [Branches -> Blobs \cup {Absent}]
    /\ request \in [Callers -> Request]
    /\ outcome = [c \in Callers |-> "pending"]

Apply(c) ==
    /\ outcome[c] = "pending"
    /\ request[c].sha \in {AnySha, file[request[c].branch]}
    /\ file' = [file EXCEPT ![request[c].branch] = request[c].content]
    /\ outcome' = [outcome EXCEPT ![c] = "applied"]
    /\ UNCHANGED request

Return(c) ==
    /\ \/ outcome[c] = "applied" /\ outcome' = [outcome EXCEPT ![c] = "ok"]
       \/ outcome[c] \in {"pending", "applied"}
          /\ outcome' = [outcome EXCEPT ![c] = "failed"]
    /\ UNCHANGED <<file, request>>

(* A push, a merge or a deletion by somebody else.                         *)
Outside ==
    /\ \E b \in Branches, x \in Blobs \cup {Absent} :
          file' = [file EXCEPT ![b] = x]
    /\ UNCHANGED <<request, outcome>>

Next == Outside \/ \E c \in Callers : Apply(c) \/ Return(c)

Spec == Init /\ [][Next]_vars
=============================================================================
