-------------------------- MODULE FileCommit_proofs --------------------------
(***************************************************************************)
(* CreateOrUpdateFile is one atomic conditional write, for every number of *)
(* calls, branches, contents and commits.                                  *)
(***************************************************************************)
EXTENDS FileCommit, TLAPS

(* The inductive invariant holds initially.                                *)
LEMMA InitInv == Init => IInv
<1> SUFFICES ASSUME Init PROVE IInv
  OBVIOUS
<1>1. TypeOK
  BY BlobAssumption DEF Init, TypeOK, Pcs, Arg
<1>2. HeadMade /\ CheckedHead
  BY DEF Init, HeadMade, CheckedHead
<1>3. TipMade
  BY BlobAssumption DEF Init, TipMade
<1> QED
  BY <1>1, <1>2, <1>3 DEF IInv

(* A commit made later leaves every earlier commit as it was.              *)
LEMMA NewCommit ==
    ASSUME IInv, NEW o \in Oids \ Made, NEW x \in Blobs \cup {Absent},
           blob' = [blob EXCEPT ![o] = x]
    PROVE  /\ blob' \in [Oids -> Blobs \cup {Absent, Unmade}]
           /\ \A p \in Made : blob'[p] = blob[p] /\ p # o
           /\ blob'[o] = x
           /\ blob'[o] # Unmade
  BY BlobAssumption DEF IInv, TypeOK, Made

(* Steps of a call that touch neither commits nor branches.                *)
LEMMA LocalStep ==
    ASSUME IInv, NEW c \in Callers, UNCHANGED <<tip, blob, arg>>,
           GetDefaultBranch(c) \/ GetBranchSHA(c) \/ Compare(c)
           \/ commitRefused(c) \/ Reply(c) \/ Fail(c)
    PROVE  IInv'
<1> USE DEF IInv, TypeOK, HeadMade, TipMade, CheckedHead, Goto, Pcs
<1>1. Target(c) \in Branches
  BY BranchAssumption DEF Target, Arg
<1>2. CASE GetDefaultBranch(c)
  BY <1>2 DEF GetDefaultBranch
<1>3. CASE GetBranchSHA(c)
  BY <1>1, <1>3, OidAssumption DEF GetBranchSHA
<1>4. CASE Compare(c)
  BY <1>4 DEF Compare, SameBlob
<1>5. CASE commitRefused(c)
  BY <1>5 DEF commitRefused
<1>6. CASE Reply(c)
  BY <1>6 DEF Reply
<1>7. CASE Fail(c)
  BY <1>7 DEF Fail
<1> QED
  BY <1>2, <1>3, <1>4, <1>5, <1>6, <1>7

(* A landing commit keeps the invariant.                                   *)
LEMMA CommitStep ==
    ASSUME IInv, NEW c \in Callers, commitFile(c)
    PROVE  IInv'
<1>1. PICK o \in Oids \ Made :
         /\ blob' = [blob EXCEPT ![o] = arg[c].content]
         /\ tip' = [tip EXCEPT ![Target(c)] = o]
  BY DEF commitFile
<1>2. arg[c].content \in Blobs /\ Target(c) \in Branches
  BY BranchAssumption DEF IInv, TypeOK, Arg, Target
<1>3. /\ blob' \in [Oids -> Blobs \cup {Absent, Unmade}]
      /\ \A p \in Made : blob'[p] = blob[p] /\ p # o
      /\ blob'[o] # Unmade
  BY <1>1, <1>2, NewCommit
<1>4. pc' = [pc EXCEPT ![c] = "reply"] /\ arg' = arg /\ head' = head
  BY DEF commitFile, Goto
<1>5. TypeOK'
  BY <1>1, <1>3, <1>4 DEF IInv, TypeOK, Pcs
<1>6. \A d \in Callers : head[d] # NoOid => head[d] \in Made
  BY DEF IInv, TypeOK, HeadMade, Made
<1>7. HeadMade' /\ CheckedHead'
  BY <1>3, <1>4, <1>6 DEF IInv, TypeOK, HeadMade, CheckedHead, Made
<1>8. TipMade'
  BY <1>1, <1>2, <1>3 DEF IInv, TypeOK, TipMade, Made
<1> QED
  BY <1>5, <1>7, <1>8 DEF IInv

(* What other people do to the branches keeps the invariant.               *)
LEMMA OutsideStep ==
    ASSUME IInv, NEW b \in Branches, Push(b) \/ Reset(b)
    PROVE  IInv'
<1>1. CASE Push(b)
  <2>1. PICK o \in Oids \ Made, x \in Blobs \cup {Absent} :
          /\ blob' = [blob EXCEPT ![o] = x]
          /\ tip' = [tip EXCEPT ![b] = o]
    BY <1>1 DEF Push
  <2>2. /\ blob' \in [Oids -> Blobs \cup {Absent, Unmade}]
        /\ \A p \in Made : blob'[p] = blob[p] /\ p # o
        /\ blob'[o] # Unmade
    BY <2>1, NewCommit
  <2>3. UNCHANGED <<arg, pc, head>>
    BY <1>1 DEF Push
  <2>4. TypeOK'
    BY <2>1, <2>2, <2>3 DEF IInv, TypeOK
  <2>5. \A d \in Callers : head[d] # NoOid => head[d] \in Made
    BY DEF IInv, TypeOK, HeadMade, Made
  <2>6. HeadMade' /\ CheckedHead'
    BY <2>2, <2>3, <2>5 DEF IInv, TypeOK, HeadMade, CheckedHead, Made
  <2>7. TipMade'
    BY <2>1, <2>2 DEF IInv, TypeOK, TipMade, Made
  <2> QED
    BY <2>4, <2>6, <2>7 DEF IInv
<1>2. CASE Reset(b)
  BY <1>2 DEF Reset, IInv, TypeOK, HeadMade, TipMade, CheckedHead, Made
<1> QED
  BY <1>1, <1>2

(* Every step of the specification keeps the invariant.                    *)
LEMMA NextInv == IInv /\ [Next]_vars => IInv'
<1> SUFFICES ASSUME IInv, [Next]_vars PROVE IInv'
  OBVIOUS
<1>1. CASE UNCHANGED vars
  BY <1>1 DEF vars, IInv, TypeOK, HeadMade, TipMade, CheckedHead
<1>2. ASSUME NEW c \in Callers, Step(c) PROVE IInv'
  <2>1. CASE commitFile(c)
    BY <2>1, CommitStep
  <2>2. CASE ~commitFile(c)
    BY <1>2, <2>2, LocalStep DEF Step, GetDefaultBranch, GetBranchSHA,
       Compare, commitRefused, Reply, Fail
  <2> QED
    BY <2>1, <2>2
<1>3. ASSUME NEW b \in Branches, Push(b) \/ Reset(b) PROVE IInv'
  BY <1>3, OutsideStep
<1> QED
  BY <1>1, <1>2, <1>3 DEF Next

(* The types hold, heads and tips are commits that exist, and a conditional *)
(* write past its comparison holds a head with the expected blob.          *)
THEOREM InvHolds == Spec => []IInv
  BY InitInv, NextInv, PTL DEF Spec

(* A conditional write lands only on the blob its caller read              *)
(* (CreateOrUpdateFile, repos.go:243-260).                                 *)
THEOREM NoLostUpdateHolds == Spec => NoLostUpdate
<1> DEFINE Kept == \A c \in Callers :
         pc[c] = "commit" /\ pc'[c] = "reply" /\ arg[c].sha # NoArg
            => File(Target(c)) = arg[c].sha
<1>1. ASSUME IInv, [Next]_vars PROVE [Kept]_vars
  <2> SUFFICES ASSUME NEW c \in Callers, ~ UNCHANGED vars,
                      pc[c] = "commit", pc'[c] = "reply", arg[c].sha # NoArg
               PROVE  File(Target(c)) = arg[c].sha
    OBVIOUS
  <2>1. ASSUME NEW d \in Callers, Step(d) PROVE commitFile(c)
    <3>1. d = c
      BY <1>1, <2>1 DEF Step, GetDefaultBranch, GetBranchSHA, Compare, commitFile,
         commitRefused, Reply, Fail, Goto, IInv, TypeOK
    <3> QED
      BY <1>1, <2>1, <3>1 DEF Step, GetDefaultBranch, GetBranchSHA, Compare,
         commitRefused, Reply, Fail, Goto, IInv, TypeOK
  <2>2. ASSUME NEW b \in Branches, Push(b) \/ Reset(b) PROVE FALSE
    BY <2>2 DEF Push, Reset
  <2>3. commitFile(c)
    BY <1>1, <2>1, <2>2 DEF Next
  <2>4. tip[Target(c)] = head[c] /\ blob[head[c]] = arg[c].sha /\ head[c] # NoOid
    BY <1>1, <2>3 DEF commitFile, HeadUnmoved, IInv, CheckedHead, HeadMade
  <2> QED
    BY <2>4 DEF File
<1> QED
  BY <1>1, InvHolds, PTL DEF Spec, NoLostUpdate

-----------------------------------------------------------------------------
(* The abstract outcome of a call is a function of its own pc.             *)
OutcomeOf(l) ==
    CASE l = "ok" -> "ok"
      [] l = "failed" -> "failed"
      [] l = "reply" -> "applied"
      [] OTHER -> "pending"

LEMMA OutcomeFacts ==
    /\ outcomeBar = [c \in Callers |-> OutcomeOf(pc[c])]
    /\ outcomeBar' = [c \in Callers |-> OutcomeOf(pc'[c])]
  BY DEF outcomeBar, OutcomeOf

(* Arguments never change, so the abstract requests do not either.         *)
LEMMA RequestFacts == arg' = arg => requestBar' = requestBar
  BY DEF requestBar, Target

LEMMA FileFacts ==
    /\ fileBar = [b \in Branches |-> File(b)]
    /\ tip' = tip /\ blob' = blob => fileBar' = fileBar
  BY DEF fileBar, File

(* One call moving its pc moves its own outcome only.                      *)
LEMMA OutcomeMoves ==
    ASSUME TypeOK, NEW c \in Callers, NEW l \in Pcs, Goto(c, l)
    PROVE  outcomeBar' = [outcomeBar EXCEPT ![c] = OutcomeOf(l)]
<1>1. \A d \in Callers : pc'[d] = IF d = c THEN l ELSE pc[d]
  BY DEF Goto, TypeOK
<1>2. \A d \in Callers :
         OutcomeOf(pc'[d]) = IF d = c THEN OutcomeOf(l) ELSE OutcomeOf(pc[d])
  BY <1>1
<1>3. outcomeBar' = [d \in Callers |->
         IF d = c THEN OutcomeOf(l) ELSE outcomeBar[d]]
  <2>1. \A d \in Callers : outcomeBar[d] = OutcomeOf(pc[d])
    BY OutcomeFacts, Zenon
  <2>2. outcomeBar' = [d \in Callers |-> OutcomeOf(pc'[d])]
    BY OutcomeFacts, Zenon
  <2>3. \A d \in Callers :
           OutcomeOf(pc'[d]) = IF d = c THEN OutcomeOf(l) ELSE outcomeBar[d]
    BY <1>2, <2>1
  <2> QED
    BY <2>2, <2>3, Zenon
<1> QED
  BY <1>3, OutcomeFacts

(* A step that leaves commits and branches alone stutters or returns.      *)
LEMMA LocalSimulates ==
    ASSUME IInv, NEW c \in Callers,
           GetDefaultBranch(c) \/ GetBranchSHA(c) \/ Compare(c)
           \/ commitRefused(c) \/ Reply(c) \/ Fail(c)
    PROVE  [Atomic!Next]_(Atomic!vars)
<1>1. fileBar' = fileBar /\ requestBar' = requestBar
  BY FileFacts, RequestFacts DEF GetDefaultBranch, GetBranchSHA, Compare,
     commitRefused, Reply, Fail
<1>2. TypeOK /\ pc[c] \in Pcs
  BY DEF IInv, TypeOK
<1>3. outcomeBar[c] = OutcomeOf(pc[c])
  BY OutcomeFacts
<1>4. ASSUME NEW l \in Pcs, Goto(c, l), OutcomeOf(l) = OutcomeOf(pc[c])
      PROVE  UNCHANGED Atomic!vars
  <2>1. outcomeBar' = [outcomeBar EXCEPT ![c] = OutcomeOf(pc[c])]
    BY <1>2, <1>4, OutcomeMoves
  <2>2. outcomeBar' = outcomeBar
    BY <1>3, <2>1, OutcomeFacts
  <2> QED
    BY <1>1, <2>2 DEF Atomic!vars
<1>5. ASSUME Goto(c, "failed"), pc[c] \notin {"ok", "failed"}
      PROVE  Atomic!Return(c)
  <2>1. outcomeBar[c] \in {"pending", "applied"}
    BY <1>3, <1>5 DEF OutcomeOf
  <2>2. outcomeBar' = [outcomeBar EXCEPT ![c] = "failed"]
    BY <1>2, <1>5, OutcomeMoves DEF OutcomeOf, Pcs
  <2> QED
    BY <1>1, <2>1, <2>2 DEF Atomic!Return
<1>6. CASE GetDefaultBranch(c)
  BY <1>4, <1>6 DEF GetDefaultBranch, OutcomeOf, Pcs
<1>7. CASE GetBranchSHA(c)
  BY <1>4, <1>7 DEF GetBranchSHA, OutcomeOf, Pcs
<1>8. CASE Compare(c)
  <2>1. CASE Goto(c, "commit")
    BY <1>4, <1>8, <2>1 DEF Compare, OutcomeOf, Pcs
  <2>2. CASE Goto(c, "failed")
    BY <1>5, <1>8, <2>2 DEF Compare, Atomic!Next
  <2> QED
    BY <1>8, <2>1, <2>2 DEF Compare
<1>9. CASE commitRefused(c)
  BY <1>5, <1>9 DEF commitRefused, Atomic!Next
<1>10. CASE Reply(c)
  <2>1. outcomeBar[c] = "applied"
    BY <1>3, <1>10 DEF Reply, OutcomeOf
  <2>2. outcomeBar' = [outcomeBar EXCEPT ![c] = "ok"]
    BY <1>2, <1>10, OutcomeMoves DEF Reply, OutcomeOf, Pcs
  <2> QED
    BY <1>1, <2>1, <2>2 DEF Atomic!Return, Atomic!Next
<1>11. CASE Fail(c)
  BY <1>5, <1>11 DEF Fail, Atomic!Next
<1> QED
  BY <1>6, <1>7, <1>8, <1>9, <1>10, <1>11

(* The commit is the instant at which the abstract write happens.          *)
LEMMA CommitSimulates ==
    ASSUME IInv, NEW c \in Callers, commitFile(c)
    PROVE  Atomic!Apply(c)
<1>1. PICK o \in Oids \ Made :
         /\ blob' = [blob EXCEPT ![o] = arg[c].content]
         /\ tip' = [tip EXCEPT ![Target(c)] = o]
  BY DEF commitFile
<1>2. arg[c].content \in Blobs /\ Target(c) \in Branches
  BY BranchAssumption DEF IInv, TypeOK, Arg, Target
<1>3. fileBar' = [fileBar EXCEPT ![Target(c)] = arg[c].content]
  <2>1. \A p \in Made : blob'[p] = blob[p] /\ p # o
    BY <1>1, <1>2, NewCommit
  <2>2. blob'[o] = arg[c].content /\ o # NoOid
    BY <1>1, <1>2, NewCommit, OidAssumption
  <2>3. \A b \in Branches : tip[b] # NoOid => tip[b] \in Made
    BY DEF IInv, TypeOK, TipMade, Made
  <2>4. \A b \in Branches :
          (IF tip'[b] = NoOid THEN Absent ELSE blob'[tip'[b]])
            = IF b = Target(c) THEN arg[c].content ELSE File(b)
    BY <1>1, <1>2, <2>1, <2>2, <2>3 DEF File, IInv, TypeOK
  <2> QED
    BY <1>2, <2>4 DEF fileBar, File
<1>4. requestBar' = requestBar
  BY RequestFacts DEF commitFile
<1>5. outcomeBar' = [outcomeBar EXCEPT ![c] = "applied"] /\ outcomeBar[c] = "pending"
  BY OutcomeFacts, OutcomeMoves DEF commitFile, OutcomeOf, Pcs, IInv
<1>6. requestBar[c].sha \in {NoArg, fileBar[requestBar[c].branch]}
  <2>1. tip[Target(c)] = head[c] /\ head[c] # NoOid
    BY DEF commitFile, HeadUnmoved, IInv, HeadMade
  <2>2. arg[c].sha # NoArg => fileBar[Target(c)] = arg[c].sha
    BY <1>2, <2>1 DEF commitFile, IInv, CheckedHead, fileBar, File
  <2> QED
    BY <2>2 DEF requestBar
<1>7. requestBar[c].branch = Target(c) /\ requestBar[c].content = arg[c].content
  BY DEF requestBar
<1> QED
  BY <1>3, <1>4, <1>5, <1>6, <1>7 DEF Atomic!Apply

(* A push or a reset changes one branch of the abstract file.              *)
LEMMA OutsideSimulates ==
    ASSUME IInv, NEW b \in Branches, Push(b) \/ Reset(b)
    PROVE  Atomic!Outside
<1>1. UNCHANGED <<arg, pc>>
  BY DEF Push, Reset
<1>2. requestBar' = requestBar /\ outcomeBar' = outcomeBar
  BY <1>1, RequestFacts, OutcomeFacts
<1>3. IInv'
  BY OutsideStep
<1>4. File(b)' \in Blobs \cup {Absent}
  BY <1>3 DEF IInv, TypeOK, TipMade, File
<1>5. \A a \in Branches \ {b} : File(a)' = File(a)
  <2>1. \A a \in Branches \ {b} : tip'[a] = tip[a]
    BY DEF Push, Reset, IInv, TypeOK
  <2>2. \A o \in Made : blob'[o] = blob[o]
    BY NewCommit DEF Push, Reset
  <2> QED
    BY <2>1, <2>2 DEF File, Made, IInv, TypeOK, TipMade
<1>6. fileBar' = [fileBar EXCEPT ![b] = File(b)']
  BY <1>5 DEF fileBar
<1> QED
  BY <1>2, <1>4, <1>6 DEF Atomic!Outside

(* CreateOrUpdateFile implements the atomic conditional write: every call  *)
(* takes effect at one instant, on the blob it was told to expect, or not  *)
(* at all (CreateOrUpdateFile and commitFile).                             *)
THEOREM ImplementsAtomicFile == Spec => AtomicSpec
<1>1. Init => Atomic!Init
  BY BranchAssumption, OutcomeFacts DEF Init, Atomic!Init, Atomic!Request, Arg,
     Target, File, fileBar, requestBar, OutcomeOf
<1>2. IInv /\ [Next]_vars => [Atomic!Next]_(Atomic!vars)
  <2> SUFFICES ASSUME IInv, [Next]_vars PROVE [Atomic!Next]_(Atomic!vars)
    OBVIOUS
  <2>1. CASE UNCHANGED vars
    <3>1. outcomeBar' = outcomeBar
      BY <2>1, OutcomeFacts DEF vars
    <3> QED
      BY <2>1, <3>1, RequestFacts, FileFacts DEF vars, Atomic!vars
  <2>2. ASSUME NEW c \in Callers, Step(c) PROVE [Atomic!Next]_(Atomic!vars)
    <3>1. CASE commitFile(c)
      BY <3>1, CommitSimulates DEF Atomic!Next
    <3>2. CASE ~commitFile(c)
      BY <2>2, <3>2, LocalSimulates DEF Step
    <3> QED
      BY <3>1, <3>2
  <2>3. ASSUME NEW b \in Branches, Push(b) \/ Reset(b)
        PROVE  [Atomic!Next]_(Atomic!vars)
    BY <2>3, OutsideSimulates DEF Atomic!Next
  <2> QED
    BY <2>1, <2>2, <2>3 DEF Next
<1> QED
  BY <1>1, <1>2, InvHolds, PTL DEF Spec, AtomicSpec, Atomic!Spec
=============================================================================
