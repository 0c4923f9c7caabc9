----------------------------- MODULE MCRegistry -----------------------------
(* Two organizations, an include pattern for each, one topic; O1 is a      *)
(* spelling of o1.                                                         *)
EXTENDS Registry, TLC

CONSTANTS o1, o2, O1, t1
MCRepos == ({o1} \X (1..4)) \cup ({o2} \X (1..2))
MCAccount == o1 :> o1 @@ o2 :> o2 @@ O1 :> o1
MCInclude == {[org |-> o1, glob |-> {3, 4}], [org |-> o2, glob |-> {2}]}
MCIncludeSpelled == {[org |-> O1, glob |-> {3, 4}], [org |-> o2, glob |-> {2}]}
MCExclude == {[org |-> o1, glob |-> {2, 3}]}
MCExcludeSpelled == {[org |-> O1, glob |-> {2, 3}]}
MCTaggable == {o1} \X (1..4)
=============================================================================
