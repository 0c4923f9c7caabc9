---------------------------- MODULE MCFileCommit ----------------------------
(* Two calls racing on one branch with one content, or none, and two more  *)
(* commits than the initial one, made by the calls or by others.           *)
EXTENDS FileCommit
=============================================================================
