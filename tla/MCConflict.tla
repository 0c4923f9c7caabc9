----------------------------- MODULE MCConflict -----------------------------
(* Two runs after each other over three repositories.                      *)
EXTENDS Conflict, TLC

(* With <<2, 1>> too, the run passes and takes twice as long.              *)
MCTiers == {<<1>>, <<1, 2>>, <<3, 2>>}
MCSymmetry == Permutations(Scanners) \cup Permutations(Repos \ {Central})
=============================================================================
