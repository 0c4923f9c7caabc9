------------------------------ MODULE MCMonitor ------------------------------
(* A few runs over one or two recorded files.                              *)
EXTENDS Monitor, TLC

MCSymmetry == Permutations(Hashes) \cup Permutations(Monitors)
=============================================================================
