------------------------------- MODULE MCSync -------------------------------
(* Instances of SyncSafety: repositories and template texts are model      *)
(* values; the edits are files of the owners with nothing managed, or with *)
(* a drifted managed part.                                                 *)
EXTENDS SyncSafety, TLC

CONSTANTS o1, o2, t1, t2

(* Texts are only compared for equality.                                  *)
MCSymmetry == Permutations(Texts)

OwnEdits == {[own |-> o, managed |-> Nil] : o \in {o1, o2}}
Drifted == {[own |-> o1, managed |-> t] : t \in {t1, t2}}
Plain == {[own |-> o1, managed |-> Nil]}
=============================================================================
