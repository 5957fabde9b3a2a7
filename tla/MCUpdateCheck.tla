--------------------------- MODULE MCUpdateCheck ---------------------------
(* UpdateCheck with a few calls and two versions, for TLC.                 *)
EXTENDS UpdateCheck, TLC

CONSTANTS t1, t2, t3, t4

FourTasks == {t1, t2, t3, t4}
AnyOrder == Permutations(FourTasks)
TwoVersions == {1, 2}
============================================================================
