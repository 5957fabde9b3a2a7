--------------------------- MODULE MCFoldRuntime ---------------------------
(* FoldRuntime with a few calls, for TLC.                                  *)
EXTENDS FoldRuntime, TLC

CONSTANTS c1, c2, c3, c4

ThreeCalls == {c1, c2, c3}
FourCalls == {c1, c2, c3, c4}
AnyOrder == Permutations(FourCalls)
============================================================================
