--------------------------- MODULE MCFoldSession ---------------------------
(* FoldSession with two operations and small budgets, for TLC.             *)
EXTENDS FoldSession

CONSTANTS valley, twist

Small == [all |-> 5, hold |-> 2, doc |-> 2, tool |-> 3, mishap |-> 2, crash |-> 3]
=============================================================================
