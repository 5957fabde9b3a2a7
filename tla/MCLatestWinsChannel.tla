------------------------ MODULE MCLatestWinsChannel ------------------------
(* LatestWinsChannel for TLC. *)
EXTENDS LatestWinsChannel, TLC

CONSTANTS r1, r2, r3, r4, r5

Symmetric == Permutations(Requests)
=============================================================================
