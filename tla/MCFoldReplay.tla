---------------------------- MODULE MCFoldReplay ----------------------------
(* FoldReplay with two small documents that share a branch, for TLC.       *)
EXTENDS FoldReplay

CONSTANTS sheet, half, quarter, twist, corner, unread

SomePaths == {sheet, half, quarter, twist, corner, unread}
SomeParents ==
  (half :> sheet) @@ (quarter :> half) @@ (twist :> sheet) @@ (corner :> twist) @@ (unread :> sheet)
\* The corner is below the twist, which the engine refuses; `unread` is of a newer build.
TwoDocuments == {<<sheet, half, quarter>>, <<sheet, twist, corner, unread, half>>}
ThreeRuns == 1..3
=============================================================================
