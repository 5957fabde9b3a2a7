-------------------------- MODULE MCDiagramCapture --------------------------
(* DiagramCapture for TLC. *)
EXTENDS DiagramCapture

\* Two steps of one diagram, the second linked to a Fold step.
p == "p"
w == "w"
Diagram == {p, w}
Linked == {w}
Fields == {"orbit", "presentation"}

Small == [all |-> 3, refresh |-> 2, stop |-> 2, verb |-> 1, pose |-> 2, fail |-> 1, edit |-> 1,
          undo |-> 2, open |-> 1, workspace |-> 2, pattern |-> 1, editFold |-> 1, loss |-> 1]
=============================================================================
