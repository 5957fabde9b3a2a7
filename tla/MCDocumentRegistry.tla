------------------------- MODULE MCDocumentRegistry -------------------------
(* DocumentRegistry for TLC. *)
EXTENDS DocumentRegistry, TLC

CONSTANTS a, b, z, c1, c2, c3, c4, c5, tm, bp

\* Both documents on one engine, or one document on each of two.
OneEngine == [d \in Documents |-> tm]
EngineEach == [d \in Documents |-> IF d = a THEN tm ELSE bp]

Symmetric == Permutations(Calls)
=============================================================================
