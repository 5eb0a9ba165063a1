----------------------------- MODULE MCPaperDispatch -----------------------------
(* Instances of PaperDispatch for TLC. *)
EXTENDS PaperDispatch, TLC

CONSTANTS r1, r2, i1, i2, c1

\* Two intents of the same target are interchangeable.
Interchangeable == Permutations({i1, i2})
=============================================================================
