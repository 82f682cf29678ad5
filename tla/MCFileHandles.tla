----------------------------- MODULE MCFileHandles -----------------------------
(* Bounds: two slots, three callers, and generations that come round after *)
(* four advances.                                                          *)
EXTENDS FileHandles, TLC
CONSTANTS c1, c2, c3
MCCallers == {c1, c2, c3}
Symmetry == Permutations(MCCallers)
================================================================================
