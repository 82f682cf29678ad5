----------------------------- MODULE MCOpenEntries -----------------------------
(* Bounds: three file slots with one entry more in the table, three places  *)
(* and as many files, and two directories.                                  *)
EXTENDS OpenEntries, TLC
CONSTANTS p1, p2, p3, f1, f2, f3, d1, d2
MCPlaces == {p1, p2, p3}
MCFiles == {f1, f2, f3}
MCDirectories == {d1, d2}
Symmetry == Permutations(MCPlaces) \cup Permutations(MCFiles) \cup Permutations(MCDirectories)
================================================================================
