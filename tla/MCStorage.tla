----------------------------- MODULE MCStorage -----------------------------
(* Small instances of Storage for TLC.  A clock unit is 250 ms. *)
EXTENDS Storage

CONSTANTS g1, b1, f1

MCGood == {g1}
MCBlank == {b1}
MCFailing == {f1}
MCDelays == <<1, 2>>
MCShortDelays == <<1>>
=============================================================================
