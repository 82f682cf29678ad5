---------------------------- MODULE MCSdDriver ----------------------------
(* Two of three samples must agree; reads and writes of one to three blocks. *)
EXTENDS SdDriver
=============================================================================
