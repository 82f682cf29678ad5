---------------------------- MODULE MCSavePoint ----------------------------
(* Two record contents, one of which needs the larger of two buffers.        *)
EXTENDS SavePoint

CONSTANTS short, long

MCData == {short, long}
MCLength == [d \in MCData |-> IF d = short THEN 1 ELSE 2]
MCCapacities == {1, 2}
=============================================================================
