----------------------- MODULE MCStorageCardHistory -----------------------
(* A small instance of StorageCardHistory for TLC. *)
EXTENDS StorageCardHistory

CONSTANTS f1

MCFailing == {f1}
MCDelays == <<1, 2>>
=============================================================================
