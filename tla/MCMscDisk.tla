----------------------------- MODULE MCMscDisk -----------------------------
(* Epochs 0 to 5: a card lent, pulled, swapped, returned and lent again.     *)
EXTENDS MscDisk
=============================================================================
