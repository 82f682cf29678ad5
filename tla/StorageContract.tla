-------------------------- MODULE StorageContract --------------------------
(***************************************************************************)
(* What storage.h promises the rest of the firmware: the owner, the        *)
(* medium's life cycle for that owner, and the epoch.  No driver, no       *)
(* timing, no retries; Storage implements it.                              *)
(***************************************************************************)
EXTENDS Integers

CONSTANT EpochMod       \* the epoch's modulus, at least 2

VARIABLES owner, requested_owner, medium, epoch

contract == <<owner, requested_owner, medium, epoch>>

Users == {"LOCAL", "USB", "NONE"}

Succ(e) == IF e + 1 = EpochMod THEN 0 ELSE e + 1

CInit ==
    /\ owner = "LOCAL"
    /\ requested_owner = "LOCAL"
    /\ medium = "ABSENT"
    /\ epoch = 0

\* Accepted at any time; asking for the current owner cancels a request.
Request(o) ==
    /\ requested_owner' = o
    /\ UNCHANGED <<owner, medium, epoch>>

\* What the new owner finds.  A release, and a card taken back from one, start
\* from nothing; a medium that nobody can use yet is passed on as it is; one
\* that works is READY for USB at once and mounted afresh for LOCAL.
HandOver ==
    /\ requested_owner # owner
    /\ owner' = requested_owner
    /\ epoch' = Succ(epoch)
    /\ UNCHANGED requested_owner
    /\ \/ "NONE" \in {owner, requested_owner} /\ medium' \in {"ABSENT", "FAULTY"}
       \/ /\ "NONE" \notin {owner, requested_owner}
          /\ medium \in {"ABSENT", "PREPARING", "FAULTY"}
          /\ medium' = medium
       \/ /\ owner = "LOCAL" /\ requested_owner = "USB"
          /\ medium \in {"PREPARING", "UNFORMATTED", "READY"}
          /\ medium' = "READY"
       \/ /\ owner = "USB" /\ requested_owner = "LOCAL"
          /\ medium = "READY"
          /\ medium' = "PREPARING"

\* The card is gone.  Only a medium that was READY costs an epoch.
Lose ==
    /\ medium' = "ABSENT"
    /\ epoch' = IF medium = "READY" THEN Succ(epoch) ELSE epoch
    /\ UNCHANGED <<owner, requested_owner>>

\* Bring-up for a using owner: a medium becomes READY, or UNFORMATTED for the
\* local owner, only out of PREPARING; FAULTY ends only by Lose.
Prepare ==
    /\ owner # "NONE"
    /\ medium \in {"ABSENT", "PREPARING"}
    /\ \/ medium' = "PREPARING"
       \/ medium = "PREPARING" /\ medium' \in {"FAULTY", "READY"}
       \/ medium = "PREPARING" /\ owner = "LOCAL" /\ medium' = "UNFORMATTED"
    /\ UNCHANGED <<owner, requested_owner, epoch>>

\* A release that did not succeed is reported.
GiveUpRelease ==
    /\ owner = "NONE"
    /\ medium' = "FAULTY"
    /\ UNCHANGED <<owner, requested_owner, epoch>>

CNext ==
    \/ \E o \in Users : Request(o)
    \/ HandOver \/ Lose \/ Prepare \/ GiveUpRelease

CSpec == CInit /\ [][CNext]_contract
=============================================================================
