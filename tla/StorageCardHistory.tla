------------------------ MODULE StorageCardHistory ------------------------
(***************************************************************************)
(* Storage with a history of the bring-up attempts made on the card that   *)
(* is in the socket, to compare it with the failures the coordinator       *)
(* counts against that card.                                               *)
(***************************************************************************)
EXTENDS Storage

VARIABLE tries          \* failed bring-up attempts on the card now in the socket

HistoryInit == Init /\ tries = 0

HistoryNext ==
    /\ Next
    /\ tries' = IF card' # card THEN 0
                ELSE IF owner # "NONE" /\ attempts' = attempts + 1 THEN tries + 1
                ELSE tries

HistorySpec == HistoryInit /\ [][HistoryNext]_<<vars, tries>>

\* clear_retry says that the counted failures are forgotten once a card left
\* the socket, "so the next card starts afresh" (storage.c:74-75); FAULTY means
\* that this card could not be brought up "after STORAGE_BRING_UP_ATTEMPTS
\* tries" (storage.h:65-66).  So no card is parked as FAULTY by bring-up before
\* it has had all its attempts.
EveryCardGetsAllItsAttempts ==
    [][ (medium # "FAULTY" /\ medium' = "FAULTY" /\ "NONE" \notin {owner, owner'})
            => tries' >= BringUpAttempts ]_<<vars, tries>>
=============================================================================
