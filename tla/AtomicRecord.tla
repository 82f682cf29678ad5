--------------------------- MODULE AtomicRecord ---------------------------
(***************************************************************************)
(* What save_point.h promises of a record.  On a card that can be read: a  *)
(* save takes effect at one instant or not at all, one reported as OK has  *)
(* taken effect, and a read returns what the last effective save saved.    *)
(* On a flaky card, one that may fail to read a slot for a while: a save   *)
(* reported as OK still has taken effect, only a save changes the record,  *)
(* and only a card with no record is reported to have none.                *)
(***************************************************************************)
CONSTANTS Data, NoData

VARIABLES
    flaky,              \* whether the card may fail to read a slot
    value,              \* the record's contents, NoData before the first save
    pending,            \* what the save under way saves
    report,             \* how the last call ended, "none" while one is under way
    answer              \* what the last read returned

record == <<flaky, value, pending, report, answer>>

RInit == flaky \in BOOLEAN /\ value = NoData /\ pending = NoData /\ report = "unread" /\ answer = NoData

Idle == report # "none"

Begin(d) ==
    /\ Idle
    /\ report' = "none"
    /\ pending' = d
    /\ answer' = NoData
    /\ UNCHANGED <<flaky, value>>

Ended(r) ==
    /\ ~Idle
    /\ report' = r
    /\ pending' = NoData

Succeed ==
    /\ pending # NoData
    /\ Ended("saved")
    /\ value' = pending
    /\ UNCHANGED <<flaky, answer>>

\* What a save may make of the record before it ends: nothing, or on a flaky card
\* an older record comes back in the place of one that cannot be read.
Before == IF flaky THEN Data \cup {NoData} ELSE {value}

Disturb ==
    /\ pending # NoData
    /\ value' \in Before
    /\ UNCHANGED <<flaky, pending, report, answer>>

\* A save that is not reported as OK, or is cut off, may still take effect as
\* it ends, or have left the record as it was: nothing between.
Fail ==
    /\ pending # NoData
    /\ Ended("unsaved")
    /\ value' \in Before \cup {pending}
    /\ UNCHANGED <<flaky, answer>>

\* A flaky card may answer with an older record, not with none.
Answer ==
    /\ pending = NoData
    /\ Ended("read")
    /\ answer' \in {value} \cup (IF flaky THEN Data ELSE {})
    /\ UNCHANGED <<flaky, value>>

GiveUpReading ==
    /\ pending = NoData
    /\ Ended("unread")
    /\ UNCHANGED <<flaky, value, answer>>

RNext == (\E d \in Data \cup {NoData} : Begin(d)) \/ Disturb \/ Succeed \/ Fail \/ Answer \/ GiveUpReading

RSpec == RInit /\ [][RNext]_record
=============================================================================
