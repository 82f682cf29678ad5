----------------------------- MODULE SavePoint -----------------------------
(***************************************************************************)
(* Save points (storage/save_point.c): one record in two slot files,       *)
(* written alternately, so that a card that is removed or loses power at   *)
(* any moment still holds a whole record.                                  *)
(*                                                                         *)
(* A call is split where the card can disappear or fail: each slot check,  *)
(* the open that truncates the target slot, the writes, and the close that *)
(* puts the record on the card.  A slot file is what its checks would find *)
(* on the card: a whole record, or nothing (missing, truncated, or failing *)
(* the magic, length or CRC).                                              *)
(***************************************************************************)
EXTENDS Integers

CONSTANTS
    Data,               \* record contents
    Length,             \* their lengths
    Capacities,         \* the buffer sizes a reader may offer
    SeqMod,             \* the sequence number's modulus, 2^32 in the code
    NoData

ASSUME SeqAssumption == SeqMod \in Nat /\ SeqMod >= 4

ASSUME DataAssumption ==
    /\ NoData \notin Data
    /\ Length \in [Data -> Nat]
    /\ Capacities \subseteq Nat

Files == {0, 1}         \* "<name>.a" and "<name>.b"
Sequences == 0 .. (SeqMod - 1)

Contents == [is : {"record"}, sequence : Sequences, data : Data]
Nothing == [is |-> "nothing", sequence |-> 0, data |-> NoData]
Unreadable == [is |-> "unreadable", sequence |-> 0, data |-> NoData]

VARIABLES
    flaky,              \* whether this card may fail to read a slot twice running
    slots,              \* what each slot file holds on the card
    phase,              \* where in the call the code is
    call,               \* "save" or "read": the call under way or last made
    found,              \* what checking each slot found
    payload,            \* the data of the last save
    target, sequence,   \* the slot a save writes, and the number it writes
    capacity, buffer,   \* a read's buffer
    result              \* of the last call that ended

vars == <<flaky, slots, phase, call, found, payload, target, sequence, capacity, buffer, result>>

TypeOK ==
    /\ flaky \in BOOLEAN
    /\ slots \in [Files -> Contents \cup {Nothing}]
    /\ phase \in {"idle", "check_a", "check_b", "open", "write", "close", "reread"}
    /\ call \in {"save", "read"}
    /\ found \in [Files -> Contents \cup {Nothing, Unreadable}]
    /\ payload \in Data \cup {NoData}
    /\ target \in Files
    /\ sequence \in Sequences
    /\ capacity \in Capacities \cup {0}
    /\ buffer \in Data \cup {NoData}
    /\ result \in {"ok", "not_found", "too_small", "storage_error", "failed", "write_failed"}

-----------------------------------------------------------------------------
(* Sequence numbers and slots *)

\* The distance from b up to a, across a wrap.
Distance(a, b) == IF a >= b THEN a - b ELSE a - b + SeqMod

NewerByValue(a, b) == a > b     \* (mutant) the wrap is forgotten

Newer(a, b) == Distance(a, b) > 0 /\ Distance(a, b) < SeqMod \div 2

After(s) == IF s + 1 = SeqMod THEN 0 ELSE s + 1

IsRecord(slot) == slot.is = "record"

\* newest_slot of a pair of slots.
None == -1

Newest(s) ==
    IF IsRecord(s[0]) /\ (~IsRecord(s[1]) \/ ~Newer(s[1].sequence, s[0].sequence)) THEN 0
    ELSE IF IsRecord(s[1]) THEN 1 ELSE None

NewestData(s) == IF Newest(s) = None THEN NoData ELSE s[Newest(s)].data

\* What a read of a card that reads without errors returns.
OnCard == NewestData(slots)

-----------------------------------------------------------------------------
Init ==
    /\ flaky \in BOOLEAN
    /\ slots = [i \in Files |-> Nothing]
    /\ phase = "idle"
    /\ call = "read"
    /\ found = [i \in Files |-> Nothing]
    /\ payload = NoData
    /\ target = 0
    /\ sequence = 0
    /\ capacity = 0
    /\ buffer = NoData
    /\ result = "failed"

End(r) == phase' = "idle" /\ result' = r

Continue(p) == phase' = p /\ UNCHANGED result

-----------------------------------------------------------------------------
(* Checking the slots: check_slots *)

BeginSave(d) ==
    /\ phase = "idle"
    /\ Continue("check_a")
    /\ call' = "save"
    /\ payload' = d
    /\ UNCHANGED <<flaky, slots, found, target, sequence, capacity, buffer>>

BeginRead(size) ==
    /\ phase = "idle"
    /\ Continue("check_a")
    /\ call' = "read"
    /\ capacity' = size
    /\ buffer' = NoData
    /\ UNCHANGED <<flaky, slots, found, payload, target, sequence>>

\* check_slot, tried twice: what it may find in slot file i.
Verdicts(i) == {slots[i]} \cup (IF flaky THEN {Unreadable} ELSE {})

Fits(slot) == IsRecord(slot) /\ Length[slot.data] <= capacity

\* Slot a's data goes straight into a reader's buffer.
CheckSlotA ==
    /\ phase = "check_a"
    /\ \E verdict \in Verdicts(0) :
          /\ found' = [found EXCEPT ![0] = verdict]
          /\ buffer' = IF call = "read" /\ Fits(verdict) THEN verdict.data ELSE buffer
    /\ Continue("check_b")
    /\ UNCHANGED <<flaky, slots, call, payload, target, sequence, capacity>>

\* A save writes over the slot that does not hold the newest record, or over
\* the one it could not read.
TargetNewest(f) == IF Newest(f) = 0 THEN 0 ELSE 1       \* (mutant)
TargetOldest(f) == IF Newest(f) = 0 THEN 1 ELSE 0       \* (mutant) not the unreadable one

Target(f) ==
    IF f[0] = Unreadable THEN 0
    ELSE IF f[1] = Unreadable \/ Newest(f) = 0 THEN 1 ELSE 0

CheckSlotBToSave ==
    /\ phase = "check_b" /\ call = "save"
    /\ \E verdict \in Verdicts(1) :
          LET f == [found EXCEPT ![1] = verdict]
          IN  /\ found' = f
              /\ \/ /\ f[0] = Unreadable /\ f[1] = Unreadable
                    /\ End("storage_error")
                    /\ UNCHANGED <<target, sequence>>
                 \/ /\ ~(f[0] = Unreadable /\ f[1] = Unreadable)
                    /\ target' = Target(f)
                    /\ sequence' = IF Newest(f) = None THEN 1 ELSE After(f[Newest(f)].sequence)
                    /\ Continue("open")
    /\ UNCHANGED <<flaky, slots, call, payload, capacity, buffer>>

\* What a read makes of both.  Slot b, when it is the newest, is read again.
AnswerFromBuffer(f) ==                                  \* (mutant) without reading it again
    \/ Newest(f) = None /\ End("not_found")
    \/ Newest(f) # None /\ ~Fits(f[Newest(f)]) /\ End("too_small")
    \/ Newest(f) # None /\ Fits(f[Newest(f)]) /\ End("ok")

AnswerRead(f) ==
    \/ /\ Newest(f) = None
       /\ End(IF Unreadable \in {f[0], f[1]} THEN "storage_error" ELSE "not_found")
    \/ Newest(f) # None /\ ~Fits(f[Newest(f)]) /\ End("too_small")
    \/ Newest(f) = 0 /\ Fits(f[0]) /\ End("ok")
    \/ Newest(f) = 1 /\ Fits(f[1]) /\ Continue("reread")

CheckSlotBToRead ==
    /\ phase = "check_b" /\ call = "read"
    /\ \E verdict \in Verdicts(1) :
          LET f == [found EXCEPT ![1] = verdict]
          IN  found' = f /\ AnswerRead(f)
    /\ UNCHANGED <<flaky, slots, call, payload, target, sequence, capacity, buffer>>

\* Slot b's data goes into the buffer; a card that fails to read it, or now
\* gives another answer, is a storage error.
ReadSlotBAgain ==
    /\ phase = "reread"
    /\ \/ buffer' = slots[1].data /\ End("ok")
       \/ flaky /\ buffer' \in Data \cup {NoData} /\ End("storage_error")
    /\ UNCHANGED <<flaky, slots, call, found, payload, target, sequence, capacity>>

-----------------------------------------------------------------------------
(* Writing the target slot: write_slot *)

Truncated == [slots EXCEPT ![target] = Nothing]
Written == [slots EXCEPT ![target] = [is |-> "record", sequence |-> sequence, data |-> payload]]

\* Opening for REPLACE truncates the file on the card, or fails, before or
\* after the truncation reached the card.
OpenTarget ==
    /\ phase = "open"
    /\ \/ slots' = Truncated /\ Continue("write")
       \/ slots' \in {slots, Truncated} /\ End("write_failed")
    /\ UNCHANGED <<flaky, call, found, payload, target, sequence, capacity, buffer>>

\* Header, data and trailer; none of it is a record before the close.
WriteTarget ==
    /\ phase = "write"
    /\ Continue("close")
    /\ UNCHANGED <<flaky, slots, call, found, payload, target, sequence, capacity, buffer>>

\* A write that fails, or finds the volume full, is followed by the close too,
\* which leaves a file that is too short.
WriteFails ==
    /\ phase = "write"
    /\ End("write_failed")
    /\ UNCHANGED <<flaky, slots, call, found, payload, target, sequence, capacity, buffer>>

\* (mutant) the close's own result is not passed on
CloseTargetUnchecked ==
    /\ phase = "close"
    /\ slots' \in {slots, Written}
    /\ End("ok")
    /\ UNCHANGED <<flaky, call, found, payload, target, sequence, capacity, buffer>>

\* The close puts the record on the card.  One that fails may have done so.
CloseTarget ==
    /\ phase = "close"
    /\ \/ slots' = Written /\ End("ok")
       \/ slots' \in {slots, Written} /\ End("write_failed")
    /\ UNCHANGED <<flaky, call, found, payload, target, sequence, capacity, buffer>>

-----------------------------------------------------------------------------
(* The card is removed, or power is lost, at any point of a call: the step it
   interrupts may have reached the card.  A slot that another handle has open
   ends a call in the same way. *)

Interrupted ==
    /\ phase # "idle"
    /\ \/ UNCHANGED slots
       \/ phase = "open" /\ slots' = Truncated
       \/ phase = "close" /\ slots' = Written
    /\ End(IF phase \in {"open", "write", "close"} THEN "write_failed" ELSE "failed")
    /\ UNCHANGED <<flaky, call, found, payload, target, sequence, capacity, buffer>>

-----------------------------------------------------------------------------
Next ==
    \/ \E d \in Data : BeginSave(d)
    \/ \E size \in Capacities : BeginRead(size)
    \/ CheckSlotA \/ CheckSlotBToSave \/ CheckSlotBToRead \/ ReadSlotBAgain
    \/ OpenTarget \/ WriteTarget \/ WriteFails \/ CloseTarget
    \/ Interrupted

Spec == Init /\ [][Next]_vars

-----------------------------------------------------------------------------
(* Properties *)

\* Two records on the card are always exactly one save apart, however many
\* saves were interrupted, slots unreadable and numbers wrapped: which of them
\* is the newer never depends on how far apart two numbers may grow
\* (newest_slot's claim that two equal numbers cannot come from a save).
SlotsAdjacent ==
    IsRecord(slots[0]) /\ IsRecord(slots[1]) =>
        \/ slots[1].sequence = After(slots[0].sequence)
        \/ slots[0].sequence = After(slots[1].sequence)

\* Whatever the card can read at the moment, what it holds changes only inside
\* a save, and only to the data saved or to the newest record the save's own
\* checks could read (save_point.h: that record stands in for the newest one).
CardChangesOnlyAsSaved ==
    [][OnCard' # OnCard => call = "save" /\ OnCard' \in {payload, NewestData(found)}]_vars

\* A result is never better than what happened.  A save reported as OK is what a
\* read of the card returns, even if the slot with the newest record could not be
\* read when the save chose its slot and its number.  A read that ends OK has the
\* whole of the newest record that could be read in the buffer, never slot a's
\* data or a mixture of the two; NOT_FOUND is given only when the card holds no
\* record at all.
SaveIsHonest == phase = "idle" /\ call = "save" /\ result = "ok" => OnCard = payload

ReadIsHonest ==
    phase = "idle" /\ call = "read" =>
        /\ result = "ok" => /\ \A i \in Files : found[i] \in {slots[i], Unreadable}
                            /\ buffer = NewestData(found)
                            /\ buffer # NoData
        /\ result = "not_found" => OnCard = NoData

ResultsAreHonest == SaveIsHonest /\ ReadIsHonest

\* The two slots behave as one record whose saves are atomic on a card that reads
\* without errors, and as what AtomicRecord leaves of that on a flaky one.
Report ==
    IF phase # "idle" THEN "none"
    ELSE IF call = "save" THEN (IF result = "ok" THEN "saved" ELSE "unsaved")
    ELSE IF result \in {"ok", "not_found"} THEN "read" ELSE "unread"

Atomic == INSTANCE AtomicRecord WITH
              value <- OnCard,
              pending <- IF phase # "idle" /\ call = "save" THEN payload ELSE NoData,
              report <- Report,
              answer <- IF phase = "idle" /\ call = "read" /\ result = "ok" THEN buffer ELSE NoData

ImplementsAtomicRecord == Atomic!RSpec

\* save_point.h: after any result but OK a read returns the new record or the
\* newest one the card could still read when the save began.
FailedSaveLeavesReadableOrNew ==
    phase = "idle" /\ call = "save" /\ result = "write_failed" =>
        OnCard \in {payload, NewestData(found)}
=============================================================================
