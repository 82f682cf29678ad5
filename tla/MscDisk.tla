------------------------------ MODULE MscDisk ------------------------------
(***************************************************************************)
(* The disk a USB host sees (usb/msc_disk.c), with the sense the TinyUSB   *)
(* callbacks keep for it (usb/usb_device.c), over the storage coordinator  *)
(* as StorageContract describes it.                                        *)
(*                                                                         *)
(* The host sends one command at a time.  A READ or WRITE is served one    *)
(* buffer per callback, and the coordinator may step between two buffers.  *)
(* The card may be pulled at any moment; the driver latches that, and the  *)
(* coordinator notices later.                                              *)
(***************************************************************************)
EXTENDS StorageContract

ASSUME EpochAssumption == EpochMod \in Nat /\ EpochMod >= 2

VARIABLES
    presented, presented_epoch,     \* the host has been told of the medium of that epoch
    withheld, withheld_epoch,       \* the medium of that epoch is not offered
    eject_pending,                  \* an eject the policy has not taken yet
    kept, kept_sense,               \* transfer_sense_pending, transfer_sense
    tiny_sense,                     \* TinyUSB's own sense
    transfer,                       \* the host's READ or WRITE, as far as it has come
    gone,                           \* the medium that is READY has been pulled
    told,                           \* (history) the host was told of the medium since it became READY
    away,                           \* (history) ejected, or found removed, in this epoch
    reason,                         \* (history) why the last failed command failed, until the host asks
    changes                         \* (history) how often the epoch has changed

disk == <<presented, presented_epoch, withheld, withheld_epoch>>
sense == <<kept, kept_sense, tiny_sense, reason>>
mscVars == <<contract, disk, eject_pending, sense, transfer, gone, told, away, changes>>

Epochs == 0 .. (EpochMod - 1)
Senses == {"none", "no_medium", "attention", "medium_error", "illegal"}

MscTypeOK ==
    /\ owner \in Users /\ requested_owner \in Users
    /\ medium \in {"ABSENT", "PREPARING", "FAULTY", "UNFORMATTED", "READY"}
    /\ {epoch, presented_epoch, withheld_epoch, changes} \subseteq Epochs
    /\ presented \in BOOLEAN /\ withheld \in BOOLEAN /\ eject_pending \in BOOLEAN
    /\ kept \in BOOLEAN /\ gone \in BOOLEAN /\ told \in BOOLEAN /\ away \in BOOLEAN
    /\ {kept_sense, tiny_sense, reason} \subseteq Senses
    /\ transfer \in {"none", "begun", "moving", "crossed"}

MscInit ==
    /\ CInit
    /\ presented = FALSE /\ presented_epoch = 0
    /\ withheld = FALSE /\ withheld_epoch = 0
    /\ eject_pending = FALSE
    /\ kept = FALSE /\ kept_sense = "none" /\ tiny_sense = "none" /\ reason = "none"
    /\ transfer = "none"
    /\ gone = FALSE /\ told = FALSE /\ away = FALSE
    /\ changes = 0

-----------------------------------------------------------------------------
(* The coordinator and the card.  The bound on changes keeps the epoch from
   coming round to a value the disk still remembers. *)

StaysReady == medium = "READY" /\ medium' = "READY" /\ owner' = owner

Coordinate(Step) ==
    /\ Step
    /\ changes' = IF epoch' = epoch THEN changes ELSE changes + 1
    /\ changes' < EpochMod
    /\ gone' = (gone /\ medium' = "READY")
    /\ told' = (told /\ StaysReady)
    /\ away' = (away /\ epoch' = epoch)
    /\ transfer' = IF transfer = "moving" /\ ~StaysReady THEN "crossed" ELSE transfer
    /\ UNCHANGED <<disk, eject_pending, sense>>

\* storage_step: a medium that is READY is lost only when it has gone.
StorageStep ==
    \/ Coordinate(HandOver) \/ Coordinate(Prepare) \/ Coordinate(GiveUpRelease)
    \/ Coordinate((medium = "READY" => gone) /\ Lose)

Pull ==
    /\ medium = "READY" /\ ~gone
    /\ gone' = TRUE
    /\ UNCHANGED <<contract, disk, eject_pending, sense, transfer, told, away, changes>>

-----------------------------------------------------------------------------
(* What the host may see of the medium: admit *)

Withheld == withheld /\ withheld_epoch = epoch

OfferedStill == owner = "USB" /\ medium = "READY"       \* (mutant) an ejected card is offered

Offered == owner = "USB" /\ medium = "READY" /\ ~Withheld

KnownOnce == presented                                  \* (mutant) the epoch is not compared

Known == presented /\ presented_epoch = epoch

\* A command that may not use the medium, and the sense it fails with.
NoMedium(s) ==
    /\ s = "no_medium"
    /\ presented' = FALSE
    /\ UNCHANGED <<presented_epoch, told>>

Announce(s) ==
    /\ s = "attention"
    /\ presented' = TRUE
    /\ presented_epoch' = epoch
    /\ told' = TRUE

Refuse(s) ==
    /\ \/ ~Offered /\ NoMedium(s)
       \/ Offered /\ ~Known /\ Announce(s)
    /\ UNCHANGED <<withheld, withheld_epoch, away>>

WithholdAnyEpoch ==                                     \* (mutant) the epoch is not recorded
    /\ withheld' = TRUE
    /\ UNCHANGED withheld_epoch

Withhold ==
    /\ withheld' = TRUE
    /\ withheld_epoch' = epoch

\* report_failure of a card that has gone, and of one that failed.
ReportGone(s) == gone /\ Withhold /\ away' = TRUE /\ NoMedium(s)

ReportFailure(s) == s = "medium_error" /\ UNCHANGED <<disk, told, away>>

-----------------------------------------------------------------------------
(* How a failed command's sense reaches the host: usb_device.c *)

\* (mutant) the sense kept for a transfer outlives a later failure
FailWithKeeping(s) ==
    /\ tiny_sense' = s
    /\ reason' = s
    /\ UNCHANGED <<kept, kept_sense>>

FailWith(s) ==
    /\ kept' = FALSE
    /\ tiny_sense' = s
    /\ reason' = s
    /\ UNCHANGED kept_sense

\* TinyUSB replaces the sense of a failed transfer by "no medium".
FailTransfer(s) ==
    /\ kept' = TRUE
    /\ kept_sense' = s
    /\ tiny_sense' = "no_medium"
    /\ reason' = s
    /\ transfer' = "none"

Answer == IF kept THEN kept_sense ELSE tiny_sense

-----------------------------------------------------------------------------
(* The host's commands *)

Rest == <<contract, gone, changes>>

TestUnitReady ==
    /\ transfer = "none"
    /\ \/ Offered /\ Known /\ UNCHANGED <<disk, sense, told, away>>
       \/ \E s \in Senses : Refuse(s) /\ FailWith(s)
    /\ UNCHANGED <<Rest, eject_pending, transfer>>

\* The geometry is the driver's, which refuses it once the card has gone.
Capacity ==
    /\ transfer = "none"
    /\ \/ Offered /\ Known /\ ~gone /\ UNCHANGED <<disk, sense, told, away>>
       \/ \E s \in Senses : /\ Refuse(s) \/ (Offered /\ Known /\ ReportGone(s))
                            /\ FailWith(s)
    /\ UNCHANGED <<Rest, eject_pending, transfer>>

BeginTransfer ==
    /\ transfer = "none"
    /\ transfer' = "begun"
    /\ UNCHANGED <<Rest, disk, eject_pending, sense, told, away>>

\* One buffer is read, or written and synced; it may be the transfer's last.
ServeBuffer ==
    /\ transfer # "none"
    /\ Offered /\ Known /\ ~gone
    /\ transfer' \in {"moving", "none"}
    /\ UNCHANGED <<Rest, disk, eject_pending, sense, told, away>>

\* The card may be pulled while the driver is at work, which is then an I/O
\* error; an address or size that is not the medium's is refused.
FailBuffer ==
    /\ transfer # "none"
    /\ \E s \in Senses :
          /\ \/ Refuse(s)
             \/ Offered /\ Known /\ (ReportGone(s) \/ ReportFailure(s))
             \/ Offered /\ Known /\ ~gone /\ s = "illegal" /\ UNCHANGED <<disk, told, away>>
          /\ FailTransfer(s)
    /\ UNCHANGED <<Rest, eject_pending>>

Eject ==
    /\ transfer = "none"
    /\ Withhold
    /\ presented' = FALSE
    /\ eject_pending' = TRUE
    /\ away' = TRUE
    /\ UNCHANGED <<Rest, presented_epoch, sense, transfer, told>>

\* A command TinyUSB does not know, and SYNCHRONIZE CACHE, which does nothing.
UnknownCommand ==
    /\ transfer = "none"
    /\ FailWith("illegal")
    /\ UNCHANGED <<Rest, disk, eject_pending, transfer, told, away>>

RequestSense ==
    /\ transfer = "none"
    /\ kept' = FALSE
    /\ tiny_sense' = "none"
    /\ reason' = "none"
    /\ UNCHANGED <<Rest, disk, eject_pending, kept_sense, transfer, told, away>>

HostCommand ==
    \/ TestUnitReady \/ Capacity
    \/ BeginTransfer \/ ServeBuffer \/ FailBuffer
    \/ Eject \/ UnknownCommand \/ RequestSense

-----------------------------------------------------------------------------
(* The policy, here as anyone who may ask for the card and take ejects *)

TakeEject ==
    /\ eject_pending' = FALSE
    /\ UNCHANGED <<contract, disk, sense, transfer, gone, told, away, changes>>

AskFor(o) ==
    /\ Request(o)
    /\ UNCHANGED <<disk, eject_pending, sense, transfer, gone, told, away, changes>>

MscNext ==
    \/ HostCommand
    \/ StorageStep \/ Pull
    \/ TakeEject \/ \E o \in Users : AskFor(o)

MscSpec == MscInit /\ [][MscNext]_mscVars

-----------------------------------------------------------------------------
(* Properties *)

\* No data moves between host and card before the host was told, by UNIT
\* ATTENTION, of this very medium; none after it ejected the medium or was told
\* that it has gone; and no READ or WRITE takes its buffers from two media
\* (admit, withhold, against a coordinator that steps between buffers).
DataOnlyFromToldMedium == [][ServeBuffer => told /\ ~away /\ transfer # "crossed"]_mscVars

\* A medium is withheld for exactly as long as the epoch it was ejected or found
\* removed in lasts: never offered again under the same epoch, and never kept
\* from the host after the coordinator has moved on.
WithheldWhileAway == Withheld <=> away

\* What the host has been told is what the disk believes it was told, once a
\* medium is offered: it gets exactly one UNIT ATTENTION for each medium.
PresentedWhenTold == Offered => (Known <=> told)

\* REQUEST SENSE gives the reason of the last command that failed, though
\* TinyUSB overwrites the sense of a failed transfer (fail_transfer, fail_with).
SenseTellsLastFailure == Answer = reason
=============================================================================
