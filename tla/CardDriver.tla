----------------------------- MODULE CardDriver -----------------------------
(***************************************************************************)
(* The removable card behind its block device, as the storage coordinator  *)
(* sees it: what the socket may do at any time and what a call of the SD   *)
(* driver may come to.  Storage is built on these steps; SdDriver          *)
(* implements them.                                                        *)
(***************************************************************************)

CONSTANTS
    Good,               \* cards that work and hold a FAT volume
    Blank,              \* cards that work and hold none
    Failing,            \* cards of which any call may fail
    NoCard

ASSUME CardAssumption == NoCard \notin Good \cup Blank \cup Failing

Cards == Good \cup Blank \cup Failing

VARIABLES
    card,               \* the card in the socket, or NoCard
    seated,             \* it makes good contact: no bounce on the detect switch
    initialized,        \* sd->initialized
    latch               \* sd->removal_latched, set by the card-detect interrupt

world == <<card, seated>>
cardDriver == <<world, initialized, latch>>

-----------------------------------------------------------------------------
(* The socket *)

CardInserted(c) ==
    /\ card = NoCard
    /\ card' = c
    /\ seated' = FALSE
    /\ UNCHANGED <<initialized, latch>>

CardSeats ==
    /\ card # NoCard /\ ~seated
    /\ seated' = TRUE
    /\ UNCHANGED <<card, initialized, latch>>

CardLoosens ==
    /\ seated
    /\ seated' = FALSE
    /\ UNCHANGED <<card, initialized, latch>>

\* The detect switch opens: the interrupt, registered while the driver is
\* initialized, latches the removal at once, whatever the foreground is doing.
CardRemoved ==
    /\ card # NoCard
    /\ card' = NoCard
    /\ seated' = FALSE
    /\ latch' = (latch \/ initialized)
    /\ UNCHANGED initialized

\* The switch of a card that is not seated opens and closes again.
SwitchBounces ==
    /\ card # NoCard /\ ~seated
    /\ initialized /\ ~latch
    /\ latch' = TRUE
    /\ UNCHANGED <<world, initialized>>

-----------------------------------------------------------------------------
(* The driver's calls *)

\* block_device_get_info answers INVALID_DEVICE or NOT_INITIALIZED.
DeviceGone == latch \/ ~initialized

\* What block_device_is_present may read: the raw level of the switch.
PresenceReadings ==
    IF card = NoCard THEN {FALSE} ELSE IF seated THEN {TRUE} ELSE BOOLEAN

Troubled == card \in Failing \/ ~seated

\* A deinit fails only on a card that stays busy, and never once the removal
\* is latched: the driver then leaves the card alone.
MayStickBusy == ~latch /\ Troubled

\* An init that succeeds found a card and has seen no removal since it
\* cleared the latch.
InitOk ==
    /\ ~initialized /\ card # NoCard
    /\ initialized' = TRUE
    /\ latch' = FALSE
    /\ UNCHANGED world

\* The debounced check, or the latch it armed, refuses the card as not seated.
InitRefuses ==
    /\ ~initialized /\ ~seated
    /\ latch' \in {latch, TRUE}
    /\ UNCHANGED <<world, initialized>>

\* Any other failure: everything is given back.
InitErrs ==
    /\ ~initialized /\ Troubled
    /\ latch' \in IF seated THEN {FALSE} ELSE BOOLEAN
    /\ UNCHANGED <<world, initialized>>

\* `held' says that the device is still up afterwards.
Deinit(held) ==
    /\ held => initialized /\ MayStickBusy
    /\ initialized' = held
    /\ UNCHANGED <<world, latch>>

-----------------------------------------------------------------------------

DriverInit ==
    /\ card \in Cards \cup {NoCard} /\ seated \in BOOLEAN
    /\ seated => card # NoCard
    /\ initialized = FALSE /\ latch = FALSE

DriverNext ==
    \/ \E c \in Cards : CardInserted(c)
    \/ CardSeats \/ CardLoosens \/ CardRemoved \/ SwitchBounces
    \/ InitOk \/ InitRefuses \/ InitErrs
    \/ \E held \in BOOLEAN : Deinit(held)

DriverSpec == DriverInit /\ [][DriverNext]_cardDriver
=============================================================================
