------------------------------ MODULE UsbMode ------------------------------
(***************************************************************************)
(* The firmware's foreground loop (main.c) around the USB-mode policy      *)
(* (usb/usb_mode.c): each pass runs the USB stack, one policy step, one    *)
(* storage_step, and storage_watch, which runs the filesystem demo each    *)
(* time the card becomes ready.                                            *)
(*                                                                         *)
(* The coordinator is StorageContract, its step cut into the three parts   *)
(* of storage_step.  VBUS, the host and the debugger that writes           *)
(* usb_mode_request act between the loop's steps, and within one: the      *)
(* policy reads the request in one step and resets it in the next.         *)
(*                                                                         *)
(* Either half may have failed to start: without its coordinator the loop  *)
(* runs the policy alone, without TinyUSB no host ever appears.            *)
(***************************************************************************)
EXTENDS StorageContract

CONSTANTS
    ClockMod,           \* the millisecond clock's modulus, 2^32 in the code
    Debounce,           \* USB_MODE_VBUS_DEBOUNCE_MS
    MaxPass             \* the longest a pass of the loop takes

ASSUME ModulusAssumption ==
    /\ {ClockMod, Debounce, MaxPass} \subseteq Nat
    /\ MaxPass >= 1 /\ Debounce >= 1
    /\ ClockMod > Debounce + MaxPass
    /\ EpochMod \in Nat /\ EpochMod >= 2

VARIABLES
    storage_ready,      \* storage_bring_up succeeded: there is a coordinator
    initialized,        \* usb_device's: TinyUSB started
    phase,              \* the part of the pass that comes next
    now,                \* the clock as the pass read it
    vbus, configured,   \* the VBUS pin, and whether a host has the device configured
    attached,           \* the device is connected to the bus
    request,            \* usb_mode_request
    taken,              \* take_request's copy of it, while the step runs
    started, cable, changing, changing_since, entering, lending,
    eject_pending,      \* msc_disk's: an eject the policy has not taken
    seen,               \* storage_watch: what it saw last, <<>> at first
    sample, steady,     \* (history) VBUS as last sampled, and for how long it has read so
    eject_lend,         \* (history) the pending eject came while the card was lent as it is now
    demoed              \* (history) the demo has run since the medium became READY

boot == <<storage_ready, initialized>>
policy == <<started, cable, changing, changing_since, entering, lending>>
history == <<sample, steady, eject_lend, demoed>>
vars == <<contract, boot, phase, now, vbus, configured, attached, request, taken, policy, eject_pending, seen, history>>

Phases == {"usb", "policy", "take", "loss", "hand", "prepare", "watch"}
Times == 0 .. (ClockMod - 1)

TypeOK ==
    /\ owner \in {"LOCAL", "USB"} /\ requested_owner \in {"LOCAL", "USB"}
    /\ medium \in {"ABSENT", "PREPARING", "FAULTY", "UNFORMATTED", "READY"}
    /\ epoch \in 0 .. (EpochMod - 1)
    /\ phase \in Phases
    /\ now \in Times /\ changing_since \in Times
    /\ {request, taken} \subseteq {"NONE", "ENTER", "LEAVE"}
    /\ {storage_ready, initialized, vbus, configured, attached, started, cable, changing, entering, lending,
        eject_pending, sample, eject_lend, demoed} \subseteq BOOLEAN
    /\ steady \in 0 .. Debounce
    /\ ~(entering /\ lending)

\* The policy's state is static, so it starts as zero; the bus is joined at
\* once, and VBUS may be there or not.
Init ==
    /\ CInit
    /\ storage_ready \in BOOLEAN /\ initialized \in BOOLEAN
    /\ phase = "usb"
    /\ now = 0
    /\ vbus \in BOOLEAN
    /\ configured = FALSE
    /\ attached = TRUE
    /\ request = "NONE" /\ taken = "NONE"
    /\ started = FALSE /\ cable = FALSE /\ changing = FALSE /\ changing_since = 0
    /\ entering = FALSE /\ lending = FALSE
    /\ eject_pending = FALSE
    /\ seen = <<>>
    /\ sample = vbus /\ steady = 0
    /\ eject_lend = FALSE /\ demoed = FALSE

-----------------------------------------------------------------------------
(* The world: VBUS, the debugger, and what the USB stack's task reports *)

VbusChanges ==
    /\ vbus' = ~vbus
    /\ UNCHANGED <<contract, boot, phase, now, configured, attached, request, taken, policy, eject_pending, seen, history>>

WriteRequest ==
    /\ request' \in {"ENTER", "LEAVE"}
    /\ UNCHANGED <<contract, boot, phase, now, vbus, configured, attached, taken, policy, eject_pending, seen, history>>

\* A host configures the device, or stops having it configured.
HostConfigures ==
    /\ phase = "usb" /\ initialized
    /\ configured \/ (attached /\ vbus)
    /\ configured' = ~configured
    /\ UNCHANGED <<contract, boot, phase, now, vbus, attached, request, taken, policy, eject_pending, seen, history>>

\* The host ejects, whether or not a medium is lent: msc_disk_start_stop.
HostEjects ==
    /\ phase = "usb" /\ configured
    /\ eject_pending' = TRUE
    /\ eject_lend' = lending
    /\ UNCHANGED <<contract, boot, phase, now, vbus, configured, attached, request, taken, policy, seen, sample, steady, demoed>>

UsbTask ==
    /\ phase = "usb"
    /\ phase' = "policy"
    /\ UNCHANGED <<contract, boot, now, vbus, configured, attached, request, taken, policy, eject_pending, seen, history>>

-----------------------------------------------------------------------------
(* One step of the policy: usb_mode_step *)

HeldFor == (now - changing_since + ClockMod) % ClockMod >= Debounce

\* (mutant) a dip does not end the wait for a new level
WatchCableThroughDips ==
    IF ~started THEN cable' = vbus /\ UNCHANGED <<changing, changing_since>>
    ELSE IF vbus = cable THEN UNCHANGED <<cable, changing, changing_since>>
    ELSE IF ~changing THEN changing' = TRUE /\ changing_since' = now /\ UNCHANGED cable
    ELSE IF HeldFor THEN cable' = vbus /\ changing' = FALSE /\ UNCHANGED changing_since
    ELSE UNCHANGED <<cable, changing, changing_since>>

WatchCable ==
    IF ~started THEN cable' = vbus /\ UNCHANGED <<changing, changing_since>>
    ELSE IF vbus = cable THEN changing' = FALSE /\ UNCHANGED <<cable, changing_since>>
    ELSE IF ~changing THEN changing' = TRUE /\ changing_since' = now /\ UNCHANGED cable
    ELSE IF HeldFor THEN cable' = vbus /\ changing' = FALSE /\ UNCHANGED changing_since
    ELSE UNCHANGED <<cable, changing, changing_since>>

\* The step up to take_request's read of the request, with VBUS as sampled for it.
ReadRequest ==
    /\ phase = "policy"
    /\ phase' = "take"
    /\ started' = TRUE
    /\ WatchCable
    /\ taken' = request
    /\ sample' = vbus
    /\ steady' = IF vbus = sample THEN steady ELSE 0
    /\ UNCHANGED <<contract, boot, now, vbus, configured, attached, request, entering, lending,
                   eject_pending, seen, eject_lend, demoed>>

\* take_request: whether an entry is wanted, and whether the card stays lent.
Wants == IF taken = "ENTER" /\ ~lending THEN TRUE
         ELSE IF taken = "LEAVE" THEN FALSE ELSE entering

StillLent == lending /\ taken # "LEAVE"

KeepLent == entering' = Wants /\ lending' = StillLent

\* What is given back, and what is lent; an entry is refused without a coordinator.
\* (mutant) an eject is looked at only when the card is not lent
DecideLate(ejected) ==
    IF ~cable THEN entering' = FALSE /\ lending' = FALSE
    ELSE IF StillLent /\ ~configured THEN entering' = Wants /\ lending' = FALSE
    ELSE IF Wants /\ configured /\ ~ejected THEN entering' = FALSE /\ lending' = storage_ready
    ELSE KeepLent

Decide(ejected) ==
    IF ~cable THEN entering' = FALSE /\ lending' = FALSE
    ELSE IF StillLent /\ (ejected \/ ~configured) THEN entering' = Wants /\ lending' = FALSE
    ELSE IF Wants /\ configured THEN entering' = FALSE /\ lending' = storage_ready
    ELSE KeepLent

\* (mutant) an eject is left for the policy's next lend to find
TakeEjectWhenLent == eject_pending' = (eject_pending /\ ~lending)

TakeEject == eject_pending' = FALSE

AskForUsbOnly ==                                    \* (mutant) the card is not asked back
    requested_owner' = IF lending' THEN "USB" ELSE requested_owner

AskForOwner ==
    requested_owner' = IF lending' # lending THEN (IF lending' THEN "USB" ELSE "LOCAL")
                       ELSE requested_owner

\* Joining the bus follows the cable, or fails and is tried again next pass.
Attach == attached' \in (IF initialized THEN {cable, attached} ELSE {attached})

\* The rest of the step.  The reset erases whatever the word holds by now.
PolicyStep ==
    /\ phase = "take"
    /\ phase' = "loss"
    /\ request' = IF taken = "NONE" THEN request ELSE "NONE"
    /\ taken' = "NONE"
    /\ Decide(eject_pending)
    /\ TakeEject
    /\ AskForOwner
    /\ Attach
    /\ eject_lend' = FALSE
    /\ UNCHANGED <<owner, medium, epoch, boot, now, vbus, configured, started, cable, changing,
                   changing_since, seen, sample, steady, demoed>>

-----------------------------------------------------------------------------
(* storage_step, in its three parts: a loss is noticed, an owner change is
   carried out, and the card is brought one step further *)

StaysReady == medium = "READY" /\ medium' = "READY" /\ owner' = owner

Storage(part, next, Step) ==
    /\ phase = part /\ storage_ready
    /\ phase' = next
    /\ Step \/ UNCHANGED contract
    /\ demoed' = (demoed /\ StaysReady)
    /\ UNCHANGED <<boot, now, vbus, configured, attached, request, taken, policy, eject_pending, seen, sample, steady, eject_lend>>

NoticeLoss == Storage("loss", "hand", Lose)

CarryOutRequest ==
    /\ Storage("hand", "prepare", HandOver)
    /\ owner' = requested_owner

BringUp == Storage("prepare", "watch", Prepare \/ (medium # "READY" /\ Lose))

-----------------------------------------------------------------------------
(* storage_watch, and the end of a pass *)

SeenNow == <<owner, medium, epoch>>

\* (mutant) only the medium is looked at
BecameReadyByMedium == medium = "READY" /\ (seen = <<>> \/ seen[2] # "READY")

BecameReady == medium = "READY" /\ (seen = <<>> \/ seen[2] # "READY" \/ seen[3] # epoch)

\* The next pass reads the clock.
EndPass ==
    /\ phase' = "usb"
    /\ \E d \in 0 .. MaxPass :
          /\ now' = (now + d) % ClockMod
          /\ steady' = IF steady + d > Debounce THEN Debounce ELSE steady + d

RunDemo ==
    /\ phase = "watch"
    /\ BecameReady /\ owner = "LOCAL"
    /\ seen' = SeenNow
    /\ demoed' = TRUE
    /\ EndPass
    /\ UNCHANGED <<contract, boot, vbus, configured, attached, request, taken, policy, eject_pending, sample, eject_lend>>

OnlyLog ==
    /\ phase = "watch"
    /\ ~(BecameReady /\ owner = "LOCAL")
    /\ seen' = SeenNow
    /\ EndPass
    /\ UNCHANGED <<contract, boot, vbus, configured, attached, request, taken, policy, eject_pending, sample, eject_lend, demoed>>

NoCoordinator ==
    /\ phase = "loss" /\ ~storage_ready
    /\ EndPass
    /\ UNCHANGED <<contract, boot, vbus, configured, attached, request, taken, policy, eject_pending, seen, sample, eject_lend, demoed>>

-----------------------------------------------------------------------------
World == VbusChanges \/ WriteRequest \/ HostConfigures \/ HostEjects

Loop == UsbTask \/ ReadRequest \/ PolicyStep \/ NoticeLoss \/ CarryOutRequest \/ BringUp
        \/ RunDemo \/ OnlyLog \/ NoCoordinator

Next == World \/ Loop

Spec == Init /\ [][Next]_vars

\* The loop never blocks for ever and its clock runs on.
ClockAdvances == (RunDemo \/ OnlyLog \/ NoCoordinator) /\ now' # now

FairSpec == Spec /\ WF_vars(Loop) /\ SF_vars(ClockAdvances)

-----------------------------------------------------------------------------
(* Properties *)

\* Once a storage_step has run, the card is with USB exactly while the policy
\* has it lent: what usb_mode_lending reports is where the card is.  And when the
\* coordinator is asked, it is lent only to a host that has the device configured,
\* over a cable that is believed to be there.
OwnerFollowsPolicy ==
    /\ phase \notin {"loss", "hand"} => (owner = "USB" <=> lending)
    /\ phase \in {"loss", "hand"} /\ lending => cable /\ configured

\* A card is given back to a host that is still there, unasked, only for an eject
\* the host sent during this very lend, never for one left from before
\* (usb_mode_step: an eject is taken whether or not the card is lent).
EjectEndsItsOwnLend ==
    [][lending /\ ~lending' /\ cable /\ configured /\ taken # "LEAVE" => eject_lend]_vars

\* The cable is believed to have changed exactly when VBUS has read the same on
\* every pass for the debounce time, across dips and the clock's wrap.
CableIsDebounced ==
    /\ [][started /\ cable' # cable => cable' = vbus /\ sample = vbus /\ steady >= Debounce]_vars
    /\ [](phase = "loss" /\ steady >= Debounce => cable = sample)

\* The demo runs once for each time the card becomes READY for the local owner,
\* though it becomes READY, is lost and is lent between two looks.
DemoOncePerReadiness ==
    /\ [][RunDemo => ~demoed]_vars
    /\ [](phase = "usb" /\ owner = "LOCAL" /\ medium = "READY" => demoed)

\* The card comes back: for good without a cable or without a host, and after an
\* eject of a lent card, whatever else the world does.
CardComesBack ==
    /\ (<>[]~vbus) => <>[](owner = "LOCAL")
    /\ (<>[]~configured) => <>[](owner = "LOCAL")
    /\ (eject_pending /\ lending) ~> (owner = "LOCAL")

\* What usb_mode.h says of usb_mode_request: a request the firmware sets back to
\* NONE is one that a step has taken (take_request).
RequestIsTaken == [][request # "NONE" /\ request' = "NONE" => taken = request]_vars

=============================================================================
