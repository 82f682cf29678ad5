------------------------------ MODULE Storage ------------------------------
(***************************************************************************)
(* The storage coordinator (storage/storage.c): who owns the removable     *)
(* card, the condition it is in for that owner, and the epoch that tells   *)
(* every consumer that what it cached is no longer valid.                  *)
(*                                                                         *)
(* The coordinator is cooperative: storage_step runs to its end on the     *)
(* foreground.  The card and the card-detect interrupt are not: they act   *)
(* between any two driver calls of a step.  A step is therefore split at   *)
(* its driver calls, and `phase' says where in the step the code is:       *)
(*                                                                         *)
(*   idle --StepBegin--> change   --> idle                                 *)
(*                   \-> bring_up --> idle                                 *)
(*                          (change or bring_up) --> mount --> idle        *)
(*                                                     \-> judge --> idle  *)
(*                                                                         *)
(* The card and the SD driver are those of CardDriver; the filesystem is   *)
(* its mount state.  Time is counted in units of 250 ms on a clock that    *)
(* wraps, as now_ms does.                                                  *)
(***************************************************************************)
EXTENDS CardDriver, Integers, Sequences

CONSTANTS
    BringUpAttempts,    \* STORAGE_BRING_UP_ATTEMPTS
    BringUpDelays,      \* STORAGE_BRING_UP_DELAYS_MS, one wait per attempt after the first
    RetryInterval,      \* STORAGE_RETRY_INTERVAL_MS
    ReleaseAttempts,    \* STORAGE_RELEASE_ATTEMPTS
    SettleTime,         \* STORAGE_INSERT_SETTLE_MS
    ClockMod,           \* the clock's modulus, 2^32 ms in the code
    MaxLag,             \* the clock ticks that may pass between two steps
    EpochMod            \* the epoch's modulus, 2^32 in the code

ASSUME CountAssumption ==
    /\ BringUpAttempts \in Nat \ {0}
    /\ ReleaseAttempts \in Nat \ {0}
    /\ EpochMod \in Nat \ {0, 1}

ASSUME TimeAssumption ==
    /\ ClockMod \in Nat \ {0, 1}
    /\ RetryInterval \in Nat
    /\ SettleTime \in Nat
    /\ MaxLag \in Nat
    /\ BringUpDelays \in [1 .. (BringUpAttempts - 1) -> Nat]

Owners == {"LOCAL", "USB", "NONE"}
Media == {"ABSENT", "PREPARING", "FAULTY", "UNFORMATTED", "READY"}
Phases == {"idle", "change", "bring_up", "mount", "judge"}
Time == 0 .. (ClockMod - 1)
Never == -1             \* a deadline that is not set

VARIABLES
    now,                \* the millisecond clock
    lag,                \* ticks since the last step began
    upCard,             \* (history) the card the last successful init ran on
    mounted,            \* filesystem_is_mounted
    \* the coordinator
    phase,              \* where in storage_step the code is
    owner, requested_owner, medium, device_up, attempts, epoch,
    retryAt,            \* retry_at_ms while retry_scheduled, otherwise Never
    settleAt,           \* settle_at_ms while settling, otherwise Never
    settled

clock == <<now, lag>>
timers == <<attempts, retryAt, settleAt, settled>>
vars == <<world, clock, initialized, latch, upCard, mounted, phase, owner,
          requested_owner, medium, device_up, epoch, timers>>

TypeOK ==
    /\ card \in Cards \cup {NoCard}
    /\ seated \in BOOLEAN
    /\ now \in Time
    /\ lag \in 0 .. MaxLag
    /\ initialized \in BOOLEAN
    /\ latch \in BOOLEAN
    /\ upCard \in Cards \cup {NoCard}
    /\ mounted \in BOOLEAN
    /\ phase \in Phases
    /\ owner \in Owners
    /\ requested_owner \in Owners
    /\ medium \in Media
    /\ device_up \in BOOLEAN
    /\ attempts \in Nat
    /\ epoch \in 0 .. (EpochMod - 1)
    /\ retryAt \in Time \cup {Never}
    /\ settleAt \in Time \cup {Never}
    /\ settled \in BOOLEAN

-----------------------------------------------------------------------------
(* Helpers *)

\* True once now has reached `at', across a wrap of the clock.
Reached(at) == (now - at) % ClockMod < ClockMod \div 2

After(delay) == (now + delay) % ClockMod

\* A deadline that is not set never holds anything up.
Due(at) == at = Never \/ Reached(at)

Bump(e) == IF e + 1 = EpochMod THEN 0 ELSE e + 1

ClearRetry ==
    /\ attempts' = 0
    /\ retryAt' = Never
    /\ settleAt' = Never
    /\ settled' = FALSE

\* release_device; `held' says that the device is still up afterwards.
ReleaseDevice(held) ==
    /\ held => device_up
    /\ device_up' = held
    /\ IF device_up THEN Deinit(held) ELSE UNCHANGED initialized

LoseMediumForgetsReady ==               \* (mutant) medium is set before was_ready is read
    /\ mounted' = FALSE
    /\ \E held \in BOOLEAN : ReleaseDevice(held)
    /\ medium' = "ABSENT"
    /\ ClearRetry
    /\ UNCHANGED epoch

\* The card is gone: drop everything that depended on it, with no I/O.
LoseMedium ==
    /\ mounted' = FALSE
    /\ \E held \in BOOLEAN : ReleaseDevice(held)
    /\ medium' = "ABSENT"
    /\ ClearRetry
    /\ epoch' = IF medium = "READY" THEN Bump(epoch) ELSE epoch

\* let_go
LetGo ==
    \E held \in BOOLEAN :
        /\ ReleaseDevice(held)
        /\ retryAt' = IF held THEN After(RetryInterval) ELSE Never

\* bring_up_failed: a counted failure.  The last one parks the card as FAULTY
\* and lets go of the device (let_go); a device that is still held is tried
\* again at the retry interval.
BringUpFailed ==
    /\ attempts' = attempts + 1
    /\ \/ /\ attempts + 1 < BringUpAttempts
          /\ medium' = "PREPARING"
          /\ retryAt' = After(BringUpDelays[attempts + 1])
          /\ UNCHANGED <<device_up, initialized>>
       \/ /\ attempts + 1 >= BringUpAttempts
          /\ medium' = "FAULTY"
          /\ LetGo

AttemptReleaseForever(before) ==        \* (mutant) never given up
    \E held \in BOOLEAN :
        /\ ReleaseDevice(held)
        /\ attempts' = before
        /\ medium' = "ABSENT"
        /\ retryAt' = IF held THEN After(RetryInterval) ELSE Never

\* attempt_release, counted on top of the failures `before'.  A device that is
\* still held when the attempts are used up is reported FAULTY and kept.
AttemptRelease(before) ==
    \E held \in BOOLEAN :
        /\ ReleaseDevice(held)
        /\ attempts' = IF held THEN before + 1 ELSE before
        /\ LET given_up == held /\ before + 1 >= ReleaseAttempts
           IN  /\ medium' = IF given_up THEN "FAULTY" ELSE "ABSENT"
               /\ retryAt' = IF held /\ ~given_up THEN After(RetryInterval) ELSE Never

-----------------------------------------------------------------------------
(* storage_init *)

Init ==
    /\ \/ card = NoCard /\ seated = FALSE
       \/ card \in Cards /\ seated = TRUE
    /\ now \in Time
    /\ lag = 0
    /\ initialized = FALSE
    /\ latch = FALSE
    /\ upCard = NoCard
    /\ mounted = FALSE
    /\ phase = "idle"
    /\ owner = "LOCAL"
    /\ requested_owner = "LOCAL"
    /\ medium = "ABSENT"
    /\ device_up = FALSE
    /\ attempts = 0
    /\ epoch = 0
    /\ retryAt = Never
    /\ settleAt = Never
    /\ settled = FALSE

-----------------------------------------------------------------------------
(* Environment: the card, the interrupt, the clock and the requests *)

coordinator == <<phase, owner, requested_owner, medium, device_up, epoch, timers>>

Insert(c) == CardInserted(c) /\ UNCHANGED <<clock, upCard, mounted, coordinator>>

Seat == CardSeats /\ UNCHANGED <<clock, upCard, mounted, coordinator>>

Loosen == CardLoosens /\ UNCHANGED <<clock, upCard, mounted, coordinator>>

Remove == CardRemoved /\ UNCHANGED <<clock, upCard, mounted, coordinator>>

Bounce == SwitchBounces /\ UNCHANGED <<clock, upCard, mounted, coordinator>>

Tick ==
    /\ phase = "idle"
    /\ lag < MaxLag
    /\ lag' = lag + 1
    /\ now' = (now + 1) % ClockMod
    /\ UNCHANGED <<world, initialized, latch, upCard, mounted, coordinator>>

\* storage_request_owner, called by the foreground between two steps.
RequestOwner(o) ==
    /\ phase = "idle"
    /\ requested_owner # o
    /\ requested_owner' = o
    /\ UNCHANGED <<world, clock, initialized, latch, upCard, mounted, phase,
                   owner, medium, device_up, epoch, timers>>

-----------------------------------------------------------------------------
(* storage_step, phase 1 *)

\* watch_for_loss, then the choice between an owner change and bring-up.
StepBegin ==
    /\ phase = "idle"
    /\ phase' = IF requested_owner # owner THEN "change" ELSE "bring_up"
    /\ lag' = 0
    /\ IF device_up /\ DeviceGone
       THEN LoseMedium
       ELSE UNCHANGED <<mounted, initialized, medium, device_up, epoch, timers>>
    /\ UNCHANGED <<world, now, latch, upCard, owner, requested_owner>>

-----------------------------------------------------------------------------
(* storage_step, phase 2: change_owner *)

ChangeOwnerStillMounted ==              \* (mutant) filesystem_unmount is dropped
    /\ phase = "change"
    /\ owner' = requested_owner
    /\ epoch' = Bump(epoch)
    /\ UNCHANGED <<mounted, world, clock, latch, upCard, requested_owner>>

ChangeOwner ==
    /\ phase = "change"
    /\ owner' = requested_owner
    /\ epoch' = Bump(epoch)
    /\ mounted' = IF owner = "LOCAL" THEN FALSE ELSE mounted
    /\ UNCHANGED <<world, clock, latch, upCard, requested_owner>>

\* Release the card so that its power can be cut.
ReleaseToNone ==
    /\ ChangeOwner
    /\ requested_owner = "NONE"
    /\ AttemptRelease(0)
    /\ settleAt' = Never
    /\ settled' = FALSE
    /\ phase' = "idle"

\* Back from NONE: whatever is in the socket is a card just inserted, unless
\* an unreleased device cannot be let go even now.
Reclaim ==
    /\ ChangeOwner
    /\ owner = "NONE"
    /\ attempts' = 0
    /\ settleAt' = Never
    /\ settled' = FALSE
    /\ LetGo
    /\ medium' = IF device_up' THEN "FAULTY" ELSE "ABSENT"
    /\ phase' = "idle"

\* No card, a card still being brought up, or a faulty one: the bring-up phase
\* carries on for the new owner.
HandOverUnready ==
    /\ ChangeOwner
    /\ {owner, requested_owner} = {"LOCAL", "USB"}
    /\ ~device_up \/ medium = "FAULTY"
    /\ phase' = "idle"
    /\ UNCHANGED <<initialized, medium, device_up, timers>>

LendToUsbUnchecked ==                   \* (mutant) device_up is not asked
    /\ ChangeOwner
    /\ owner = "LOCAL" /\ requested_owner = "USB"
    /\ medium # "FAULTY"
    /\ medium' = "READY"
    /\ ClearRetry
    /\ phase' = "idle"
    /\ UNCHANGED <<initialized, device_up>>

LendToUsb ==
    /\ ChangeOwner
    /\ owner = "LOCAL" /\ requested_owner = "USB"
    /\ device_up /\ medium # "FAULTY"
    /\ medium' = "READY"
    /\ ClearRetry
    /\ phase' = "idle"
    /\ UNCHANGED <<initialized, device_up>>

TakeBackStillReady ==                   \* (mutant) READY until the mount says otherwise
    /\ ChangeOwner
    /\ owner = "USB" /\ requested_owner = "LOCAL"
    /\ device_up /\ medium # "FAULTY"
    /\ phase' = "mount"
    /\ UNCHANGED <<initialized, device_up, medium, timers>>

TakeBackFromUsb ==
    /\ ChangeOwner
    /\ owner = "USB" /\ requested_owner = "LOCAL"
    /\ device_up /\ medium # "FAULTY"
    /\ medium' = "PREPARING"
    /\ phase' = "mount"
    /\ UNCHANGED <<initialized, device_up, timers>>

-----------------------------------------------------------------------------
(* storage_step, phase 3: bring_up *)

BringUp ==
    /\ phase = "bring_up"
    /\ UNCHANGED <<world, clock, owner, requested_owner, epoch, mounted>>

\* READY and UNFORMATTED media are left alone; so is a pending retry until it
\* is due, and under NONE everything but a release that is still being tried.
NothingDue ==
    /\ BringUp
    /\ \/ owner = "NONE" /\ ~(device_up /\ retryAt # Never /\ Reached(retryAt))
       \/ owner # "NONE" /\ medium \in {"READY", "UNFORMATTED"}
       \/ owner # "NONE" /\ medium = "FAULTY" /\ device_up /\ ~Due(retryAt)
       \/ owner # "NONE" /\ medium \in {"ABSENT", "PREPARING"} /\ ~Due(retryAt)
    /\ phase' = "idle"
    /\ UNCHANGED <<latch, upCard, initialized, medium, device_up, timers>>

RetryRelease ==
    /\ BringUp
    /\ owner = "NONE"
    /\ device_up /\ retryAt # Never /\ Reached(retryAt)
    /\ AttemptRelease(attempts)
    /\ phase' = "idle"
    /\ UNCHANGED <<latch, upCard, settleAt, settled>>

\* handle_faulty with the device still held: let_go again.
LetGoOfFaulty ==
    /\ BringUp
    /\ owner # "NONE" /\ medium = "FAULTY"
    /\ device_up /\ Due(retryAt)
    /\ LetGo
    /\ phase' = "idle"
    /\ UNCHANGED <<latch, upCard, medium, attempts, settleAt, settled>>

WatchFaultyBlindly ==                   \* (mutant) the socket is not asked
    /\ BringUp
    /\ owner # "NONE" /\ medium = "FAULTY"
    /\ ~device_up
    /\ medium' = "ABSENT" /\ ClearRetry
    /\ phase' = "idle"
    /\ UNCHANGED <<latch, upCard, initialized, device_up>>

WatchFaultyNever ==                     \* (mutant) FAULTY is forever
    /\ BringUp
    /\ owner # "NONE" /\ medium = "FAULTY"
    /\ ~device_up
    /\ phase' = "idle"
    /\ UNCHANGED <<latch, upCard, initialized, device_up, medium, timers>>

\* handle_faulty with the device released: a faulty card is left alone until
\* the socket reads empty.
WatchFaulty ==
    /\ BringUp
    /\ owner # "NONE" /\ medium = "FAULTY"
    /\ ~device_up
    /\ \E present \in PresenceReadings :
          IF present
          THEN UNCHANGED <<medium, timers>>
          ELSE medium' = "ABSENT" /\ ClearRetry
    /\ phase' = "idle"
    /\ UNCHANGED <<latch, upCard, initialized, device_up>>

\* The part of bring_up that looks at the socket.
BringUpDue ==
    /\ BringUp
    /\ owner # "NONE" /\ medium \in {"ABSENT", "PREPARING"}
    /\ Due(retryAt)

SocketEmpty ==
    /\ BringUpDue
    /\ ~device_up
    /\ FALSE \in PresenceReadings
    /\ medium' = "ABSENT"
    /\ ClearRetry
    /\ phase' = "idle"
    /\ UNCHANGED <<latch, upCard, initialized, device_up>>

\* The insertion settle wait: started by the first sample that reads present,
\* then waited out.
Settle ==
    /\ BringUpDue
    /\ ~device_up /\ ~settled
    /\ TRUE \in PresenceReadings
    /\ retryAt' = Never
    /\ \/ /\ settleAt = Never
          /\ settleAt' = After(SettleTime)
          /\ medium' = "PREPARING"
       \/ /\ settleAt # Never /\ ~Reached(settleAt)
          /\ UNCHANGED <<settleAt, medium>>
    /\ phase' = "idle"
    /\ UNCHANGED <<latch, upCard, initialized, device_up, attempts, settled>>

InitDueOnceSettled ==                   \* (mutant) `settled' is not kept for the retries
    /\ BringUpDue
    /\ ~device_up
    /\ TRUE \in PresenceReadings
    /\ settleAt # Never /\ Reached(settleAt)

\* A bring-up attempt on a card that has settled may start.
InitDue ==
    /\ BringUpDue
    /\ ~device_up
    /\ TRUE \in PresenceReadings
    /\ settled \/ (settleAt # Never /\ Reached(settleAt))

\* The device is up: for USB the card is ready, for LOCAL it is mounted next.
DeviceIsUp ==
    IF owner = "USB"
    THEN /\ medium' = "READY"
         /\ ClearRetry
         /\ phase' = "idle"
    ELSE /\ medium' = "PREPARING"
         /\ settleAt' = Never
         /\ settled' = (settled \/ ~device_up)
         /\ retryAt' = Never
         /\ phase' = "mount"
         /\ UNCHANGED attempts

InitSucceeds ==
    /\ InitDue
    /\ InitOk
    /\ device_up' = TRUE
    /\ upCard' = card
    /\ DeviceIsUp

\* A mount that failed on a card still there is tried again.
RetryMount ==
    /\ BringUpDue
    /\ device_up
    /\ DeviceIsUp
    /\ UNCHANGED <<latch, upCard, initialized, device_up>>

\* A card refused as not seated is not counted, and settles again.
InitRefused ==
    /\ InitDue
    /\ InitRefuses
    /\ medium' = "ABSENT"
    /\ retryAt' = Never
    /\ settleAt' = Never
    /\ settled' = FALSE
    /\ phase' = "idle"
    /\ UNCHANGED <<device_up, upCard, attempts>>

\* Any other failure of init is counted against the card.
InitFails ==
    /\ InitDue
    /\ InitErrs
    /\ BringUpFailed
    /\ settleAt' = Never
    /\ settled' = TRUE
    /\ phase' = "idle"
    /\ UNCHANGED upCard

-----------------------------------------------------------------------------
(* mount_now *)

\* What filesystem_mount may answer.  Once the removal is latched the driver
\* answers nothing but INVALID_DEVICE.
MountResults ==
    IF DeviceGone \/ card = NoCard
    THEN {"failed"}
    ELSE (IF card \notin Blank THEN {"ok"} ELSE {})
         \cup (IF card \notin Good THEN {"no_filesystem"} ELSE {})
         \cup (IF Troubled THEN {"failed"} ELSE {})

Mounting ==
    /\ phase = "mount"
    /\ UNCHANGED <<world, clock, initialized, latch, upCard, owner,
                   requested_owner, device_up, epoch>>

MountSucceeds ==
    /\ Mounting
    /\ "ok" \in MountResults
    /\ mounted' = TRUE
    /\ medium' = "READY"
    /\ ClearRetry
    /\ phase' = "idle"

MountFindsNoFilesystem ==
    /\ Mounting
    /\ "no_filesystem" \in MountResults
    /\ medium' = "UNFORMATTED"
    /\ ClearRetry
    /\ phase' = "idle"
    /\ UNCHANGED mounted

MountFails ==
    /\ Mounting
    /\ "failed" \in MountResults
    /\ phase' = "judge"
    /\ UNCHANGED <<mounted, medium, timers>>

\* A failed mount is a removal if the device is gone by now, and a counted
\* failure otherwise.
JudgeFailedMount ==
    /\ phase = "judge"
    /\ IF DeviceGone
       THEN LoseMedium
       ELSE BringUpFailed /\ UNCHANGED <<settleAt, settled, mounted, epoch>>
    /\ phase' = "idle"
    /\ UNCHANGED <<world, clock, latch, upCard, owner, requested_owner>>

-----------------------------------------------------------------------------
(* storage_request_pending and storage_usb_device *)

RequestPendingOnly == requested_owner # owner    \* (mutant) releasing is left out

RequestPending ==
    \/ requested_owner # owner
    \/ owner = "NONE" /\ device_up /\ medium # "FAULTY"

UsbDeviceLent == owner = "USB" /\ medium = "READY"

-----------------------------------------------------------------------------
(* Specification *)

Environment ==
    \/ \E c \in Cards : Insert(c)
    \/ Seat \/ Loosen \/ Remove \/ Bounce \/ Tick
    \/ \E o \in Owners : RequestOwner(o)

StepPart ==
    \/ StepBegin
    \/ ReleaseToNone \/ Reclaim \/ HandOverUnready \/ LendToUsb \/ TakeBackFromUsb
    \/ NothingDue \/ RetryRelease \/ LetGoOfFaulty \/ WatchFaulty
    \/ SocketEmpty \/ Settle \/ InitSucceeds \/ InitRefused \/ InitFails \/ RetryMount
    \/ MountSucceeds \/ MountFindsNoFilesystem \/ MountFails \/ JudgeFailedMount

Next == Environment \/ StepPart

Spec == Init /\ [][Next]_vars

\* main's loop calls storage_step on every pass, and every driver call of a
\* step returns.  The clock runs whatever the code does; it is strongly fair
\* because now_ms is read once per step, so the model moves it between steps.
\* Nothing is assumed of the card or of who asks for it.
Fairness == WF_vars(StepPart) /\ SF_vars(Tick)

FairSpec == Spec /\ Fairness

-----------------------------------------------------------------------------
(* Safety *)

\* The filesystem is mounted exactly while the local owner's medium is READY:
\* never under the USB owner (two writers of one volume), never on a released
\* card, and at no point inside a step (storage.h, the meaning of READY).
MountedExactlyWhenLocalReady ==
    mounted <=> (owner = "LOCAL" /\ medium = "READY")

\* Whatever is offered as READY, mounted or lent to USB, is the card its init
\* ran on, or its removal is latched and every access is refused: a card that
\* was swapped is never written through the state of the one before.
SwappedCardIsLatched ==
    medium \in {"READY", "UNFORMATTED"} => (latch \/ (initialized /\ card = upCard))

\* When the coordinator reports the release as done and not as FAULTY, the
\* driver has let go of the card, so the rail may be cut (storage.h,
\* storage_request_pending).
PowerCutIsSafe ==
    (owner = "NONE" /\ ~RequestPending /\ medium # "FAULTY") => ~initialized /\ ~mounted

\* A release that has not succeeded is either going to be retried or given up
\* as FAULTY; it can never be left pending with nothing scheduled, because the
\* NONE owner does nothing else (bring_up).
ReleaseNeverStranded ==
    (owner = "NONE" /\ initialized) => (retryAt # Never \/ medium = "FAULTY")

\* A medium that stops being READY, or changes hands, always changes the epoch
\* in the same driver-call-free piece of a step (storage_epoch): a consumer
\* that sees an old epoch holds nothing that has since become invalid.
EpochMarksEveryLoss ==
    [][ (medium = "READY" /\ (medium' # "READY" \/ owner' # owner \/ upCard' # upCard))
            => epoch' # epoch ]_vars

\* A card parked as FAULTY is left alone: no bring-up touches it until it has
\* left the socket (its removal was latched, or the socket read empty) or was
\* released and reclaimed.
FaultyIsLeftAlone ==
    [][ (medium = "FAULTY" /\ medium' # "FAULTY")
            => /\ medium' = "ABSENT"
               /\ \/ latch \/ ~seated
                  \/ "NONE" \in {owner, owner'} /\ owner' # owner ]_vars

\* Storage implements what storage.h promises: every driver-call-free piece of
\* a step is one transition of the contract, or none.
Contract == INSTANCE StorageContract

ImplementsContract == Contract!CSpec

-----------------------------------------------------------------------------
(* The inductive invariant behind the safety properties *)

\* The coordinator's belief is the driver's state, even across a deinit that
\* failed and an init that rolled back.
DriverAgrees == device_up = initialized

\* The driver's state belongs to the card in the socket until a removal is
\* latched, and only init clears the latch.
UpCardUntilLatched ==
    /\ seated => card # NoCard
    /\ device_up => (latch \/ (card = upCard /\ card # NoCard))

\* What each medium says of the device, owner by owner.
MediumFitsOwner ==
    /\ medium \in {"READY", "UNFORMATTED"} => device_up
    /\ medium = "UNFORMATTED" => owner = "LOCAL"
    /\ owner = "NONE" => medium \in {"ABSENT", "FAULTY"}
    /\ owner = "NONE" /\ ~device_up => medium = "ABSENT"
    /\ owner # "NONE" /\ device_up => medium # "ABSENT"
    /\ owner = "USB" /\ device_up => medium \in {"READY", "FAULTY"}

\* Bring-up history is only kept for a card that is being brought up or was
\* given up on; a release that failed has a retry or a verdict.
HistoryFitsMedium ==
    /\ medium = "ABSENT" => settleAt = Never /\ ~settled
    /\ owner = "NONE" /\ device_up => (retryAt = Never <=> medium = "FAULTY")

PhaseFits ==
    /\ phase = "change" => requested_owner # owner
    /\ phase \in {"bring_up", "mount", "judge"} => requested_owner = owner
    /\ phase \in {"mount", "judge"} => owner = "LOCAL" /\ device_up /\ medium = "PREPARING"

IInv ==
    /\ TypeOK
    /\ DriverAgrees
    /\ UpCardUntilLatched
    /\ MountedExactlyWhenLocalReady
    /\ MediumFitsOwner
    /\ HistoryFitsMedium
    /\ PhaseFits

-----------------------------------------------------------------------------
(* Liveness, under Fairness *)

\* A card that ends up seated in the socket, and is neither failing nor taken
\* away from an owner, ends up usable, unless it was parked while loose.
GoodCardBecomesUsable ==
    \A o \in {"LOCAL", "USB"} :
        (<>[](seated /\ card \in Good /\ requested_owner = o))
            => <>[](owner = o /\ medium \in {"READY", "FAULTY"})

\* A removal is noticed once the requests settle on an owner, and leaves neither
\* a mount nor a device up.  (A request that changes at every step keeps the
\* step from ever looking at the socket.)
RemovalIsNoticed ==
    \A o \in {"LOCAL", "USB"} :
        (<>[](card = NoCard /\ requested_owner = o))
            => <>[](medium = "ABSENT" /\ ~initialized /\ ~mounted)

\* A release that is not taken back is done or given up, on any card.
ReleaseFinishes ==
    (<>[](requested_owner = "NONE")) => <>[](owner = "NONE" /\ ~RequestPending)

=============================================================================
