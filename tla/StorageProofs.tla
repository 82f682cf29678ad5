--------------------------- MODULE StorageProofs ---------------------------
(***************************************************************************)
(* Theorems about the storage coordinator, for every value of the          *)
(* constants: its type invariant, its safety invariants and the epoch's    *)
(* action property all follow from the inductive invariant IInv of         *)
(* Storage, and every step it takes is a step of StorageContract.          *)
(***************************************************************************)
EXTENDS StorageCardHistory, TLAPS

-----------------------------------------------------------------------------
(* Arithmetic on the wrapping clock and epoch *)

\* A deadline computed on the wrapping clock is a time of that clock.
LEMMA WrapIsTime ==
    ASSUME NEW d \in Nat, NEW t \in Time
    PROVE  (t + d) % ClockMod \in Time
BY TimeAssumption DEF Time

\* The epoch stays in its range and always changes when it is bumped.
LEMMA BumpChanges ==
    ASSUME NEW e \in 0 .. (EpochMod - 1)
    PROVE  /\ Bump(e) \in 0 .. (EpochMod - 1)
           /\ Bump(e) # e
BY CountAssumption DEF Bump

LEMMA AfterIsTime ==
    ASSUME TypeOK, NEW d \in Nat
    PROVE  After(d) \in Time
BY WrapIsTime DEF After, TypeOK

\* Every wait the coordinator schedules ends at a time of the clock.
LEMMA DeadlinesAreTimes ==
    ASSUME TypeOK
    PROVE  /\ After(RetryInterval) \in Time
           /\ After(SettleTime) \in Time
           /\ Never \notin Time
           /\ attempts + 1 < BringUpAttempts => After(BringUpDelays[attempts + 1]) \in Time
<1>1. attempts + 1 < BringUpAttempts => BringUpDelays[attempts + 1] \in Nat
  BY CountAssumption, TimeAssumption DEF TypeOK
<1>2. Never \notin Time
  BY DEF Never, Time
<1>3. QED
  BY <1>1, <1>2, AfterIsTime, TimeAssumption

-----------------------------------------------------------------------------
(* What the coordinator's helpers do *)

\* A release leaves the driver and the coordinator agreeing, and holds on only
\* to a device that was up on a card whose removal is not latched.
LEMMA ReleaseDeviceEffect ==
    ASSUME IInv, NEW held \in BOOLEAN, ReleaseDevice(held)
    PROVE  /\ device_up' = held
           /\ initialized' = held
           /\ held => device_up /\ ~latch
BY DEF IInv, TypeOK, DriverAgrees, ReleaseDevice, Deinit, MayStickBusy

LEMMA LetGoEffect ==
    ASSUME IInv, LetGo
    PROVE  /\ device_up' \in BOOLEAN
           /\ initialized' = device_up'
           /\ device_up' => device_up /\ ~latch
           /\ retryAt' \in Time \cup {Never}
<1>1. PICK held \in BOOLEAN :
         ReleaseDevice(held) /\ retryAt' = IF held THEN After(RetryInterval) ELSE Never
  BY DEF LetGo
<1>2. QED
  BY <1>1, ReleaseDeviceEffect, DeadlinesAreTimes DEF IInv

\* A counted failure never brings a device up.
LEMMA BringUpFailedEffect ==
    ASSUME IInv, BringUpFailed
    PROVE  /\ attempts' \in Nat
           /\ medium' \in {"PREPARING", "FAULTY"}
           /\ device_up' \in BOOLEAN
           /\ initialized' = device_up'
           /\ device_up' => device_up
           /\ retryAt' \in Time \cup {Never}
<1>1. CASE attempts + 1 < BringUpAttempts
  BY <1>1, CountAssumption, DeadlinesAreTimes DEF BringUpFailed, IInv, TypeOK, DriverAgrees
<1>2. CASE attempts + 1 >= BringUpAttempts
  BY <1>2, CountAssumption, LetGoEffect DEF BringUpFailed, IInv, TypeOK
<1>3. QED
  BY <1>1, <1>2, CountAssumption DEF IInv, TypeOK

\* A release attempt ends in a free device, a scheduled retry or a verdict.
LEMMA AttemptReleaseEffect ==
    ASSUME IInv, NEW before \in Nat, AttemptRelease(before)
    PROVE  /\ attempts' \in Nat
           /\ medium' \in {"ABSENT", "FAULTY"}
           /\ device_up' \in BOOLEAN
           /\ initialized' = device_up'
           /\ device_up' => device_up /\ ~latch
           /\ device_up' => (retryAt' = Never <=> medium' = "FAULTY")
           /\ ~device_up' => medium' = "ABSENT"
           /\ retryAt' \in Time \cup {Never}
<1>1. PICK held \in BOOLEAN :
        /\ ReleaseDevice(held)
        /\ attempts' = IF held THEN before + 1 ELSE before
        /\ medium' = IF held /\ before + 1 >= ReleaseAttempts THEN "FAULTY" ELSE "ABSENT"
        /\ retryAt' = IF held /\ ~(held /\ before + 1 >= ReleaseAttempts)
                      THEN After(RetryInterval) ELSE Never
  BY DEF AttemptRelease
<1>2. /\ device_up' = held
      /\ initialized' = held
      /\ held => device_up /\ ~latch
  BY <1>1, ReleaseDeviceEffect
<1>3. QED
  BY <1>1, <1>2, DeadlinesAreTimes DEF IInv

\* Losing the medium on a latched removal leaves nothing held and no history.
LEMMA LoseMediumEffect ==
    ASSUME IInv, LoseMedium, device_up, DeviceGone
    PROVE  /\ device_up' = FALSE /\ initialized' = FALSE
           /\ mounted' = FALSE
           /\ medium' = "ABSENT"
           /\ retryAt' = Never /\ settleAt' = Never /\ settled' = FALSE
           /\ attempts' \in Nat
           /\ epoch' \in 0 .. (EpochMod - 1)
           /\ medium = "READY" => epoch' # epoch
           /\ medium # "READY" => epoch' = epoch
<1>1. latch
  BY DEF DeviceGone, IInv, TypeOK, DriverAgrees
<1>2. PICK held \in BOOLEAN : ReleaseDevice(held)
  BY DEF LoseMedium
<1>3. /\ device_up' = FALSE
      /\ initialized' = FALSE
  BY <1>1, <1>2, ReleaseDeviceEffect
<1>4. epoch' \in 0 .. (EpochMod - 1) /\ (medium = "READY" => epoch' # epoch)
  BY BumpChanges DEF LoseMedium, IInv, TypeOK
<1>5. QED
  BY <1>3, <1>4 DEF LoseMedium, ClearRetry

\* A device that is up is ready for USB and about to be mounted for LOCAL.
LEMMA DeviceIsUpEffect ==
    ASSUME IInv, DeviceIsUp, owner # "NONE"
    PROVE  /\ owner = "USB" => medium' = "READY" /\ phase' = "idle"
           /\ owner = "LOCAL" => medium' = "PREPARING" /\ phase' = "mount"
           /\ attempts' \in Nat
           /\ retryAt' = Never
           /\ settleAt' = Never
           /\ settled' \in BOOLEAN
<1>1. CASE owner = "USB"
  <2>1. /\ medium' = "READY" /\ phase' = "idle" /\ ClearRetry
    BY <1>1 DEF DeviceIsUp
  <2>2. attempts' \in Nat
   BY <2>1 DEF ClearRetry
  <2>3. retryAt' = Never /\ settleAt' = Never
   BY <2>1 DEF ClearRetry
  <2>4. settled' \in BOOLEAN
   BY <2>1 DEF ClearRetry
  <2>5. QED
   BY <1>1, <2>1, <2>2, <2>3, <2>4
<1>2. CASE owner = "LOCAL"
  BY <1>2 DEF DeviceIsUp, IInv, TypeOK
<1>3. QED
  BY <1>1, <1>2 DEF IInv, TypeOK, Owners

-----------------------------------------------------------------------------
(* The inductive invariant *)

\* The coordinator starts with no device up and nothing mounted.
LEMMA InitIInv == Init => IInv
<1> SUFFICES ASSUME Init PROVE IInv
  OBVIOUS
<1>1. TypeOK
  <2>1. card \in Cards \cup {NoCard} /\ seated \in BOOLEAN
    BY DEF Init
  <2>2. lag \in 0 .. MaxLag /\ epoch \in 0 .. (EpochMod - 1) /\ attempts \in Nat
    BY CountAssumption, TimeAssumption DEF Init
  <2>3. owner \in Owners /\ requested_owner \in Owners /\ medium \in Media /\ phase \in Phases
    BY DEF Init, Owners, Media, Phases
  <2>4. QED
    BY <2>1, <2>2, <2>3 DEF Init, TypeOK
<1>2. DriverAgrees /\ UpCardUntilLatched
  BY CardAssumption DEF Init, DriverAgrees, UpCardUntilLatched, Cards
<1>3. MountedExactlyWhenLocalReady /\ MediumFitsOwner
  BY DEF Init, MountedExactlyWhenLocalReady, MediumFitsOwner
<1>4. HistoryFitsMedium /\ PhaseFits
  BY DEF Init, HistoryFitsMedium, PhaseFits
<1>5. QED
  BY <1>1, <1>2, <1>3, <1>4 DEF IInv

\* Every action keeps the invariant.
LEMMA NextIInv == IInv /\ [Next]_vars => IInv'
<1> SUFFICES ASSUME IInv, [Next]_vars PROVE IInv'
  OBVIOUS
<1> USE DEF IInv, TypeOK, DriverAgrees, UpCardUntilLatched, MountedExactlyWhenLocalReady,
            MediumFitsOwner, HistoryFitsMedium, PhaseFits, world, clock, timers
<1>1. ASSUME NEW c \in Cards, Insert(c) PROVE IInv'
  <2>1. c # NoCard
    BY CardAssumption DEF Cards
  <2>2. QED
    BY <1>1, <2>1 DEF Insert, CardInserted, coordinator
<1>2. CASE Seat
  <2>1. TypeOK'
    BY <1>2 DEF Seat, CardSeats, coordinator
  <2>2. DriverAgrees' /\ UpCardUntilLatched' /\ MountedExactlyWhenLocalReady'
    BY <1>2 DEF Seat, CardSeats, coordinator
  <2>3. MediumFitsOwner' /\ HistoryFitsMedium' /\ PhaseFits'
    BY <1>2 DEF Seat, CardSeats, coordinator
  <2> QED
    BY <2>1, <2>2, <2>3 DEF IInv
<1>3. CASE Loosen
  <2>1. TypeOK'
    BY <1>3 DEF Loosen, CardLoosens, coordinator
  <2>2. DriverAgrees' /\ UpCardUntilLatched' /\ MountedExactlyWhenLocalReady'
    BY <1>3 DEF Loosen, CardLoosens, coordinator
  <2>3. MediumFitsOwner' /\ HistoryFitsMedium' /\ PhaseFits'
    BY <1>3 DEF Loosen, CardLoosens, coordinator
  <2> QED
    BY <2>1, <2>2, <2>3 DEF IInv
<1>4. CASE Remove
  BY <1>4 DEF Remove, CardRemoved, coordinator
<1>5. CASE Bounce
  BY <1>5 DEF Bounce, SwitchBounces, coordinator
<1>6. CASE Tick
  <2>1. now' \in Time /\ lag' \in 0 .. MaxLag
    BY <1>6, WrapIsTime, TimeAssumption DEF Tick
  <2>2. QED
    BY <1>6, <2>1 DEF Tick, coordinator
<1>7. ASSUME NEW o \in Owners, RequestOwner(o) PROVE IInv'
  BY <1>7 DEF RequestOwner
<1>8. CASE StepBegin
  <2>1. lag' \in 0 .. MaxLag
    BY <1>8, TimeAssumption DEF StepBegin
  <2>2. CASE device_up /\ DeviceGone
    <3>1. TypeOK'
      <4>1. medium' \in Media /\ phase' \in Phases /\ attempts' \in Nat
        BY <1>8, <2>2, LoseMediumEffect DEF StepBegin, Media, Phases
      <4>2. /\ mounted' \in BOOLEAN /\ device_up' \in BOOLEAN
            /\ initialized' \in BOOLEAN /\ settled' \in BOOLEAN
        BY <1>8, <2>2, LoseMediumEffect DEF StepBegin
      <4>3. retryAt' \in Time \cup {Never} /\ settleAt' \in Time \cup {Never}
        BY <1>8, <2>2, LoseMediumEffect DEF StepBegin
      <4>4. QED
        BY <1>8, <2>2, <2>1, <4>1, <4>2, <4>3, LoseMediumEffect DEF StepBegin
    <3>2. DriverAgrees' /\ UpCardUntilLatched' /\ MountedExactlyWhenLocalReady'
      BY <1>8, <2>2, LoseMediumEffect DEF StepBegin
    <3>3. MediumFitsOwner' /\ HistoryFitsMedium' /\ PhaseFits'
      BY <1>8, <2>2, LoseMediumEffect DEF StepBegin
    <3>4. QED
      BY <3>1, <3>2, <3>3 DEF IInv
  <2>3. CASE ~(device_up /\ DeviceGone)
    BY <1>8, <2>1, <2>3 DEF StepBegin, Phases
  <2>4. QED
    BY <2>2, <2>3
<1>9. CASE ReleaseToNone
  BY <1>9, AttemptReleaseEffect, BumpChanges DEF ReleaseToNone, ChangeOwner, Owners, Media, Phases
<1>10. CASE Reclaim
  BY <1>10, LetGoEffect, BumpChanges DEF Reclaim, ChangeOwner, Owners, Media, Phases
<1>11. CASE HandOverUnready
  <2>1. /\ owner \in {"LOCAL", "USB"}
        /\ requested_owner \in {"LOCAL", "USB"}
        /\ requested_owner # owner
    BY <1>11 DEF HandOverUnready, ChangeOwner
  <2>2. epoch' \in 0 .. (EpochMod - 1)
    BY <1>11, BumpChanges DEF HandOverUnready, ChangeOwner
  <2>3. TypeOK'
    BY <1>11, <2>1, <2>2 DEF HandOverUnready, ChangeOwner, Owners, Phases
  <2>4. DriverAgrees' /\ UpCardUntilLatched' /\ MountedExactlyWhenLocalReady'
    BY <1>11, <2>1, <2>2 DEF HandOverUnready, ChangeOwner, Owners, Phases
  <2>5. MediumFitsOwner' /\ HistoryFitsMedium' /\ PhaseFits'
    BY <1>11, <2>1, <2>2 DEF HandOverUnready, ChangeOwner, Owners, Phases
  <2> QED
    BY <2>3, <2>4, <2>5 DEF IInv
<1>12. CASE LendToUsb
  BY <1>12, BumpChanges DEF LendToUsb, ChangeOwner, ClearRetry, Owners, Media, Phases
<1>13. CASE TakeBackFromUsb
  BY <1>13, BumpChanges DEF TakeBackFromUsb, ChangeOwner, Owners, Media, Phases
<1>14. CASE NothingDue
  BY <1>14 DEF NothingDue, BringUp, Due, Owners, Media, Phases
<1>15. CASE RetryRelease
  BY <1>15, AttemptReleaseEffect DEF RetryRelease, BringUp, Owners, Media, Phases
<1>16. CASE LetGoOfFaulty
  BY <1>16, LetGoEffect DEF LetGoOfFaulty, BringUp, Owners, Media, Phases
<1>17. CASE WatchFaulty
  <2>1. CASE UNCHANGED <<medium, timers>>
    BY <1>17, <2>1 DEF WatchFaulty, BringUp, Phases
  <2>2. CASE medium' = "ABSENT" /\ ClearRetry
    BY <1>17, <2>2 DEF WatchFaulty, BringUp, ClearRetry, Media, Phases
  <2>3. QED
    BY <1>17, <2>1, <2>2 DEF WatchFaulty
<1>18. CASE SocketEmpty
  BY <1>18 DEF SocketEmpty, BringUp, BringUpDue, ClearRetry, Owners, Media, Phases
<1>19. CASE Settle
  BY <1>19, DeadlinesAreTimes DEF Settle, BringUp, BringUpDue, Owners, Media, Phases
<1>20. CASE InitSucceeds
  <2>1. /\ DeviceIsUp /\ owner # "NONE" /\ card # NoCard
        /\ device_up' = TRUE /\ initialized' = TRUE /\ latch' = FALSE /\ upCard' = card
        /\ UNCHANGED <<world, clock, owner, requested_owner, epoch, mounted>>
        /\ medium \in {"ABSENT", "PREPARING"} /\ phase = "bring_up"
    BY <1>20 DEF InitSucceeds, InitOk, BringUp, BringUpDue, InitDue
  <2>2. TypeOK'
    BY <2>1, DeviceIsUpEffect DEF Owners, Media, Phases
  <2>3. DriverAgrees' /\ UpCardUntilLatched' /\ MountedExactlyWhenLocalReady'
    BY <2>1, DeviceIsUpEffect DEF Owners, Media, Phases
  <2>4. MediumFitsOwner' /\ HistoryFitsMedium' /\ PhaseFits'
    BY <2>1, DeviceIsUpEffect DEF Owners, Media, Phases
  <2> QED
    BY <2>2, <2>3, <2>4 DEF IInv
<1>21. CASE InitRefused
  <2>1. TypeOK'
    BY <1>21 DEF InitRefused, InitRefuses, BringUp, BringUpDue, InitDue, Owners, Media, Phases
  <2>2. DriverAgrees' /\ UpCardUntilLatched' /\ MountedExactlyWhenLocalReady'
    BY <1>21 DEF InitRefused, InitRefuses, BringUp, BringUpDue, InitDue, Owners, Media, Phases
  <2>3. MediumFitsOwner' /\ HistoryFitsMedium' /\ PhaseFits'
    BY <1>21 DEF InitRefused, InitRefuses, BringUp, BringUpDue, InitDue, Owners, Media, Phases
  <2> QED
    BY <2>1, <2>2, <2>3 DEF IInv
<1>22. CASE InitFails
  <2>1. TypeOK'
    BY <1>22, BringUpFailedEffect DEF InitFails, InitErrs, BringUp, BringUpDue, InitDue, Owners, Media, Phases
  <2>2. DriverAgrees' /\ UpCardUntilLatched' /\ MountedExactlyWhenLocalReady'
    BY <1>22, BringUpFailedEffect DEF InitFails, InitErrs, BringUp, BringUpDue, InitDue, Owners, Media, Phases
  <2>3. MediumFitsOwner' /\ HistoryFitsMedium' /\ PhaseFits'
    BY <1>22, BringUpFailedEffect DEF InitFails, InitErrs, BringUp, BringUpDue, InitDue, Owners, Media, Phases
  <2> QED
    BY <2>1, <2>2, <2>3 DEF IInv
<1>23. CASE RetryMount
  BY <1>23, DeviceIsUpEffect DEF RetryMount, BringUp, BringUpDue, Owners, Media, Phases
<1>24. CASE MountSucceeds
  BY <1>24 DEF MountSucceeds, Mounting, ClearRetry, Owners, Media, Phases
<1>25. CASE MountFindsNoFilesystem
  BY <1>25 DEF MountFindsNoFilesystem, Mounting, ClearRetry, Owners, Media, Phases
<1>26. CASE MountFails
  BY <1>26 DEF MountFails, Mounting, Owners, Media, Phases
<1>27. CASE JudgeFailedMount
  <2>1. CASE DeviceGone
    <3>1. TypeOK'
      <4>1. medium' \in Media /\ phase' \in Phases /\ attempts' \in Nat
        BY <1>27, <2>1, LoseMediumEffect DEF JudgeFailedMount, Media, Phases
      <4>2. /\ mounted' \in BOOLEAN /\ device_up' \in BOOLEAN
            /\ initialized' \in BOOLEAN /\ settled' \in BOOLEAN
        BY <1>27, <2>1, LoseMediumEffect DEF JudgeFailedMount
      <4>3. retryAt' \in Time \cup {Never} /\ settleAt' \in Time \cup {Never}
        BY <1>27, <2>1, LoseMediumEffect DEF JudgeFailedMount
      <4>4. QED
        BY <1>27, <2>1, <4>1, <4>2, <4>3, LoseMediumEffect DEF JudgeFailedMount
    <3>2. DriverAgrees' /\ UpCardUntilLatched' /\ MountedExactlyWhenLocalReady'
      BY <1>27, <2>1, LoseMediumEffect DEF JudgeFailedMount
    <3>3. MediumFitsOwner' /\ HistoryFitsMedium' /\ PhaseFits'
      BY <1>27, <2>1, LoseMediumEffect DEF JudgeFailedMount
    <3>4. QED
      BY <3>1, <3>2, <3>3 DEF IInv
  <2>2. CASE ~DeviceGone
    BY <1>27, <2>2, BringUpFailedEffect DEF JudgeFailedMount, Media, Phases
  <2>3. QED
    BY <2>1, <2>2
<1>28. CASE UNCHANGED vars
  BY <1>28 DEF vars
<1>29. QED
  BY <1>1, <1>2, <1>3, <1>4, <1>5, <1>6, <1>7, <1>8, <1>9, <1>10, <1>11, <1>12, <1>13, <1>14, <1>15, <1>16, <1>17, <1>18, <1>19, <1>20, <1>21, <1>22, <1>23, <1>24, <1>25, <1>26, <1>27, <1>28 DEF Next, Environment, StepPart

\* The coordinator's inductive invariant holds of every reachable state.
THEOREM InductiveInvariant == Spec => []IInv
BY InitIInv, NextIInv, PTL DEF Spec

-----------------------------------------------------------------------------
(* Safety *)

\* Every variable keeps its type, whatever the card and the clock do.
THEOREM TypeCorrect == Spec => []TypeOK
<1>1. IInv => TypeOK
  BY DEF IInv
<1>2. QED
  BY <1>1, InductiveInvariant, PTL

\* The filesystem is mounted exactly while the local owner's medium is READY.
THEOREM MountedCorrect == Spec => []MountedExactlyWhenLocalReady
<1>1. IInv => MountedExactlyWhenLocalReady
  BY DEF IInv
<1>2. QED
  BY <1>1, InductiveInvariant, PTL

\* A card swapped under a usable medium is always latched as removed.
THEOREM SwapCorrect == Spec => []SwappedCardIsLatched
<1>1. IInv => SwappedCardIsLatched
  BY DEF IInv, TypeOK, DriverAgrees, UpCardUntilLatched, MediumFitsOwner, SwappedCardIsLatched
<1>2. QED
  BY <1>1, InductiveInvariant, PTL

\* A release that is reported as done has let go of the card.
THEOREM PowerCutCorrect == Spec => []PowerCutIsSafe
<1>1. IInv => PowerCutIsSafe
  BY DEF IInv, TypeOK, DriverAgrees, MountedExactlyWhenLocalReady, PowerCutIsSafe, RequestPending
<1>2. QED
  BY <1>1, InductiveInvariant, PTL

\* A release that failed always has a retry scheduled or a verdict.
THEOREM ReleaseCorrect == Spec => []ReleaseNeverStranded
<1>1. IInv => ReleaseNeverStranded
  BY DEF IInv, TypeOK, DriverAgrees, HistoryFitsMedium, ReleaseNeverStranded
<1>2. QED
  BY <1>1, InductiveInvariant, PTL

-----------------------------------------------------------------------------
(* Refinement *)

LEMMA InitContract == Init => Contract!CInit
BY DEF Init, Contract!CInit

LEMMA NextContract == IInv /\ [Next]_vars => [Contract!CNext]_(Contract!contract)
<1> SUFFICES ASSUME IInv, [Next]_vars PROVE [Contract!CNext]_(Contract!contract)
  OBVIOUS
<1> USE DEF Contract!contract
<1>1. ASSUME NEW c \in Cards, Insert(c) PROVE UNCHANGED Contract!contract
  BY <1>1 DEF Insert, coordinator
<1>2. CASE Seat \/ Loosen \/ Remove \/ Bounce \/ Tick
  BY <1>2 DEF Seat, Loosen, Remove, Bounce, Tick, coordinator
<1>3. ASSUME NEW o \in Owners, RequestOwner(o) PROVE Contract!Request(o)
  BY <1>3 DEF RequestOwner, Contract!Request
<1>4. CASE StepBegin
  <2>1. CASE device_up /\ DeviceGone
    BY <1>4, <2>1 DEF StepBegin, LoseMedium, Contract!CNext, Contract!Lose, Bump, Contract!Succ
  <2>2. CASE ~(device_up /\ DeviceGone)
    BY <1>4, <2>2 DEF StepBegin
  <2>3. QED
    BY <2>1, <2>2
<1>5. ASSUME ChangeOwner
      PROVE  /\ requested_owner # owner
             /\ owner' = requested_owner
             /\ epoch' = Contract!Succ(epoch)
             /\ UNCHANGED requested_owner
  BY <1>5 DEF ChangeOwner, IInv, PhaseFits, Bump, Contract!Succ
<1>6. CASE ReleaseToNone
  <2>1. medium' \in {"ABSENT", "FAULTY"}
    BY <1>6, AttemptReleaseEffect DEF ReleaseToNone
  <2>2. QED
    BY <1>5, <1>6, <2>1 DEF ReleaseToNone, Contract!CNext, Contract!HandOver
<1>7. CASE Reclaim
  BY <1>5, <1>7 DEF Reclaim, Contract!CNext, Contract!HandOver
<1>8. CASE HandOverUnready
  <2>1. /\ "NONE" \notin {owner, requested_owner}
        /\ medium' = medium
    BY <1>8 DEF HandOverUnready
  <2>2. medium \in {"ABSENT", "PREPARING", "FAULTY"}
    BY <1>8 DEF HandOverUnready, IInv, TypeOK, Media, MediumFitsOwner
  <2>3. QED
    BY <1>5, <1>8, <2>1, <2>2 DEF HandOverUnready, Contract!CNext, Contract!HandOver
<1>9. CASE LendToUsb
  <2>1. medium \in {"PREPARING", "UNFORMATTED", "READY"}
    BY <1>9 DEF LendToUsb, IInv, TypeOK, Media, MediumFitsOwner
  <2>2. QED
    BY <1>5, <1>9, <2>1 DEF LendToUsb, Contract!CNext, Contract!HandOver
<1>10. CASE TakeBackFromUsb
  <2>1. medium = "READY"
    BY <1>10 DEF TakeBackFromUsb, IInv, MediumFitsOwner
  <2>2. QED
    BY <1>5, <1>10, <2>1 DEF TakeBackFromUsb, Contract!CNext, Contract!HandOver
<1>11. CASE NothingDue \/ LetGoOfFaulty
  BY <1>11 DEF NothingDue, LetGoOfFaulty, BringUp
<1>12. CASE RetryRelease
  <2>1. medium' \in {"ABSENT", "FAULTY"} /\ medium = "ABSENT"
    BY <1>12, AttemptReleaseEffect
    DEF RetryRelease, BringUp, IInv, TypeOK, MediumFitsOwner, HistoryFitsMedium
  <2>2. QED
    BY <1>12, <2>1 DEF RetryRelease, BringUp, Contract!CNext, Contract!GiveUpRelease
<1>13. CASE WatchFaulty
  <2>1. CASE UNCHANGED <<medium, timers>>
    BY <1>13, <2>1 DEF WatchFaulty, BringUp
  <2>2. CASE medium' = "ABSENT"
    BY <1>13, <2>2 DEF WatchFaulty, BringUp, Contract!CNext, Contract!Lose
  <2>3. QED
    BY <1>13, <2>1, <2>2 DEF WatchFaulty
<1>14. CASE SocketEmpty \/ InitRefused
  BY <1>14 DEF SocketEmpty, InitRefused, InitDue, BringUpDue, BringUp, Contract!CNext, Contract!Lose
<1>15. CASE Settle
  BY <1>15 DEF Settle, BringUpDue, BringUp, Contract!CNext, Contract!Prepare
<1>16. CASE InitSucceeds \/ RetryMount
  <2>1. medium = "PREPARING" /\ owner # "NONE"
    BY <1>16 DEF InitSucceeds, RetryMount, InitDue, BringUpDue, IInv, HistoryFitsMedium, MediumFitsOwner
  <2>2. medium' \in {"PREPARING", "READY"}
    BY <1>16 DEF InitSucceeds, RetryMount, DeviceIsUp
  <2>3. QED
    BY <1>16, <2>1, <2>2
    DEF InitSucceeds, RetryMount, InitDue, BringUpDue, BringUp, Contract!CNext, Contract!Prepare
<1>17. CASE InitFails
  <2>1. medium = "PREPARING" /\ owner # "NONE"
    BY <1>17 DEF InitFails, InitDue, BringUpDue, IInv, HistoryFitsMedium
  <2>2. medium' \in {"PREPARING", "FAULTY"}
    BY <1>17 DEF InitFails, BringUpFailed
  <2>3. QED
    BY <1>17, <2>1, <2>2 DEF InitFails, InitDue, BringUpDue, BringUp, Contract!CNext, Contract!Prepare
<1>18. CASE MountSucceeds \/ MountFindsNoFilesystem \/ MountFails
  BY <1>18 DEF MountSucceeds, MountFindsNoFilesystem, MountFails, Mounting, IInv, PhaseFits,
               Contract!CNext, Contract!Prepare
<1>19. CASE JudgeFailedMount
  <2>1. owner = "LOCAL" /\ medium = "PREPARING"
    BY <1>19 DEF JudgeFailedMount, IInv, PhaseFits
  <2>2. CASE DeviceGone
    BY <1>19, <2>1, <2>2 DEF JudgeFailedMount, LoseMedium, Contract!CNext, Contract!Lose
  <2>3. CASE ~DeviceGone
    BY <1>19, <2>1, <2>3 DEF JudgeFailedMount, BringUpFailed, Contract!CNext, Contract!Prepare
  <2>4. QED
    BY <2>2, <2>3
<1>20. CASE UNCHANGED vars
  BY <1>20 DEF vars
<1>21. QED
  BY <1>1, <1>2, <1>3, <1>4, <1>6, <1>7, <1>8, <1>9, <1>10, <1>11, <1>12, <1>13, <1>14, <1>15,
     <1>16, <1>17, <1>18, <1>19, <1>20
  DEF Next, Environment, StepPart, Contract!CNext, Contract!Users, Owners

\* The coordinator implements the contract of storage.h: every step is one of
\* the contract's transitions or leaves owner, medium, request and epoch alone.
THEOREM ImplementsContractCorrect == Spec => ImplementsContract
BY InductiveInvariant, InitContract, NextContract, PTL DEF Spec, ImplementsContract, Contract!CSpec

-----------------------------------------------------------------------------
(* What a step may never do *)

\* Only a bring-up changes the card the driver's state belongs to, and a
\* medium that is READY is not brought up.
LEMMA ReadyKeepsItsCard == IInv /\ [Next]_vars /\ medium = "READY" => upCard' = upCard
<1> SUFFICES ASSUME [Next]_vars, medium = "READY" PROVE upCard' = upCard
  OBVIOUS
<1>1. CASE Environment
  BY <1>1 DEF Environment, Insert, Seat, Loosen, Remove, Bounce, Tick, RequestOwner
<1>2. CASE StepPart
  BY <1>2 DEF StepPart, StepBegin, ReleaseToNone, Reclaim, HandOverUnready, LendToUsb,
     TakeBackFromUsb, ChangeOwner, NothingDue, RetryRelease, LetGoOfFaulty, WatchFaulty,
     SocketEmpty, Settle, InitSucceeds, InitRefused, InitFails, RetryMount, InitDue, BringUpDue,
     MountSucceeds, MountFindsNoFilesystem, MountFails, Mounting, JudgeFailedMount
<1>3. QED
  BY <1>1, <1>2 DEF Next, vars

\* A medium that stops being READY, or changes hands, changes the epoch.
THEOREM EpochCorrect == Spec => EpochMarksEveryLoss
<1>1. IInv /\ [Next]_vars
        => [(medium = "READY" /\ (medium' # "READY" \/ owner' # owner \/ upCard' # upCard))
               => epoch' # epoch]_vars
  <2> SUFFICES ASSUME IInv, [Next]_vars, medium = "READY",
                      medium' # "READY" \/ owner' # owner \/ upCard' # upCard
               PROVE  epoch' # epoch
    OBVIOUS
  <2>1. medium' # "READY" \/ owner' # owner
    BY ReadyKeepsItsCard
  <2>2. owner # "NONE" /\ Bump(epoch) # epoch
    BY BumpChanges DEF IInv, TypeOK, MediumFitsOwner
  <2>3. Contract!CNext
    BY <2>1, NextContract DEF Contract!contract
  <2>4. QED
    BY <2>1, <2>2, <2>3
    DEF Contract!CNext, Contract!Request, Contract!HandOver, Contract!Lose, Contract!Prepare,
        Contract!GiveUpRelease, Contract!Succ, Bump
<1>2. QED
  BY <1>1, InductiveInvariant, PTL DEF Spec, EpochMarksEveryLoss

\* A card parked as FAULTY is left alone until it leaves or is reclaimed.
THEOREM FaultyCorrect == Spec => FaultyIsLeftAlone
<1>1. IInv /\ [Next]_vars
        => [(medium = "FAULTY" /\ medium' # "FAULTY")
               => /\ medium' = "ABSENT"
                  /\ \/ latch \/ ~seated
                     \/ "NONE" \in {owner, owner'} /\ owner' # owner]_vars
  <2> SUFFICES ASSUME IInv, [Next]_vars, medium = "FAULTY", medium' # "FAULTY"
               PROVE  /\ medium' = "ABSENT"
                      /\ \/ latch \/ ~seated
                         \/ "NONE" \in {owner, owner'} /\ owner' # owner
    OBVIOUS
  <2>1. medium' = "ABSENT"
    BY NextContract DEF Contract!contract, Contract!CNext, Contract!Request, Contract!HandOver,
       Contract!Lose, Contract!Prepare, Contract!GiveUpRelease
  <2>2. CASE StepBegin
    BY <2>1, <2>2 DEF StepBegin, DeviceGone, IInv, TypeOK, DriverAgrees
  <2>3. CASE ReleaseToNone \/ Reclaim
    BY <2>1, <2>3 DEF ReleaseToNone, Reclaim, ChangeOwner, IInv, PhaseFits
  <2>4. CASE RetryRelease
    BY <2>4 DEF RetryRelease, IInv, HistoryFitsMedium
  <2>5. CASE WatchFaulty
    BY <2>5 DEF WatchFaulty, PresenceReadings, IInv, TypeOK, UpCardUntilLatched
  <2>6. CASE Environment \/ UNCHANGED vars
    BY <2>6 DEF Environment, Insert, Seat, Loosen, Remove, Bounce, Tick, RequestOwner, coordinator, vars
  <2>7. CASE \/ HandOverUnready \/ LendToUsb \/ TakeBackFromUsb \/ NothingDue \/ LetGoOfFaulty
             \/ SocketEmpty \/ Settle \/ InitSucceeds \/ InitRefused \/ InitFails \/ RetryMount
    BY <2>7 DEF HandOverUnready, LendToUsb, TakeBackFromUsb, NothingDue, LetGoOfFaulty,
       SocketEmpty, Settle, InitSucceeds, InitRefused, InitFails, RetryMount, InitDue, BringUpDue
  <2>8. CASE \/ MountSucceeds \/ MountFindsNoFilesystem \/ MountFails \/ JudgeFailedMount
    BY <2>8 DEF MountSucceeds, MountFindsNoFilesystem, MountFails, Mounting, JudgeFailedMount,
       IInv, PhaseFits
  <2>9. QED
    BY <2>1, <2>2, <2>3, <2>4, <2>5, <2>6, <2>7, <2>8 DEF Next, StepPart
<1>2. QED
  BY <1>1, InductiveInvariant, PTL DEF Spec, FaultyIsLeftAlone

-----------------------------------------------------------------------------
(* The coordinator and the driver *)

\* A release is one deinit, or none if there is nothing to release.
LEMMA ReleaseIsDeinit ==
    ASSUME NEW held \in BOOLEAN, ReleaseDevice(held), UNCHANGED <<world, latch>>
    PROVE  (\E h \in BOOLEAN : Deinit(h)) \/ UNCHANGED cardDriver
BY DEF ReleaseDevice, Deinit, cardDriver, world

\* The pieces of storage_step that release the device, and those that bring it up.
Releasing == StepBegin \/ ReleaseToNone \/ Reclaim \/ RetryRelease \/ LetGoOfFaulty \/ JudgeFailedMount
BringingUp == InitSucceeds \/ InitRefused \/ InitFails
LeavingAlone ==
    \/ HandOverUnready \/ LendToUsb \/ TakeBackFromUsb \/ NothingDue \/ WatchFaulty \/ SocketEmpty
    \/ Settle \/ RetryMount \/ MountSucceeds \/ MountFindsNoFilesystem \/ MountFails

\* A piece that lets go makes at most one call, a deinit (release_device).
LEMMA ReleasingCallsDeinit ==
    ASSUME Releasing
    PROVE  (\E held \in BOOLEAN : Deinit(held)) \/ UNCHANGED cardDriver
<1>1. UNCHANGED <<world, latch>>
  BY DEF Releasing, StepBegin, ReleaseToNone, Reclaim, ChangeOwner, RetryRelease, LetGoOfFaulty,
     BringUp, JudgeFailedMount
<1>2. (\E held \in BOOLEAN : ReleaseDevice(held)) \/ UNCHANGED initialized
  BY DEF Releasing, StepBegin, ReleaseToNone, Reclaim, RetryRelease, LetGoOfFaulty,
     JudgeFailedMount, LoseMedium, LetGo, AttemptRelease, BringUpFailed
<1> QED
  BY <1>1, <1>2, ReleaseIsDeinit DEF cardDriver

\* The card acts by itself, the rest of the environment not on it.
LEMMA EnvironmentIsDriverStep ==
    ASSUME Environment
    PROVE  [DriverNext]_cardDriver
BY DEF Environment, Insert, Seat, Loosen, Remove, Bounce, Tick, RequestOwner, DriverNext, cardDriver, world

\* The coordinator handles the card only through the driver's calls, at most one
\* in each piece of a step.  It calls init only on a driver that is down, which
\* would refuse it otherwise (sd_spi.c:363), and device_up, which decides what is
\* released, is never true of one that is not up (bring_up and release_device of
\* storage.c).  With SdDriver's ImplementsCardDriver this joins the two models.
THEOREM CallsDriverAsMeant ==
    Spec => DriverSpec /\ [][InitDue => ~initialized]_vars /\ [](device_up => initialized)
<1>1. Init => DriverInit
  BY CardAssumption DEF Init, DriverInit, Cards
<1>2. [Next]_vars => [DriverNext]_cardDriver
  <2> SUFFICES ASSUME [Next]_vars PROVE [DriverNext]_cardDriver
    OBVIOUS
  <2>1. CASE Environment
    BY <2>1, EnvironmentIsDriverStep
  <2>2. CASE Releasing
    BY <2>2, ReleasingCallsDeinit DEF DriverNext
  <2>3. CASE BringingUp
    BY <2>3 DEF BringingUp, InitSucceeds, InitRefused, InitFails, DriverNext
  <2>4. CASE LeavingAlone
    BY <2>4 DEF LeavingAlone, HandOverUnready, LendToUsb, TakeBackFromUsb, ChangeOwner, NothingDue,
       WatchFaulty, SocketEmpty, Settle, RetryMount, BringUpDue, BringUp,
       MountSucceeds, MountFindsNoFilesystem, MountFails, Mounting, cardDriver
  <2>5. CASE UNCHANGED vars
    BY <2>5 DEF vars, cardDriver
  <2> QED
    BY <2>1, <2>2, <2>3, <2>4, <2>5 DEF Next, StepPart, Releasing, BringingUp, LeavingAlone
<1>3. IInv => (device_up => initialized) /\ (InitDue => ~initialized)
  <2>1. IInv => (device_up <=> initialized)
    BY DEF IInv, DriverAgrees
  <2>2. InitDue => ~device_up
    BY DEF InitDue
  <2> QED BY <2>1, <2>2
<1> QED
  BY <1>1, <1>2, <1>3, InductiveInvariant, PTL DEF Spec, DriverSpec

-----------------------------------------------------------------------------
(* How often a card is tried *)

\* The failures that are allowed for what the coordinator is doing.
Allowed == IF owner = "NONE" THEN ReleaseAttempts ELSE BringUpAttempts

\* A card that is not given up on has at least one attempt left.
AttemptsLeft == medium # "FAULTY" => attempts < Allowed

\* A card is given up on exactly when the last of its attempts has failed, or when
\* one that could not be released is still held as the release is called off.
GivenUpInTime ==
    medium # "FAULTY" /\ medium' = "FAULTY" =>
        attempts' = Allowed' \/ (owner = "NONE" /\ owner' # "NONE")

\* A counted failure is one more, and the last one is the end (bring_up_failed).
LEMMA BringUpFailedCounts ==
    ASSUME IInv, AttemptsLeft, BringUpFailed, owner # "NONE", owner' = owner, medium # "FAULTY"
    PROVE  AttemptsLeft' /\ GivenUpInTime
BY CountAssumption DEF IInv, TypeOK, AttemptsLeft, GivenUpInTime, Allowed, BringUpFailed

\* The same of a release (attempt_release).
LEMMA AttemptReleaseCounts ==
    ASSUME IInv, NEW before \in Nat, before < ReleaseAttempts, AttemptRelease(before), owner' = "NONE"
    PROVE  AttemptsLeft' /\ (medium' = "FAULTY" => attempts' = Allowed')
<1>1. PICK held \in BOOLEAN :
        /\ attempts' = IF held THEN before + 1 ELSE before
        /\ medium' = IF held /\ before + 1 >= ReleaseAttempts THEN "FAULTY" ELSE "ABSENT"
  BY DEF AttemptRelease
<1> QED
  BY <1>1, CountAssumption DEF AttemptsLeft, Allowed

\* A count that starts again leaves every attempt.
LEMMA ClearedCounts ==
    ASSUME attempts' = 0
    PROVE  AttemptsLeft'
BY CountAssumption DEF AttemptsLeft, Allowed

\* Every piece of a step keeps an attempt back, or gives up.
LEMMA StepCounts ==
    ASSUME IInv, AttemptsLeft, StepPart
    PROVE  AttemptsLeft' /\ GivenUpInTime
<1> USE DEF timers, GivenUpInTime
<1>1. CASE StepBegin
  <2>1. CASE device_up /\ DeviceGone
    BY <1>1, <2>1, ClearedCounts DEF StepBegin, LoseMedium, ClearRetry
  <2>2. CASE ~(device_up /\ DeviceGone)
    BY <1>1, <2>2 DEF StepBegin, AttemptsLeft, Allowed
  <2> QED BY <2>1, <2>2
<1>2. CASE ReleaseToNone
  BY <1>2, AttemptReleaseCounts, CountAssumption DEF ReleaseToNone, ChangeOwner
<1>3. CASE RetryRelease
  <2>1. medium # "FAULTY" /\ attempts \in Nat /\ attempts < ReleaseAttempts
    BY <1>3 DEF RetryRelease, IInv, TypeOK, HistoryFitsMedium, AttemptsLeft, Allowed
  <2>2. AttemptRelease(attempts) /\ owner' = "NONE"
    BY <1>3 DEF RetryRelease, BringUp
  <2> QED BY <2>1, <2>2, AttemptReleaseCounts
<1>4. CASE Reclaim
  BY <1>4, ClearedCounts DEF Reclaim, ChangeOwner, IInv, PhaseFits
<1>5. CASE LendToUsb \/ SocketEmpty \/ MountSucceeds \/ MountFindsNoFilesystem
  BY <1>5, ClearedCounts DEF LendToUsb, SocketEmpty, MountSucceeds, MountFindsNoFilesystem, ClearRetry
<1>6. CASE HandOverUnready
  BY <1>6 DEF HandOverUnready, ChangeOwner, AttemptsLeft, Allowed
<1>7. CASE TakeBackFromUsb
  BY <1>7 DEF TakeBackFromUsb, ChangeOwner, AttemptsLeft, Allowed
<1>8. CASE NothingDue \/ LetGoOfFaulty \/ Settle \/ InitRefused
  BY <1>8 DEF NothingDue, LetGoOfFaulty, Settle, InitRefused, InitDue, BringUpDue, BringUp, AttemptsLeft, Allowed
<1>9. CASE WatchFaulty
  <2>1. CASE medium' = "ABSENT" /\ ClearRetry
    BY <2>1, ClearedCounts DEF ClearRetry
  <2>2. CASE UNCHANGED <<medium, timers>>
    BY <1>9, <2>2 DEF WatchFaulty, BringUp, AttemptsLeft, Allowed
  <2> QED BY <1>9, <2>1, <2>2 DEF WatchFaulty
<1>10. CASE InitSucceeds \/ RetryMount
  <2>1. medium' # "FAULTY" /\ (attempts' = 0 \/ attempts' = attempts)
    BY <1>10 DEF InitSucceeds, RetryMount, DeviceIsUp, ClearRetry
  <2>2. owner' = owner /\ medium # "FAULTY"
    BY <1>10 DEF InitSucceeds, RetryMount, InitDue, BringUpDue, BringUp
  <2> QED BY <2>1, <2>2, ClearedCounts DEF AttemptsLeft, Allowed
<1>11. CASE InitFails
  <2>1. BringUpFailed /\ owner # "NONE" /\ owner' = owner /\ medium # "FAULTY"
    BY <1>11 DEF InitFails, InitDue, BringUpDue, BringUp
  <2> QED BY <2>1, BringUpFailedCounts
<1>12. CASE MountFails
  BY <1>12 DEF MountFails, Mounting, AttemptsLeft, Allowed
<1>13. CASE JudgeFailedMount
  <2>1. owner' = owner /\ owner # "NONE" /\ medium # "FAULTY"
    BY <1>13 DEF JudgeFailedMount, IInv, PhaseFits
  <2>2. CASE LoseMedium
    BY <2>2, ClearedCounts DEF LoseMedium, ClearRetry
  <2>3. CASE BringUpFailed
    BY <2>1, <2>3, BringUpFailedCounts
  <2> QED BY <1>13, <2>2, <2>3 DEF JudgeFailedMount
<1> QED
  BY <1>1, <1>2, <1>3, <1>4, <1>5, <1>6, <1>7, <1>8, <1>9, <1>10, <1>11, <1>12, <1>13 DEF StepPart

\* The environment counts nothing.
LEMMA OthersCount ==
    ASSUME AttemptsLeft, Environment \/ UNCHANGED vars
    PROVE  AttemptsLeft' /\ GivenUpInTime
BY DEF Environment, Insert, Seat, Loosen, Remove, Bounce, Tick, RequestOwner, coordinator, timers, vars,
   AttemptsLeft, GivenUpInTime, Allowed

\* A card that is being brought up or released has an attempt left until it is
\* parked as FAULTY, and that is done with its last attempt, neither before nor
\* after, whatever owners, removals, refused inits and failed mounts come between
\* (STORAGE_BRING_UP_ATTEMPTS and STORAGE_RELEASE_ATTEMPTS of storage.c).  So no
\* card is tried for ever, which is why a bring-up and a release end.
THEOREM AttemptsAreCounted == Spec => []AttemptsLeft /\ [][GivenUpInTime]_vars
<1>1. Init => AttemptsLeft
  BY CountAssumption DEF Init, AttemptsLeft, Allowed
<1>2. IInv /\ AttemptsLeft /\ [Next]_vars => AttemptsLeft' /\ [GivenUpInTime]_vars
  BY StepCounts, OthersCount DEF Next
<1> QED
  BY <1>1, <1>2, InductiveInvariant, PTL DEF Spec

-----------------------------------------------------------------------------
(* When every card does get all its attempts *)

\* A new card is put in only once the coordinator has seen the socket empty and
\* forgotten the one before, unless it was done with that one anyway.
SeenEmpty ==
    card' \notin {card, NoCard} => attempts = 0 \/ owner = "NONE" \/ medium = "FAULTY"

\* The failures that count against a card are its own.
OwnFailures ==
    /\ tries \in Nat
    /\ owner # "NONE" /\ medium # "FAULTY" /\ card # NoCard => tries >= attempts

\* A piece of a step clears the count, keeps it, or adds to it a failure of the
\* card in the socket (bring_up_failed after an init or a mount).
LEMMA StepBlamesCard ==
    ASSUME IInv, StepPart, owner' # "NONE", ~(medium = "FAULTY" /\ medium' = "FAULTY")
    PROVE  /\ card' = card
           /\ \/ attempts' = 0
              \/ /\ owner # "NONE" /\ medium # "FAULTY"
                 /\ attempts' = attempts \/ (attempts' = attempts + 1 /\ card # NoCard)
<1> USE DEF timers, world
<1>1. CASE StepBegin
  BY <1>1 DEF StepBegin, LoseMedium, ClearRetry, IInv, MediumFitsOwner, PhaseFits
<1>2. CASE ReleaseToNone \/ RetryRelease
  BY <1>2 DEF ReleaseToNone, RetryRelease, ChangeOwner, BringUp
<1>3. CASE Reclaim
  BY <1>3 DEF Reclaim, ChangeOwner
<1>4. CASE LendToUsb \/ SocketEmpty \/ MountSucceeds \/ MountFindsNoFilesystem
  BY <1>4 DEF LendToUsb, SocketEmpty, MountSucceeds, MountFindsNoFilesystem, ChangeOwner,
     BringUpDue, BringUp, Mounting, ClearRetry
<1>5. CASE HandOverUnready \/ TakeBackFromUsb
  BY <1>5 DEF HandOverUnready, TakeBackFromUsb, ChangeOwner
<1>6. CASE NothingDue \/ LetGoOfFaulty \/ Settle
  BY <1>6 DEF NothingDue, LetGoOfFaulty, Settle, BringUpDue, BringUp
<1>7. CASE WatchFaulty
  BY <1>7 DEF WatchFaulty, BringUp, ClearRetry
<1>8. CASE InitSucceeds \/ RetryMount
  BY <1>8 DEF InitSucceeds, InitOk, RetryMount, DeviceIsUp, InitDue, BringUpDue, BringUp, ClearRetry
<1>9. CASE InitRefused
  BY <1>9 DEF InitRefused, InitDue, BringUpDue, BringUp
<1>10. CASE InitFails
  BY <1>10 DEF InitFails, InitDue, BringUpDue, BringUp, BringUpFailed, PresenceReadings
<1>11. CASE MountFails
  BY <1>11 DEF MountFails, Mounting, IInv, PhaseFits
<1>12. CASE JudgeFailedMount
  <2>1. owner # "NONE" /\ medium # "FAULTY" /\ device_up /\ card' = card
    BY <1>12 DEF JudgeFailedMount, IInv, PhaseFits
  <2>2. CASE DeviceGone
    BY <1>12, <2>1, <2>2 DEF JudgeFailedMount, LoseMedium, ClearRetry
  <2>3. CASE ~DeviceGone
    <3>1. card # NoCard
      BY <2>1, <2>3 DEF DeviceGone, IInv, UpCardUntilLatched
    <3> QED BY <1>12, <2>1, <2>3, <3>1 DEF JudgeFailedMount, BringUpFailed
  <2> QED BY <2>2, <2>3
<1> QED
  BY <1>1, <1>2, <1>3, <1>4, <1>5, <1>6, <1>7, <1>8, <1>9, <1>10, <1>11, <1>12 DEF StepPart

HistoryStep == HistoryNext /\ SeenEmpty

\* What the environment does to the card: it counts nothing.
LEMMA EnvironmentBlamesNobody ==
    ASSUME Environment
    PROVE  UNCHANGED <<owner, medium, attempts>>
BY DEF Environment, Insert, Seat, Loosen, Remove, Bounce, Tick, RequestOwner, coordinator, timers

\* The count never runs ahead of the card's own failures.
LEMMA FailuresStayOwn ==
    ASSUME IInv, OwnFailures, HistoryStep
    PROVE  OwnFailures'
<1> USE DEF OwnFailures
<1>0. attempts \in Nat
  BY DEF IInv, TypeOK
<1>1. tries' = IF card' # card THEN 0
               ELSE IF owner # "NONE" /\ attempts' = attempts + 1 THEN tries + 1 ELSE tries
  BY DEF HistoryStep, HistoryNext
<1>2. tries' \in Nat
  BY <1>1
<1>3. CASE Environment
  BY <1>0, <1>1, <1>2, <1>3, EnvironmentBlamesNobody DEF HistoryStep, SeenEmpty
<1>4. CASE StepPart
  BY <1>0, <1>1, <1>2, <1>4, StepBlamesCard
<1> QED
  BY <1>3, <1>4 DEF HistoryStep, HistoryNext, Next

\* A card that is given up on has failed as often as was counted.
LEMMA GivenUpAfterOwnFailures ==
    ASSUME IInv, AttemptsLeft, OwnFailures, HistoryStep,
           medium # "FAULTY", medium' = "FAULTY", "NONE" \notin {owner, owner'}
    PROVE  tries' >= BringUpAttempts
<1>0. attempts \in Nat
  BY DEF IInv, TypeOK
<1>1. tries' = IF card' # card THEN 0
               ELSE IF owner # "NONE" /\ attempts' = attempts + 1 THEN tries + 1 ELSE tries
  BY DEF HistoryStep, HistoryNext
<1>2. StepPart
  BY EnvironmentBlamesNobody DEF HistoryStep, HistoryNext, Next
<1>3. attempts' = BringUpAttempts
  BY <1>2, StepCounts DEF GivenUpInTime, Allowed
<1>4. attempts < BringUpAttempts
  BY DEF AttemptsLeft, Allowed
<1>5. card' = card /\ attempts' = attempts + 1 /\ card # NoCard
  BY <1>0, <1>2, <1>3, <1>4, StepBlamesCard, CountAssumption
<1> QED
  BY <1>0, <1>1, <1>3, <1>5, CountAssumption DEF OwnFailures

\* As long as no card is exchanged for another while the coordinator still counts
\* failures of the one before, every card gets all its attempts before it is
\* parked as FAULTY.  So such a swap is the only way to the violation
\* that the run storage_swapped_card shows (clear_retry).
THEOREM UnswappedCardsGetAllAttempts ==
    HistorySpec /\ [][SeenEmpty]_<<vars, tries>> => EveryCardGetsAllItsAttempts
<1> DEFINE Counted == IInv /\ AttemptsLeft /\ OwnFailures
<1>1. HistoryInit => Counted
  BY InitIInv, CountAssumption DEF HistoryInit, Init, AttemptsLeft, Allowed, OwnFailures
<1>2. Counted /\ [HistoryStep]_<<vars, tries>> => Counted'
  <2> SUFFICES ASSUME Counted, [HistoryStep]_<<vars, tries>> PROVE Counted'
    OBVIOUS
  <2>1. CASE HistoryStep
    <3>1. Next
      BY <2>1 DEF HistoryStep, HistoryNext
    <3> QED BY <2>1, <3>1, NextIInv, StepCounts, OthersCount, FailuresStayOwn DEF Next
  <2>2. CASE UNCHANGED <<vars, tries>>
    <3>1. OwnFailures'
      BY <2>2 DEF vars, world, timers, OwnFailures
    <3> QED BY <2>2, <3>1, NextIInv, OthersCount
  <2> QED BY <2>1, <2>2
<1>3. Counted /\ [HistoryStep]_<<vars, tries>> =>
        [(medium # "FAULTY" /\ medium' = "FAULTY" /\ "NONE" \notin {owner, owner'})
            => tries' >= BringUpAttempts]_<<vars, tries>>
  BY GivenUpAfterOwnFailures
<1>4. [HistoryNext]_<<vars, tries>> /\ [SeenEmpty]_<<vars, tries>> => [HistoryStep]_<<vars, tries>>
  BY DEF HistoryStep
<1> QED
  BY <1>1, <1>2, <1>3, <1>4, PTL DEF HistorySpec, EveryCardGetsAllItsAttempts

=============================================================================
