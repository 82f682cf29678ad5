---------------------------- MODULE UsbModeProofs ---------------------------
(***************************************************************************)
(* The safety properties of the USB-mode policy and of the loop around it, *)
(* for every modulus of the clock and of the epoch, every debounce time    *)
(* and every bound on the length of a pass.                                *)
(*                                                                         *)
(* Three arguments, each an invariant of its own.  What the policy has     *)
(* asked for follows lending in every state, so the owner does wherever a  *)
(* storage_step has run.  The time VBUS has read the same is, until the    *)
(* debounce is over, the time since changing_since, which no wrap of the   *)
(* clock can distort because the policy looks every pass.  And what        *)
(* storage_watch saw a pass ago is either how things stand or tells that   *)
(* the card was lost or handed over since.                                 *)
(***************************************************************************)
EXTENDS UsbMode, TLAPS

SeenReady == seen # <<>> /\ seen[2] = "READY"

\* What storage_step was asked for, and what it has done of it.
AskInv ==
    /\ requested_owner = IF lending THEN "USB" ELSE "LOCAL"
    /\ phase \notin {"loss", "hand"} => owner = requested_owner
    /\ phase \in {"loss", "hand", "prepare", "watch"} /\ lending => cable /\ configured
    /\ ~storage_ready => ~lending /\ owner = "LOCAL"
    /\ phase \in {"hand", "prepare", "watch"} => storage_ready
    /\ eject_pending => (eject_lend <=> lending)

Elapsed == (now - changing_since + ClockMod) % ClockMod

\* How long VBUS has read the same, told from what the policy keeps.
CableInv ==
    /\ phase \notin {"usb", "policy"} => started
    /\ started /\ ~changing => sample = cable
    /\ started /\ changing =>
           /\ sample # cable
           /\ steady = IF Elapsed > Debounce THEN Debounce ELSE Elapsed
           /\ phase \notin {"usb", "policy"} => Elapsed < Debounce
    /\ ~started => ~changing

\* What storage_watch saw, against how things stand in each part of the next pass.
WatchInv ==
    /\ demoed => medium = "READY" /\ SeenReady /\ seen[3] = epoch
    /\ phase \in {"usb", "policy", "take", "loss"} =>
           /\ seen # <<>> => seen = SeenNow
           /\ seen = <<>> => medium = "ABSENT"
    /\ phase \in {"usb", "policy", "take", "loss", "hand"} /\ owner = "LOCAL" /\ medium = "READY" => demoed
    /\ phase = "hand" /\ SeenReady => medium = "ABSENT" \/ (medium = "READY" /\ epoch = seen[3])
    /\ phase = "prepare" /\ SeenReady =>
           \/ medium \in {"ABSENT", "FAULTY"}
           \/ epoch # seen[3]
           \/ medium = "READY" /\ (owner = "LOCAL" => demoed)
    /\ phase = "watch" /\ SeenReady /\ medium = "READY" /\ owner = "LOCAL" /\ epoch = seen[3] => demoed

ModeInv == TypeOK /\ AskInv /\ CableInv /\ WatchInv

EjectStep == lending /\ ~lending' /\ cable /\ configured /\ taken # "LEAVE" => eject_lend
CableStep == started /\ cable' # cable => cable' = vbus /\ sample = vbus /\ steady >= Debounce
DemoStep == RunDemo => ~demoed

-----------------------------------------------------------------------------
(* The clock *)

\* The bounds, each on its own.
LEMMA Moduli ==
    /\ ClockMod \in Nat \ {0} /\ Debounce \in Nat /\ MaxPass \in Nat
    /\ Debounce >= 1 /\ ClockMod > Debounce + MaxPass
    /\ EpochMod \in Nat /\ EpochMod >= 2
BY ModulusAssumption

\* Times are compared by their difference modulo the clock's range (held_for).
LEMMA Difference ==
    ASSUME NEW M \in Nat \ {0}, NEW a \in 0 .. (M - 1), NEW b \in 0 .. (M - 1)
    PROVE  (a - b + M) % M = IF a >= b THEN a - b ELSE a - b + M
OBVIOUS

\* A sum is brought back into the range once at most.
LEMMA Advance ==
    ASSUME NEW M \in Nat \ {0}, NEW a \in 0 .. (M - 1), NEW d \in 0 .. (M - 1)
    PROVE  (a + d) % M = IF a + d < M THEN a + d ELSE a + d - M
OBVIOUS

-----------------------------------------------------------------------------
(* The initial state *)

\* Init: the static state of usb_mode.c and of the coordinator.
LEMMA InitEstablishes == Init => ModeInv
<1> SUFFICES ASSUME Init PROVE ModeInv
  OBVIOUS
<1> USE Moduli DEF Init, CInit
<1>1. TypeOK
  <2>1. {storage_ready, initialized, vbus, configured, attached, started, cable, changing, entering,
         lending, eject_pending, sample, eject_lend, demoed} \subseteq BOOLEAN
    OBVIOUS
  <2> QED BY <2>1 DEF TypeOK, Times, Phases
<1>2. AskInv /\ CableInv
  BY DEF AskInv, CableInv
<1>3. WatchInv
  BY DEF WatchInv, SeenReady
<1> QED BY <1>1, <1>2, <1>3 DEF ModeInv

-----------------------------------------------------------------------------
(* What each part of storage_step can do to the contract *)

\* watch_for_loss: nothing, or the card is gone.
LEMMA NoticeLossEffect ==
    ASSUME TypeOK, NoticeLoss
    PROVE  /\ phase = "loss" /\ phase' = "hand" /\ owner' = owner
           /\ UNCHANGED contract \/ medium' = "ABSENT"
           /\ epoch' \in 0 .. (EpochMod - 1) /\ medium' \in {medium, "ABSENT"}
           /\ demoed' => UNCHANGED contract
BY Moduli DEF TypeOK, contract, NoticeLoss, Storage, Lose, Succ, StaysReady

\* change_owner: nothing, or a new owner at a new epoch.
LEMMA CarryOutEffect ==
    ASSUME TypeOK, CarryOutRequest
    PROVE  /\ phase = "hand" /\ phase' = "prepare" /\ owner' = requested_owner
           /\ \/ UNCHANGED contract
              \/ /\ epoch' = Succ(epoch)
                 /\ medium \in {"UNFORMATTED", "READY", "PREPARING"} \/ medium' \in {"ABSENT", "FAULTY"}
           /\ epoch' \in 0 .. (EpochMod - 1)
           /\ medium' \in {"ABSENT", "PREPARING", "FAULTY", "UNFORMATTED", "READY"}
           /\ demoed' => UNCHANGED contract
BY Moduli DEF TypeOK, contract, CarryOutRequest, Storage, HandOver, Succ, StaysReady

\* bring_up: nothing, or a medium that is not READY is brought further or is gone.
LEMMA BringUpEffect ==
    ASSUME TypeOK, BringUp
    PROVE  /\ phase = "prepare" /\ phase' = "watch" /\ owner' = owner
           /\ \/ UNCHANGED contract
              \/ medium # "READY" /\ epoch' = epoch /\ (medium' = "READY" => medium = "PREPARING")
           /\ epoch' \in 0 .. (EpochMod - 1)
           /\ medium' \in {"ABSENT", "PREPARING", "FAULTY", "UNFORMATTED", "READY"}
           /\ demoed' => UNCHANGED contract
BY Moduli DEF TypeOK, contract, BringUp, Storage, Prepare, Lose, StaysReady

\* The parts of storage_step change nothing of the policy, and end a readiness only
\* by losing or handing over the card.
LEMMA StorageStepFrame ==
    ASSUME TypeOK, NoticeLoss \/ CarryOutRequest \/ BringUp
    PROVE  /\ storage_ready /\ requested_owner' = requested_owner
           /\ demoed' \in BOOLEAN
           /\ demoed' => demoed
           /\ demoed /\ UNCHANGED contract /\ medium = "READY" => demoed'
           /\ UNCHANGED <<boot, now, vbus, configured, attached, request, taken, policy, eject_pending, seen,
                          sample, steady, eject_lend>>
BY DEF TypeOK, contract, NoticeLoss, CarryOutRequest, BringUp, Storage, HandOver, Prepare, Lose, StaysReady

-----------------------------------------------------------------------------
(* Types *)

\* What usb_mode_step decides: never to enter and to lend at once.
LEMMA DecisionTypes ==
    ASSUME TypeOK, PolicyStep
    PROVE  /\ entering' \in BOOLEAN /\ lending' \in BOOLEAN /\ ~(entering' /\ lending')
           /\ attached' \in BOOLEAN /\ eject_pending' = FALSE
           /\ request' \in {"NONE", "ENTER", "LEAVE"}
           /\ requested_owner' \in {"LOCAL", "USB"}
<1>1. entering \in BOOLEAN /\ lending \in BOOLEAN /\ cable \in BOOLEAN /\ attached \in BOOLEAN
      /\ storage_ready \in BOOLEAN /\ ~(entering /\ lending)
  BY DEF TypeOK
<1>2. entering' \in BOOLEAN /\ lending' \in BOOLEAN /\ ~(entering' /\ lending')
  BY <1>1 DEF PolicyStep, Decide, KeepLent, Wants, StillLent
<1>3. attached' \in BOOLEAN /\ eject_pending' = FALSE
  BY <1>1 DEF PolicyStep, Attach, TakeEject
<1>4. request' \in {"NONE", "ENTER", "LEAVE"} /\ requested_owner' \in {"LOCAL", "USB"}
  BY DEF TypeOK, PolicyStep, AskForOwner
<1> QED BY <1>2, <1>3, <1>4

\* The end of a pass moves the clock on, and the time VBUS has read the same with it.
LEMMA PassTypes ==
    ASSUME TypeOK, EndPass
    PROVE  now' \in Times /\ steady' \in 0 .. Debounce
<1>1. now \in Nat /\ steady \in 0 .. Debounce
  BY Moduli DEF TypeOK, Times
<1>2. PICK d \in 0 .. MaxPass :
          /\ now' = (now + d) % ClockMod
          /\ steady' = IF steady + d > Debounce THEN Debounce ELSE steady + d
  BY DEF EndPass
<1>3. now' \in Times
  BY <1>1, <1>2, Moduli, Advance DEF TypeOK, Times
<1> QED BY <1>1, <1>2, <1>3, Moduli

\* Every step keeps every variable in its type.
LEMMA TypeStep == TypeOK /\ [Next]_vars => TypeOK'
<1> SUFFICES ASSUME TypeOK, [Next]_vars PROVE TypeOK'
  OBVIOUS
<1> DEFINE Flags == {storage_ready, initialized, vbus, configured, attached, started, cable, changing,
                     entering, lending, eject_pending, sample, eject_lend, demoed}
<1>0. /\ Flags \subseteq BOOLEAN /\ storage_ready \in BOOLEAN /\ initialized \in BOOLEAN
      /\ vbus \in BOOLEAN /\ configured \in BOOLEAN /\ attached \in BOOLEAN /\ started \in BOOLEAN
      /\ cable \in BOOLEAN /\ changing \in BOOLEAN /\ entering \in BOOLEAN /\ lending \in BOOLEAN
      /\ eject_pending \in BOOLEAN /\ sample \in BOOLEAN /\ eject_lend \in BOOLEAN /\ demoed \in BOOLEAN
  BY DEF TypeOK
<1> USE DEF contract, boot, policy, history
<1>1. CASE VbusChanges
  BY <1>0, <1>1 DEF VbusChanges, TypeOK
<1>2. CASE WriteRequest
  BY <1>0, <1>2 DEF WriteRequest, TypeOK
<1>3. CASE HostConfigures
  BY <1>0, <1>3 DEF HostConfigures, TypeOK
<1>4. CASE HostEjects
  BY <1>0, <1>4 DEF HostEjects, TypeOK
<1>5. CASE UsbTask
  BY <1>0, <1>5 DEF UsbTask, TypeOK, Phases
<1>6. CASE ReadRequest
  <2>1. cable' \in BOOLEAN /\ changing' \in BOOLEAN /\ changing_since' \in Times
    BY <1>0, <1>6 DEF ReadRequest, WatchCable, TypeOK
  <2> QED BY <1>0, <1>6, <2>1, Moduli DEF ReadRequest, TypeOK, Phases
<1>7. CASE PolicyStep
  <2>1. phase' = "loss" /\ taken' = "NONE" /\ eject_lend' = FALSE
        /\ UNCHANGED <<owner, medium, epoch, boot, now, vbus, configured, started, cable, changing,
                       changing_since, seen, sample, steady, demoed>>
    BY <1>7 DEF PolicyStep
  <2>2. /\ entering' \in BOOLEAN /\ lending' \in BOOLEAN /\ ~(entering' /\ lending')
        /\ attached' \in BOOLEAN /\ eject_pending' = FALSE
        /\ request' \in {"NONE", "ENTER", "LEAVE"} /\ requested_owner' \in {"LOCAL", "USB"}
    BY <1>7, DecisionTypes
  <2>3. {storage_ready', initialized', vbus', configured', attached', started', cable', changing',
         entering', lending', eject_pending', sample', eject_lend', demoed'} \subseteq BOOLEAN
    BY <1>0, <2>1, <2>2
  <2> QED BY <2>1, <2>2, <2>3 DEF TypeOK, Phases
<1>8. CASE NoticeLoss \/ CarryOutRequest \/ BringUp
  <2>1. /\ owner' \in {"LOCAL", "USB"} /\ requested_owner' = requested_owner
        /\ medium' \in {"ABSENT", "PREPARING", "FAULTY", "UNFORMATTED", "READY"}
        /\ epoch' \in 0 .. (EpochMod - 1) /\ phase' \in Phases /\ demoed' \in BOOLEAN
    BY <1>8, NoticeLossEffect, CarryOutEffect, BringUpEffect, StorageStepFrame DEF TypeOK, Phases
  <2>2. UNCHANGED <<boot, now, vbus, configured, attached, request, taken, policy, eject_pending, seen,
                    sample, steady, eject_lend>>
    BY <1>8, StorageStepFrame
  <2> QED BY <1>0, <2>1, <2>2 DEF TypeOK
<1>9. CASE RunDemo \/ OnlyLog \/ NoCoordinator
  <2>1. EndPass /\ phase' = "usb" /\ demoed' \in BOOLEAN
    BY <1>0, <1>9 DEF RunDemo, OnlyLog, NoCoordinator, EndPass
  <2>2. UNCHANGED <<contract, boot, vbus, configured, attached, request, taken, policy, eject_pending,
                    sample, eject_lend>>
    BY <1>9 DEF RunDemo, OnlyLog, NoCoordinator
  <2> QED BY <1>0, <2>1, <2>2, PassTypes DEF TypeOK, Phases
<1>10. CASE UNCHANGED vars
  BY <1>0, <1>10 DEF vars, TypeOK
<1> QED BY <1>1, <1>2, <1>3, <1>4, <1>5, <1>6, <1>7, <1>8, <1>9, <1>10 DEF Next, World, Loop

-----------------------------------------------------------------------------
(* Lending, and what the coordinator is asked *)

\* Every step keeps what the coordinator was asked in step with lending.
LEMMA AskStep == TypeOK /\ AskInv /\ [Next]_vars => AskInv'
<1> SUFFICES ASSUME TypeOK, AskInv, [Next]_vars PROVE AskInv'
  OBVIOUS
<1> USE DEF contract, boot, policy, history
<1>0. /\ lending \in BOOLEAN /\ configured \in BOOLEAN /\ cable \in BOOLEAN /\ storage_ready \in BOOLEAN
      /\ eject_pending \in BOOLEAN /\ eject_lend \in BOOLEAN
  BY DEF TypeOK
<1>1. CASE VbusChanges \/ WriteRequest
  BY <1>1 DEF VbusChanges, WriteRequest, AskInv
<1>2. CASE HostConfigures
  BY <1>2 DEF HostConfigures, AskInv
<1>3. CASE HostEjects
  BY <1>0, <1>3 DEF HostEjects, AskInv
<1>4. CASE UsbTask
  BY <1>4 DEF UsbTask, AskInv
<1>5. CASE ReadRequest
  BY <1>5 DEF ReadRequest, AskInv
<1>6. CASE PolicyStep
  <2>1. requested_owner' = IF lending' THEN "USB" ELSE "LOCAL"
    BY <1>0, <1>6 DEF PolicyStep, AskForOwner, AskInv
  <2>2. lending' => cable /\ configured /\ storage_ready
    BY <1>0, <1>6 DEF PolicyStep, Decide, KeepLent, StillLent, AskInv
  <2>3. UNCHANGED <<owner, storage_ready, cable, configured>> /\ phase' = "loss" /\ ~eject_pending'
    BY <1>6 DEF PolicyStep, TakeEject
  <2>4. ~storage_ready => ~lending' /\ owner' = "LOCAL"
    BY <2>2, <2>3 DEF AskInv
  <2> QED BY <2>1, <2>2, <2>3, <2>4 DEF AskInv
<1>7. CASE NoticeLoss \/ CarryOutRequest \/ BringUp
  <2>1. /\ storage_ready /\ storage_ready' = storage_ready
        /\ UNCHANGED <<requested_owner, lending, cable, configured, eject_pending, eject_lend>>
    BY <1>7, StorageStepFrame
  <2> QED BY <1>7, <2>1, NoticeLossEffect, CarryOutEffect, BringUpEffect DEF AskInv
<1>8. CASE RunDemo \/ OnlyLog
  BY <1>8 DEF RunDemo, OnlyLog, EndPass, AskInv, TypeOK
<1>9. CASE NoCoordinator
  BY <1>9 DEF NoCoordinator, EndPass, AskInv
<1>10. CASE UNCHANGED vars
  BY <1>10 DEF vars, AskInv
<1> QED BY <1>1, <1>2, <1>3, <1>4, <1>5, <1>6, <1>7, <1>8, <1>9, <1>10 DEF Next, World, Loop

-----------------------------------------------------------------------------
(* The cable *)

\* What an observed level does to the debounce, in terms of the time that has passed.
LEMMA LevelObserved ==
    ASSUME TypeOK, CableInv, ReadRequest
    PROVE  /\ started' /\ phase' = "take" /\ now' = now /\ sample' = vbus
           /\ steady' = IF vbus = sample THEN steady ELSE 0
           /\ \/ cable' = vbus /\ ~changing'
              \/ /\ started /\ cable' = cable /\ vbus # cable /\ changing'
                 /\ IF changing THEN changing_since' = changing_since /\ Elapsed < Debounce
                                ELSE changing_since' = now
<1>0. HeldFor <=> Elapsed >= Debounce
  BY DEF HeldFor, Elapsed
<1> USE DEF ReadRequest, WatchCable
<1>1. vbus \in BOOLEAN /\ cable \in BOOLEAN /\ changing \in BOOLEAN /\ started \in BOOLEAN
  BY DEF TypeOK
<1>2. Elapsed \in Nat
  BY Moduli, Difference DEF TypeOK, Times, Elapsed
<1>3. CASE ~started
  BY <1>1, <1>3 DEF CableInv
<1>4. CASE started /\ vbus = cable
  BY <1>1, <1>4
<1>5. CASE started /\ vbus # cable /\ ~changing
  BY <1>1, <1>5
<1>6. CASE started /\ vbus # cable /\ changing
  <2>1. ~HeldFor => Elapsed < Debounce
    BY <1>0, <1>2, Moduli
  <2>2. started' /\ phase' = "take" /\ now' = now /\ sample' = vbus
        /\ steady' = IF vbus = sample THEN steady ELSE 0
    OBVIOUS
  <2>3. CASE HeldFor
    BY <1>1, <1>6, <2>2, <2>3
  <2>4. CASE ~HeldFor
    BY <1>1, <1>6, <2>1, <2>2, <2>4
  <2> QED BY <2>3, <2>4
<1> QED BY <1>1, <1>3, <1>4, <1>5, <1>6

\* Every step keeps the debounce in step with the time VBUS has read the same.
LEMMA CableStepKeeps == TypeOK /\ CableInv /\ [Next]_vars => CableInv'
<1> SUFFICES ASSUME TypeOK, CableInv, [Next]_vars PROVE CableInv'
  OBVIOUS
<1> USE DEF contract, boot, policy, history
<1>0. /\ vbus \in BOOLEAN /\ cable \in BOOLEAN /\ changing \in BOOLEAN /\ started \in BOOLEAN /\ sample \in BOOLEAN
      /\ now \in Times /\ changing_since \in Times /\ steady \in 0 .. Debounce
  BY DEF TypeOK
<1>1. CASE VbusChanges \/ WriteRequest \/ HostConfigures \/ HostEjects \/ UNCHANGED vars
  BY <1>1 DEF VbusChanges, WriteRequest, HostConfigures, HostEjects, vars, CableInv, Elapsed
<1>2. CASE UsbTask
  BY <1>2 DEF UsbTask, CableInv, Elapsed
<1>3. CASE ReadRequest
  <2>1. CASE ~changing'
    BY <1>0, <1>3, <2>1, LevelObserved DEF CableInv
  <2>2. CASE changing' /\ changing
    <3>1. vbus = sample /\ steady' = steady /\ Elapsed' = Elapsed
      BY <1>0, <1>3, <2>2, LevelObserved DEF CableInv, Elapsed
    <3> QED BY <1>0, <1>3, <2>2, <3>1, LevelObserved DEF CableInv
  <2>3. CASE changing' /\ ~changing
    <3>1. vbus # sample /\ steady' = 0
      BY <1>0, <1>3, <2>3, LevelObserved DEF CableInv
    <3>2. Elapsed' = 0
      <4>1. now' = now /\ changing_since' = now
        BY <1>3, <2>3, LevelObserved
      <4>2. (now - now + ClockMod) % ClockMod = 0
        BY <1>0, Moduli, Difference DEF Times
      <4> QED BY <4>1, <4>2 DEF Elapsed
    <3> QED BY <1>0, <1>3, <2>3, <3>1, <3>2, Moduli, LevelObserved DEF CableInv
  <2> QED BY <2>1, <2>2, <2>3
<1>4. CASE PolicyStep
  BY <1>4 DEF PolicyStep, CableInv, Elapsed
<1>5. CASE NoticeLoss \/ CarryOutRequest \/ BringUp
  <2>1. UNCHANGED <<now, started, cable, changing, changing_since, sample, steady>>
    BY <1>5, StorageStepFrame
  <2>2. phase \notin {"usb", "policy"}
    BY <1>5, NoticeLossEffect, CarryOutEffect, BringUpEffect
  <2> QED BY <2>1, <2>2 DEF CableInv, Elapsed
<1>6. CASE RunDemo \/ OnlyLog \/ NoCoordinator
  <2>1. EndPass /\ phase' = "usb" /\ phase \notin {"usb", "policy"}
        /\ UNCHANGED <<started, cable, changing, changing_since, sample>>
    BY <1>6 DEF RunDemo, OnlyLog, NoCoordinator, EndPass
  <2>2. PICK d \in 0 .. MaxPass :
            /\ now' = (now + d) % ClockMod
            /\ steady' = IF steady + d > Debounce THEN Debounce ELSE steady + d
    BY <2>1 DEF EndPass
  <2>3. CASE changing
    <3>0. Elapsed \in Nat
      BY <1>0, Moduli, Difference DEF Elapsed, Times
    <3>1. Elapsed < Debounce /\ steady = Elapsed /\ Elapsed \in Nat
      BY <1>0, <2>1, <2>3, <3>0, Moduli DEF CableInv
    <3>2. now' = IF now + d < ClockMod THEN now + d ELSE now + d - ClockMod
      <4>1. d \in 0 .. (ClockMod - 1) /\ now \in 0 .. (ClockMod - 1)
        BY <1>0, Moduli DEF Times
      <4> QED BY <2>2, <4>1, Moduli, Advance
    <3>3. Elapsed = IF now >= changing_since THEN now - changing_since
                    ELSE now - changing_since + ClockMod
      BY <1>0, Moduli, Difference DEF Times, Elapsed
    <3>4. now' \in 0 .. (ClockMod - 1)
      BY <1>0, <3>2, Moduli DEF Times
    <3>5. (now' - changing_since + ClockMod) % ClockMod
              = IF now' >= changing_since THEN now' - changing_since
                ELSE now' - changing_since + ClockMod
      BY <1>0, <3>4, Moduli, Difference DEF Times
    <3>6. (now' - changing_since + ClockMod) % ClockMod = Elapsed + d
      BY <1>0, <3>1, <3>2, <3>3, <3>5, Moduli DEF Times
    <3>7. Elapsed' = Elapsed + d
      BY <2>1, <3>6 DEF Elapsed
    <3> QED BY <1>0, <2>1, <2>2, <2>3, <3>1, <3>7 DEF CableInv
  <2>4. CASE ~changing
    BY <1>0, <2>1, <2>4 DEF CableInv
  <2> QED BY <1>0, <2>3, <2>4
<1> QED BY <1>1, <1>2, <1>3, <1>4, <1>5, <1>6 DEF Next, World, Loop

-----------------------------------------------------------------------------
(* What storage_watch saw *)

\* Every step keeps what was seen a pass ago in step with how things stand.
LEMMA WatchStep == TypeOK /\ AskInv /\ WatchInv /\ [Next]_vars => WatchInv'
<1> SUFFICES ASSUME TypeOK, AskInv, WatchInv, [Next]_vars PROVE WatchInv'
  OBVIOUS
<1> USE DEF contract, boot, policy, history
<1>1. CASE VbusChanges \/ WriteRequest \/ HostConfigures \/ HostEjects \/ UNCHANGED vars
  BY <1>1 DEF VbusChanges, WriteRequest, HostConfigures, HostEjects, vars, WatchInv, SeenReady, SeenNow
<1>2. CASE UsbTask \/ ReadRequest
  BY <1>2 DEF UsbTask, ReadRequest, WatchInv, SeenReady, SeenNow
<1>3. CASE PolicyStep
  BY <1>3 DEF PolicyStep, WatchInv, SeenReady, SeenNow
<1>4. CASE NoticeLoss
  <2>1. /\ phase = "loss" /\ phase' = "hand" /\ seen' = seen
        /\ UNCHANGED contract \/ medium' = "ABSENT"
        /\ demoed' => demoed /\ UNCHANGED contract
        /\ demoed /\ UNCHANGED contract /\ medium = "READY" => demoed'
    BY <1>4, NoticeLossEffect, StorageStepFrame
  <2>2. SeenReady => medium = "READY" /\ epoch = seen[3]
    BY <2>1 DEF WatchInv, SeenReady, SeenNow
  <2>3. SeenReady' <=> SeenReady
    BY <2>1 DEF SeenReady
  <2>4. CASE UNCHANGED contract
    BY <2>1, <2>2, <2>3, <2>4 DEF WatchInv
  <2>5. CASE ~UNCHANGED contract
    BY <2>1, <2>3, <2>5 DEF WatchInv
  <2> QED BY <2>4, <2>5
<1>5. CASE CarryOutRequest
  <2>1. /\ phase = "hand" /\ phase' = "prepare" /\ seen' = seen
        /\ \/ UNCHANGED contract
           \/ /\ epoch' = Succ(epoch)
              /\ medium \in {"UNFORMATTED", "READY", "PREPARING"} \/ medium' \in {"ABSENT", "FAULTY"}
        /\ demoed' => demoed /\ UNCHANGED contract
        /\ demoed /\ UNCHANGED contract /\ medium = "READY" => demoed'
    BY <1>5, CarryOutEffect, StorageStepFrame
  <2>2. epoch' = Succ(epoch) => epoch' # epoch
    BY Moduli DEF TypeOK, Succ
  <2>3. SeenReady' <=> SeenReady
    BY <2>1 DEF SeenReady
  <2>4. CASE UNCHANGED contract
    BY <2>1, <2>3, <2>4 DEF WatchInv
  <2>5. CASE ~UNCHANGED contract
    BY <2>1, <2>2, <2>3, <2>5 DEF WatchInv
  <2> QED BY <2>4, <2>5
<1>6. CASE BringUp
  <2>1. /\ phase = "prepare" /\ phase' = "watch" /\ seen' = seen /\ owner' = owner
        /\ \/ UNCHANGED contract
           \/ medium # "READY" /\ epoch' = epoch /\ (medium' = "READY" => medium = "PREPARING")
        /\ demoed' => demoed /\ UNCHANGED contract
        /\ demoed /\ UNCHANGED contract /\ medium = "READY" => demoed'
    BY <1>6, BringUpEffect, StorageStepFrame
  <2>2. SeenReady' <=> SeenReady
    BY <2>1 DEF SeenReady
  <2>3. CASE UNCHANGED contract
    BY <2>1, <2>2, <2>3 DEF WatchInv
  <2>4. CASE ~UNCHANGED contract
    BY <2>1, <2>2, <2>4 DEF WatchInv
  <2> QED BY <2>3, <2>4
<1>7. CASE RunDemo \/ OnlyLog
  BY <1>7 DEF RunDemo, OnlyLog, EndPass, BecameReady, WatchInv, SeenReady, SeenNow
<1>8. CASE NoCoordinator
  BY <1>8 DEF NoCoordinator, EndPass, WatchInv, SeenReady, SeenNow
<1> QED BY <1>1, <1>2, <1>3, <1>4, <1>5, <1>6, <1>7, <1>8 DEF Next, World, Loop

-----------------------------------------------------------------------------
(* The theorems *)

\* ModeInv holds of every reachable state of the loop (main.c, usb_mode.c).
THEOREM InductiveInvariant == Spec => []ModeInv
<1>1. ModeInv /\ [Next]_vars => ModeInv'
  BY TypeStep, AskStep, CableStepKeeps, WatchStep DEF ModeInv
<1> QED BY <1>1, InitEstablishes, PTL DEF Spec

\* Every variable keeps its type, and the policy is never about to enter and
\* lending at once (usb_mode.c:17-25).
THEOREM TypeCorrect == Spec => []TypeOK
BY InductiveInvariant, PTL DEF ModeInv

\* The card is with USB exactly while it is lent, and it is lent only to a host
\* that is there (usb_mode_step, storage_request_owner).
THEOREM OwnerCorrect == Spec => []OwnerFollowsPolicy
<1>1. ModeInv => OwnerFollowsPolicy
  BY DEF ModeInv, TypeOK, AskInv, OwnerFollowsPolicy
<1> QED BY <1>1, InductiveInvariant, PTL

\* A host that is still there loses the card unasked only by an eject of this
\* very lend (usb_mode_step, msc_disk_take_eject).
THEOREM EjectCorrect == Spec => EjectEndsItsOwnLend
<1>1. ModeInv /\ [Next]_vars => EjectStep
  <2> SUFFICES ASSUME ModeInv, [Next]_vars, lending, ~lending', cable, configured, taken # "LEAVE"
               PROVE  eject_lend
    BY DEF EjectStep
  <2>1. PolicyStep
    <3>1. NoticeLoss \/ CarryOutRequest \/ BringUp => lending' = lending
      BY StorageStepFrame DEF ModeInv, policy
    <3> QED BY <3>1 DEF Next, World, Loop, vars, policy, VbusChanges, WriteRequest, HostConfigures,
              HostEjects, UsbTask, ReadRequest, RunDemo, OnlyLog, NoCoordinator
  <2>2. eject_pending
    BY <2>1 DEF PolicyStep, Decide, KeepLent, StillLent, ModeInv, AskInv, TypeOK
  <2> QED BY <2>2 DEF ModeInv, AskInv
<1>2. ModeInv /\ [Next]_vars => [EjectStep]_vars
  BY <1>1
<1> QED BY <1>2, InductiveInvariant, PTL DEF Spec, EjectEndsItsOwnLend, EjectStep

\* The cable is believed to have changed exactly when VBUS has read the same for
\* the debounce time, across dips and the clock's wrap (watch_cable, held_for).
THEOREM CableCorrect == Spec => CableIsDebounced
<1>1. ModeInv /\ [Next]_vars => CableStep
  <2> SUFFICES ASSUME ModeInv, [Next]_vars, started, cable' # cable
               PROVE  cable' = vbus /\ sample = vbus /\ steady >= Debounce
    BY DEF CableStep
  <2>1. ReadRequest
    BY StorageStepFrame DEF Next, World, Loop, vars, policy, VbusChanges, WriteRequest, HostConfigures,
       HostEjects, UsbTask, PolicyStep, RunDemo, OnlyLog, NoCoordinator, ModeInv
  <2>2. cable' = vbus /\ vbus # cable /\ changing /\ HeldFor
    BY <2>1 DEF ReadRequest, WatchCable
  <2>3. sample = vbus
    BY <2>2 DEF ModeInv, CableInv, TypeOK
  <2>4. Elapsed \in Nat /\ Elapsed >= Debounce
    BY <2>2, Moduli, Difference DEF HeldFor, Elapsed, ModeInv, TypeOK, Times
  <2>5. steady >= Debounce
    BY <2>2, <2>4, Moduli DEF ModeInv, CableInv
  <2> QED BY <2>2, <2>3, <2>5
<1>2. ModeInv => (phase = "loss" /\ steady >= Debounce => cable = sample)
  <2> SUFFICES ASSUME ModeInv, phase = "loss", steady >= Debounce PROVE cable = sample
    OBVIOUS
  <2>1. ~changing
    <3>1. Elapsed \in Nat
      BY Moduli, Difference DEF Elapsed, ModeInv, TypeOK, Times
    <3> QED BY <3>1, Moduli DEF ModeInv, CableInv
  <2> QED BY <2>1 DEF ModeInv, CableInv
<1>3. ModeInv /\ [Next]_vars => [CableStep]_vars
  BY <1>1
<1> QED BY <1>2, <1>3, InductiveInvariant, PTL DEF Spec, CableIsDebounced, CableStep

\* The demo runs once for each readiness (storage_watch).
THEOREM DemoCorrect == Spec => DemoOncePerReadiness
<1>1. ModeInv => DemoStep
  BY DEF ModeInv, WatchInv, SeenReady, DemoStep, RunDemo, BecameReady
<1>2. ModeInv => (phase = "usb" /\ owner = "LOCAL" /\ medium = "READY" => demoed)
  BY DEF ModeInv, WatchInv
<1>3. ModeInv => [DemoStep]_vars
  BY <1>1
<1> QED BY <1>2, <1>3, InductiveInvariant, PTL DEF DemoOncePerReadiness, DemoStep

-----------------------------------------------------------------------------
(* The loop and the coordinator's contract *)

\* The policy asks for an owner, and the parts of storage_step do what the contract
\* allows; nothing else in the loop, no host and no debugger touches the owner,
\* the medium or the epoch.  What StorageContract allows is therefore all that the
\* loop relies on (main.c, storage_request_owner, storage_step).
THEOREM KeepsContract == Spec => CSpec
<1>1. Init => CInit
  BY DEF Init
<1>2. ModeInv /\ [Next]_vars => [CNext]_contract
  <2> SUFFICES ASSUME ModeInv, [Next]_vars PROVE [CNext]_contract
    OBVIOUS
  <2>1. CASE PolicyStep
    <3>1. requested_owner' \in Users
      BY <2>1, DecisionTypes DEF ModeInv, Users
    <3>2. Request(requested_owner')
      BY <2>1 DEF PolicyStep, Request
    <3> QED BY <3>1, <3>2 DEF CNext
  <2>2. CASE NoticeLoss \/ CarryOutRequest \/ BringUp
    BY <2>2 DEF NoticeLoss, CarryOutRequest, BringUp, Storage, CNext
  <2>3. CASE World \/ UsbTask \/ ReadRequest \/ RunDemo \/ OnlyLog \/ NoCoordinator \/ UNCHANGED vars
    BY <2>3 DEF World, VbusChanges, WriteRequest, HostConfigures, HostEjects, UsbTask, ReadRequest,
       RunDemo, OnlyLog, NoCoordinator, EndPass, vars, contract
  <2> QED BY <2>1, <2>2, <2>3 DEF Next, Loop
<1> QED BY <1>1, <1>2, InductiveInvariant, PTL DEF Spec, CSpec

-----------------------------------------------------------------------------
(* How soon the card comes back *)

\* By the end of the storage_step of the same pass the card is LOCAL again if VBUS
\* has read absent for the debounce time, or if no host has the device configured.
TakenBack ==
    phase \in {"prepare", "watch"} /\ (~configured \/ (steady >= Debounce /\ ~sample)) => owner = "LOCAL"

\* An eject the policy finds, or a request to leave it has read, ends the lend.
EndsLend == PolicyStep /\ (taken = "LEAVE" \/ (lending /\ eject_pending)) => requested_owner' = "LOCAL"

\* The card is never kept from the local owner for another pass: a pass that sees
\* the cable or the host gone has the card back at the end of its storage_step, and
\* one that finds an eject or takes a request to leave has asked for it before,
\* however the world acts in between and whether or not there is a coordinator.
\* This is the safety half of CardComesBack, which adds that the loop goes on
\* (usb_mode_step).
THEOREM TakenBackInSamePass == Spec => []TakenBack /\ [][EndsLend]_vars
<1>1. ModeInv => TakenBack
  <2> SUFFICES ASSUME ModeInv, phase \in {"prepare", "watch"},
                      ~configured \/ (steady >= Debounce /\ ~sample)
               PROVE  owner = "LOCAL"
    BY DEF TakenBack
  <2>1. owner = IF lending THEN "USB" ELSE "LOCAL"
    BY DEF ModeInv, AskInv
  <2>2. lending => cable /\ configured
    BY DEF ModeInv, AskInv
  <2>3. steady >= Debounce => cable = sample
    <3>1. Elapsed \in Nat
      BY Moduli, Difference DEF Elapsed, ModeInv, TypeOK, Times
    <3>2. steady >= Debounce => ~changing
      BY <3>1, Moduli DEF ModeInv, CableInv
    <3> QED BY <3>2 DEF ModeInv, CableInv
  <2> QED BY <2>1, <2>2, <2>3
<1>2. ModeInv => EndsLend
  <2> SUFFICES ASSUME ModeInv, PolicyStep, taken = "LEAVE" \/ (lending /\ eject_pending)
               PROVE  requested_owner' = "LOCAL"
    BY DEF EndsLend
  <2>1. lending \in BOOLEAN /\ storage_ready \in BOOLEAN /\ eject_pending \in BOOLEAN
    BY DEF ModeInv, TypeOK
  <2>2. lending' = FALSE
    BY <2>1 DEF PolicyStep, Decide, KeepLent, StillLent, Wants, ModeInv, TypeOK
  <2> QED BY <2>1, <2>2 DEF PolicyStep, AskForOwner, ModeInv, AskInv
<1>3. ModeInv => [EndsLend]_vars
  BY <1>2
<1> QED BY <1>1, <1>3, InductiveInvariant, PTL

-----------------------------------------------------------------------------
(* When a request is taken *)

\* The debugger writes a request, but not between its being read and its reset.
NotWhileTaken == WriteRequest => phase # "take"

\* What a step is about to reset is what it has read.
ReadAsWritten == phase = "take" => request = taken

\* The window between take_request's read and its reset is the only one in which a
\* request can be lost, as the run usb_mode_request_lost shows one: a debugger
\* that keeps out of it has every request taken by a step of the policy, however
\* soon it writes the next one.
THEOREM UnracedRequestIsTaken == Spec /\ [][NotWhileTaken]_vars => RequestIsTaken
<1> DEFINE Step == Next /\ NotWhileTaken
<1>1. Init => ReadAsWritten
  BY DEF Init, ReadAsWritten
<1>2. ModeInv /\ ReadAsWritten /\ [Step]_vars => ReadAsWritten'
  <2> SUFFICES ASSUME ModeInv, ReadAsWritten, [Step]_vars PROVE ReadAsWritten'
    OBVIOUS
  <2> USE DEF ReadAsWritten
  <2>1. CASE WriteRequest /\ NotWhileTaken
    BY <2>1 DEF WriteRequest, NotWhileTaken
  <2>2. CASE ReadRequest
    BY <2>2 DEF ReadRequest
  <2>3. CASE NoticeLoss \/ CarryOutRequest \/ BringUp
    BY <2>3, NoticeLossEffect, CarryOutEffect, BringUpEffect DEF ModeInv
  <2>4. CASE \/ VbusChanges \/ HostConfigures \/ HostEjects \/ UsbTask \/ PolicyStep
             \/ RunDemo \/ OnlyLog \/ NoCoordinator \/ UNCHANGED vars
    BY <2>4 DEF VbusChanges, HostConfigures, HostEjects, UsbTask, PolicyStep, RunDemo, OnlyLog,
       NoCoordinator, EndPass, vars
  <2> QED BY <2>1, <2>2, <2>3, <2>4 DEF Next, World, Loop
<1>3. ModeInv /\ ReadAsWritten /\ [Step]_vars
        => [request # "NONE" /\ request' = "NONE" => taken = request]_vars
  <2> SUFFICES ASSUME ModeInv, ReadAsWritten, Next, request # "NONE", request' = "NONE"
               PROVE  taken = request
    OBVIOUS
  <2>1. PolicyStep
    <3>1. NoticeLoss \/ CarryOutRequest \/ BringUp => request' = request
      BY StorageStepFrame DEF ModeInv
    <3> QED BY <3>1 DEF Next, World, Loop, VbusChanges, WriteRequest, HostConfigures, HostEjects,
              UsbTask, ReadRequest, RunDemo, OnlyLog, NoCoordinator
  <2> QED BY <2>1 DEF PolicyStep, ReadAsWritten
<1>4. [Next]_vars /\ [NotWhileTaken]_vars => [Step]_vars
  OBVIOUS
<1> QED BY <1>1, <1>2, <1>3, <1>4, InductiveInvariant, PTL DEF Spec, RequestIsTaken
=============================================================================
