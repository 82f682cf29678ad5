--------------------------- MODULE MscDiskProofs ---------------------------
(***************************************************************************)
(* Theorems about the disk a USB host sees, for every modulus of the       *)
(* epoch.  They rest on two facts: while the epoch has not come round, one *)
(* that the disk remembers and that is not the current one is older, and a *)
(* medium presented at the current epoch is the one that is READY now.     *)
(***************************************************************************)
EXTENDS MscDisk, TLAPS

\* The epoch counts the changes; what the disk remembers is never newer.
EpochsInOrder ==
    /\ epoch = changes
    /\ presented_epoch <= changes
    /\ withheld_epoch <= changes

\* What has been presented at this epoch is USB's, READY, and the host was told.
PresentedIsReady == Known => owner = "USB" /\ medium = "READY" /\ told

\* What the host was told of is USB's and READY, and presented unless withheld.
ToldIsReady == told => owner = "USB" /\ medium = "READY" /\ (Known \/ away)

\* A transfer that lost its medium finds a host that has not been told.
CrossedIsUntold == transfer = "crossed" => ~told

MscInv ==
    /\ MscTypeOK
    /\ EpochsInOrder
    /\ WithheldWhileAway
    /\ PresentedIsReady
    /\ ToldIsReady
    /\ CrossedIsUntold
    /\ SenseTellsLastFailure

-----------------------------------------------------------------------------
(* What a step of the coordinator and each host command change *)

ContractStep == HandOver \/ Lose \/ Prepare \/ GiveUpRelease

\* No step of the coordinator leaves a READY medium READY for the same owner,
\* and the epoch, if it changes, is the next one.
LEMMA ContractStepEffect ==
    ASSUME MscTypeOK, EpochsInOrder, ContractStep, Coordinate(ContractStep)
    PROVE  /\ owner' \in Users /\ requested_owner' \in Users
           /\ medium' \in {"ABSENT", "PREPARING", "FAULTY", "UNFORMATTED", "READY"}
           /\ ~StaysReady
           /\ changes' \in Epochs /\ epoch' = changes' /\ epoch \in Epochs
           /\ epoch' = epoch \/ epoch' = epoch + 1
           /\ owner = "USB" /\ medium = "READY" => epoch' = epoch + 1
  <1> USE EpochAssumption
  <1>1. epoch' = epoch \/ epoch' = Succ(epoch)
    BY DEF ContractStep, HandOver, Lose, Prepare, GiveUpRelease
  <1>2. changes \in Epochs /\ epoch = changes
    BY DEF MscTypeOK, EpochsInOrder
  <1>3. changes' = (IF epoch' = epoch THEN changes ELSE changes + 1) /\ changes' < EpochMod
    BY DEF Coordinate
  <1>4. epoch' = epoch \/ epoch' = epoch + 1
    BY <1>1, <1>2, <1>3 DEF Succ, Epochs
  <1>5. changes' \in Epochs /\ epoch' = changes'
    BY <1>2, <1>3, <1>4 DEF Epochs
  <1>6. /\ owner' \in Users /\ requested_owner' \in Users
        /\ medium' \in {"ABSENT", "PREPARING", "FAULTY", "UNFORMATTED", "READY"}
        /\ ~StaysReady
    BY DEF MscTypeOK, ContractStep, HandOver, Lose, Prepare, GiveUpRelease, StaysReady, Users
  <1>7. owner = "USB" /\ medium = "READY" => epoch' = Succ(epoch)
    BY DEF ContractStep, HandOver, Lose, Prepare, GiveUpRelease
  <1>8. Succ(epoch) # epoch
    BY <1>2 DEF Succ, Epochs
  <1> QED BY <1>2, <1>4, <1>5, <1>6, <1>7, <1>8

LEMMA CoordinatorStep ==
    ASSUME MscInv, ContractStep, Coordinate(ContractStep)
    PROVE  MscInv'
  <1> USE DEF MscInv
  <1>1. /\ owner' \in Users /\ requested_owner' \in Users
        /\ medium' \in {"ABSENT", "PREPARING", "FAULTY", "UNFORMATTED", "READY"}
        /\ ~StaysReady
        /\ changes' \in Epochs /\ epoch' = changes' /\ epoch \in Epochs
        /\ epoch' = epoch \/ epoch' = epoch + 1
        /\ owner = "USB" /\ medium = "READY" => epoch' = epoch + 1
    BY ContractStepEffect
  <1>2. /\ gone' = (gone /\ medium' = "READY")
        /\ told' = FALSE
        /\ away' = (away /\ epoch' = epoch)
        /\ transfer' = IF transfer = "moving" THEN "crossed" ELSE transfer
        /\ UNCHANGED <<disk, eject_pending, sense>>
    BY <1>1 DEF Coordinate
  <1>3. MscTypeOK'
    <2>1. gone' \in BOOLEAN /\ told' \in BOOLEAN /\ away' \in BOOLEAN
      BY <1>2
    <2>2. transfer' \in {"none", "begun", "moving", "crossed"}
      BY <1>2 DEF MscTypeOK
    <2>3. /\ presented' \in BOOLEAN /\ withheld' \in BOOLEAN /\ eject_pending' \in BOOLEAN
          /\ kept' \in BOOLEAN /\ {kept_sense', tiny_sense', reason'} \subseteq Senses
          /\ presented_epoch' \in Epochs /\ withheld_epoch' \in Epochs
      BY <1>2 DEF MscTypeOK, disk, sense
    <2> QED BY <1>1, <2>1, <2>2, <2>3 DEF MscTypeOK
  <1>4. EpochsInOrder'
    BY <1>1, <1>2 DEF EpochsInOrder, MscTypeOK, Epochs, disk
  <1>5. WithheldWhileAway'
    <2>1. epoch' = epoch => (Withheld' <=> Withheld)
      BY <1>2 DEF Withheld, disk
    <2>2. epoch' = epoch + 1 => ~Withheld'
      BY <1>1, <1>2 DEF Withheld, disk, EpochsInOrder, MscTypeOK, Epochs
    <2>3. epoch' = epoch + 1 => epoch' # epoch
      BY <1>1 DEF Epochs
    <2> QED BY <1>1, <1>2, <2>1, <2>2, <2>3 DEF WithheldWhileAway
  <1>6. PresentedIsReady'
    <2>1. epoch' = epoch => (Known' <=> Known)
      BY <1>2 DEF Known, disk
    <2>2. epoch' = epoch + 1 => ~Known'
      BY <1>1, <1>2 DEF Known, disk, EpochsInOrder, MscTypeOK, Epochs
    <2>3. epoch' = epoch => ~Known
      BY <1>1 DEF PresentedIsReady, Epochs
    <2> QED BY <1>1, <2>1, <2>2, <2>3 DEF PresentedIsReady
  <1>7. ToldIsReady' /\ CrossedIsUntold'
    BY <1>2 DEF ToldIsReady, CrossedIsUntold
  <1>8. SenseTellsLastFailure'
    BY <1>2 DEF SenseTellsLastFailure, Answer, sense
  <1> QED BY <1>3, <1>4, <1>5, <1>6, <1>7, <1>8

\* Each part of storage_step is such a step.
LEMMA StorageStepIsContractStep ==
    StorageStep => ContractStep /\ Coordinate(ContractStep)
  BY DEF StorageStep, ContractStep, Coordinate

-----------------------------------------------------------------------------
(* The host's commands.  What each does to the disk and to the history is one
   of five things; what it does to the sense is one of four. *)

NoChange == UNCHANGED <<disk, told, away>>
Withdrawn == ~Offered /\ presented' = FALSE /\ UNCHANGED <<presented_epoch, withheld, withheld_epoch, told, away>>
Announced ==
    /\ owner = "USB" /\ medium = "READY" /\ ~Withheld
    /\ presented' = TRUE /\ presented_epoch' = epoch /\ told' = TRUE
    /\ UNCHANGED <<withheld, withheld_epoch, away>>
TakenAway ==
    /\ withheld' = TRUE /\ withheld_epoch' = epoch /\ away' = TRUE /\ presented' = FALSE
    /\ UNCHANGED <<presented_epoch, told>>

DiskStep == NoChange \/ Withdrawn \/ Announced \/ TakenAway

LEMMA DiskStepKeeps ==
    ASSUME MscInv, DiskStep, UNCHANGED <<contract, changes>>
    PROVE  EpochsInOrder' /\ WithheldWhileAway' /\ PresentedIsReady' /\ ToldIsReady'
  <1> USE DEF MscInv, EpochsInOrder, MscTypeOK, Epochs
  <1>1. UNCHANGED <<owner, medium, epoch, changes>>
    BY DEF contract
  <1>2. CASE NoChange
    BY <1>1, <1>2
    DEF NoChange, disk, WithheldWhileAway, Withheld, PresentedIsReady, ToldIsReady, Known
  <1>3. CASE Withdrawn
    <2>1. ~told \/ away
      BY <1>3 DEF Withdrawn, Offered, ToldIsReady, WithheldWhileAway
    <2> QED
      BY <1>1, <1>3, <2>1
      DEF Withdrawn, WithheldWhileAway, Withheld, PresentedIsReady, ToldIsReady, Known
  <1>4. CASE Announced
    BY <1>1, <1>4 DEF Announced, WithheldWhileAway, Withheld, PresentedIsReady, ToldIsReady, Known
  <1>5. CASE TakenAway
    BY <1>1, <1>5 DEF TakenAway, WithheldWhileAway, Withheld, PresentedIsReady, ToldIsReady, Known
  <1> QED BY <1>2, <1>3, <1>4, <1>5 DEF DiskStep

\* The types of what commands change.
LEMMA DiskStepTypes ==
    ASSUME MscInv, DiskStep, UNCHANGED contract
    PROVE  /\ presented' \in BOOLEAN /\ withheld' \in BOOLEAN
           /\ told' \in BOOLEAN /\ away' \in BOOLEAN
           /\ presented_epoch' \in Epochs /\ withheld_epoch' \in Epochs
  BY DEF MscInv, MscTypeOK, DiskStep, NoChange, Withdrawn, Announced, TakenAway, disk

SenseStep ==
    \/ UNCHANGED sense
    \/ \E s \in Senses : FailWith(s)
    \/ \E s \in Senses : FailTransfer(s)
    \/ kept' = FALSE /\ tiny_sense' = "none" /\ reason' = "none" /\ UNCHANGED kept_sense

LEMMA SenseStepKeeps ==
    ASSUME MscInv, SenseStep
    PROVE  /\ SenseTellsLastFailure'
           /\ kept' \in BOOLEAN /\ {kept_sense', tiny_sense', reason'} \subseteq Senses
  <1>1. /\ SenseTellsLastFailure
        /\ kept \in BOOLEAN
        /\ kept_sense \in Senses /\ tiny_sense \in Senses /\ reason \in Senses
        /\ "none" \in Senses /\ "no_medium" \in Senses
    BY DEF MscInv, MscTypeOK, Senses
  <1>2. CASE UNCHANGED sense
    BY <1>1, <1>2 DEF sense, SenseTellsLastFailure, Answer
  <1>3. ASSUME NEW s \in Senses, FailWith(s)
        PROVE  /\ SenseTellsLastFailure'
               /\ kept' \in BOOLEAN
               /\ kept_sense' \in Senses /\ tiny_sense' \in Senses /\ reason' \in Senses
    <2>1. kept' = FALSE /\ tiny_sense' = s /\ reason' = s /\ kept_sense' = kept_sense
      BY <1>3 DEF FailWith
    <2> QED BY <1>1, <2>1 DEF SenseTellsLastFailure, Answer
  <1>4. ASSUME NEW s \in Senses, FailTransfer(s)
        PROVE  /\ SenseTellsLastFailure'
               /\ kept' \in BOOLEAN
               /\ kept_sense' \in Senses /\ tiny_sense' \in Senses /\ reason' \in Senses
    <2>1. kept' = TRUE /\ kept_sense' = s /\ tiny_sense' = "no_medium" /\ reason' = s
      BY <1>4 DEF FailTransfer
    <2> QED BY <1>1, <2>1 DEF SenseTellsLastFailure, Answer
  <1>5. CASE kept' = FALSE /\ tiny_sense' = "none" /\ reason' = "none" /\ UNCHANGED kept_sense
    BY <1>1, <1>5 DEF SenseTellsLastFailure, Answer
  <1> QED BY <1>2, <1>3, <1>4, <1>5 DEF SenseStep

LEMMA RefuseIsDiskStep == \A s : Refuse(s) => DiskStep
  BY DEF Refuse, NoMedium, Announce, DiskStep, Withdrawn, Announced, Offered

LEMMA ReportGoneIsDiskStep == \A s : ReportGone(s) => DiskStep
  BY DEF ReportGone, Withhold, NoMedium, DiskStep, TakenAway

LEMMA HostCommandEffect ==
    ASSUME MscInv, HostCommand
    PROVE  /\ DiskStep /\ SenseStep /\ UNCHANGED Rest
           /\ eject_pending' \in BOOLEAN
           /\ transfer' \in {"none", "begun", "moving", "crossed"}
           /\ transfer' = "crossed" => transfer = "crossed" /\ UNCHANGED told
  <1>0. eject_pending \in BOOLEAN /\ transfer \in {"none", "begun", "moving", "crossed"}
    BY DEF MscInv, MscTypeOK
  <1>1. CASE TestUnitReady
    BY <1>0, <1>1, RefuseIsDiskStep DEF TestUnitReady, DiskStep, NoChange, SenseStep
  <1>2. CASE Capacity
    BY <1>0, <1>2, RefuseIsDiskStep, ReportGoneIsDiskStep DEF Capacity, DiskStep, NoChange, SenseStep
  <1>3. CASE BeginTransfer
    BY <1>0, <1>3 DEF BeginTransfer, DiskStep, NoChange, SenseStep
  <1>4. CASE ServeBuffer
    BY <1>0, <1>4 DEF ServeBuffer, DiskStep, NoChange, SenseStep
  <1>5. CASE FailBuffer
    <2>1. PICK s \in Senses :
              /\ \/ Refuse(s)
                 \/ Offered /\ Known /\ (ReportGone(s) \/ ReportFailure(s))
                 \/ Offered /\ Known /\ ~gone /\ s = "illegal" /\ UNCHANGED <<disk, told, away>>
              /\ FailTransfer(s)
      BY <1>5 DEF FailBuffer
    <2>2. DiskStep
      BY <2>1, RefuseIsDiskStep, ReportGoneIsDiskStep DEF DiskStep, NoChange, ReportFailure
    <2>3. SenseStep /\ transfer' = "none"
      BY <2>1 DEF SenseStep, FailTransfer
    <2> QED BY <1>0, <1>5, <2>2, <2>3 DEF FailBuffer
  <1>6. CASE Eject
    BY <1>0, <1>6 DEF Eject, Withhold, DiskStep, TakenAway, SenseStep
  <1>7. CASE UnknownCommand
    <2>1. "illegal" \in Senses
      BY DEF Senses
    <2> QED BY <1>0, <1>7, <2>1 DEF UnknownCommand, DiskStep, NoChange, SenseStep
  <1>8. CASE RequestSense
    BY <1>0, <1>8 DEF RequestSense, DiskStep, NoChange, SenseStep
  <1> QED BY <1>1, <1>2, <1>3, <1>4, <1>5, <1>6, <1>7, <1>8 DEF HostCommand

LEMMA HostStep ==
    ASSUME MscInv, HostCommand
    PROVE  MscInv'
  <1>1. /\ DiskStep /\ SenseStep /\ UNCHANGED Rest
        /\ eject_pending' \in BOOLEAN
        /\ transfer' \in {"none", "begun", "moving", "crossed"}
        /\ transfer' = "crossed" => transfer = "crossed" /\ UNCHANGED told
    BY HostCommandEffect
  <1>2. UNCHANGED <<contract, gone, changes>>
    BY <1>1 DEF Rest
  <1>3. EpochsInOrder' /\ WithheldWhileAway' /\ PresentedIsReady' /\ ToldIsReady'
    BY <1>1, <1>2, DiskStepKeeps
  <1>4. /\ SenseTellsLastFailure'
        /\ kept' \in BOOLEAN /\ {kept_sense', tiny_sense', reason'} \subseteq Senses
    BY <1>1, SenseStepKeeps
  <1>5. CrossedIsUntold'
    BY <1>1 DEF CrossedIsUntold, MscInv
  <1>6. /\ owner' \in Users /\ requested_owner' \in Users
        /\ medium' \in {"ABSENT", "PREPARING", "FAULTY", "UNFORMATTED", "READY"}
        /\ epoch' \in Epochs /\ changes' \in Epochs /\ gone' \in BOOLEAN
    BY <1>2 DEF contract, MscInv, MscTypeOK
  <1>7. MscTypeOK'
    BY <1>1, <1>2, <1>4, <1>6, DiskStepTypes DEF MscTypeOK
  <1> QED BY <1>3, <1>4, <1>5, <1>7 DEF MscInv

LEMMA OtherStep ==
    ASSUME MscInv, Pull \/ TakeEject \/ (\E o \in Users : AskFor(o)) \/ UNCHANGED mscVars
    PROVE  MscInv'
  <1>1. /\ UNCHANGED <<owner, medium, epoch, changes, disk, sense, transfer, told, away>>
        /\ requested_owner' \in Users /\ gone' \in BOOLEAN /\ eject_pending' \in BOOLEAN
    BY DEF Pull, TakeEject, AskFor, Request, mscVars, contract, MscInv, MscTypeOK
  <1>2. MscTypeOK'
    BY <1>1 DEF MscInv, MscTypeOK, disk, sense
  <1>3. EpochsInOrder' /\ WithheldWhileAway' /\ PresentedIsReady' /\ ToldIsReady' /\ CrossedIsUntold'
    BY <1>1 DEF MscInv, EpochsInOrder, WithheldWhileAway, Withheld, PresentedIsReady, ToldIsReady,
                Known, CrossedIsUntold, disk
  <1>4. SenseTellsLastFailure'
    BY <1>1 DEF MscInv, SenseTellsLastFailure, Answer, sense
  <1> QED BY <1>2, <1>3, <1>4 DEF MscInv

-----------------------------------------------------------------------------
(* Results *)

\* The inductive invariant behind the results below.
THEOREM InductiveInvariant == MscSpec => []MscInv
  <1>1. MscInit => MscInv
    <2> SUFFICES ASSUME MscInit PROVE MscInv
      OBVIOUS
    <2>1. MscTypeOK
      <3>1. 0 \in Epochs
        BY EpochAssumption DEF Epochs
      <3>2. {epoch, presented_epoch, withheld_epoch, changes} \subseteq Epochs
        BY <3>1 DEF MscInit, CInit
      <3>3. /\ owner \in Users /\ requested_owner \in Users
            /\ medium \in {"ABSENT", "PREPARING", "FAULTY", "UNFORMATTED", "READY"}
            /\ {kept_sense, tiny_sense, reason} \subseteq Senses
            /\ transfer \in {"none", "begun", "moving", "crossed"}
        BY DEF MscInit, CInit, Users, Senses
      <3>4. /\ presented \in BOOLEAN /\ withheld \in BOOLEAN /\ eject_pending \in BOOLEAN
            /\ kept \in BOOLEAN /\ gone \in BOOLEAN /\ told \in BOOLEAN /\ away \in BOOLEAN
        BY DEF MscInit
      <3> QED BY <3>2, <3>3, <3>4 DEF MscTypeOK
    <2>2. EpochsInOrder /\ WithheldWhileAway /\ PresentedIsReady /\ ToldIsReady /\ CrossedIsUntold
      BY DEF MscInit, CInit, EpochsInOrder, WithheldWhileAway, Withheld, PresentedIsReady, ToldIsReady,
             Known, CrossedIsUntold
    <2>3. SenseTellsLastFailure
      BY DEF MscInit, SenseTellsLastFailure, Answer
    <2> QED BY <2>1, <2>2, <2>3 DEF MscInv
  <1>2. MscInv /\ [MscNext]_mscVars => MscInv'
    BY HostStep, CoordinatorStep, StorageStepIsContractStep, OtherStep DEF MscNext
  <1> QED BY <1>1, <1>2, PTL DEF MscSpec

\* Every variable keeps its type.
THEOREM MscTypeCorrect == MscSpec => []MscTypeOK
  <1>1. MscInv => MscTypeOK
    BY DEF MscInv
  <1> QED BY <1>1, InductiveInvariant, PTL

\* A medium is withheld for exactly as long as its epoch lasts (withhold, admit).
THEOREM WithheldCorrect == MscSpec => []WithheldWhileAway
  <1>1. MscInv => WithheldWhileAway
    BY DEF MscInv
  <1> QED BY <1>1, InductiveInvariant, PTL

\* A medium that is offered was announced exactly if the host was told of it
\* (admit).
THEOREM PresentedCorrect == MscSpec => []PresentedWhenTold
  <1>1. MscInv => PresentedWhenTold
    BY DEF MscInv, PresentedWhenTold, PresentedIsReady, ToldIsReady, Offered, WithheldWhileAway
  <1> QED BY <1>1, InductiveInvariant, PTL

\* REQUEST SENSE gives the reason of the last failure (tud_msc_request_sense_cb).
THEOREM SenseCorrect == MscSpec => []SenseTellsLastFailure
  <1>1. MscInv => SenseTellsLastFailure
    BY DEF MscInv
  <1> QED BY <1>1, InductiveInvariant, PTL

\* Data moves only between the host and the medium it was told of, one medium
\* for each command (admit, with a coordinator that steps between buffers).
THEOREM DataCorrect == MscSpec => DataOnlyFromToldMedium
  <1>1. MscInv => [ServeBuffer => told /\ ~away /\ transfer # "crossed"]_mscVars
    BY DEF MscInv, ServeBuffer, Offered, PresentedIsReady, WithheldWhileAway, CrossedIsUntold
  <1> QED BY <1>1, InductiveInvariant, PTL DEF DataOnlyFromToldMedium
=============================================================================
