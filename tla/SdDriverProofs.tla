--------------------------- MODULE SdDriverProofs ---------------------------
(***************************************************************************)
(* Theorems about the SD driver, for every number of samples, polls and    *)
(* blocks: no removal goes unnoticed, no operation leaves anything behind  *)
(* or reports a success it has not earned, and the card is addressed the   *)
(* way it wants.  The inductive invariant says at each step of an          *)
(* operation what it holds, what the interrupt and the card have told it   *)
(* so far, and how many blocks have been moved.                            *)
(***************************************************************************)
EXTENDS SdDriver, TLAPS

-----------------------------------------------------------------------------
(* The inductive invariant *)

DataOps == {"read", "write", "sync"}
Identified == {"csd", "cmd16"} \cup InitTail
InitPcs == {"clocks"} \cup InitCommands \cup InitTail
InUse == Transfers \cup {"release", "release_checked", "recheck", "teardown"}

\* What each part of an operation holds of the device.
Holding ==
    /\ pc \in {"debounce", "clear", "register"} => ~slot /\ ~spi /\ ~initialized /\ ~selected
    /\ pc = "level" => slot /\ ~spi /\ ~initialized /\ ~selected
    /\ pc \in InitPcs \cup {"rollback"} => slot /\ spi /\ ~initialized
    /\ pc \in InUse => slot /\ spi /\ initialized
    /\ pc = "idle" => (slot <=> initialized) /\ (spi <=> initialized)
    /\ pc \in {"idle", "recheck", "init_check", "init_set"} => ~selected

\* What the interrupt has made of the line since it was registered.
Latching ==
    /\ slot => (armed <=> ~latched)
    /\ pc = "register" => ~latched
    /\ slot /\ ~latched => ~lifted
    /\ slot /\ pc # "level" => line \/ lifted

\* What initialisation has found out about the card so far.
Identifying ==
    /\ pc \in Setup \cup {"clocks", "cmd0", "cmd8"} => ~legacy /\ ~hcxc
    /\ pc \in {"cmd59", "acmd41", "cmd58"} => ~hcxc
    /\ pc \in {"cmd59", "acmd41", "cmd58"} \cup Identified /\ ~latched => (legacy <=> card = "v1")
    /\ pc \in Identified /\ ~latched => (hcxc <=> card = "hc")

\* Which operation a step belongs to.
OpFits ==
    /\ pc \in Setup \cup InitPcs \cup {"rollback"} => op = "init"
    /\ pc \in {"read_cmd", "read_data", "stop_error"} => op = "read"
    /\ pc \in {"pre_erase", "write_cmd", "write_data", "block_wait", "stop_token",
               "final_wait", "reject_wait"} => op = "write"
    /\ pc \in {"refused", "stop"} => op \in {"read", "write"}
    /\ pc = "sync" => op = "sync"
    /\ pc \in {"deinit_wait", "teardown"} => op = "deinit"
    /\ pc \in {"release_checked", "recheck"} => op \in DataOps
    /\ pc = "release" => op \in DataOps \cup {"deinit"}
    /\ pc = "idle" /\ op \in DataOps /\ result = "OK" => initialized

\* How a verdict came about.
VerdictFits ==
    /\ pc \in {"release", "stop_error", "rollback"} => verdict # "OK"
    /\ pc = "stop" /\ verdict = "OK" => op = "read"

\* How far a transfer has come.
Counting ==
    /\ pc = "debounce" => left > 0 /\ stable < StableSamples
    /\ pc = "acmd41" => left > 0
    /\ pc \in {"read_cmd", "pre_erase", "write_cmd", "read_data", "write_data"} => left > 0
    /\ pc \in {"read_cmd", "pre_erase", "write_cmd", "read_data", "write_data", "block_wait"}
         => good + left = asked
    /\ pc \in {"stop_token", "final_wait", "sync"} => good = asked
    /\ pc \in {"stop", "release_checked", "recheck"} /\ verdict = "OK" => good = asked
    /\ pc = "idle" /\ op \in DataOps /\ result = "OK" => good = asked

\* Whether the card may be programming when a success is reported.
Done ==
    /\ pc \in {"release_checked", "recheck"} /\ verdict = "OK" /\ ~lifted => ~busy \/ op = "read"
    /\ pc = "idle" /\ op \in DataOps /\ result = "OK" /\ ~lifted => ~busy \/ op = "read"

\* The steps of initialisation after CMD0 has reset the card.
AfterReset == (InitCommands \cup InitTail) \ {"cmd0"}

\* Where a multi-block transfer may be open that the driver knows of; a read that
\* is to succeed has ended any other too.
Streaming ==
    /\ pc \in AfterReset => stream = "none"
    /\ initialized /\ ~latched /\ stream = "read" => pc \in {"read_data", "stop", "stop_error"}
    /\ pc \in {"read_data", "write_data"} /\ stream \in {"read", "write"} => asked > 1
    /\ pc = "block_wait" => asked > 1
    /\ pc = "final_wait" => stream # "write"
    /\ pc \in {"release_checked", "recheck"} /\ verdict = "OK" =>
          /\ op = "write" => stream # "write"
          /\ op = "read" /\ asked > 1 => stream = "none"
    /\ pc = "idle" /\ result = "OK" =>
          /\ op = "write" => stream # "write"
          /\ op = "read" /\ asked > 1 => stream = "none"

\* A card that is up and has not been out is addressed as it wants.
Addressing ==
    initialized /\ ~latched => (hcxc <=> card = "hc") /\ (legacy <=> card = "v1")

\* The type of the variables, in three parts: flags, names and counts.
Flags ==
    {line, lifted, slot, armed, latched, initialized, spi, legacy, hcxc, selected, busy}
        \subseteq BOOLEAN

Names ==
    /\ card \in Kinds /\ stream \in {"none", "read", "write", "lost"}
    /\ op \in Ops /\ pc \in Pcs /\ verdict \in Results /\ result \in Results

Numbers ==
    /\ asked \in 0 .. MaxBlocks /\ good \in 0 .. MaxBlocks
    /\ left \in Nat /\ stable \in 0 .. StableSamples

IInv ==
    /\ Flags /\ Names /\ Numbers
    /\ Holding /\ Latching /\ Identifying /\ Addressing
    /\ OpFits /\ VerdictFits /\ Counting /\ Done /\ Streaming

-----------------------------------------------------------------------------
(* The driver's steps in groups *)

Setting == Debounce \/ ClearLatch \/ Register \/ CheckLevel
Commands == Cmd0 \/ Cmd8 \/ Cmd59 \/ Acmd41 \/ Cmd58 \/ ReadCsd \/ Cmd16
Finishing == PowerUpClocks \/ InitRelease \/ InitCheck \/ InitDone \/ Rollback
Reading == ReadCommand \/ ReadBlock \/ Refused \/ Stop
Writing ==
    PreErase \/ WriteCommand \/ WriteBlock \/ BlockWait \/ StopToken \/ RejectWait \/ FinalWait
Ending == Sync \/ DeinitWait \/ Teardown \/ ReleaseAndReturn \/ ReleaseFirst \/ Recheck

\* Every step of sd_spi.c's operations falls into one of the groups.
LEMMA DriverSteps == Driver => Setting \/ Commands \/ Finishing \/ Reading \/ Writing \/ Ending
BY DEF Driver, Initialise, Transfer, Setting, Commands, Finishing, Reading, Writing, Ending

-----------------------------------------------------------------------------
(* Each group keeps every part of the invariant *)

\* The socket and its interrupt.
LEMMA SocketKeepsInv ==
    ASSUME IInv, Socket
    PROVE  IInv'
<1> USE SamplesAssumption, BoundsAssumption
    DEF IInv, Socket, LineFalls, LineRises, ChangeCard, Dispatch,
        socket, irq, device, chip, job, counts,
        Setup, InitPcs, InUse, Transfers, InitCommands, InitTail
<1>1. Flags'
  BY DEF Flags
<1>2. Names'
  BY DEF Names, OpFits, Pcs, Leaving, Results, Kinds, Ops
<1>3. Numbers'
  BY DEF Numbers, Counting
<1>4. Holding'
  BY DEF Holding
<1>5. Latching'
  <2>1. CASE LineFalls
    BY <2>1 DEF Latching, Holding
  <2>2. CASE LineRises
    BY <2>2 DEF Latching
  <2>3. CASE ChangeCard
    BY <2>3 DEF Latching
  <2> QED BY <2>1, <2>2, <2>3
<1>6. Identifying'
  <2>1. CASE LineFalls
    BY <2>1 DEF Identifying, Identified
  <2>2. CASE LineRises
    BY <2>2 DEF Identifying, Identified
  <2>3. CASE ChangeCard
    BY <2>3 DEF Identifying, Identified, Latching, Holding
  <2> QED BY <2>1, <2>2, <2>3
<1>7. Addressing'
  BY DEF Addressing, Identifying, Latching, Holding, Names, Identified, Pcs, Leaving
<1>8. OpFits'
  BY DEF OpFits, Holding, DataOps
<1>9. VerdictFits'
  BY DEF VerdictFits, OpFits, DataOps
<1>10. Counting'
  BY DEF Counting, OpFits, VerdictFits, Numbers, DataOps
<1>11. Done'
  BY DEF Done, OpFits, VerdictFits, Holding, Latching, DataOps
<1>12. Streaming'
  <2>1. CASE LineFalls
    BY <2>1 DEF Streaming, AfterReset
  <2>2. CASE LineRises
    BY <2>2 DEF Streaming, AfterReset
  <2>3. CASE ChangeCard
    BY <2>3 DEF Streaming, AfterReset
  <2> QED BY <2>1, <2>2, <2>3
<1> HIDE DEF Socket
<1> QED
  BY <1>1, <1>2, <1>3, <1>4, <1>5, <1>6, <1>7, <1>8, <1>9, <1>10, <1>11, <1>12 DEF IInv

\* The first step of every call.
LEMMA CallKeepsInv ==
    ASSUME IInv, Call
    PROVE  IInv'
<1> USE SamplesAssumption, BoundsAssumption
    DEF IInv, Call, StartInit, StartDeinit, Configure, DataCall, Begin, GetInfo, FirstStep, Usable,
        Go, Return, Leave, LeaveChecked, Abandon,
        socket, irq, device, chip, job, counts,
        Setup, InitPcs, InUse, Transfers, InitCommands, InitTail
<1>1. Flags'
  BY DEF Flags
<1>2. Names'
  BY DEF Names, OpFits, Pcs, Leaving, Results, Kinds, Ops
<1>3. Numbers'
  BY DEF Numbers, Counting
<1>4. Holding'
  BY DEF Holding
<1>5. Latching'
  BY DEF Latching, Holding
<1>6. Identifying'
  BY DEF Identifying, Latching, Holding, Identified
<1>7. Addressing'
  BY DEF Addressing, Identifying, Latching, Holding, Names, Identified, Pcs, Leaving
<1>8. OpFits'
  BY DEF OpFits, Holding, DataOps
<1>9. VerdictFits'
  BY DEF VerdictFits, OpFits, DataOps
<1>10. Counting'
  BY DEF Counting, OpFits, VerdictFits, Numbers, DataOps
<1>11. Done'
  BY DEF Done, OpFits, VerdictFits, Holding, Latching, DataOps
<1>12. Streaming'
  BY DEF Streaming, Done, OpFits, VerdictFits, Holding, Latching, DataOps, AfterReset
<1> HIDE DEF Call
<1> QED
  BY <1>1, <1>2, <1>3, <1>4, <1>5, <1>6, <1>7, <1>8, <1>9, <1>10, <1>11, <1>12 DEF IInv

\* Initialisation up to the last look at the level.
LEMMA SettingKeepsInv ==
    ASSUME IInv, Setting
    PROVE  IInv'
<1> USE SamplesAssumption, BoundsAssumption
    DEF IInv, Setting, Debounce, ClearLatch, Register, CheckLevel, Sample, Seated,
        Go, Return, Leave, LeaveChecked, Abandon,
        socket, irq, device, chip, job, counts,
        Setup, InitPcs, InUse, Transfers, InitCommands, InitTail
<1>1. Flags'
  BY DEF Flags
<1>2. Names'
  BY DEF Names, OpFits, Pcs, Leaving, Results, Kinds, Ops
<1>3. Numbers'
  BY DEF Numbers, Counting
<1>4. Holding'
  BY DEF Holding
<1>5. Latching'
  BY DEF Latching, Holding
<1>6. Identifying'
  BY DEF Identifying, Latching, Holding, Identified
<1>7. Addressing'
  BY DEF Addressing, Identifying, Latching, Holding, Names, Identified, Pcs, Leaving
<1>8. OpFits'
  BY DEF OpFits, Holding, DataOps
<1>9. VerdictFits'
  BY DEF VerdictFits, OpFits, DataOps
<1>10. Counting'
  BY DEF Counting, OpFits, VerdictFits, Numbers, DataOps
<1>11. Done'
  BY DEF Done, OpFits, VerdictFits, Holding, Latching, DataOps
<1>12. Streaming'
  BY DEF Streaming, Done, OpFits, VerdictFits, Holding, Latching, DataOps, AfterReset
<1> HIDE DEF Setting
<1> QED
  BY <1>1, <1>2, <1>3, <1>4, <1>5, <1>6, <1>7, <1>8, <1>9, <1>10, <1>11, <1>12 DEF IInv

\* CMD8 tells legacy cards from the others; what it finds is kept unless the
\* removal is latched (sd_spi_init_card).
LEMMA Cmd8Identifies ==
    ASSUME Cmd8, Identifying
    PROVE  Identifying'
<1> USE DEF Cmd8, Exchange, Abandon, Go, socket, irq
<1>1. pc' \in {"cmd59", "rollback"} /\ UNCHANGED <<hcxc, latched, card>>
  OBVIOUS
<1>2. ~hcxc /\ ~legacy
  BY DEF Identifying
<1>3. pc' = "cmd59" => ~latched /\ (legacy' <=> (legacy \/ card = "v1"))
  OBVIOUS
<1> HIDE DEF Cmd8
<1>4. CASE pc' = "cmd59"
  BY <1>1, <1>2, <1>3, <1>4 DEF Identifying, Setup, Identified, InitTail
<1>5. CASE pc' = "rollback"
  BY <1>1, <1>5 DEF Identifying, Setup, Identified, InitTail
<1> QED
  BY <1>1, <1>4, <1>5

\* CMD58 tells high-capacity cards from the others.
LEMMA Cmd58Identifies ==
    ASSUME Cmd58, Identifying
    PROVE  Identifying'
<1> USE DEF Cmd58, Exchange, Abandon, Go, socket, irq
<1>1. pc' \in {"csd", "rollback"} /\ UNCHANGED <<legacy, latched, card>>
  OBVIOUS
<1>2. ~hcxc /\ (~latched => (legacy <=> card = "v1"))
  BY DEF Identifying
<1>3. pc' = "csd" => ~latched /\ (hcxc' <=> (hcxc \/ (card = "hc" /\ ~legacy)))
  OBVIOUS
<1> HIDE DEF Cmd58
<1>4. CASE pc' = "csd"
  BY <1>1, <1>2, <1>3, <1>4 DEF Identifying, Setup, Identified, InitTail
<1>5. CASE pc' = "rollback"
  BY <1>1, <1>5 DEF Identifying, Setup, Identified, InitTail
<1> QED
  BY <1>1, <1>4, <1>5

\* The commands of initialisation.
LEMMA CommandsKeepsInv ==
    ASSUME IInv, Commands
    PROVE  IInv'
<1> USE SamplesAssumption, BoundsAssumption
    DEF IInv, Commands, Cmd0, Cmd8, Cmd59, Acmd41, Cmd58, ReadCsd, Cmd16, Exchange, MayHoldLine, AndGo,
        Go, Return, Leave, LeaveChecked, Abandon,
        socket, irq, device, chip, job, counts,
        Setup, InitPcs, InUse, Transfers, InitCommands, InitTail
<1>1. Flags'
  BY DEF Flags
<1>2. Names'
  BY DEF Names, OpFits, Pcs, Leaving, Results, Kinds, Ops
<1>3. Numbers'
  BY DEF Numbers, Counting
<1>4. Holding'
  BY DEF Holding
<1>5. Latching'
  BY DEF Latching, Holding
<1>6. Identifying'
  <2>1. CASE Cmd8
    BY <2>1, Cmd8Identifies
  <2>2. CASE Cmd58
    BY <2>2, Cmd58Identifies
  <2>3. CASE Cmd0 \/ Cmd59 \/ Acmd41 \/ ReadCsd \/ Cmd16
    BY <2>3 DEF Identifying, Identified
  <2> QED BY <2>1, <2>2, <2>3
<1>7. Addressing'
  BY DEF Addressing, Identifying, Latching, Holding, Names, Identified, Pcs, Leaving
<1>8. OpFits'
  BY DEF OpFits, Holding, DataOps
<1>9. VerdictFits'
  BY DEF VerdictFits, OpFits, DataOps
<1>10. Counting'
  BY DEF Counting, OpFits, VerdictFits, Numbers, DataOps
<1>11. Done'
  BY DEF Done, OpFits, VerdictFits, Holding, Latching, DataOps
<1>12. Streaming'
  BY DEF Streaming, Done, OpFits, VerdictFits, Holding, Latching, DataOps, AfterReset
<1> HIDE DEF Commands
<1> QED
  BY <1>1, <1>2, <1>3, <1>4, <1>5, <1>6, <1>7, <1>8, <1>9, <1>10, <1>11, <1>12 DEF IInv

\* The clocks before and after them, and the ways out.
LEMMA FinishingKeepsInv ==
    ASSUME IInv, Finishing
    PROVE  IInv'
<1> USE SamplesAssumption, BoundsAssumption
    DEF IInv, Finishing, PowerUpClocks, InitRelease, InitCheck, InitDone, Rollback, GiveBack,
        Go, Return, Leave, LeaveChecked, Abandon,
        socket, irq, device, chip, job, counts,
        Setup, InitPcs, InUse, Transfers, InitCommands, InitTail
<1>1. Flags'
  BY DEF Flags
<1>2. Names'
  BY DEF Names, OpFits, Pcs, Leaving, Results, Kinds, Ops
<1>3. Numbers'
  BY DEF Numbers, Counting
<1>4. Holding'
  BY DEF Holding
<1>5. Latching'
  BY DEF Latching, Holding
<1>6. Identifying'
  BY DEF Identifying, Latching, Holding, Identified
<1>7. Addressing'
  BY DEF Addressing, Identifying, Latching, Holding, Names, Identified, Pcs, Leaving
<1>8. OpFits'
  BY DEF OpFits, Holding, DataOps
<1>9. VerdictFits'
  BY DEF VerdictFits, OpFits, DataOps
<1>10. Counting'
  BY DEF Counting, OpFits, VerdictFits, Numbers, DataOps
<1>11. Done'
  BY DEF Done, OpFits, VerdictFits, Holding, Latching, DataOps
<1>12. Streaming'
  BY DEF Streaming, Done, OpFits, VerdictFits, Holding, Latching, DataOps, AfterReset
<1> HIDE DEF Finishing
<1> QED
  BY <1>1, <1>2, <1>3, <1>4, <1>5, <1>6, <1>7, <1>8, <1>9, <1>10, <1>11, <1>12 DEF IInv

\* Reads, refused commands and CMD12.
LEMMA ReadingKeepsInv ==
    ASSUME IInv, Reading
    PROVE  IInv'
<1> USE SamplesAssumption, BoundsAssumption
    DEF IInv, Reading, ReadCommand, ReadBlock, Refused, Stop,
        CommandFails, MayHaveBegun, MayHoldLine, CommandRefused, CommandTaken,
           CountBlock, StopSent, AfterStop, WaitOut, Ready, NotReady, Still,
        Go, Return, Leave, LeaveChecked, Abandon,
        socket, irq, device, chip, job, counts,
        Setup, InitPcs, InUse, Transfers, InitCommands, InitTail
<1>1. Flags'
  BY DEF Flags
<1>2. Names'
  BY DEF Names, OpFits, Pcs, Leaving, Results, Kinds, Ops
<1>3. Numbers'
  BY DEF Numbers, Counting
<1>4. Holding'
  BY DEF Holding
<1>5. Latching'
  BY DEF Latching, Holding
<1>6. Identifying'
  BY DEF Identifying, Latching, Holding, Identified
<1>7. Addressing'
  BY DEF Addressing, Identifying, Latching, Holding, Names, Identified, Pcs, Leaving
<1>8. OpFits'
  BY DEF OpFits, Holding, DataOps
<1>9. VerdictFits'
  BY DEF VerdictFits, OpFits, DataOps
<1>10. Counting'
  BY DEF Counting, OpFits, VerdictFits, Numbers, DataOps
<1>11. Done'
  BY DEF Done, OpFits, VerdictFits, Holding, Latching, DataOps
<1>12. Streaming'
  BY DEF Streaming, Done, OpFits, VerdictFits, Holding, Latching, DataOps, AfterReset
<1> HIDE DEF Reading
<1> QED
  BY <1>1, <1>2, <1>3, <1>4, <1>5, <1>6, <1>7, <1>8, <1>9, <1>10, <1>11, <1>12 DEF IInv

\* Writes.
LEMMA WritingKeepsInv ==
    ASSUME IInv, Writing
    PROVE  IInv'
<1> USE SamplesAssumption, BoundsAssumption
    DEF IInv, Writing, PreErase, WriteCommand, WriteBlock, BlockWait, StopToken,
        RejectWait, FinalWait,
           CommandFails, MayHaveBegun, MayHoldLine,
           CommandRefused, CommandTaken, CountBlock, WaitOut, Ready, NotReady, Still,
        Go, Return, Leave, LeaveChecked, Abandon,
        socket, irq, device, chip, job, counts,
        Setup, InitPcs, InUse, Transfers, InitCommands, InitTail
<1>1. Flags'
  BY DEF Flags
<1>2. Names'
  BY DEF Names, OpFits, Pcs, Leaving, Results, Kinds, Ops
<1>3. Numbers'
  BY DEF Numbers, Counting
<1>4. Holding'
  BY DEF Holding
<1>5. Latching'
  BY DEF Latching, Holding
<1>6. Identifying'
  BY DEF Identifying, Latching, Holding, Identified
<1>7. Addressing'
  BY DEF Addressing, Identifying, Latching, Holding, Names, Identified, Pcs, Leaving
<1>8. OpFits'
  BY DEF OpFits, Holding, DataOps
<1>9. VerdictFits'
  BY DEF VerdictFits, OpFits, DataOps
<1>10. Counting'
  BY DEF Counting, OpFits, VerdictFits, Numbers, DataOps
<1>11. Done'
  BY DEF Done, OpFits, VerdictFits, Holding, Latching, DataOps
<1>12. Streaming'
  BY DEF Streaming, Done, OpFits, VerdictFits, Holding, Latching, DataOps, AfterReset
<1> HIDE DEF Writing
<1> QED
  BY <1>1, <1>2, <1>3, <1>4, <1>5, <1>6, <1>7, <1>8, <1>9, <1>10, <1>11, <1>12 DEF IInv

\* Syncs, deinitialisation, and how calls return.
LEMMA EndingKeepsInv ==
    ASSUME IInv, Ending
    PROVE  IInv'
<1> USE SamplesAssumption, BoundsAssumption
    DEF IInv, Ending, Sync, DeinitWait, Teardown, GiveBack, ReleaseAndReturn, ReleaseFirst, Recheck,
           FinalVerdict, WaitOut, Ready, NotReady, MayHoldLine, Still,
        Go, Return, Leave, LeaveChecked, Abandon,
        socket, irq, device, chip, job, counts,
        Setup, InitPcs, InUse, Transfers, InitCommands, InitTail
<1>1. Flags'
  BY DEF Flags
<1>2. Names'
  BY DEF Names, OpFits, Pcs, Leaving, Results, Kinds, Ops
<1>3. Numbers'
  BY DEF Numbers, Counting
<1>4. Holding'
  BY DEF Holding
<1>5. Latching'
  BY DEF Latching, Holding
<1>6. Identifying'
  BY DEF Identifying, Latching, Holding, Identified
<1>7. Addressing'
  BY DEF Addressing, Identifying, Latching, Holding, Names, Identified, Pcs, Leaving
<1>8. OpFits'
  BY DEF OpFits, Holding, DataOps
<1>9. VerdictFits'
  BY DEF VerdictFits, OpFits, DataOps
<1>10. Counting'
  BY DEF Counting, OpFits, VerdictFits, Numbers, DataOps
<1>11. Done'
  BY DEF Done, OpFits, VerdictFits, Holding, Latching, DataOps
<1>12. Streaming'
  BY DEF Streaming, Done, OpFits, VerdictFits, Holding, Latching, DataOps, AfterReset
<1> HIDE DEF Ending
<1> QED
  BY <1>1, <1>2, <1>3, <1>4, <1>5, <1>6, <1>7, <1>8, <1>9, <1>10, <1>11, <1>12 DEF IInv

-----------------------------------------------------------------------------
(* Theorems *)

\* sd_spi_configure leaves a device that is down and holds nothing.
LEMMA InitHolds == Init => IInv
<1> USE SamplesAssumption, BoundsAssumption
    DEF Init, Setup, InitPcs, InUse, Transfers, InitCommands, InitTail
<1>1. Init => Flags
  BY DEF Flags
<1>2. Init => Names
  BY DEF Names, OpFits, Pcs, Leaving, Results, Kinds, Ops
<1>3. Init => Numbers
  BY DEF Numbers, Counting
<1>4. Init => Holding
  BY DEF Holding
<1>5. Init => Latching
  BY DEF Latching, Holding
<1>6. Init => Identifying
  BY DEF Identifying, Latching, Holding, Identified
<1>7. Init => Addressing
  BY DEF Addressing, Identifying, Latching, Holding, Names, Identified, Pcs, Leaving
<1>8. Init => OpFits
  BY DEF OpFits, Holding, DataOps
<1>9. Init => VerdictFits
  BY DEF VerdictFits, OpFits, DataOps
<1>10. Init => Counting
  BY DEF Counting, OpFits, VerdictFits, Numbers, DataOps
<1>11. Init => Done
  BY DEF Done, OpFits, VerdictFits, Holding, Latching, DataOps
<1>12. Init => Streaming
  BY DEF Streaming, Done, OpFits, VerdictFits, Holding, Latching, DataOps, AfterReset
<1> QED
  BY <1>1, <1>2, <1>3, <1>4, <1>5, <1>6, <1>7, <1>8, <1>9, <1>10, <1>11, <1>12 DEF IInv

\* A step that leaves the driver, the card and the line alone keeps the invariant.
LEMMA StutterKeepsInv ==
    ASSUME IInv, UNCHANGED vars
    PROVE  IInv'
<1> USE DEF IInv, vars, socket, irq, device, chip, job, counts
<1>1. Flags'
  BY DEF Flags
<1>2. Names'
  BY DEF Names
<1>3. Numbers'
  BY DEF Numbers
<1>4. Holding'
  BY DEF Holding
<1>5. Latching'
  BY DEF Latching
<1>6. Identifying'
  BY DEF Identifying
<1>7. Addressing'
  BY DEF Addressing
<1>8. OpFits'
  BY DEF OpFits
<1>9. VerdictFits'
  BY DEF VerdictFits
<1>10. Counting'
  BY DEF Counting
<1>11. Done'
  BY DEF Done
<1>12. Streaming'
  BY DEF Streaming, Done, OpFits, VerdictFits, Holding, Latching, DataOps, AfterReset
<1> QED
  BY <1>1, <1>2, <1>3, <1>4, <1>5, <1>6, <1>7, <1>8, <1>9, <1>10, <1>11, <1>12 DEF IInv

\* IInv holds in every reachable state.
THEOREM InductiveInvariant == Spec => []IInv
<1>1. Init => IInv
  BY InitHolds
<1>2. IInv /\ [Next]_vars => IInv'
  <2> SUFFICES ASSUME IInv, [Next]_vars PROVE IInv'
    OBVIOUS
  <2>1. CASE Socket
    BY <2>1, SocketKeepsInv
  <2>2. CASE Call
    BY <2>2, CallKeepsInv
  <2>3. CASE Driver
    BY <2>3, DriverSteps, SettingKeepsInv, CommandsKeepsInv, FinishingKeepsInv,
       ReadingKeepsInv, WritingKeepsInv, EndingKeepsInv
  <2>4. CASE UNCHANGED vars
    BY <2>4, StutterKeepsInv
  <2> QED
    BY <2>1, <2>2, <2>3, <2>4 DEF Next
<1> QED
  BY <1>1, <1>2, PTL DEF Spec

\* Every variable of the driver keeps its type, so no count of samples, polls or
\* blocks ever runs past its bound.
THEOREM TypeCorrect == Spec => []TypeOK
<1>1. IInv => TypeOK
  BY DEF IInv, TypeOK, Flags, Names, Numbers
<1> QED
  BY <1>1, InductiveInvariant, PTL

\* No removal after the interrupt was registered goes unnoticed, however the line
\* moves between the driver's steps (sd_spi_init_card, the dispatcher).
THEOREM RemovalCorrect == Spec => []RemovalIsLatched
<1>1. IInv => RemovalIsLatched
  BY DEF IInv, RemovalIsLatched, Latching, Flags
<1> QED
  BY <1>1, InductiveInvariant, PTL

\* Every way out of every operation gives back exactly what it holds.
THEOREM NothingLeftCorrect == Spec => []NothingLeftBehind
<1>1. IInv => NothingLeftBehind
  BY DEF IInv, NothingLeftBehind, Holding, Latching, Flags
<1> QED
  BY <1>1, InductiveInvariant, PTL

\* A successful transfer has moved all its blocks and left the card ready.
THEOREM SuccessCorrect == Spec => []SuccessIsComplete
<1>1. IInv => SuccessIsComplete
  BY DEF IInv, SuccessIsComplete, Counting, Done, DataOps
<1> QED
  BY <1>1, InductiveInvariant, PTL

\* A multi-block read whose command was answered is told to end, a write that is not
\* is never a success, and a read that is one leaves the card in no transfer, also
\* in none that an unanswered command has begun (sd_spi.c:448-452, 664-668).
THEOREM StreamsCorrect == Spec => []StreamsAreEnded
<1>1. IInv => StreamsAreEnded
  BY DEF IInv, StreamsAreEnded, Streaming
<1> QED
  BY <1>1, InductiveInvariant, PTL

\* A card that is up is addressed by the scheme it wants.
THEOREM AddressingCorrect == Spec => []AddressingMatchesCard
<1>1. IInv => AddressingMatchesCard
  BY DEF IInv, AddressingMatchesCard, Addressing, Flags
<1> QED
  BY <1>1, InductiveInvariant, PTL

\* A transfer that was interrupted by even a moment's removal never succeeds.
LEMMA ReturnedUntouched ==
    ASSUME IInv, Next, pc # "idle", pc' = "idle", result' = "OK", op \in DataOps
    PROVE  line /\ ~lifted
<1> USE DEF IInv, OpFits, socket, irq, device, chip, job, counts,
        Go, Return, Leave, LeaveChecked, Abandon,
        DataOps, Setup, InitPcs, InitCommands, InitTail
<1>1. ~Socket
  BY DEF Socket, LineFalls, LineRises, ChangeCard
<1>2. ~Call
  BY DEF Call, StartInit, StartDeinit, Configure, DataCall, Begin, GetInfo
<1>3. ~Setting
  BY DEF Setting, Debounce, ClearLatch, Register, CheckLevel, Sample, Seated
<1>4. ~Commands
  BY DEF Commands, Cmd0, Cmd8, Cmd59, Acmd41, Cmd58, ReadCsd, Cmd16, Exchange, MayHoldLine, AndGo
<1>5. ~Finishing
  BY DEF Finishing, PowerUpClocks, InitRelease, InitCheck, InitDone, Rollback, GiveBack
<1>6. ~Reading
  BY DEF Reading, ReadCommand, ReadBlock, Refused, Stop,
        CommandFails, MayHaveBegun, MayHoldLine, CommandRefused, CommandTaken,
           CountBlock, StopSent, AfterStop, WaitOut, Ready, NotReady, Still
<1>7. ~Writing
  BY DEF Writing, PreErase, WriteCommand, WriteBlock, BlockWait, StopToken,
        RejectWait, FinalWait,
           CommandFails, MayHaveBegun, MayHoldLine,
           CommandRefused, CommandTaken, CountBlock, WaitOut, Ready, NotReady, Still
<1>8. Ending => ReleaseAndReturn \/ Recheck
  BY DEF Ending, Sync, DeinitWait, Teardown, GiveBack, ReleaseAndReturn, ReleaseFirst, Recheck,
           FinalVerdict, WaitOut, Ready, NotReady, MayHoldLine, Still
<1>9. ~ReleaseAndReturn
  BY DEF ReleaseAndReturn, VerdictFits
<1>10. CASE Recheck
  BY <1>10 DEF Recheck, FinalVerdict, Holding, Latching, InUse
<1> QED
  BY <1>1, <1>2, <1>3, <1>4, <1>5, <1>6, <1>7, <1>8, <1>9, <1>10, DriverSteps DEF Next

\* The same as a property of behaviours.
THEOREM InterruptedCorrect == Spec => InterruptedNeverSucceeds
<1>1. IInv /\ [Next]_vars =>
        [pc # "idle" /\ pc' = "idle" /\ result' = "OK" /\ op \in {"read", "write", "sync"}
            => line /\ ~lifted]_vars
  BY ReturnedUntouched DEF DataOps
<1> QED
  BY <1>1, InductiveInvariant, PTL DEF InterruptedNeverSucceeds, Spec

Quiet == {"idle"} \cup Setup \cup Leaving

\* Once the removal is latched, no step of the driver leads to one that uses the bus.
LEMMA LatchedIsQuiet ==
    ASSUME IInv, latched, Driver
    PROVE  pc' \in Quiet
<1> USE DEF Quiet, Setup, Leaving, socket, irq, device, chip, job, counts,
        Go, Return, Leave, LeaveChecked, Abandon
<1>1. CASE Setting
  BY <1>1 DEF Setting, Debounce, ClearLatch, Register, CheckLevel, Sample, Seated
<1>2. CASE Commands
  BY <1>2 DEF Commands, Cmd0, Cmd8, Cmd59, Acmd41, Cmd58, ReadCsd, Cmd16, Exchange, MayHoldLine, AndGo
<1>3. CASE Finishing
  BY <1>3 DEF Finishing, PowerUpClocks, InitRelease, InitCheck, InitDone, Rollback, GiveBack
<1>4. CASE Reading
  BY <1>4 DEF Reading, ReadCommand, ReadBlock, Refused, Stop,
        CommandFails, MayHaveBegun, MayHoldLine, CommandRefused, CommandTaken,
           CountBlock, StopSent, AfterStop, WaitOut, Ready, NotReady, Still
<1>5. CASE Writing
  BY <1>5 DEF Writing, PreErase, WriteCommand, WriteBlock, BlockWait, StopToken,
        RejectWait, FinalWait,
           CommandFails, MayHaveBegun, MayHoldLine,
           CommandRefused, CommandTaken, CountBlock, WaitOut, Ready, NotReady, Still
<1>6. CASE Ending
  BY <1>6 DEF Ending, Sync, DeinitWait, Teardown, GiveBack, ReleaseAndReturn, ReleaseFirst, Recheck,
           FinalVerdict, WaitOut, Ready, NotReady, MayHoldLine, Still
<1> QED
  BY <1>1, <1>2, <1>3, <1>4, <1>5, <1>6, DriverSteps

\* A call that needs the card is refused while the removal is latched.
LEMMA LatchedIsRefused ==
    ASSUME latched, DataCall
    PROVE  pc' = "idle" /\ result' = "INVALID_DEVICE"
BY DEF DataCall, Begin, GetInfo, Usable, Return

\* Once removal is latched the card and the bus are left alone.
THEOREM QuietCorrect == Spec => QuietAfterRemoval
<1>1. IInv /\ [Next]_vars =>
        [latched => /\ Driver => pc' \in Quiet
                    /\ DataCall => pc' = "idle" /\ result' = "INVALID_DEVICE"]_vars
  BY LatchedIsQuiet, LatchedIsRefused
<1> QED
  BY <1>1, InductiveInvariant, PTL DEF QuietAfterRemoval, Quiet, Spec

-----------------------------------------------------------------------------
(* The driver implements the one the storage coordinator is modelled with *)

SeenCard == IF line THEN card ELSE "none"
SeenUp == initialized \/ pc = "init_set"
SeenLatch == pc \notin Initialising /\ latched

\* A step the coordinator cannot see: nothing it goes by has changed.
LEMMA Unseen ==
    ASSUME SeenCard' = SeenCard, SeenUp' <=> SeenUp, SeenLatch' <=> SeenLatch
    PROVE  UNCHANGED Card!cardDriver
BY DEF SeenCard, SeenUp, SeenLatch, Card!cardDriver, Card!world

\* An attempt to bring the device up that fails, wherever it stops (sd_spi_init_card).
LEMMA SeenAsInitErrs ==
    ASSUME SeenCard' = SeenCard, ~SeenUp, ~SeenUp'
    PROVE  Card!InitErrs
BY DEF SeenCard, SeenUp, SeenLatch, Card!InitErrs, Card!Troubled, Card!world

\* One that succeeds.
LEMMA SeenAsInitOk ==
    ASSUME SeenCard' = SeenCard, SeenCard # "none", ~SeenUp, SeenUp', ~SeenLatch'
    PROVE  Card!InitOk
BY DEF SeenCard, SeenUp, SeenLatch, Card!InitOk, Card!world

\* A deinit that takes the device down.
LEMMA SeenAsDeinit ==
    ASSUME SeenCard' = SeenCard, ~SeenUp', SeenLatch' <=> SeenLatch
    PROVE  Card!Deinit(FALSE)
BY DEF SeenCard, SeenUp, SeenLatch, Card!Deinit, Card!world

\* The card-detect edge: the latch is set at once if the device is up
\* (platform_gpio_irq_dispatch, sd_spi_card_available_irq).
LEMMA SeenAsCardRemoved ==
    ASSUME SeenCard # "none", SeenCard' = "none", SeenUp' <=> SeenUp,
           SeenLatch' <=> (SeenLatch \/ SeenUp)
    PROVE  Card!CardRemoved
BY DEF SeenCard, SeenUp, SeenLatch, Card!CardRemoved

\* The switch closing over a card.
LEMMA SeenAsCardInserted ==
    ASSUME NEW c, SeenCard = "none", SeenCard' = c, SeenUp' <=> SeenUp, SeenLatch' <=> SeenLatch
    PROVE  Card!CardInserted(c)
BY DEF SeenCard, SeenUp, SeenLatch, Card!CardInserted

\* The socket's line is the coordinator's card.
LEMMA SocketRefines ==
    ASSUME IInv, Socket
    PROVE  [Card!DriverNext]_(Card!cardDriver)
<1> USE DEF IInv, Flags, Names, Kinds, socket, irq, device, chip, job, counts
<1>1. CASE LineFalls
  <2>1. SeenCard # "none" /\ SeenCard' = "none"
    BY <1>1 DEF LineFalls, SeenCard
  <2>2. SeenUp' <=> SeenUp
    BY <1>1 DEF LineFalls, SeenUp
  <2>3. CASE pc \in Initialising
    <3>1. ~SeenUp /\ ~SeenLatch /\ ~SeenLatch'
      BY <1>1, <2>3 DEF LineFalls, SeenUp, SeenLatch, Holding, Initialising, InitPcs, InitCommands, InitTail
    <3> QED BY <2>1, <2>2, <3>1, SeenAsCardRemoved DEF Card!DriverNext
  <2>4. CASE pc \notin Initialising
    <3>1. slot <=> SeenUp
      BY <2>4 DEF SeenUp, Holding, InUse, Initialising, InitPcs, InitCommands, InitTail,
                  Pcs, Setup, Leaving, Transfers
    <3>2. SeenLatch' <=> (SeenLatch \/ SeenUp)
      BY <1>1, <2>4, <3>1 DEF LineFalls, Dispatch, SeenLatch, Latching
    <3> QED BY <2>1, <2>2, <3>2, SeenAsCardRemoved DEF Card!DriverNext
  <2> QED BY <2>3, <2>4
<1>2. CASE LineRises
  <2>1. SeenCard = "none" /\ SeenCard' = card
    BY <1>2 DEF LineRises, SeenCard
  <2>2. (SeenUp' <=> SeenUp) /\ (SeenLatch' <=> SeenLatch)
    BY <1>2 DEF LineRises, SeenUp, SeenLatch
  <2>3. card \in Card!Cards
    BY DEF Card!Cards
  <2> QED BY <2>1, <2>2, <2>3, SeenAsCardInserted DEF Card!DriverNext
<1>3. CASE ChangeCard
  BY <1>3, Unseen DEF ChangeCard, SeenCard, SeenUp, SeenLatch
<1> QED
  BY <1>1, <1>2, <1>3 DEF Socket

\* The first step of a call changes nothing the coordinator sees; configuring
\* again clears the latch.
LEMMA CallRefines ==
    ASSUME IInv, Call
    PROVE  [Card!DriverNext]_(Card!cardDriver)
<1> USE DEF IInv, Flags, Names, socket, irq, device, chip, job, counts, Go, Return
<1>1. SeenCard' = SeenCard
  BY DEF SeenCard, Call, StartInit, StartDeinit, Configure, DataCall, Begin, GetInfo
<1>2. CASE Configure
  <2>1. ~SeenUp /\ ~SeenUp'
    BY <1>2 DEF Configure, SeenUp
  <2> QED BY <1>1, <2>1, SeenAsInitErrs DEF Card!DriverNext
<1>3. CASE StartInit \/ StartDeinit \/ DataCall
  <2>1. pc = "idle" /\ pc' \in {"idle", "debounce", "teardown", "deinit_wait",
                              "read_cmd", "pre_erase", "write_cmd", "sync"}
    BY <1>3 DEF StartInit, StartDeinit, DataCall, Begin, GetInfo, FirstStep
  <2>2. UNCHANGED <<initialized, latched>>
    BY <1>3 DEF StartInit, StartDeinit, DataCall, Begin, GetInfo
  <2>3. (SeenUp' <=> SeenUp) /\ (SeenLatch' <=> SeenLatch)
    BY <2>1, <2>2 DEF SeenUp, SeenLatch, Initialising, InitCommands
  <2> QED BY <1>1, <2>3, Unseen
<1> QED
  BY <1>2, <1>3 DEF Call

\* Clearing the latch, and the last look at the level, can be seen as an init
\* that fails.
LEMMA SettingRefines ==
    ASSUME IInv, Setting
    PROVE  [Card!DriverNext]_(Card!cardDriver)
<1> USE DEF IInv, Flags, Names, Holding, socket, irq, device, chip, job, counts, Go, Return
<1>1. SeenCard' = SeenCard
  BY DEF SeenCard, Setting, Debounce, ClearLatch, Register, CheckLevel
<1>2. ~SeenUp /\ ~SeenUp'
  BY DEF SeenUp, Setting, Debounce, ClearLatch, Register, CheckLevel
<1> QED
  BY <1>1, <1>2, SeenAsInitErrs DEF Card!DriverNext

\* The commands of an init are its own business.
LEMMA CommandsRefines ==
    ASSUME IInv, Commands
    PROVE  [Card!DriverNext]_(Card!cardDriver)
<1> USE DEF IInv, Flags, Names, Holding, InitPcs, InitCommands, InitTail,
        socket, irq, device, chip, job, counts, Go, Abandon
<1>1. SeenCard' = SeenCard
  BY DEF SeenCard, Commands, Cmd0, Cmd8, Cmd59, Acmd41, Cmd58, ReadCsd, Cmd16, Exchange
<1>2. ~SeenUp /\ ~SeenUp'
  BY DEF SeenUp, Commands, Cmd0, Cmd8, Cmd59, Acmd41, Cmd58, ReadCsd, Cmd16, Exchange, MayHoldLine, AndGo
<1> QED
  BY <1>1, <1>2, SeenAsInitErrs DEF Card!DriverNext

\* The last look at the latch is where the card comes up.
LEMMA FinishingRefines ==
    ASSUME IInv, Finishing
    PROVE  [Card!DriverNext]_(Card!cardDriver)
<1> USE DEF IInv, Flags, Names, Holding, InitPcs, InitCommands, InitTail,
        socket, irq, device, chip, job, counts, Go, Return, Abandon
<1>1. SeenCard' = SeenCard
  BY DEF SeenCard, Finishing, PowerUpClocks, InitRelease, InitCheck, InitDone, Rollback
<1>2. CASE PowerUpClocks \/ InitRelease \/ Rollback \/ (InitCheck /\ latched)
  <2>1. ~SeenUp /\ ~SeenUp'
    BY <1>2 DEF SeenUp, PowerUpClocks, InitRelease, InitCheck, Rollback, GiveBack
  <2> QED BY <1>1, <2>1, SeenAsInitErrs DEF Card!DriverNext
<1>3. CASE InitCheck /\ ~latched
  <2>1. ~SeenUp /\ SeenUp' /\ ~SeenLatch'
    BY <1>3 DEF SeenUp, SeenLatch, InitCheck
  <2>2. SeenCard # "none"
    BY <1>3 DEF InitCheck, SeenCard, Latching, Kinds
  <2> QED BY <1>1, <2>1, <2>2, SeenAsInitOk DEF Card!DriverNext
<1>4. CASE InitDone
  BY <1>1, <1>4, Unseen DEF InitDone, SeenUp, SeenLatch, Initialising
<1> QED
  BY <1>2, <1>3, <1>4 DEF Finishing

\* Reads and writes leave the device up and the latch to the interrupt.
LEMMA TransfersRefine ==
    ASSUME IInv, Reading \/ Writing
    PROVE  [Card!DriverNext]_(Card!cardDriver)
<1> USE DEF ReadCommand, ReadBlock, Refused, Stop, PreErase, WriteCommand, WriteBlock, BlockWait,
        StopToken, RejectWait, FinalWait,
        CommandFails, MayHaveBegun, MayHoldLine,
        CommandRefused, CommandTaken, AfterStop, WaitOut, Still,
        Go, Leave, LeaveChecked
<1>1. UNCHANGED <<socket, irq, device>>
  BY DEF Reading, Writing
<1>2. /\ pc \in Transfers
      /\ pc' \in Transfers \cup {"release", "release_checked"}
  BY DEF Reading, Writing, Transfers
<1> QED
  BY <1>1, <1>2, Unseen DEF SeenCard, SeenUp, SeenLatch, socket, irq, device,
     Initialising, InitCommands, Transfers

\* Only a deinit takes the device down.
LEMMA EndingRefines ==
    ASSUME IInv, Ending
    PROVE  [Card!DriverNext]_(Card!cardDriver)
<1> USE DEF WaitOut, Still, Go, Return, Leave, LeaveChecked
<1>1. CASE Teardown
  <2>1. SeenCard' = SeenCard /\ ~SeenUp' /\ (SeenLatch' <=> SeenLatch)
    BY <1>1 DEF Teardown, GiveBack, SeenCard, SeenUp, SeenLatch, Initialising, InitCommands, socket
  <2> QED BY <2>1, SeenAsDeinit DEF Card!DriverNext
<1>2. CASE Sync \/ DeinitWait \/ ReleaseAndReturn \/ ReleaseFirst \/ Recheck
  <2>1. UNCHANGED <<socket, irq, device>>
    BY <1>2 DEF Sync, DeinitWait, ReleaseAndReturn, ReleaseFirst, Recheck
  <2>2. /\ pc \in {"sync", "deinit_wait", "release", "release_checked", "recheck"}
        /\ pc' \in {"teardown", "release", "release_checked", "recheck", "idle"}
    BY <1>2 DEF Sync, DeinitWait, ReleaseAndReturn, ReleaseFirst, Recheck
  <2> QED
    BY <2>1, <2>2, Unseen DEF SeenCard, SeenUp, SeenLatch, socket, irq, device,
       Initialising, InitCommands
<1> QED
  BY <1>1, <1>2 DEF Ending

\* What an init or deinit returns is whether the device is up (sd_spi.c:363, 387, 408).
LEMMA AnswerIsTrue ==
    ASSUME IInv, Next, pc # "idle", pc' = "idle"
    PROVE  AnswerTells
<1> USE DEF IInv, OpFits, DataOps, Holding, socket, irq, device, chip, job, counts,
        Go, Return, Leave, LeaveChecked, Abandon, Setup, InitPcs, InitCommands, InitTail, AnswerTells
<1>1. ~Socket
  BY DEF Socket, LineFalls, LineRises, ChangeCard
<1>2. ~Call
  BY DEF Call, StartInit, StartDeinit, Configure, DataCall, Begin, GetInfo
<1>3. CASE Setting
  BY <1>3 DEF Setting, Debounce, ClearLatch, Register, CheckLevel
<1>4. ~Commands
  BY DEF Commands, Cmd0, Cmd8, Cmd59, Acmd41, Cmd58, ReadCsd, Cmd16, Exchange, MayHoldLine, AndGo
<1>5. CASE Finishing
  BY <1>5 DEF Finishing, PowerUpClocks, InitRelease, InitCheck, InitDone, Rollback, GiveBack, VerdictFits
<1>6. ~Reading
  BY DEF Reading, ReadCommand, ReadBlock, Refused, Stop,
        CommandFails, MayHaveBegun, MayHoldLine, CommandRefused, CommandTaken, AfterStop, WaitOut
<1>7. ~Writing
  BY DEF Writing, PreErase, WriteCommand, WriteBlock, BlockWait, StopToken,
        RejectWait, FinalWait, CommandFails, MayHaveBegun, MayHoldLine,
        CommandRefused, CommandTaken, WaitOut
<1>8. CASE Ending
  BY <1>8 DEF Ending, Sync, DeinitWait, Teardown, GiveBack, ReleaseAndReturn, ReleaseFirst, Recheck,
           WaitOut, VerdictFits, InUse, Transfers
<1> QED
  BY <1>1, <1>2, <1>3, <1>4, <1>5, <1>6, <1>7, <1>8, DriverSteps DEF Next

\* However its steps and the socket's interleave, the driver is one that the
\* coordinator is modelled with (Storage extends CardDriver).
THEOREM CardDriverCorrect == Spec => ImplementsCardDriver
<1>1. Init => Card!DriverInit
  BY DEF Init, Card!DriverInit, Card!Cards, Kinds
<1>2. IInv /\ [Next]_vars => [Card!DriverNext]_(Card!cardDriver)
  <2> SUFFICES ASSUME IInv, [Next]_vars PROVE [Card!DriverNext]_(Card!cardDriver)
    OBVIOUS
  <2>1. CASE Driver
    BY <2>1, DriverSteps, SettingRefines, CommandsRefines, FinishingRefines, TransfersRefine, EndingRefines
  <2>2. CASE UNCHANGED vars
    BY <2>2, Unseen DEF vars, socket, irq, device, SeenCard, SeenUp, SeenLatch
  <2> QED
    BY <2>1, <2>2, SocketRefines, CallRefines DEF Next
<1>3. IInv /\ [Next]_vars => [AnswerTells]_vars
  BY AnswerIsTrue DEF AnswerTells
<1> QED
  BY <1>1, <1>2, <1>3, InductiveInvariant, PTL DEF Spec, ImplementsCardDriver, Card!DriverSpec

-----------------------------------------------------------------------------
(* Every operation has an end: the steps it may still take *)

\* The most steps the driver may still take at each pc.  Samples, polls and the
\* blocks of a read cost a step each, a written block costs its wait too.
StepsLeft ==
    [idle |-> 0,
     release |-> 1, recheck |-> 1, rollback |-> 1, teardown |-> 1,
     release_checked |-> 2, init_set |-> 2, stop_error |-> 2, deinit_wait |-> 2,
     stop |-> 3, init_check |-> 3, final_wait |-> 3, sync |-> 3, refused |-> 3,
     init_release |-> 4, stop_token |-> 4, reject_wait |-> 4,
     cmd16 |-> 5, csd |-> 6, cmd58 |-> 7,
     acmd41 |-> 7 + left, cmd59 |-> 8 + MaxPolls, cmd8 |-> 9 + MaxPolls, cmd0 |-> 10 + MaxPolls,
     clocks |-> 11 + MaxPolls, level |-> 12 + MaxPolls,
     register |-> 13 + MaxPolls, clear |-> 14 + MaxPolls, debounce |-> 14 + MaxPolls + left,
     read_data |-> 3 + left, read_cmd |-> 4 + left,
     write_data |-> 4 + 2 * left, block_wait |-> 5 + 2 * left,
     write_cmd |-> 5 + 2 * left, pre_erase |-> 6 + 2 * left][pc]

\* What a call may take in all.
Allowance ==
    IF op = "init" THEN 14 + MaxPolls + MaxSamples ELSE 6 + 2 * asked

\* What an operation may still take is a number, and 0 once it has returned.
LEMMA StepsLeftCounts ==
    ASSUME IInv
    PROVE  StepsLeft \in Nat /\ (StepsLeft = 0 <=> pc = "idle")
<1>1. pc \in Pcs /\ left \in Nat /\ MaxPolls \in Nat
  BY BoundsAssumption DEF IInv, Names, Numbers
<1> QED
  BY <1>1 DEF StepsLeft, Pcs, Setup, InitCommands, InitTail, Transfers, Leaving

\* Initialisation up to the last look at the level.
LEMMA SettingAdvances ==
    ASSUME IInv, Setting
    PROVE  StepsLeft' < StepsLeft
BY SamplesAssumption, BoundsAssumption
DEF StepsLeft, IInv, Numbers, Counting, Setting, Debounce, ClearLatch, Register, CheckLevel, Sample,
    Go, Return

\* The commands of initialisation.
LEMMA CommandsAdvance ==
    ASSUME IInv, Commands
    PROVE  StepsLeft' < StepsLeft
BY BoundsAssumption
DEF StepsLeft, IInv, Numbers, Counting, Commands, Cmd0, Cmd8, Cmd59, Acmd41, Cmd58, ReadCsd, Cmd16,
    Exchange, AndGo, Go, Abandon

\* The clocks before and after them, and the ways out.
LEMMA FinishingAdvances ==
    ASSUME IInv, Finishing
    PROVE  StepsLeft' < StepsLeft
BY BoundsAssumption
DEF StepsLeft, IInv, Numbers, Finishing, PowerUpClocks, InitRelease, InitCheck, InitDone, Rollback,
    Go, Return, Abandon

\* Reads, refused commands and CMD12.
LEMMA ReadingAdvances ==
    ASSUME IInv, Reading
    PROVE  StepsLeft' < StepsLeft
BY DEF StepsLeft, IInv, Numbers, Counting, Reading, ReadCommand, ReadBlock, Refused, Stop,
    CommandFails, MayHaveBegun, MayHoldLine,
    CommandRefused, CommandTaken, CountBlock, AfterStop, WaitOut, Still,
    counts, Go, Leave, LeaveChecked

\* Writes.
LEMMA WritingAdvances ==
    ASSUME IInv, Writing
    PROVE  StepsLeft' < StepsLeft
BY DEF StepsLeft, IInv, Numbers, Counting, Writing, PreErase, WriteCommand, WriteBlock, BlockWait,
    StopToken, RejectWait, FinalWait, CommandFails, MayHaveBegun, MayHoldLine,
    CommandRefused, CommandTaken, CountBlock,
    WaitOut, Still, counts, Go, Leave, LeaveChecked

\* Syncs, deinitialisation, and how calls return.
LEMMA EndingAdvances ==
    ASSUME IInv, Ending
    PROVE  StepsLeft' < StepsLeft
BY DEF StepsLeft, Ending, Sync, DeinitWait, Teardown, ReleaseAndReturn, ReleaseFirst, Recheck,
    WaitOut, Still, Go, Return, Leave, LeaveChecked

\* A call starts with no more than its allowance.
LEMMA CallIsAllowed ==
    ASSUME IInv, Call, pc' # "idle"
    PROVE  StepsLeft' <= Allowance'
BY SamplesAssumption, BoundsAssumption
DEF StepsLeft, Allowance, IInv, Call, StartInit, StartDeinit, Configure, DataCall, Begin, GetInfo,
    FirstStep, Go, Return

\* Every step of an operation leaves it fewer steps to take, and nothing the
\* socket does gives it more: an operation returns after at most its allowance of
\* steps, however the line bounces, the card answers and the latch is set (the
\* bounded waits of sd_spi.c).  With a driver that runs on this is why every
\* operation returns.
THEOREM OperationsAreBounded ==
    Spec => /\ [](StepsLeft \in Nat /\ (StepsLeft = 0 <=> pc = "idle"))
            /\ [][/\ Driver => StepsLeft' < StepsLeft
                  /\ Socket => StepsLeft' = StepsLeft
                  /\ Call /\ pc' # "idle" => StepsLeft' <= Allowance']_vars
<1>1. IInv => StepsLeft \in Nat /\ (StepsLeft = 0 <=> pc = "idle")
  BY StepsLeftCounts
<1>2. IInv /\ [Next]_vars => [/\ Driver => StepsLeft' < StepsLeft
                              /\ Socket => StepsLeft' = StepsLeft
                              /\ Call /\ pc' # "idle" => StepsLeft' <= Allowance']_vars
  <2>1. ASSUME IInv, Driver PROVE StepsLeft' < StepsLeft
    BY <2>1, DriverSteps, SettingAdvances, CommandsAdvance, FinishingAdvances, ReadingAdvances,
       WritingAdvances, EndingAdvances
  <2>2. ASSUME Socket PROVE StepsLeft' = StepsLeft
    BY <2>2 DEF Socket, LineFalls, LineRises, ChangeCard, StepsLeft, counts
  <2> QED BY <2>1, <2>2, CallIsAllowed
<1> QED
  BY <1>1, <1>2, InductiveInvariant, PTL DEF Spec

=============================================================================
