----------------------------- MODULE SdDriver -----------------------------
(***************************************************************************)
(* The SD card driver (storage/sd_spi.c) and the card-detect interrupt     *)
(* that reaches it through the GPIO dispatcher (platform/gpio_irq.c).      *)
(*                                                                         *)
(* One step of an operation is what the driver does between two looks at   *)
(* its removal latch.  A removal in the middle of a step has the effect of *)
(* one just before it, since the step ends by looking.  The interrupt may  *)
(* come between any two steps.                                             *)
(***************************************************************************)
EXTENDS Integers

CONSTANTS
    StableSamples, MaxSamples,  \* card_available: samples that must agree, samples taken
    MaxPolls,                   \* bound: ACMD41 is repeated at most so often in its 1200 ms
    MaxBlocks                   \* bound: blocks in one read or write

ASSUME SamplesAssumption ==
    /\ StableSamples \in Nat \ {0} /\ MaxSamples \in Nat
    /\ StableSamples <= MaxSamples
ASSUME BoundsAssumption == MaxPolls \in Nat \ {0} /\ MaxBlocks \in Nat \ {0}

VARIABLES
    line,           \* the card-detect line reads "present"
    lifted,         \* (history) it has fallen since the interrupt was registered
    card,           \* the kind of card in the socket
    slot, armed,    \* gpio_irq.c: the pin has a handler; its edge is enabled
    latched,        \* removal_latched
    initialized, spi, legacy, hcxc,     \* the device; spi: it owns its bus
    selected,       \* chip select is asserted
    busy,           \* the card is programming
    stream,         \* (history) the multi-block transfer the card was not told to end,
                    \* "lost" if it may be in one that the driver does not know of
    op, asked,      \* the operation, and the blocks it is for
    pc,
    left,           \* blocks, samples or polls still to come
    stable,         \* samples that have agreed
    good,           \* (history) blocks that arrived intact, or that the card accepted
    verdict,        \* what the operation is about to return
    result          \* what the last operation returned

socket == <<line, lifted, card>>
irq == <<slot, armed, latched>>
device == <<initialized, spi, legacy, hcxc>>
chip == <<busy, stream>>
job == <<op, asked>>
counts == <<left, stable, good>>
vars == <<socket, irq, device, selected, chip, job, pc, counts, verdict, result>>

Kinds == {"v1", "sc", "hc"}             \* legacy, standard and high capacity
Results == {"OK", "IO_ERROR", "BUSY_TIMEOUT", "INVALID_DEVICE", "INVALID_ARGUMENT",
            "NOT_INITIALIZED", "NOT_IMPLEMENTED", "OUT_OF_RANGE"}
Ops == {"init", "deinit", "read", "write", "sync", "get_info"}

Setup == {"debounce", "clear", "register", "level"}
InitCommands == {"cmd0", "cmd8", "cmd59", "acmd41", "cmd58", "csd", "cmd16"}
InitTail == {"init_release", "init_check", "init_set"}
Transfers == {"read_cmd", "read_data", "pre_erase", "write_cmd", "write_data", "block_wait",
              "stop_token", "final_wait", "reject_wait", "refused", "stop", "stop_error",
              "sync", "deinit_wait"}
Leaving == {"release", "release_checked", "recheck", "rollback", "teardown"}
Pcs == {"idle", "clocks"} \cup Setup \cup InitCommands \cup InitTail \cup Transfers \cup Leaving

\* A driver that has been configured, over any socket.
Init ==
    /\ line \in BOOLEAN /\ card \in Kinds /\ lifted = FALSE
    /\ slot = FALSE /\ armed = FALSE /\ latched = FALSE
    /\ initialized = FALSE /\ spi = FALSE /\ legacy = FALSE /\ hcxc = FALSE
    /\ selected = FALSE
    /\ busy \in BOOLEAN /\ stream = "none"
    /\ op = "deinit" /\ asked = 0
    /\ pc = "idle"
    /\ left = 0 /\ stable = 0 /\ good = 0
    /\ verdict = "OK" /\ result = "OK"

-----------------------------------------------------------------------------
(* The socket.  A card can be changed only while the switch is open; a card
   that is merely jolted opens and closes it too. *)

DispatchWhenUp ==                           \* (mutant) an edge during init is ignored
    /\ latched' = (latched \/ (slot /\ armed /\ initialized))
    /\ armed' = (armed /\ ~initialized)
    /\ UNCHANGED slot

\* platform_gpio_irq_dispatch and sd_spi_card_available_irq, at a removal edge.
Dispatch ==
    /\ latched' = (latched \/ (slot /\ armed))
    /\ armed' = FALSE
    /\ UNCHANGED slot

LineFalls ==
    /\ line
    /\ line' = FALSE
    /\ lifted' = TRUE
    /\ Dispatch
    /\ UNCHANGED <<card, device, selected, chip, job, pc, counts, verdict, result>>

LineRises ==
    /\ ~line
    /\ line' = TRUE
    /\ UNCHANGED <<lifted, card, irq, device, selected, chip, job, pc, counts, verdict, result>>

ChangeCard ==
    /\ ~line
    /\ card' \in Kinds
    /\ busy' \in BOOLEAN /\ stream' = "none"
    /\ UNCHANGED <<line, lifted, irq, device, selected, job, pc, counts, verdict, result>>

Socket == LineFalls \/ LineRises \/ ChangeCard

-----------------------------------------------------------------------------
(* How a step ends *)

Go(p) == pc' = p /\ UNCHANGED <<verdict, result>>

Leave(v) == pc' = "release" /\ verdict' = v /\ UNCHANGED result

LeaveChecked(v) == pc' = "release_checked" /\ verdict' = v /\ UNCHANGED result

Abandon(v) == pc' = "rollback" /\ verdict' = v /\ UNCHANGED result

Return(r) == pc' = "idle" /\ result' = r /\ UNCHANGED verdict

\* sd_spi_release_bus, and the look at the latch that most callers take after it.
ReleaseAndReturn ==
    /\ pc = "release"
    /\ selected' = FALSE
    /\ Return(verdict)
    /\ UNCHANGED <<socket, irq, device, chip, job, counts>>

ReleaseFirst ==
    /\ pc = "release_checked"
    /\ selected' = FALSE
    /\ Go("recheck")
    /\ UNCHANGED <<socket, irq, device, chip, job, counts>>

VerdictRegardless == verdict                \* (mutant) the latch is not looked at again

FinalVerdict == IF latched THEN "INVALID_DEVICE" ELSE verdict

Recheck ==
    /\ pc = "recheck"
    /\ Return(FinalVerdict)
    /\ UNCHANGED <<socket, irq, device, selected, chip, job, counts>>

GiveBackBus ==                              \* (mutant) the handler stays registered
    /\ UNCHANGED irq
    /\ spi' = FALSE /\ selected' = FALSE
    /\ initialized' = FALSE /\ legacy' = FALSE /\ hcxc' = FALSE

\* Everything the device holds is given back; the latch is kept.
GiveBack ==
    /\ slot' = FALSE /\ armed' = FALSE
    /\ spi' = FALSE /\ selected' = FALSE
    /\ initialized' = FALSE /\ legacy' = FALSE /\ hcxc' = FALSE
    /\ UNCHANGED latched

\* sd_spi_init_rollback
Rollback ==
    /\ pc = "rollback"
    /\ GiveBack
    /\ Return(verdict)
    /\ UNCHANGED <<socket, chip, job, counts>>

-----------------------------------------------------------------------------
(* Initialisation *)

StartInit ==
    /\ pc = "idle"
    /\ op' = "init" /\ asked' = 0
    /\ IF initialized
       THEN Return("INVALID_ARGUMENT") /\ UNCHANGED <<legacy, hcxc, left, stable>>
       ELSE /\ Go("debounce")
            /\ legacy' = FALSE /\ hcxc' = FALSE
            /\ left' = MaxSamples /\ stable' = 0
    /\ UNCHANGED <<socket, irq, initialized, spi, selected, chip, good>>

SampleForEver ==                            \* (mutant) the samples are not limited
    /\ stable' = IF line THEN stable + 1 ELSE 0
    /\ UNCHANGED left

Sample ==
    /\ left' = left - 1
    /\ stable' = IF line THEN stable + 1 ELSE 0

\* sd_spi_card_available: one sample of the line.
Debounce ==
    /\ pc = "debounce"
    /\ Sample
    /\ \/ stable' = StableSamples /\ Go("clear")
       \/ stable' # StableSamples /\ left' > 0 /\ Go("debounce")
       \/ stable' # StableSamples /\ left' = 0 /\ Return("INVALID_DEVICE")
    /\ UNCHANGED <<socket, irq, device, selected, chip, job, good>>

ClearLatch ==
    /\ pc = "clear"
    /\ latched' = FALSE
    /\ Go("register")
    /\ UNCHANGED <<socket, slot, armed, device, selected, chip, job, counts>>

\* platform_gpio_irq_register, which forgets edges from before
Register ==
    /\ pc = "register"
    /\ IF slot
       THEN Return("IO_ERROR") /\ UNCHANGED <<irq, lifted>>
       ELSE /\ slot' = TRUE /\ armed' = TRUE
            /\ lifted' = FALSE
            /\ Go("level")
            /\ UNCHANGED latched
    /\ UNCHANGED <<line, card, device, selected, chip, job, counts>>

SeatedUnread == ~latched                    \* (mutant) the level is not read again

Seated == line /\ ~latched

CheckLevel ==
    /\ pc = "level"
    /\ IF Seated
       THEN spi' = TRUE /\ selected' = FALSE /\ Go("clocks") /\ UNCHANGED irq
       ELSE /\ latched' = TRUE
            /\ slot' = FALSE /\ armed' = FALSE
            /\ Return("INVALID_DEVICE")
            /\ UNCHANGED <<spi, selected>>
    /\ UNCHANGED <<socket, initialized, legacy, hcxc, chip, job, counts>>

PowerUpClocks ==
    /\ pc = "clocks"
    /\ IF latched
       THEN Abandon("INVALID_DEVICE") /\ UNCHANGED selected
       ELSE Go("cmd0") /\ selected' = TRUE
    /\ UNCHANGED <<socket, irq, device, chip, job, counts>>

\* The card holds its data line down: it is programming, or sending a transfer
\* that the driver takes for busy.
MayHoldLine == busy \/ stream = "lost"

\* A command and what follows it; Answered is what a good answer does.
Exchange(p, Answered) ==
    /\ pc = p
    /\ \/ latched /\ Abandon("INVALID_DEVICE") /\ UNCHANGED <<legacy, hcxc, left, busy>>
       \/ ~latched /\ busy' = FALSE /\ Answered
       \/ /\ ~latched
          /\ \E r \in {"IO_ERROR", "BUSY_TIMEOUT", "NOT_IMPLEMENTED"} :
                /\ r = "BUSY_TIMEOUT" => MayHoldLine
                /\ r = "NOT_IMPLEMENTED" => p = "csd"
                /\ Abandon(r)
          /\ UNCHANGED <<legacy, hcxc, left, busy>>
    /\ stream' = IF pc' = "cmd8" THEN "none" ELSE stream           \* CMD0 resets the card
    /\ UNCHANGED <<socket, irq, initialized, spi, selected, job, stable, good>>

AndGo(p) == Go(p) /\ UNCHANGED <<legacy, hcxc, left>>

Cmd0 == Exchange("cmd0", AndGo("cmd8"))
Cmd8 == Exchange("cmd8", Go("cmd59") /\ legacy' = (legacy \/ card = "v1") /\ UNCHANGED <<hcxc, left>>)
Cmd59 == Exchange("cmd59", Go("acmd41") /\ left' = MaxPolls /\ UNCHANGED <<legacy, hcxc>>)

\* The card is asked again while it is idle and time is left.
Acmd41 ==
    Exchange("acmd41",
        /\ UNCHANGED <<legacy, hcxc>>
        /\ left' = left - 1
        /\ \/ Go("cmd58")
           \/ IF left > 1 THEN Go("acmd41") ELSE Abandon("IO_ERROR"))

Cmd58 == Exchange("cmd58", Go("csd") /\ hcxc' = (hcxc \/ (card = "hc" /\ ~legacy)) /\ UNCHANGED <<legacy, left>>)

\* The CSD's structure must be that of the addressing found before.
ReadCsd ==
    Exchange("csd",
        /\ UNCHANGED <<legacy, hcxc, left>>
        /\ IF hcxc # (card = "hc") THEN Abandon("IO_ERROR")
           ELSE Go(IF hcxc THEN "init_release" ELSE "cmd16"))

Cmd16 == Exchange("cmd16", AndGo("init_release"))

InitRelease ==
    /\ pc = "init_release"
    /\ IF latched
       THEN Abandon("INVALID_DEVICE") /\ UNCHANGED selected
       ELSE Go("init_check") /\ selected' = FALSE
    /\ UNCHANGED <<socket, irq, device, chip, job, counts>>

InitCheckBlind ==                           \* (mutant) the latch is not looked at after the clocks
    /\ pc = "init_check"
    /\ Go("init_set")
    /\ UNCHANGED <<socket, irq, device, selected, chip, job, counts>>

InitCheck ==
    /\ pc = "init_check"
    /\ IF latched THEN Abandon("INVALID_DEVICE") ELSE Go("init_set")
    /\ UNCHANGED <<socket, irq, device, selected, chip, job, counts>>

InitDone ==
    /\ pc = "init_set"
    /\ initialized' = TRUE
    /\ Return("OK")
    /\ UNCHANGED <<socket, irq, spi, legacy, hcxc, selected, chip, job, counts>>

Initialise ==
    \/ Debounce \/ ClearLatch \/ Register \/ CheckLevel \/ PowerUpClocks
    \/ Cmd0 \/ Cmd8 \/ Cmd59 \/ Acmd41 \/ Cmd58 \/ ReadCsd \/ Cmd16
    \/ InitRelease \/ InitCheck \/ InitDone \/ Rollback

-----------------------------------------------------------------------------
(* Operations on an initialised card *)

UsableUnlatched == IF ~initialized THEN "NOT_INITIALIZED" ELSE "OK"     \* (mutant)

\* sd_spi_require_usable
Usable ==
    IF latched THEN "INVALID_DEVICE"
    ELSE IF ~initialized THEN "NOT_INITIALIZED" ELSE "OK"

FirstStep(o, n) ==
    CASE o = "read" -> "read_cmd"
      [] o = "write" -> IF n > 1 THEN "pre_erase" ELSE "write_cmd"
      [] OTHER -> "sync"

\* read_blocks, write_blocks and sync, up to chip select.
Begin(o, n) ==
    /\ pc = "idle"
    /\ op' = o /\ asked' = n /\ left' = n /\ good' = 0
    /\ \/ Usable # "OK" /\ Return(Usable) /\ UNCHANGED selected
       \/ Usable = "OK" /\ n > 0 /\ Return("OUT_OF_RANGE") /\ UNCHANGED selected
       \/ Usable = "OK" /\ Go(FirstStep(o, n)) /\ selected' = TRUE
    /\ UNCHANGED <<socket, irq, device, chip, stable>>

GetInfo ==
    /\ pc = "idle"
    /\ op' = "get_info" /\ asked' = 0
    /\ Return(Usable)
    /\ UNCHANGED <<socket, irq, device, selected, chip, counts>>

\* sd_spi_configure again, on a device that is down
Configure ==
    /\ pc = "idle" /\ ~initialized
    /\ latched' = FALSE
    /\ UNCHANGED <<socket, slot, armed, device, selected, chip, job, pc, counts, verdict, result>>

\* A card that was sent CMD18 or CMD25 and was not heard to answer may have begun
\* the transfer: the driver cannot tell, and sends no CMD12 and no stop token.
MayHaveBegun ==
    stream' \in {stream} \cup (IF asked > 1 /\ pc # "pre_erase" THEN {"lost"} ELSE {})

\* sd_spi_command: cut short by the latch, not sent to a card that stays busy, or
\* not answered within 16 bytes, whatever the card made of it.
CommandFails ==
    /\ \/ latched /\ Leave("INVALID_DEVICE") /\ MayHaveBegun /\ UNCHANGED busy
       \/ ~latched /\ MayHoldLine /\ Leave("BUSY_TIMEOUT") /\ UNCHANGED chip
       \/ ~latched /\ Leave("IO_ERROR") /\ MayHaveBegun /\ busy' \in BOOLEAN
    /\ UNCHANGED counts

\* An answer with an error bit is the card's own: it has begun nothing.
CommandRefused ==
    /\ ~latched
    /\ busy' \in BOOLEAN
    /\ IF op = "read" /\ asked = 1 THEN Leave("IO_ERROR") ELSE Go("refused")
    /\ UNCHANGED <<stream, counts>>

\* What looks like a good answer may be the data of a lost transfer.
CommandTaken(p) ==
    /\ ~latched
    /\ busy' = FALSE
    /\ stream' \in {IF asked > 1 THEN op ELSE "none"} \cup ({stream} \cap {"lost"})
    /\ Go(p)
    /\ UNCHANGED counts

Still == <<socket, irq, device, selected, job>>

ReadCommand ==
    /\ pc = "read_cmd"
    /\ CommandFails \/ CommandRefused \/ CommandTaken("read_data")
    /\ UNCHANGED Still

PreErase ==
    /\ pc = "pre_erase"
    /\ \/ CommandFails
       \/ ~latched /\ busy' \in BOOLEAN /\ Go("write_cmd") /\ UNCHANGED <<stream, counts>>
    /\ UNCHANGED Still

WriteCommand ==
    /\ pc = "write_cmd"
    /\ CommandFails \/ CommandRefused \/ CommandTaken("write_data")
    /\ UNCHANGED Still

ReadyAtOnce == ~latched /\ UNCHANGED chip   \* (mutant) the busy signal is not waited for

\* sd_spi_wait_ready_timeout: Ready or NotReady.
Ready == ~latched /\ busy' = FALSE /\ UNCHANGED stream

NotReady == (latched \/ MayHoldLine) /\ UNCHANGED chip

WaitOut(p, Then) ==
    /\ pc = p
    /\ \/ Ready /\ Then
       \/ NotReady /\ LeaveChecked("BUSY_TIMEOUT")
    /\ UNCHANGED <<counts, Still>>

Refused == WaitOut("refused", Leave("IO_ERROR"))

CountBlock ==
    /\ left' = left - 1
    /\ good' = good + 1

\* A block's data and CRC, an error token, or nothing within 100 ms.
ReadBlock ==
    /\ pc = "read_data"
    /\ \/ latched /\ Leave("INVALID_DEVICE") /\ UNCHANGED <<left, good>>
       \/ ~latched /\ CountBlock
          /\ \/ left > 1 /\ Go("read_data")
             \/ left = 1 /\ asked = 1 /\ LeaveChecked("OK")
             \/ left = 1 /\ asked > 1 /\ pc' = "stop" /\ verdict' = "OK" /\ UNCHANGED result
       \/ ~latched /\ asked = 1 /\ Leave("IO_ERROR") /\ UNCHANGED <<left, good>>
       \/ /\ ~latched /\ asked > 1
          /\ pc' \in {"stop", "stop_error"} /\ verdict' = "IO_ERROR"
          /\ UNCHANGED <<result, left, good>>
    /\ UNCHANGED <<chip, stable, Still>>

AfterStop(r) ==
    LET v == IF r = "OK" THEN verdict ELSE r
    IN  IF pc = "stop" THEN LeaveChecked(v) ELSE Leave(v)

StopUnsent(r) ==                            \* (mutant) CMD12 is left out after an error
    /\ r \in {"OK", "IO_ERROR"} /\ busy' = FALSE
    /\ stream' = IF verdict = "OK" THEN "none" ELSE stream

\* CMD12 and the card's answer; without a good one the card may not have heard it.
StopSent(r) ==
    /\ \/ r \in {"OK", "IO_ERROR"} /\ busy' = FALSE
       \/ r = "BUSY_TIMEOUT" /\ busy' = TRUE
    /\ stream' \in IF r = "OK" THEN {"none"} ELSE {"none", "lost"}

\* sd_spi_stop_transmission: CMD12, unless the card has gone.
Stop ==
    /\ pc \in {"stop", "stop_error"}
    /\ \E r \in Results :
          /\ \/ latched /\ r = "INVALID_DEVICE" /\ UNCHANGED chip
             \/ ~latched /\ StopSent(r)
          /\ AfterStop(r)
    /\ UNCHANGED <<counts, Still>>

\* A block and the card's answer to it: accepted, rejected, or no known token.
WriteBlock ==
    /\ pc = "write_data"
    /\ \/ latched /\ Leave("INVALID_DEVICE") /\ UNCHANGED <<left, good, busy>>
       \/ ~latched /\ CountBlock /\ busy' = TRUE
          /\ Go(IF asked > 1 THEN "block_wait" ELSE "final_wait")
       \/ ~latched /\ busy' \in BOOLEAN /\ Go("reject_wait") /\ UNCHANGED <<left, good>>
       \/ ~latched /\ LeaveChecked("IO_ERROR") /\ UNCHANGED <<left, good, busy>>
    /\ UNCHANGED <<stream, stable, Still>>

BlockWait == WaitOut("block_wait", Go(IF left > 0 THEN "write_data" ELSE "stop_token"))

StopToken ==
    /\ pc = "stop_token"
    /\ \/ latched /\ Leave("INVALID_DEVICE") /\ UNCHANGED chip
       \/ /\ ~latched /\ Go("final_wait") /\ busy' = TRUE
          /\ stream' \in {"none"} \cup ({stream} \cap {"lost"})
    /\ UNCHANGED <<counts, Still>>

FinalWait == WaitOut("final_wait", LeaveChecked("OK"))

RejectWait ==
    WaitOut("reject_wait",
        IF asked > 1 THEN pc' = "stop" /\ verdict' = "IO_ERROR" /\ UNCHANGED result
                     ELSE LeaveChecked("IO_ERROR"))

Sync == WaitOut("sync", LeaveChecked("OK"))

-----------------------------------------------------------------------------
(* Deinitialisation *)

StartDeinit ==
    /\ pc = "idle"
    /\ op' = "deinit" /\ asked' = 0
    /\ \/ ~initialized /\ Return("OK") /\ UNCHANGED selected
       \/ initialized /\ latched /\ Go("teardown") /\ selected' = FALSE
       \/ initialized /\ ~latched /\ Go("deinit_wait") /\ selected' = TRUE
    /\ UNCHANGED <<socket, irq, device, chip, counts>>

DeinitWait ==
    /\ pc = "deinit_wait"
    /\ \/ (Ready \/ (latched /\ UNCHANGED chip)) /\ Go("teardown")
       \/ ~latched /\ MayHoldLine /\ Leave("BUSY_TIMEOUT") /\ UNCHANGED chip
    /\ UNCHANGED <<counts, Still>>

Teardown ==
    /\ pc = "teardown"
    /\ GiveBack
    /\ Return("OK")
    /\ UNCHANGED <<socket, chip, job, counts>>

-----------------------------------------------------------------------------

DataCall ==
    \/ \E n \in 1 .. MaxBlocks : Begin("read", n) \/ Begin("write", n)
    \/ Begin("sync", 0) \/ GetInfo

Call == StartInit \/ StartDeinit \/ Configure \/ DataCall

Transfer ==
    \/ ReadCommand \/ ReadBlock \/ Refused \/ Stop
    \/ PreErase \/ WriteCommand \/ WriteBlock \/ BlockWait \/ StopToken \/ RejectWait \/ FinalWait
    \/ Sync \/ DeinitWait \/ Teardown
    \/ ReleaseAndReturn \/ ReleaseFirst \/ Recheck

Driver == Initialise \/ Transfer

Next == Call \/ Driver \/ Socket

Spec == Init /\ [][Next]_vars

\* The driver runs on; the socket and the callers do what they like.
FairSpec == Spec /\ WF_vars(Driver)

-----------------------------------------------------------------------------
(* Properties *)

TypeOK ==
    /\ {line, lifted, slot, armed, latched, initialized, spi, legacy, hcxc, selected, busy}
          \subseteq BOOLEAN
    /\ card \in Kinds
    /\ stream \in {"none", "read", "write", "lost"}
    /\ op \in Ops /\ pc \in Pcs
    /\ asked \in 0 .. MaxBlocks /\ good \in 0 .. MaxBlocks
    /\ left \in Nat /\ stable \in 0 .. StableSamples
    /\ verdict \in Results /\ result \in Results

\* While a handler is registered and the latch is clear, the card that was there
\* when the handler was registered has not been out for a moment.  The one gap is
\* before the level is read once more (sd_spi_init_card).
RemovalIsLatched == slot /\ pc # "level" /\ ~latched => line /\ ~lifted

\* Between operations the device holds its interrupt and its bus exactly if it is
\* initialised, with chip select high, and the edge is enabled exactly until it
\* has been seen: every failed init and every deinit gives back what it took, once.
NothingLeftBehind ==
    /\ pc = "idle" => slot = initialized /\ spi = initialized /\ ~selected
    /\ slot /\ pc # "level" => armed = ~latched

\* An operation that was interrupted by even a moment's removal never succeeds,
\* also not when the edge comes during the clocks that end it.
InterruptedNeverSucceeds ==
    [][pc # "idle" /\ pc' = "idle" /\ result' = "OK" /\ op \in {"read", "write", "sync"}
       => line /\ ~lifted]_vars

\* A read or write that succeeds has moved every block, a write or sync leaves the
\* card done with programming.  Which blocks those are is not said: a card in a lost
\* transfer may send others.
SuccessIsComplete ==
    pc = "idle" /\ result = "OK" /\ op \in {"read", "write", "sync"} =>
        /\ good = asked
        /\ ~lifted => ~busy \/ op = "read"

\* Once removal is latched, no step leads to one that uses the bus, and new block
\* operations return INVALID_DEVICE.
QuietAfterRemoval ==
    [][latched =>
          /\ Driver => pc' \in {"idle"} \cup Setup \cup Leaving
          /\ DataCall => pc' = "idle" /\ result' = "INVALID_DEVICE"]_vars

\* A multi-block read whose command was answered is told to end, however it goes on,
\* unless the card has gone; a multi-block write that is not is never reported as a
\* success.  A command that was not answered, CMD12 included, can leave the card in a
\* transfer that the driver does not know of; a multi-block read that succeeds has
\* ended that one too.
StreamsAreEnded ==
    pc = "idle" /\ initialized /\ ~latched =>
        /\ stream # "read"
        /\ op = "read" /\ asked > 1 /\ result = "OK" => stream = "none"
        /\ op = "write" /\ result = "OK" => stream # "write"

\* The driver addresses the card that is in the socket the way that card wants it.
AddressingMatchesCard ==
    initialized /\ ~latched => hcxc = (card = "hc") /\ legacy = (card = "v1")

\* Every operation returns, whatever the socket does.
OperationReturns == pc # "idle" ~> pc = "idle"
-----------------------------------------------------------------------------
(* Refinement *)

\* The steps of initialisation that have cleared the latch and may still fail.
Initialising ==
    {"register", "level", "clocks", "init_release", "init_check", "rollback"} \cup InitCommands

\* The driver as the storage coordinator sees it.  A card counts as inserted
\* while its switch is closed, and its contacts are not to be relied on; it is up
\* once the last look at the latch has passed.  What an init latches is its own
\* business until it returns.
Card ==
    INSTANCE CardDriver WITH
        Good <- Kinds, Blank <- {}, Failing <- {}, NoCard <- "none",
        card <- IF line THEN card ELSE "none",
        seated <- FALSE,
        initialized <- (initialized \/ pc = "init_set"),
        latch <- (pc \notin Initialising /\ latched)

\* What an init or deinit answers is whether the device is up afterwards, which
\* is all the coordinator goes by (device_up).
AnswerTells ==
    pc # "idle" /\ pc' = "idle" =>
        /\ op = "init" => (result' = "OK" <=> initialized')
        /\ op = "deinit" => (result' = "OK" <=> ~initialized')

\* The driver is the one the storage coordinator is modelled with: however its
\* steps and the socket's interleave, each looks to the coordinator like one
\* step of CardDriver, or none.  An init comes up only on a card that has not
\* been out since, a removal is latched at once from then on, and a latched
\* removal is forgotten only by the next init.
ImplementsCardDriver == Card!DriverSpec /\ [][AnswerTells]_vars
=============================================================================
