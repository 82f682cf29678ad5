# Tavernkeep: the storage stack in TLA+

Tavernkeep is firmware for a small RP2350 device with a removable SD card. Nearly
everything that can go wrong in it goes wrong around that card: it is pulled in the
middle of a write, lent to a USB host and taken back, jolted in its socket while it is
being initialised, or asked to keep a bookmark through a power cut. This project models
that stack, from the socket's interrupt up to the main loop, checks the models with TLC
on small instances, and proves what matters most for every instance with TLAPS.

Paths such as `storage/storage.c` are relative to `src/` of the repository.

## 1. The system

One core runs a cooperative loop (`main.c`). Each pass polls the USB stack, runs one step
of the USB-mode policy, one step of the storage coordinator, and one look at what the
coordinator shows. Nothing in the loop is preempted by other firmware code, except by the
card-detect interrupt. What acts beside it are the card and its socket, VBUS, the USB host,
and a debugger that writes requests into memory.

```
   USB host ──> TinyUSB ──> usb_device ──> msc_disk ──┐ blocks, while lent
                                 ^                    │
        VBUS ──> usb_mode ───────┘                    v
                    │ request_owner    ┌──────── block_device ──> sd_spi ──> card
                    v                  │             ^              ^
   main loop ──> storage (coordinator)─┤             │              │ removal latch
                    │ mount, unmount   │             │         gpio_irq <── detect switch
                    v                  │             │
   save_point ──> filesystem ──> FatFs ──> diskio ───┘
```

| Component | State it keeps | Operations | What makes it correct |
|---|---|---|---|
| Storage coordinator (`storage/storage.c`) | owner, requested owner, medium, epoch, whether the device is up, attempts, retry and settle deadlines | `storage_step`, `storage_request_owner`, the queries | one owner at a time; the filesystem mounted only for the local one; every loss visible as a new epoch; good cards become usable; releases end |
| Save points (`storage/save_point.c`) | two slot files on the card | `save_point_write`, `save_point_read` | an interrupted save leaves the old record or the new one; OK means saved; a read is never a mixture |
| USB disk (`usb/msc_disk.c`) and its callbacks (`usb/usb_device.c`) | what the host has been told, what is withheld, a pending eject, the sense of a failed transfer | the SCSI commands, one buffer of a transfer at a time | no data of a medium the host does not know of; one UNIT ATTENTION per medium; the right sense |
| USB-mode policy (`usb/usb_mode.c`) and main loop (`main.c`) | debounced cable, entering, lending; what `storage_watch` saw last | `usb_mode_step`, the pass | the card is where the policy says; it comes back; the demo runs once per readiness |
| SD driver (`storage/sd_spi.c`) and interrupt dispatcher (`platform/gpio_irq.c`) | removal latch, initialised flag, card kind, chip select, bus and pin ownership | init, deinit, read, write, sync, get_info, is_present; the interrupt | a removal is never missed; no false success; nothing left behind by a failure; every call returns |
| Filesystem handles (`storage/filesystem.c`) | pools of open files and listings with generations | open, close, opendir, closedir, unmount | a handle is served exactly while it is the newest of its slot |
| Open entries (`storage/filesystem.c`, `storage/diskio.c`, FatFs's sharing control) | the pools, FatFs's table of open entries, the drive's "gone" mark | mount, unmount, open, close, opendir, closedir, remove, rename | open files do not collide; the table matches the pools; a close reports a success only if everything is on the card |
| CRC helpers (`storage/sd_crc.c`) and the CSD decoding of `sd_spi.c` | none between calls; two shift registers within a transfer | CRC7 and CRC16, the comparison with what the card sent, the capacity | a damaged transfer is never accepted, a good one never refused; the size is the card's |
| Clock, board and debug code | none | pin constants, log output | nothing to model |
| EPUB, audio, display, input | directories without code | | planned in `docs/architecture.md` |

How the parts interact:

* **The coordinator is the only caller of init and deinit.** Everybody else reaches the
  block device only while the coordinator's owner is theirs and its medium is READY.
* **The epoch is the only invalidation signal.** It changes on every hand-over and on every
  loss of a READY medium. The USB disk and `storage_watch` compare it with what they
  remember; nobody is called back.
* **The removal latch is the only thing an interrupt writes.** The driver looks at it
  between the pieces of every operation, and only the next init clears it.
* **FatFs learns of a removal through `diskio`**, which marks the drive as gone until it is
  unmounted.

The hard behaviours follow from this: an interrupt between any two driver steps, a card
changed between two coordinator steps, a coordinator step between two buffers of one USB
transfer, retries of operations that may have half succeeded, deadlines on a 32-bit clock
that wraps, counters (epoch, sequence number, generation) that come round, and a card that
fails one transfer and serves the next. `PROJECT.json` lists each of them at its line,
with the properties that would notice if it went wrong.

## 2. Modules

| Module | Models | Proofs |
|---|---|---|
| `StorageContract` | what `storage.h` promises: owner, medium and epoch, with no driver and no time | used by the three that build on it |
| `CardDriver` | the card in its socket and what a call of the SD driver may come to: the block device as `storage.c` sees it | used by `Storage` and `SdDriver` |
| `Storage` | `storage.c`, step by step, over `CardDriver`; implements `StorageContract` | `StorageProofs` |
| `StorageCardHistory` | `Storage` with a history variable for one question about retries | `StorageProofs` |
| `AtomicRecord` | what `save_point.h` promises: one record, atomic saves | |
| `SavePoint` | `save_point.c`; implements `AtomicRecord` | `SavePointProofs` |
| `MscDisk` | `msc_disk.c` and the sense handling of `usb_device.c`, over `StorageContract` | `MscDiskProofs` |
| `UsbMode` | `usb_mode.c`, `main.c`'s loop and `storage_watch`, over `StorageContract` | `UsbModeProofs` |
| `SdDriver` | `sd_spi.c` and the part of `gpio_irq.c` it uses; implements `CardDriver` | `SdDriverProofs` |
| `SdData` | `sd_crc.c` over the transfers of `sd_spi.c`, and the capacity of the CSD register | `SdDataProofs` |
| `FileHandles` | slots, generations and handles of `filesystem.c` | `FileHandlesProofs` |
| `OpenEntries` | the operations of `filesystem.c` over FatFs's open-entry table and `diskio.c`'s mark | `OpenEntriesProofs` |
| `MC...` | small instances for TLC | |

The modules meet at two abstract ones, and both seams are proved:

```
   MscDisk   UsbMode          extend StorageContract
        \    /
     StorageContract   <---   Storage implements it     (StorageProofs)
                                 extends CardDriver
        CardDriver     <---   SdDriver implements it    (SdDriverProofs)
```

`MscDisk` and `UsbMode` extend `StorageContract`, not `Storage`: they see only what any
client sees. `Storage` takes every move of the socket and every outcome of `init` and
`deinit` from `CardDriver`, and `SdDriver` implements that. So the safety shown at the top
holds over the real coordinator, and what is shown of the coordinator holds over the real
driver. Two limits: refinement carries safety only, and `CardDriver` allows outcomes that
`SdDriver` has no use for (a card that seats, kinds of cards by how well they work).

Definitions marked `(mutant)`, or described as a variation in their comment, are not part
of a model. Each is a wrong version of the definition that follows it; `PROJECT.json` names
the property that must fail when it is put in that definition's place.

### Storage

A `storage_step` is cut at its driver calls, since the card and the interrupt can act
there. `phase` says where the step is: `idle`, `change` (an owner change is due),
`bring_up`, `mount` (`filesystem_mount` runs) and `judge` (it failed, and `mount_now` asks
why). Between those points the code does not look at the outside world, so one action is
one such piece, with everything it assigns.

| Action | Code |
|---|---|
| `StepBegin` | `watch_for_loss`, and the branch in `storage_step` |
| `ReleaseToNone`, `Reclaim`, `HandOverUnready`, `LendToUsb`, `TakeBackFromUsb` | the cases of `change_owner` |
| `NothingDue`, `RetryRelease` | `bring_up`'s early returns and the NONE owner |
| `LetGoOfFaulty`, `WatchFaulty` | `handle_faulty` |
| `SocketEmpty`, `Settle`, `InitSucceeds`, `InitRefused`, `InitFails`, `RetryMount` | the rest of `bring_up` |
| `MountSucceeds`, `MountFindsNoFilesystem`, `MountFails`, `JudgeFailedMount` | `mount_now` |

The driver is `CardDriver`'s: init may succeed, be refused because no card is seated, or
fail; deinit may time out on a busy card but not on a removed one; once a removal is
latched nothing is read or written. A removal latches while the device is initialised, and
an init forgets what was latched before. There are three kinds of cards: good ones,
blank ones without a FAT volume, and failing ones of which any call may fail. A card is
inserted loose, seats, may be loosened again (its switch then bounces) and is removed at
any time. A clock unit is 250 ms, the greatest common divisor of the delays in the code.
`upCard` is a history variable.

### Save points

A slot file is what checking it would find: a whole record, or nothing. That abstracts the
magic, the length and the CRC, and rests on the CRC telling a torn slot from a whole one.
A call is cut at each slot check, the open that truncates the target, the writes, and the
close. `Interrupted` is the removal or power cut at any of these points, with and without
the interrupted step having reached the card; a reboot needs no action of its own because a
call keeps nothing in memory between calls. A behaviour is about one card. It reads without
errors or it is `flaky`: then a check may find a slot unreadable (the code tries twice), for
any of the two slots and for any number of times. `AtomicRecord` says what is promised of
either.

### The USB disk

The host sends any command at any time; TinyUSB serialises commands and hands a READ or
WRITE over one buffer per callback, so `BeginTransfer`, `ServeBuffer` and `FailBuffer` are
separate steps and the coordinator may step between them. `Pull` sets `gone`: the driver
refuses everything from then on, and only later does the coordinator `Lose` the medium.
The pair `kept`, `tiny_sense` is `transfer_sense` of `usb_device.c` and TinyUSB's own
sense, which TinyUSB overwrites after a failed transfer. `told`, `away`, `reason` and
`changes` are history variables: what the host was really told, whether the medium of this
epoch is really ejected or gone, and why the last command really failed.
Addresses and sizes are accepted or refused; `msc_disk_writable` changes no state.

### The loop and the policy

A pass goes through the phases `usb`, `policy`, `take`, `loss`, `hand`, `prepare` and
`watch`. `policy` reads the request word and `take` resets it, so that the debugger may
write between the two. The next three are `storage_step`, cut into the three things it may do in one call (lose the
medium, change the owner, bring the card further), each a step of `StorageContract`. VBUS
and the debugger's requests may change between any two phases; the host acts while the USB
stack runs. `usb_device_attach` may fail, and is then called again on the next pass. Either
half may have failed at start-up (`storage_ready`, `initialized`): the loop then runs the
policy without a coordinator, or no host ever appears.
`sample`, `steady`, `eject_lend` and `demoed` are history variables.

Left out: logging, the LED, the idle sleep, and the demo's own file work.

### The SD driver

An operation is cut at every look at `removal_latched`. The switch line falls (which runs
the interrupt if the pin's edge is enabled), rises, and while it is open the card may be
changed for another kind. So a card can be jolted, pulled or swapped between any two
steps. `pc` names the step: debounce, clearing the latch, registering, reading the
level again, the commands of initialisation in order, each block of a transfer, each wait
for a busy card, CMD12 or the stop token, the release of the bus, and the ways back
(`rollback`, `teardown`). An exchange's outcome is what the driver can tell apart: a good
answer, a refusal, no answer, a busy card. Command bytes, CRC values and block addresses are
abstracted to that. `busy` and `stream` are the card's: it programs, and it is inside a
multi-block transfer nobody ended. A card that was not heard to answer a CMD18 or CMD25 may have
begun the transfer all the same, and one that did not answer a CMD12 may still be in it; the driver
releases the bus and cannot tell. `stream` is then `"lost"` in some behaviours: later commands
may find the line held down or take the card's data for an answer. `lifted` and `good` are
history variables.

`ImplementsCardDriver` reads this as `CardDriver`: a card counts as inserted while its line
reads present, is up from the last look at the latch in init on (`init_set`), and the latch
shows except while an init runs, which owns it from the moment it clears it. Every way an
init or a second `sd_spi_configure` can end without the card coming up is one `InitErrs`; a
teardown is `Deinit`; everything else the coordinator cannot see. `AnswerTells` adds that
what init and deinit return is whether the device is up, since that is what `device_up` of
`storage.c` is set from.

### Data on the wire

`SdData` is the part of the driver that `SdDriver` takes for granted. A transfer runs bit by
bit: the sender shifts each data bit into its register, the line may flip it, the receiver
shifts what arrives into its own; then the checksum follows the same way, and `Compare`
decides. Damage is one stretch of bits, of which any may be flipped, from any bit on, also
from the data into the checksum. A `command` carries CRC7, a `block` CRC16, and a `csd` is a
block of 16 bytes that `Decode` then takes apart. The registers are functions from bit
numbers to bits with the masks of `crc_helper_7` and `crc_helper_rolling_16`; bytes and
`Size1`, `Size2`, `Multiplier1` follow the shifts and masks of `sd_spi_read_csd`. The card
forms its checksums as the driver does, which `CrcIsRemainder` justifies: they are the
remainders of the generator polynomials in the SD specification, for messages of every length. The capacity is kept as a
factor and an exponent, whose largest values stay far below the code's 64 bits.

### Handles and open entries

`FileHandles` models `file_slot`, `dir_slot`, `next_generation`, `release_file_slot`,
`release_dir_slot` and the search for a free slot: a handle is a slot number and a generation, kept and copied by callers
after its file has been closed. `age` is a ghost that counts how often the slot has advanced
since. Refused calls change nothing and are stuttering steps.

`OpenEntries` models what is behind the slots. FatFs's table (`chk_share`, `inc_share`,
`dec_share`, `clear_share`) is translated because the filesystem layer relies on it for
exclusion, and `filesystem_close` retries around what it does. An object stands for a
cluster chain and a place for a directory entry; FatFs tells files apart by place, so the
model does too. A card whose transfers may fail although it is there is `flaky`; any card may
be pulled during any call. Reads, writes, seeks and the further steps of a listing change
data and positions only, and no property is about those. The check of FatFs's mount id and
a remount inside one mount are left out: a drive marked as gone stays marked until it is
unmounted.

A rename that fails half-way leaves two entries for one chain (`Rename`), and nothing repairs
that: `SetUpCard` and `Init` offer any volume, also one with such entries, or with a chain that
has been freed through one of them already. As FatFs does, the model takes the two names for
different files: both can be open at once, and `Remove` or `OpenReplace` of one frees the
chain the other names (`FreeChain`, `freed`), whose clusters a new file may then be given.
`crossLinked` is a history variable: the chains such a rename has touched. `WritersAreAlone`,
`OpenFilesStay` and the listing's properties exempt exactly these and say that all others
are safe; without the exemption TLC finds each violated, as `filesystem.h` warns.

## 3. What the runs check

| Run | Instance | Distinct states | What it shows |
|---|---|---|---|
| `storage` | one card of each kind; 2 bring-up and 2 release attempts; retry and settle time 1, clock modulo 4, epoch modulo 3 | 304,128 | the coordinator's safety, its refinement of `StorageContract`, and its liveness |
| `storage_swapped_card` | failing cards, 3 attempts | violated | finding 1 |
| `save_point` | two records of different length, two buffer sizes, sequence modulo 8; cards with and without read errors | 199,214 | refinement of `AtomicRecord`; numbering, honesty and what may change on the card |
| `save_point_resurrected` | the same | violated | finding 2 |
| `msc_disk` | epoch modulo 6 | 308,568 | what a host may see |
| `usb_mode` | debounce 2, passes of up to 1 tick, clock modulo 4, epoch modulo 2; with and without a coordinator and a USB stack | 895,702 | policy, debounce, demo; the card comes back |
| `usb_mode_request_lost` | the same | violated | finding 4 |
| `sd_driver` | 2 of 3 samples must agree, ACMD41 at most twice, transfers of 1 to 3 blocks | 312,006 | the driver's safety, its refinement of `CardDriver`, and that calls return |
| `sd_data` | all messages of 6 bits with bursts of up to 5 from any bit on; 66 CSD registers with their fields at the limits | 629,674 | damage is caught, checksums are remainders, the capacity is exact |
| `file_handles` | 2 slots, 3 callers, generations modulo 5 | 34,254 | handles are exact |
| `open_entries` | 3 slots, a table of 4, 3 places, 3 files, 2 directories and the root; volumes with and without the traces of cut-off renames | 517,055 | exclusion, exact table, honest closes; what a cut-off rename leaves harms no other file |
| `open_entries_listed_removed` | the same | violated | finding 3 |

Bounds, and why they are enough:

* **Counters that wrap** (clock, epoch, sequence number, generation) have small moduli, so
  that every run goes round several times. `MscDisk` is the exception: `changes < EpochMod`
  keeps the epoch from coming round to a value the disk still remembers, which takes 2^32
  changes in the code.
* **Attempts.** Two are the least for which a failure that is retried differs from one that
  is given up. The code has nine bring-up and four release attempts; `Storage` takes any
  number. The swapped-card run needs a third attempt for the card that is exchanged.
* **Cards.** Only the kind of a card matters, so one of each kind suffices; a swap for a
  card of the same kind is a removal and an insertion.
* **The driver's polls and blocks.** `MaxPolls` stands for ACMD41's 1200 ms; with 2, both the
  repetition and the timeout happen. Three blocks give a first, a middle and a last one.
* **The debounce.** A debounce of two passes lets VBUS dip and bounce within it; the clock's
  modulus is the least that `ModulusAssumption` allows, so the debounce runs across the wrap
  in most behaviours. An epoch modulus of 2 is the hardest case for `storage_watch`: two
  changes look like none. In `Storage` the clock wraps as often, but a comparison that ignored
  the wrap would only delay what its liveness properties say will happen: they do not check
  the comparison, `CableIsDebounced` checks the same form of it in `UsbMode`.
* **Messages.** Six bits are shorter than both checksums, so bursts reach from every data bit into
  the checksum; damage may begin anywhere. Longer messages are the theorem's. The registers
  of the CSD have length, size and multiplier at and just past their limits, with all other
  bits clear or all set, so a field cut out wrongly shows.
* **Handles.** Two slots are enough for a slot reused while another stays open, three
  callers for a fresh handle, an old one and a copy.
* **Open entries.** The code's pool has 4 slots, one listing and a table of 5; the run keeps the
  relation (table = slots + 1) that the static assertion asks for. Three slots let two
  readers share an entry while a third file is open. Three places hold a chain with two names
  beside a file of its own, and three files let a replaced file get either a chain of its own or
  the clusters of a freed one.

The safety properties that are proved hold for all values of the constants the assumptions
allow; there TLC's bounds matter only to the rest.

Deadlock is checked in every run: no configuration turns it off.

### Fairness

* `Storage`: weak fairness of a step's pieces, because the loop calls `storage_step` on every
  pass and every driver call returns, and strong fairness of the clock's tick, which the
  model can only move between steps though the real clock runs on its own. Nothing is assumed
  of the card or of who requests it; the liveness properties state what must settle for
  them to apply (a card that stays seated, a request that stays).
* `UsbMode`: weak fairness of the loop, which `main` never leaves, and strong fairness of a pass
  that takes time, because the clock is hardware and runs on. VBUS, the host and the debugger
  are free; `CardComesBack` states what must stay as it is.
* `SdDriver`: weak fairness of the driver's own steps: the foreground runs on, and the interrupt
  is short and disables its own edge. The socket is free, also to bounce for ever.

## 4. What is proved

| Module | Theorems |
|---|---|
| `StorageProofs` | type correctness; `MountedExactlyWhenLocalReady`, `SwappedCardIsLatched`, `PowerCutIsSafe`, `ReleaseNeverStranded`, `EpochMarksEveryLoss`, `FaultyIsLeftAlone`; `Storage` implements `StorageContract`, and uses the driver as `CardDriver` describes it; attempts are counted (`AttemptsAreCounted`); `EveryCardGetsAllItsAttempts` unless a card is swapped under its predecessor's count |
| `SavePointProofs` | type correctness; `SlotsAdjacent`, `CardChangesOnlyAsSaved`, `ResultsAreHonest`; `SavePoint` implements `AtomicRecord`; `FailedSaveLeavesReadableOrNew` unless the slot written over was unreadable |
| `MscDiskProofs` | type correctness; `WithheldWhileAway`, `PresentedWhenTold`, `SenseTellsLastFailure`, `DataOnlyFromToldMedium` |
| `UsbModeProofs` | type correctness; `OwnerFollowsPolicy`, `EjectEndsItsOwnLend`, `CableIsDebounced`, `DemoOncePerReadiness`; the loop keeps to `StorageContract`; the card is taken back within the pass; `RequestIsTaken` unless the debugger hits the window of `take_request` |
| `SdDriverProofs` | type correctness; `RemovalIsLatched`, `NothingLeftBehind`, `SuccessIsComplete`, `StreamsAreEnded`, `AddressingMatchesCard`, `InterruptedNeverSucceeds`, `QuietAfterRemoval`; `SdDriver` implements `CardDriver`; every operation is over after a bounded number of steps (`OperationsAreBounded`) |
| `SdDataProofs` | type correctness; `DamageIsCaught`, `CrcIsRemainder`, `CapacityIsExact` |
| `FileHandlesProofs` | type correctness; `HandlesAreExact` |
| `OpenEntriesProofs` | type correctness; `WritersAreAlone`, `OpenFilesStay`, `EntriesMatchHandles`, `ListedDirectoryStaysIfSound`, `ClosedMeansWritten`; on any card, only a removal whose probe failed takes a listed directory away |

The arguments, in a sentence each:

* **Storage** (`IInv`). Mounting and READY change together, but why a mounted card is the right
  one needs more: the coordinator's belief that the device is up is the driver's own
  state (`DriverAgrees`), that state belongs to the card in the socket until a removal is
  latched (`UpCardUntilLatched`), and each owner allows only certain media with the device up
  or down (`MediumFitsOwner`, `HistoryFitsMedium`, `PhaseFits`). The refinement uses the same
  invariant: each piece of a step is one contract step or a stutter. With at most one driver
  call in each piece, every step of `Storage` is also one of `CardDriver`, whose other side
  `SdDriver` implements; init is only called on a driver that is down (`CallsDriverAsMeant`).
  A card that is not given up on has an attempt left (`AttemptsLeft`), so it is parked with the
  last one. Counting the same failures by card (`OwnFailures`) gives `EveryCardGetsAllItsAttempts`
  for every behaviour in which no card is exchanged while the coordinator still counts
  failures of the one before (`SeenEmpty`). Assumed: the constants' types, at least one
  attempt each, an epoch modulus of at least 2.
* **Save points**. From the moment a save has chosen its slot until it ends, the other slot holds
  the record the checks settled on and the save's number is the one after it (`Prepared`). So
  two records are always neighbours, and with a modulus of at least 4 neighbours are ordered
  correctly across the wrap. On a card that reads without errors the checks' findings are
  the card's contents (`Checked`), which the refinement to the full `AtomicRecord` needs; on a
  flaky one only what that module leaves of its promise is proved, and finding 2 shows why.
  `LossNeedsAnUnreadSlot` draws that line exactly: if the slot to be written over was one the
  checks had read, both slots are as found until the truncation and the other one is what
  was found after it (`Intact`), so the promise of `save_point.h` holds on flaky cards too.
  Assumed: a modulus of at least 4.
* **USB disk** (`MscInv`). A remembered epoch that is not the current one is older
  (`EpochsInOrder`), and a medium presented at the current epoch is the one that is READY now
  (`PresentedIsReady`, `ToldIsReady`). Assumed: an epoch modulus of at least 2 and, through the
  guard on `changes`, that the epoch does not come round.
* **Loop and policy** (`ModeInv`). What the coordinator was last asked follows lending (`AskInv`);
  how long VBUS has read the same can be told from what the policy keeps, across the clock's
  wrap (`CableInv`); and what `storage_watch` saw, against the medium in each part of the next
  pass, tells whether the demo has run for the readiness there is (`WatchInv`). The same
  invariant gives that every step is one of `StorageContract` or leaves its variables alone, and
  that a card whose host is gone is LOCAL by the end of the pass's `storage_step`
  (`TakenBackInSamePass`). A request word that is about to be reset is the one that was read,
  as long as nothing writes in between (`ReadAsWritten`), hence `RequestIsTaken` for every
  behaviour that keeps out of that window. Assumed: the
  clock's modulus exceeds the debounce time and a pass, and an epoch modulus of at least 2.
* **SD driver** (`IInv`). Most of the invariant is about the middle of an operation: what it holds
  of the interrupt, the bus and chip select at each `pc` (`Holding`), what the latch guarantees
  about the line since the handler was registered (`Latching`), what the answers so far have
  shown of the card (`Identifying`, from which `Addressing` follows when the operation ends),
  and how many blocks have been moved and which transfers are open (`Counting`, `Streaming`,
  `Done`). `OpFits` and `VerdictFits` tie a step to its operation, since several share their
  last steps. Assumed: at least one stable sample, no more than there are samples, and
  positive bounds on polls and blocks. The two action properties follow from it step by step,
  and so does the refinement: `Holding` and `Latching` say that outside an init the latch follows
  every removal at once, and that an init passes its last look only over a card that has not
  been out. `StepsLeft` weighs each `pc`, with the polls, samples and blocks still to come,
  by the longest way to the end of the operation; each driver step lowers it and the socket
  leaves it alone, so that `OperationReturns` needs no more than that the driver runs on.
* **Data on the wire** (`SdInv`). From the first damaged bit on, the two ends' registers differ
  in some bit that the rest of the burst can no longer reach and cancel, or that has already
  been compared (`DamageShows`); on a line that damaged nothing they agree (`CleanAgrees`).
  That the register is the remainder of a long division is proved turn by turn: after each bit
  it holds what the division has left of the bits so far (`LongDivision`). The division and the
  value of a CSD field are recursive functions on intervals, whose equations follow from the
  least-element form of well-founded induction (`Least`, `SetInduction`,
  `DownwardRecursion`), which takes sets instead of operators. The
  fields are then cut out byte by byte for every register, not only for the 66 that TLC runs.
  Assumed: a burst no longer than the checksum, and messages of any length but 0.
* **Open entries** (`OpenInv`). While the drive serves calls, the table and the pools determine each
  other: `EntriesMatchHandles` is inductive together with "no two entries share a key"
  (`EntriesDiffer`) and "the listing holds its own entry" (`ListingLocked`). A chain with two
  names, or one that was freed while it had one, is known to be cross-linked (`CrossLinksKnown`),
  so a call on one place frees nothing that another chain's name or user relies on. A count is a cardinality,
  so the proof uses the finite-set theorems. Which step can take a listed directory away is
  then a matter of going through the actions: a rename moves its entry, a replacement takes
  only files, and a removal whose probe succeeds is refused (`ProbeTells`). Assumed: the static
  assertions (a table larger than the pool, slot numbers in a byte).
* **Handles** (`IInv`). A handle's generation and its slot's differ by the handle's age, once
  round or not (`Apart`), and a handle of age 0 is to a slot in use. Assumed: at least one slot
  and a generation modulus of at least 3.

Only model-checked:

* all liveness (`GoodCardBecomesUsable`, `RemovalIsNoticed`, `ReleaseFinishes`, `CardComesBack`,
  `OperationReturns`): fairness and ENABLED are out of the prover's reach. What is safety in them
  is proved: attempts run out in time, an operation has a bounded number of steps left,
  the card is taken back within one pass;
* that the four violated properties can be violated. The conditions under which each of them does hold
  are theorems, so the runs and the proofs together say where the fault begins.

## 5. Findings

1. **A swapped card inherits its predecessor's failures** (`storage_swapped_card`). While a
   retry is scheduled, `bring_up` returns before it looks at the socket, so a card exchanged
   during the wait goes unnoticed. The new one is not settled and gets only the remaining
   attempts, though `clear_retry`'s comment and `storage.h` say that a new card starts afresh.
   Without such a swap every card gets all its attempts (`UnswappedCardsGetAllAttempts`).
2. **A failed save can bring an older record back** (`save_point_resurrected`). If the slot the
   save chose was unreadable and the open fails before it truncated that slot, the slot's
   record may be readable again later. It is neither the new record nor the one the save could
   read, the only two that `save_point.h` allows. A slot that was read when it was chosen
   is never the cause (`LossNeedsAnUnreadSlot`).
3. **A listed directory can be removed** (`open_entries_listed_removed`). `being_listed` takes
   any failure of its probe for "not a directory". If one transfer fails in the probe and the
   next succeeds, `f_unlink` removes the directory that is being listed, since FatFs's
   table does not protect listings. No other step can do it (`OnlyItsRemovalLosesListed`).
4. **A request can be erased unread** (`usb_mode_request_lost`). `take_request` stores NONE over
   whatever the request word holds by then. A second request that the debugger writes, over the
   probe with the core running, between the read and the reset is never carried out, though
   `usb_mode.h` says that the next step takes it. Outside that window no request is lost
   (`UnracedRequestIsTaken`).

Three further points the models show but no run treats as a violation: a multi-block write that
ends without a stop token (`StreamsAreEnded` says it is never reported as a success; the source
has a TODO there); a multi-block command that is not answered, after which the driver gives up
without CMD12 although the card may have begun (`StreamsAreEnded` promises an end only for
commands that were answered, and for whatever a successful multi-block read finds open); and an
owner request that changes at every step keeps `storage_step` from
looking at the socket, which is why `RemovalIsNoticed` asks for requests that settle.

## 6. Not modelled, and why

* FatFs beyond its sharing control, TinyUSB, the Pico SDK: third-party code, seen through what
  the firmware uses of it.
* SD command bytes, timing within a command, clock rates: data that the state machine sees only as
  an outcome. Which bits a checksum covers is `SdData`'s subject.
* Calls from the wrong core and with invalid arguments: refused before anything changes.
* Reads, writes, seeks and the further steps of a listing in `filesystem.c`: they move positions
  and data, and the interesting part of their failures is `diskio.c`'s mark, which any
  transfer in `OpenEntries` may set. The result mapping and the formatting of names and times
  are tables.
* The other pins of `gpio_irq.c`, its wrong-core refusals and its start-up: the firmware registers one
  pin on one core.
* The constant parts of `usb_device.c` (descriptors, strings, INQUIRY), the LED and the demo's file
  work in `main.c`.
* `FileHandles` composed with `OpenEntries`. The two share only the slot number: an open takes the
  first free slot in both, and every operation resolves its handle first. A composition would
  multiply the states to restate that a served handle reaches the slot it names.
* The order of data writes within a slot file or a bulk file: save points rest on the CRC.

## 7. Plan

Done: `StorageContract` and `Storage` first (everything else depends on who owns the card), then
`SavePoint`, `MscDisk`, `UsbMode`, `SdDriver`, `FileHandles`, `OpenEntries`, `SdData`, and last
`CardDriver`, which joins `Storage` and `SdDriver`; proofs of every safety property the passing
runs check, and of the conditions under which the violated ones hold.

Left:

1. The data path of `filesystem.c` (positions, short reads, a full card), should a property about
   it be found that several steps can break.
