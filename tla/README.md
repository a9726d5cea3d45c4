# TLA+ models of mtfs

mtfs is a small storage stack for two microT-Kernel boards (STM32N6570-DK and
EK-RA8P1): FatFs over an SD card, removable-media handling, storage health
monitoring with an NPU ("Storage Sentinel"), and wrapped keys and sealed models.
This directory holds TLA+ models of its concurrent and crash-prone parts, the
TLC instances that check them, and TLAPS proofs.  Paths below are relative to
`src/src/` of the repository unless they begin with `src/`.

## 1. Inventory

| Component | State it keeps | Operations | Talks to |
|---|---|---|---|
| Media state machine `core/mtfs_media.c` | debounce state, deadline, notification and observed sequence, generation | init, notify_isr, notify, process, poll, stop_notifications, deinit | read_signal and event callbacks; the interrupt writes its sequence |
| Media worker `os/microtkernel/mtfs_media_service.c` | task, event flag, accepting flag | worker loop, notify_isr, init, stop_notifications, deinit | microT-Kernel; calls process |
| Card Detect wiring `ports/*/boards/*/..._platform.c` | cd_service guard, interrupt registration | card_detect_start, card_detect_stop, interrupt handler | starts and stops the two above; tells the SD driver of a removal |
| Wrapped-key store, NOR `ports/stm32_cube/crypto/mtfs_stm32_nor_key_store.c` | two flash sectors | load, commit | flash read, erase, program |
| Wrapped-key store, OSPI `ports/ra_fsp/crypto/mtfs_ra8p1_ospi_key_store.c` | two flash sectors | open, load, commit | FSP OSPI driver |
| Block devices, registry, diskio `block/`, `fatfs/mtfs_diskio.c` | function tables, registered devices | register, read, write, sync, status | FatFs above, SD drivers below |
| Block diagnostics `block/mtfs_block_diagnostics.c`, observer `sentinel/mtfs_sentinel_observer.c` | counters, publication sequence, active calls, reset epoch | begin, end, get, reset, init, deinit | every block operation of every task |
| Sentinel `sentinel/mtfs_sentinel.c`, `_baseline.c` | previous sample, window ring, baseline | sample, window push and get, baseline update | diagnostics, clock |
| Sentinel monitor and inference command `src/apps/sentinel-lab/` | verdict, window, learned baseline, stage with injected faults | run, evaluate, inference_run; provider callbacks | observed device, media state, sessions |
| Inference session: `src/apps/sentinel-lab/targets/`, `sentinel/mtfs_sentinel_npu_provider.c`, model store and sealed blob in `extensions/`, SAES provider | reader, keys, arena, work buffers, locks, provider binding | open, run, close, and the cleanup of a failed open | sealed model on the card, NPU runtime |
| NPU runtimes `ports/stm32_cube/npu/`, `ports/ra_fsp/npu/` | event or semaphore, inference flag | create, wait, completion interrupt, timeout | microT-Kernel, vendor runtime |
| SD drivers `ports/stm32_cube/sdmmc/`, `ports/ra_fsp/sd_spi/` | transfer phase, generation, pending events, mutex | initialize, read, write, sync, removal interrupt, deinit | HAL or FSP |
| Trusted clock `ports/*/rtc/`, `core/mtfs_time.c` | RTC, validity marker, provider pointer | set, get, register | battery-backed registers, FatFs time stamps |
| Wrapped-key file `extensions/security/wrapped_key/` | temporary and final file | store, load | FatFs |
| Inference contract `sentinel/mtfs_sentinel_inference.c`, RSIP provider, mutex wrappers, host block file | little | pure functions, thin wrappers | hardware, libraries |
| FatFs | third-party | | |

What is hard in this code, and where, is the `hazards` list of `PROJECT.json`.
In short: the Card Detect interrupt races the two reads of the pin and the task's
own sequence increments; a 32-bit tick wraps; the worker must be deleted when it
no longer uses what is deleted with it, through a stop that may time out and be
tried again; a key replacement or a setting of the clock may be cut off between any
two accesses; a completion may come after the wait for it was given up, for an SD
transfer as for an epoch of the NPU; a card may be changed at every step of an
initialize, of a transfer, of the decryption of a model and between a measurement and
the verdict about it; an open of twenty steps may fail at each of them.

What makes each component correct: the media state settles to the level of the
pin and a debounce is never cut short; the worker never misses a wakeup, and a
context is reused only when nothing of the last service is left; a key store is
an atomic register under power loss; the observer goes away, or starts a new epoch,
only when no call is active; a window never mixes two epochs or two sessions, and a
verdict rests on calls and on a baseline of one session; an operation of an SD driver
ends on its own completion, and an initialized driver serves the card it has brought
up; a failed open leaves nothing behind; a clock marked as trusted is right.

## 2. Modules

| Module | Models | Used by |
|---|---|---|
| `Media` | `mtfs_media.c` with the pin, the interrupt and the tick | `MCMedia`, `MediaProofs`, `MediaService` |
| `MediaService` | `mtfs_media_service.c` and the boards' start and stop, around an instance of `Media` | `MCMediaService`, `MediaServiceProofs` |
| `KeyRegister` | abstract: what a key store promises | `NorKeyStore`, `OspiKeyStore` (refinement) |
| `KeySlots` | the two slots, their decoding and the choice between them | both stores |
| `NorKeyStore`, `OspiKeyStore` | commit, one action per flash operation | `KeyStores`, `MCOspiKeyStore` |
| `KeyStores` | the store of either board, chosen at the start | `MCKeyStores`, `KeyStoreProofs` |
| `Counters` | abstract: two sets of saturating counters with resets and an end | `Observer` (refinement), `Sentinel` (extends it) |
| `Observer` | the wrappers of `mtfs_block_device.c`, `mtfs_block_diagnostics.c` and `mtfs_sentinel_observer.c` with concurrent callers | `MCObserver`, `ObserverProofs` |
| `Sentinel` | sampling and the window of `mtfs_sentinel.c` over `Counters` | `MCSentinel`, `SentinelProofs` |
| `Sdmmc` | `mtfs_stm32_sdmmc.c` with its interrupt handlers, the HAL handle and the card | `SdDrivers` |
| `SdSpi` | `mtfs_ra_sd_spi.c` with the SPI callback, the channel and the card | `SdDrivers`, `MCSdSpi` |
| `SdDrivers` | the driver of either board, chosen at the start: `Sdmmc` with an instance of `SdSpi` | `MCSdDrivers`, `SdDriversProofs` |
| `Lab` | what the parts of the lab application share: the state of the media, the provider call in progress | `Monitor`, `Session` |
| `Baseline` | `mtfs_sentinel_baseline.c` as operators | `Monitor` |
| `Monitor` | monitor run and evaluate, the lab's windows and stages, the target's callbacks | `SentinelLab` |
| `NpuRuntime` | the STM32N6 runtime: epochs, event flag, interrupt, timeouts | `Session` |
| `Session` | session_open, run, close and cleanup over reader, sealed blob, keys, model store, NPU provider | `SentinelLab` |
| `SentinelLab` | the application: monitor or inference command over one session while the card is changed | `MCSentinelLab`, `SentinelLabProofs` |
| `TrustedClock` | `mtfs_stm32_rtc.c`, `mtfs_ra_rtc.c` behind `mtfs_time.c` | `MCTrustedClock`, `TrustedClockProofs` |
| `MediaProofs`, `MediaServiceProofs`, `KeyStoreProofs`, `ObserverProofs`, `SentinelProofs`, `SentinelLabProofs`, `SdDriversProofs`, `TrustedClockProofs` | theorems and proofs | |

### Media

`media` is `mtfs_media_context_t` (configuration and diagnostics left out),
`call` the call in progress in task context with its local variables.  A call is
cut at every access to what the interrupt shares, `notification_sequence` and
the pin: `ProcessEnter` (first look at the sequence), `ProcessRead` (first read of
the pin, `start_debounce`), `ProcessSnapshot`, `ProcessRecheck` (second read),
then `ProcessRestart` or `ProcessSettle`.  `++notification_sequence` of poll and
notify is a load and a store (`PollRead`/`PollStore`, `NotifyRead`/`NotifyStore`).
The steps between two such accesses touch nothing shared and are one action.
The caller reads the clock before it calls, so the tick may advance inside a call.

`age`, `owed` and `unseen` are history: no guard reads them.  `unseen` marks an
edge that came while the code accepts none, or that the board drops; such an edge
cannot be found without a poll, so the properties about currency exclude it until
the pin is read again.

### MediaService

Three parties: the worker (`worker.pc`), the coordinator that starts and stops it
(`coordinator`), and the interrupt.  A step of `mtfs_media_process` is a step of
the `Media` instance; the coordinator's start and stop are cut at each kernel
call.  The kernel is external: an event flag with a wait that clears the bits it
waited for, a task that is deleted only when dormant (`tk_del_tsk` answers E_OBJ
otherwise, `tk_ter_tsk` makes it dormant), and timeouts that count down.  The
module follows the STM32 board; the RA board takes the same steps, but does not
deinitialize the media context when its first read fails (`mtfs_ra8p1_platform.c:182`),
which leaves an initialized context that no one uses; the next start clears it.

### Key stores

A slot is erased, torn, written (NOR: without the commit word) or committed, the
abstraction of its bytes by `decode`: magic, layout, commit word and CRC.  Each
flash operation may do its work, spoil the sector (torn), fail before or after
it had its effect; an operation that fails and a power loss leave the same
choices and nothing in RAM that matters, so one action stands for both.  A commit
that is refused and a load change nothing and are operators (`CommitAllowed`,
`Selected`).  `KeyStores` is either store: the board is chosen at the start, and
the state of the other store is not stepped.

### Counters, Observer

An observed device has two sets of counters: the block diagnostics (32 bits) and
the timing of the observer (64 bits), each with its reset epoch.  `Counters` is
what a reader may rely on: a counter grows by one and saturates, a reset takes the
epoch forward, and nothing is recorded after the end.  One counter stands for each
kind the code treats differently: `calls` for those whose saturation the Sentinel
looks for, `out_of_range_errors` for those it does not, `samples` for the timing.

In `Observer` each task is in one public wrapper at a time: `Admit` (record_begin),
`OutOfRange` or `EnterDownstream` and `LeaveDownstream`, `RecordTiming` (for the
operations that are timed), `RecordEnd`.  A locked section is one step; the steps of
other tasks and of the console fall between the sections.  `lock` may fail: a begin,
a reset or a deinit is then refused and changes nothing (no action), a timing sample
is dropped, and an end returns early with the call still counted as active
(`RecordEndLost`).  `lost` and the `epoch` of a call are history.

### Sentinel

The sampler takes the media generation (`CollectMetadata`), the diagnostics
(`GetDiagnostics`) and the timing (`TakeSample`) one after the other; between them
the counters move as `Counters` allows and the card changes.  The rest of
`mtfs_sentinel_sample` and the push touch nothing shared and belong to
`TakeSample`.  The clock reads a later time, goes back, or fails.  `mtfs_sentinel_window_get`
changes nothing: its judgement is the operator `Sufficient`, its sums `Total`.
`from` and `to` of a feature, `ever` and `began` are history.  Entries of the ring
that have been dropped, and a baseline that is not valid, are never read again and
are set back to one value, which only saves states.

### SD drivers

In both drivers one task runs an operation, step by step, and is preempted between any
two steps by the completion and by the card detect interrupt.  `ctx` is the driver's
context, `flags` its event flag, `task` the control point and the locals, `bus` the
peripheral with the transfer in flight, `card` the card and its contact.

`Sdmmc` has the operations init, status, sync, read and write, by IDMA or polled, the
wait for READY through BUSYD0END, the abort after an error, and deinit.  The HAL is
external: a start is refused unless the handle is READY, and an abort may fail and
leave the transfer running with its interrupts off (`orphan`).  `removedSince` is
history.

`SdSpi` sends everything, a command, a sector or the closing clocks, through
`mtfs_sd_transfer`: look at pin and pending removal (`TransferCheck`), clear the flags,
mark the result E_IO, start, wait, look at what woke the task.  What a step of the
protocol makes of a transfer is `TransferDone`, with the number of polls left open;
`Onward` is what follows a transaction.  A transfer that timed out runs on (`late`).
The FSP channel and the card are external.  A card that has left gives ones, which read
as data and as the end of programming and as nothing else.  The contact may bounce
faster than its interrupt is served, but another card is not put in before it was:
otherwise the pin would read closed in the interrupt and the removal be unseen, which
no code could notice.  `lost` is history.

A second task that has passed its checks and waits for the mutex is not modelled (see
the hazard at `mtfs_ra_sd_spi.c:1050`): the file system holds its own mutex around
every operation.  `SdDrivers` is either driver: the board is chosen at the start, and the
state of the driver that is not built stays as it was.

### The lab application

`Lab` is the state of the media as the application sees it, changed by `Media`'s
settled events only, and a one-place mailbox for the provider call the monitor makes
and the session answers.  `Monitor` alone has some answer for each call; `Session`
alone answers any call; `SentinelLab` joins the two, so that every answer is the
outcome of the session's steps.  UNSETTLED stands for DEBOUNCE, UNKNOWN and ERROR, and
UNAVAILABLE for the states NO_MEDIA and NOT_READY, which no decision tells apart.

`Monitor` cuts a window where the card may change unnoticed: the workload, the
collection of the metadata, the sample, the look at the media state, the NPU, the
fallback, the arbitration.  What the counters say of the calls since the last sample is
`acc`: the generation of the first of them, the error that decides, whether faults were
injected.  `window` is a copy of it with the sampler's flags (the exact counting is
`Sentinel`'s).  How many windows a stage has is left open.

`Session` is one record for the two static sessions of the code, which share one arena:
`CleanAfterwards` says that neither client leaves its session open, so the guards that
refuse a busy arena, and the calls without a session, are never reached.  Each step
that acquires something (lock, reader, file, key, image, NPU) may fail and sends the
session to the cleanup, whose steps are actions of their own.

`NpuRuntime` is the waiting of the STM32N6: `hw` is the epoch on the NPU, `late` the
interrupt of an epoch that was given up, which may come at any later point, also into
the next inference.  The number of epochs is left open.

### TrustedClock

`task` is the start, set or clear in progress, cut at each access to the calendar and
to the three words of the marker; a get that another task makes is `reading`.  The
calendar ticks between any two steps, so midnight may fall between the writes of time
and date of the STM32 board (the RA board writes both at once).  A reset forgets `task` and the
provider and keeps calendar and marker; a loss of the backup domain resets both and, on
the RA board, raises VBPORF.  A failed start may be tried again without a reset.  Dates
are counted modulo the century that two digits of the year can tell.  One assumption is
made of time: a set takes less than a day (`ticks`).  `due` is history.

## 3. Runs

| Run | Question | Bounds |
|---|---|---|
| `media` | no accepted edge is lost in the races with the reads; generations name sessions; a debounce is never cut short; a wait forever leaves nothing undone outside ERROR | HalfTick 2 (tick of 4 values), SeqMod 3, GenMod 2, Debounce 1, one failing read |
| `media_wait_contract` | violation: WAIT_FOREVER with a notification unprocessed after a failed read | as media |
| `service` | final use, clean restart, no lost wakeup, correct use of Media; the state settles, a stop completes | 2 edges, 1 failing read, worker latency 1 tick, 1 expired wait for STOPPED |
| `key_stores` | atomic replacement under failures and power loss, on either board | 2 keys, 2 ids, 4 generations, records of 2 pages |
| `ospi_readback` | violation: a record is selected before its readback | 1 key, 1 id, 3 generations |
| `observer` | the gate against deinit and reset, failing locks, counters as promised | 2 tasks, 3 reads, 2 range errors, 2 resets of each set, counters saturate at 2 |
| `sentinel` | an unflagged window adds up to what was recorded, and names its session | counters saturate at 2 and 1, 3 calls, 1 reset of each set, window of 2, 2 generations |
| `sentinel_saturation` | violation: a saturated error counter goes unnoticed | counters saturate at 2, 3 range errors, window of 2 |
| `sd_drivers` | completions, removals and wakeups of either SD driver at every point of an operation | transfers of 2 chunks or sectors |
| `sd_spi_late` | violation: a transfer takes the completion of an earlier one | 1 sector |
| `sentinel_lab` | verdicts and learning of one session, cleanup at every failure, memory behind the NPU, completions of epochs | 3 generations, warmup of 2 windows, 3 stages, the second with faults |
| `trusted_clock` | a trusted clock is right wherever a set is cut off; a get reads no clock in between | 3 days of 3 seconds |

Why the bounds are enough.  The widths only have to let a counter wrap and differ
from its neighbours: SeqMod 3 keeps "observed", "pending" and "pending again"
apart, GenMod 2 is the parity the property is about, HalfTick > Debounce is the
code's own check (`debounce_ms <= INT32_MAX`).  `BacklogBound` keeps fewer than
SeqMod notifications between two looks at the sequence: 2^32 edges within one
debounce is not a behaviour of the contact.  In MediaService the tick may advance
at most `MaxLatency` from a wakeup to the worker's next wait, a bound the code
needs too: with half the range of the tick (24 days) of delay a deadline would
look unreached.  Two edges are an insertion with a bounce, one expired wait for
STOPPED and its retry are the shutdown's only loop.  Four generations let both
slots be overwritten after every kind of failure and let the last generation be
reached; the key-store runs disable the deadlock check because a store whose
generations are exhausted accepts no replacement, and no commit is in progress.

Two tasks in `observer` are two calls in flight, one of which ends, fails or is lost
under the other; the proofs cover any number.  More calls than the last value of a
counter (3 and 2) let it saturate and lose one.  In `sentinel` a window of two has
an oldest and a newest feature and wraps; three calls fill both, saturate a counter,
and leave one for a reset or a card change in between.  `observer` disables the
deadlock check: a closed observer whose console has used up its resets really stops.

Two sectors or chunks are a transfer that goes on and one that ends.  The SD drivers
have no other counter: removals, insertions, timeouts, retries and operations are
unlimited.  In `sentinel_lab` three generations are a session, one that replaces it and
one more, so that "the generation has changed" and "it has changed back to present" are
told apart; a warmup of two windows has one that starts and one that completes it; of
three stages the faults begin after the first and end before the last.  A century of
three days and a day of three seconds are the least in which a clock that is a day
behind differs from one a day ahead, and a second after midnight from one before; the
proofs cover any length of both.

Fairness (`MediaService!Fairness`).  The tick advances, the interrupt is taken
when enabled and latched, the kernel runs the runnable worker, a stop that has
begun goes on, and an application whose stop has failed calls it again.  Nothing
is assumed of the pin, of starts, or of the first call of a stop.  No other
specification states fairness: the other properties are safety.

Properties

* `SettledIsCurrent`: when no call, debounce, notification or edge is left, the
  settled state is the level of the pin, unless a read failed.
* `SettlesToPin`: a level is settled, and its event raised, only while it is the
  pin's or an edge is still on its way.  This is what comparing the sequence after
  the recheck is for: `SettledIsCurrent` would survive without it, because a
  notification that raced the recheck stays pending.
* `GenerationNamesSession`: the parity of the generation is presence.
* `DebounceHonoured`: settling happens only after debounce_ms since the caller
  read the clock of the call that started the debounce.
* `WaitForeverMeansIdle`: the contract of next_wait_ms, violated by a failed read
  (media_wait_contract); `WaitForeverMeansIdleOrError` is what holds of it.
* `FinalUse`, `OffIsClean`, `NoLostWakeup`, `MediaSpec`, `EventuallySettled`,
  `StopCompletes`: see the comments in `MediaService`.
* `RegisterSpec`: refinement of `KeyRegister` (a key is replaced by one of the
  same id and version, the store is never empty again, an acknowledged
  replacement is in effect); `NewestUntouched`, `GenerationsAdjacent`,
  `NorSelectedWasReadBack`: see `KeySlots`, `NorKeyStore` and `KeyStores`.
* `NoCallOutlivesObserver`, `NoCallStraddlesReset`: the two things the gate is for.
* `ActiveAccounted`: `active_calls` is the calls in flight and the lost ends, so an
  error path can neither leak a call nor end one twice.  It also says what the code
  accepts: one lock failure in record_end makes every later deinit and reset fail.
* `CountersOnly`: refinement of `Counters`.
* `WindowCountsCalls`: no call is missing from, or counted twice in, the sum of a
  window that is not flagged.
* `WindowNamesSession`: the calls of a feature belong to the generation it names.
  The newest feature is excepted: the application collects the metadata before the
  counters are read, so a card changed in between is noticed one sample later, and
  that sample empties the window.
* `CompletionIsOwn`, `StartsOnQuietBus`, `QuietAtRest`: no operation ends on the
  completion of another, none starts over a transfer that still runs or a card that
  still programs, and a write that returned OK is programmed.
* `ReadyNeverLost`, `TransferNeverLost`: no task waits for what has already come.
* `RemovalNotForgotten`, `ReadyCardWasBroughtUp`, `WholeOrError`: a removal that an
  initialize or a transfer clears is found elsewhere.  In the SPI driver the event may be
  cleared by the transfer it falls into; the pending mark, which initialize forgets only
  before its first look at the new card, is what keeps a half-read sector from being OK.
* `RegistersClocked`: no handler touches the SDMMC while its clock is off.
* `CompletionIsOwn` of `SdSpi`: violated (sd_spi_late).
* `VerdictOfOneSession`: a window judged by inference counts calls of the generation it
  names only, and the baseline it is compared with is complete and of that generation.
* `LearnsFromCleanWindows`: no window with errors or of another session is learned, and
  none with injected faults, except one whose faults were counted in a window before
  whose sample had failed; the code cannot tell these apart.
* `CleanAfterwards`: after an open that failed and after a close no file, key, lock,
  plaintext or NPU is left; `BackingNotErased`: an installed network has its payload.
* `NoLostCompletion`: no wait for an epoch begins after its completion was consumed.
* `TrustedIsRight`, `ReadsRight`: see `TrustedClock`.

## 4. Divergences found

1. **A failed read reports "nothing pending"** (`core/mtfs_media.c:219`,
   contract at `core/mtfs_media.h:149`).  The notification stays unprocessed,
   the worker discards the error and waits without a timeout; the state is ERROR
   until the next edge.
2. **The OSPI store selects a record before its readback**
   (`mtfs_ra8p1_ospi_key_store.c:391`, promise at `src/docs/applications.md:133`).
   The record has no commit word.  Atomicity is not at risk (`RegisterSpec` holds).

3. **A saturated error counter is not noticed** (`sentinel/mtfs_sentinel.c:263`,
   contract at `src/docs/storage-sentinel.md:87`).  `diagnostics_saturated` leaves
   out `out_of_range_errors` and `write_protected_errors`; a window taken after one
   of them has saturated is not flagged and lacks the errors that followed.

4. **A transfer of the RA SPI driver ends on an earlier one's completion**
   (`ports/ra_fsp/sd_spi/mtfs_ra_sd_spi.c:361`, rules at `src/docs/porting.md:455-457`).
   A transfer that timed out is not stopped and the callback does not ask for whom it
   is; one that completes after the next transfer has cleared the flags ends that
   transfer's wait, with the next one's buffer not yet filled or sent.

One more is described without a run, because a property of it would restate the code:
after a discontinuity `src/docs/architecture/storage-sentinel.md:19` and
`sentinel/mtfs_sentinel_baseline.h:90` ask for a new warmup.  `apply_rule` of the
monitor (`src/apps/sentinel-lab/application/mtfs_sentinel_monitor.c:163-180`) reports a
discontinuity within an unchanged generation and goes on with the baseline that was
learned before it.

## 5. Proofs

`MediaProofs` proves of `Media!Spec`, for every value of the constants that
`MediaAssumption` allows (an even generation width, a debounce below half the tick
range, more than two sequence values):

* `TypeCorrect`;
* `GenerationCorrect`: inductive with the type invariant;
* `SettledCorrect` from the inductive invariant `Current`: a context fresh from
  init agrees with the pin or an edge is latched or pending (`InitFresh`), a
  task-context increment never hides an interrupt's (`IncrementCounts`), what the
  recheck read is the pin or a notification is pending or latched
  (`RecheckFresh`), and the same of a settled context (`SettledFresh`).  The
  property itself is not inductive: it says nothing inside a call;
* `SettlesToPinCorrect` from the same invariant (`RecheckFresh`);
* `DebounceCorrect` from the inductive invariant `Timing`: the deadline lies
  Debounce after the caller's clock reading modulo the tick, and `age` bounds how
  far the clock has moved since, which makes the signed comparison exact;
* `WaitCorrect` (`WaitForeverMeansIdleOrError`) from the inductive invariant `WaitInv`,
  which adds that a call past its first look owes nothing and that init leaves no
  debounce.  It assumes half the tick range above one, by which neither a debounce nor
  what is left of one is the value of `MTFS_MEDIA_WAIT_FOREVER` (`FiniteWaits`).

`MediaServiceProofs` proves of `MediaService!Spec`, for any widths, bounds and latency,
`FinalUseCorrect`, `OffIsCleanCorrect`, `MediaSpecCorrect`, `MediaTheoremsHold` and
`WakeupCorrect`.  The inductive invariant `ServiceInv` says who is in a call of the state machine (`CallOwned`), how much of the
service exists at each point of the coordinator (`ServiceExists`), and that STOPPED and
every point after it mean a worker past its last use (`WorkerGone`).  None of the first
three properties is inductive: `FinalUse` says nothing of a worker that has set STOPPED,
which is all the coordinator goes by.  `MediaSpecCorrect` needs the same invariant: a board
that clears its pending edge is an edge lost to an accepting context or a rejected
interrupt of any other, and it starts and gives up a context only outside its calls.
`MediaTheoremsHold` draws the consequence: the theorems of `MediaProofs`, instantiated,
hold of the media context in the service.  Its assumption on the constants is part of
`ServiceAssumption`, and `OneMedia` says that the instance the proofs are about and the
one the service is built on are the same.

`WakeupCorrect` (`NoLostWakeup`) adds `WakeInv`.  Its core is `ProcessIsSafe`: a call past
its first look at the sequence has left CHANGE in the flag for every notification that
its last look did not see, which is why process may observe an old snapshot and the worker
may clear CHANGE before it calls process, but not after.  `WaitIsSafe` carries that into the wait, with a
finite timeout for every debounce, and `DelaysAreFinite` shows that no delay is
MTFS_MEDIA_WAIT_FOREVER when half the tick range is above one (`ServiceAssumption`; it is
2^31 in the code).

`KeyStoreProofs` proves of `KeyStores!BoardSpec`, so of the store of either board, for any
keys, ids, generation width and number of OSPI pages, `TypeCorrect`,
`GenerationsCorrect`, `NewestUntouchedCorrect` and `RegisterCorrect` (every step of the
store is a step of `KeyRegister` or a stutter), and of the NOR store `ReadBackCorrect`.
The inductive invariant is TypeOK, GenerationsAdjacent, `CommitFollows` (the record in
progress is of the generation and id after the selected one and its target is not
selected, until it takes effect), `TargetHolds` (what each control point knows of the
target slot), and for the NOR store `ReadBackFirst` (a decodable slot has been read
back), which the OSPI store does not have: the run `ospi_readback` shows why.

`ObserverProofs` proves of `Observer!Spec`, for any finite set of tasks and any last
values, `TypeCorrect`, `DeinitCorrect`, `ResetCorrect`, `GateCorrect` and
`CountersCorrect`.  The inductive invariant is TypeOK with the three properties of
the gate together: a deinit or a reset is safe because `active_calls` is 0, which
means that nothing is in flight only by `ActiveAccounted`, and the samples of
`RecordTiming` belong to an open observer only by `NoCallOutlivesObserver`.  The
library's facts about finite sets carry the count of the calls in flight.

`SentinelProofs` proves of `Sentinel!Spec`, for a window of any capacity, counters of any
width and any number of resets, calls and generations, `TypeCorrect`, `CountsCorrect` and
`SessionCorrect`.  Of the inductive invariant `SentinelInv`, `SnapshotsFollow` and
`GenerationsFollow` order the baseline, the sample in progress and the present: in one
epoch a counter that is not saturated has grown by exactly what was recorded, and a
snapshot lies within its generation as far as the sampler can know.  The rest speaks of
the ring: a clean feature counts what lies between its ends (`FeaturesCount`), two clean
features that follow one another meet (`FeaturesMeet`), and the newest ends where the
next will start (`NewestMeetsBaseline`).  The two properties say nothing of a window that
is not yet full, nor of the baseline, and are not inductive.  That the sum over a full
window telescopes is an induction over the length of the window.  `SetInduction` makes it a
fact about a set of numbers, from the library's minimum of a well-founded order, and
`TotalIs` uses it to show that the recursive function in `Total` agrees with any function that
satisfies its equation.

`SdDriversProofs` proves of each driver what the run `sd_drivers` checks of it, and of
`BoardSpec` that a firmware for either board behaves as both drivers specify, the one that
is not built standing still (`BoardsImplementDrivers`).  Of `Sdmmc!Spec`, for any number of
chunks: `TypeCorrect`, `CompletionCorrect`, `QuietBusCorrect`,
`RestCorrect`, `WakeupCorrect`, `RemovalCorrect` and `ClockedCorrect`.  The inductive
invariant `SdmmcInv` is about one chain: a transfer runs only between its start and the
abort, so whatever an abort leaves behind is gone with HAL_SD_DeInit before the media are
valid again, and the events cleared before a start cannot be set anew before it
(`TransferFollows`); the ready interrupt is armed only in the ready wait
(`ArmedFollows`); a card programs only behind a transfer, and leaves its state only by a
removal (`CardFollows`); a removal is in the event flag, or its event is in the hands of
a task on its way to the abort (`RemovalFollows`); and the context knows of a HAL handle
exactly where it may be used (`ContextFollows`).  Most of it speaks of control points
inside an operation, where the properties are silent.

Of `BoardSpec`, for any number of sectors, it proves the three properties of the SPI
driver, `ReadyCardCorrect`, `WholeOrErrorCorrect` and `TransferCorrect`, from the inductive
invariant `SpiInv`:
what the operation in progress is about (`CourseOfTask`); from the first transfer of
initialize on, an open pin is pending or its interrupt is on the way
(`RemovalNoticed`); a card of which only registers are still to be read, or that is
initialized, answers unless its removal is pending or unserved (`CardAnswers`); a read
or write that has lost its card cannot pass the check before the last transfer of its
transaction (`LossNoticed`).  Neither `ReadyCardWasBroughtUp` nor `WholeOrError` is
inductive: both are decided several transfers before they can be seen.  That a transfer
fails changes nothing an invariant speaks of, which `FailedKeeps` says once for its
five places.

`SentinelLabProofs` proves of `SentinelLab!Spec`, for any number of generations, any
warmup and any stages, `VerdictsOfOneSession`, `CleanLearning`, `BackingStays`,
`CleanupIsComplete` and `CompletionsArrive`.  The invariant `LabInv` has three parts:
the types; of the monitor, that the calls counted since the last sample lie between
the generation the sampler saw last and that of the metadata, so that a sample which
finds the two equal counts one session (`CountedSinceSample`), that faults are only in
what a stage with faults has counted (`InjectedByStage`) and that a feature is of the
session it names and, from the inference on, has a complete baseline of it
(`FeatureOfSession`), with `LearnsFromCleanWindows` itself; of the session, what each control point holds and has
still to give back (`SessionInv`), with `NpuInv` of the runtime and `ClientInv`, by
which exactly the client that is between open and close owns the session.  Each part
is kept by every step on its own, given the others.

`TrustedClockProofs` proves of `TrustedClock!Spec`, for a day and a century of any
length, `TrustedCorrect` and `ReadsCorrect` from `ClockInv`: while a set is under way
its marker is not whole, and before the readback the calendar is right or exactly a day
behind (midnight between the two writes of the STM32), which the readback tells apart because a set
takes less than a day (`SetUnderWay`); a marker gets its words only over a calendar
that was read back (`MarkerFollows`); a get holds the lock a set needs
(`ReaderAlone`).

Every safety property that a passing run checks, invariant, action property or
refinement, is proved.  Only model-checked are the two liveness properties of
`MediaService`, `EventuallySettled` and `StopCompletes`, because liveness under fairness is out of the
prover's reach, and the four violations, which are counterexamples.  The other
way round, the type invariants of `Media`, `Observer`, `SentinelLab` and
`TrustedClock` are not checked by a run of their own: the proofs have them for every
value of the constants.  `TypeOK` of `MediaService` only documents its variables.

## 6. Plan

Done: all modules and proofs above.  What would come next, in order:

1. That no timeout of the worker exceeds the debounce time, from the bound on its
   latency: `TypeOK` of `MediaService`, which needs the drift of the clock since the
   call that computed the timeout.
2. Two tasks in the SD drivers, for a port that does without the file system's mutex.
3. The Ethos-U hooks and the RSIP provider of the RA board, once the vendor code that
   calls them can be read.

## 7. Not modelled

* FatFs (`src/src/fatfs/ff.c`, `ffunicode.c`), more than a third of the lines of the
  repository, is third-party code; with it the wrapped-key file, a sequential function
  around FatFs calls whose outcome after a reset is decided inside FatFs, and the
  registry and diskio, a table filled at start-up.
* `mtfs_sentinel_inference.c`, the formats, digests and ciphers of sealed models and of
  key records: pure functions over bytes, which the host tests compare with vectors.
* The vendor's sides: the HAL, the FSP and the kernel are modelled as far as this code
  uses them.  The Ethos-U driver that calls the RA board's hooks is not in the
  repository, nor is what a flash that is still busy answers to a mapped read.
* Errors of kernel calls on existing objects (tk_wai_flg other than a timeout, and
  tk_del_flg); the reference count of the HAL time base.
* Diagnostics: the counters and events that no decision reads, diagnostics attached
  without a lock (the sequence retry of `mtfs_block_diagnostics_get` then has several
  writers), a second init of an observer, the optional transport snapshot, the event
  deltas and the ratios of a feature.
* The console, the second board's copy of the lab's glue, the host tools and tests,
  generated board code, the host block file.
