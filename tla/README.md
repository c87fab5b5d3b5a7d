# Formal models of psoxide

TLA+ models of the parts of psoxide whose correctness depends on the order in
which things happen, model-checked with TLC and, where that is worth it, proved
with TLAPS. Paths below are relative to `crates/psoxide-core/src/` unless they
say otherwise.

1. [The system](#1-the-system)
2. [The modules](#2-the-modules)
3. [The runs](#3-the-runs)
4. [Bounds and fairness](#4-bounds-and-fairness)
5. [The proofs](#5-the-proofs)
6. [Where the code and its comments differ](#6-where-the-code-and-its-comments-differ)
7. [What is not modelled](#7-what-is-not-modelled)
8. [Plan](#8-plan)

## 1. The system

psoxide is a PlayStation emulator: a core without I/O (`psoxide-core`), a
desktop frontend that feeds it commands and shows what it produces
(`psoxide-desktop`), a parser of configurations and disc images
(`psoxide-config`), a crate of Verus lemmas and a test harness. Everything runs
on one thread. What makes it hard is not threads but two clocks: the CPU is
interpreted one instruction at a time, and the devices have to appear to run
beside it, cycle by cycle, though the code advances them late and in batches.

| Component | State | Operations | Interacts with |
|---|---|---|---|
| Step loops, `api.rs` | `cpu.cycles`, `device_clock`, `next_deadline`, `scheduler_enabled`, `paused` | `execute(Command)`, `query`, one-off bus accesses, `save_state`/`load_state`, `set_scheduler_enabled`, `sync_devices` | calls everything else; the frontend calls it |
| Interrupt controller, `irq.rs` | I_STAT, I_MASK | `set`, `write_stat`, `write_mask`, `pending` | devices set bits, the CPU polls |
| Root counters, `timers.rs` | per counter value, mode, target, remainder of the divider, one-shot latch | register reads and writes, `tick`, `cycles_to_next_event` | the step loops, `irq` |
| CD-ROM, `cdrom.rs` | queue of responses, the latched interrupt, mode, head position, read or play state, sector timer, buffers | commands, register accesses, `tick`, `cycles_to_next_event`, disc insertion and ejection | the step loops, `irq`, `dma` (data), `spu` (audio) |
| CPU core, `cpu/` | `pc`/`next_pc`, the branch and delay-slot flags, two register banks, a pending load, COP0 | `step`, `poll_interrupt`, `reset`, `snapshot`/`restore` | the bus |
| SPU, `spu.rs` | 24 voices with their envelopes, sample RAM, a sample clock, CD and output queues | registers, `tick`, DMA | `cdrom`, the frontend's audio |
| SIO0, pads, multitap, memory cards, `iostubs.rs` | transfer phase, RX FIFO, /ACK timer; per device its command and protocol step; card image and dirty flag | register accesses, `tick`, host pokes | `irq`, the frontend |
| DMA, `dma.rs` | channel registers, DICR | a CHCR write runs the channel | RAM, GPU, CD-ROM, SPU, MDEC, `irq` |
| GPU, `gpu.rs` | packet state, drawing attributes, VRAM | GP0 and GP1 words, GPUREAD | DMA, CPU, the frontend's frame |
| MDEC, `mdec.rs` | command state, tables, output FIFO | command and data words | DMA, CPU |
| GTE, `gte.rs` | registers | COP2 instructions | CPU |
| Bus, timing, decoder, `bus.rs`, `timing.rs`, `cpu/decode.rs` | RAM, timing registers | pure functions of addresses and words | CPU |
| Desktop, `psoxide-desktop/src/` | mirrored pause flag and pads, active slot, card path | hot keys, redraws, save slots, card flushing | the core, files |

Hard behaviour, and what makes each component correct:

* **Step loops.** With the scheduler on, devices lag the CPU and are caught up
  only at a cached deadline or a register access. Correct means: nobody can
  tell. Same interrupts at the same instructions, same values read, same save
  states, however strategies, frames, one-off accesses and save states follow
  each other; and a frame always ends.
* **Counters.** The estimate given to the scheduler is never late and a batch of
  cycles equals the same cycles one by one, over wrap-around, target resets,
  dividers and latches.
* **CD-ROM.** Sectors of a running read and answers to commands share one queue
  and one latch that a slow guest holds up. No answer is lost, no report of a
  run outlives the answer that ended it, and what the buffer holds is what was
  announced.
* **CPU core.** An interrupt, a fault or a trap may come anywhere, between a
  branch and its delay slot, or between a load and its use. The program must not
  notice.
* **SIO0, pads, cards.** A transfer is one exchange per byte, with the meaning of
  a byte kept in registers on both sides, and it can be cut at any byte by a
  deselect, a swapped device or a save state. A card must answer whole messages
  and write whole sectors; a guest that waits for /ACK must not wait in vain.
* **DMA, GPU, MDEC.** A packet's words come from the CPU and from two kinds of
  DMA transfer in any portions; a movie goes through RAM, MDEC, RAM and GPU in
  portions that fit none of its units. Nothing may be lost or shifted, and a
  completion that should interrupt must reach the handler, whatever it
  acknowledges and enables meanwhile.
* **Rasteriser.** Neighbouring triangles blend a shared edge once, shades stay
  between those of the corners, lines are connected and reach their ends.
* **Sound.** Drive and SPU produce and consume frames at one rate with two
  clocks; batches must not change their order, queues must drop whole frames, a
  released voice must fall silent.
* **Desktop.** What a guest saved must reach its file, across failed writes,
  pauses, kills and loaded states; what the frontend believes of the machine must
  be true of the machine that was just loaded.

The list of hazards with their lines is `hazards` in `PROJECT.json`; the
correspondence of definitions to source lines is its `map`.

## 2. The modules

| Module | Models |
|---|---|
| `Devices` | what the step loops know of the per-cycle devices, as parameters with the contract the scheduler relies on; the interrupt registers as sets of lines |
| `ReferenceLoop` | the machine under `step_cpu_naive`: the abstract specification |
| `LazyScheduler` | the machine as `PsxCore` runs it, both strategies; implements `ReferenceLoop` |
| `MCLazyScheduler` | a small device for TLC, of which TLC evaluates the contract |
| `Counter`, `Timers`, `MCTimers` | one root counter as functions; the counters with I_STAT and the scheduler's estimates |
| `CdDrive`, `Cdrom`, `MCCdrom` | the drive as functions; the drive with its guest, host and the scheduler's estimate |
| `Code`, `ProgramOrder`, `Pipeline`, `MCPipeline` | a program; what it may rely on; the CPU's control flow, which implements that |
| `Bytes`, `LoadOrder`, `LoadDelay`, `MCLoadDelay` | unaligned loads and stores; what a program may rely on of its registers; the two banks and the pending load, which implement that |
| `Pads`, `MemoryCard`, `Sio0`, `CardSessions`, `MCSio0` | pads and multitap, a card, the port with whatever is plugged in; what cards promise, which `Sio0` implements |
| `Words`, `Gp0`, `Mdec`, `Dma`, `DmaPrograms`, `MCDma` | words as records; the GPU's ports; the decoder; the controller with all it connects; programs that use it |
| `Triangles`, `Raster`, `MCRaster` | edges, ownership and interpolation of a triangle; what the GPU paints for a primitive |
| `Voice`, `Spu`, `Playback`, `MCPlayback` | a voice; the sound processor; drive (`CdDrive`) and SPU together |
| `Desktop`, `MCDesktop` | the frontend, its files, and of the machine what it touches |
| `LazySchedulerProofs`, `TimersProofs`, `PipelineProofs`, `LoadDelayProofs`, `CdromProofs`, `Sio0Proofs`, `GpuProofs`, `DesktopProofs` | theorems |

**`LazyScheduler`.** One variable per field of `PsxCore` that matters, plus
`frameEnd` (the local `target` of `advance_frame`), `snap` (the last
`CoreSnapshot`) and `seen` (what the step's I/O access returned). A step is one
call of `step_cpu`: an interrupt taken, an instruction without I/O, or one with.
Wait states are any number up to `MaxExtra`, and where they fall is exact: the
reference ticks one cycle, polls, executes and then ticks the wait states; the
scheduler catches up to `cycles + 1` and leaves the wait states for later. The
four devices are one composite value with `Advance`, `Raised`, `NextEvent`;
their order within one tick is abstracted here, and is modelled for drive and SPU
in `Playback`.

The abstract specification is the reference loop itself, and the refinement maps
the devices to what they would be had they kept up: `dev <- Advance(dev, Lag)`,
`iStat <- iStat \cup Raised(dev, Lag)`. Every scheduled step then has to be a
step of the reference loop, with the same `cycles`, `seen`, `iMask` and `snap`.
The contract in `Devices` is what that takes: ticks compose (`BatchedTick`), a deadline is
never late (`ConservativeDeadline`), and the host commands applied without a sync
(`PokesCommute`) do not interfere with time: true of buttons and cards, not of
`LoadDisc` and `EjectDisc`, which are therefore not among `Pokes` (see 6).
The contract is checked of each real device where that device is modelled:
`Timers`, `Cdrom`, `Sio0` (`AckTimerKeepsContract`), and drive and SPU together in
`Playback` (`KeepsContract`), and proved of each there.

**`Counter` and `Timers`.** The counter is a record; bits 0-2 and 7 of the mode
have no effect in the code and are left out. `StepOne` is `step_one` with
`raise`; `TickCycle` is `tick(1)`; `Tick` is `tick(n)`. `promise[i]` is a history
variable: what is left of the estimate last handed to `recompute_deadline`, and
`rung[i]` counts interrupts since the last mode write.

**`CdDrive` and `Cdrom`.** A command carries its argument, a response the
interrupt it raises, a sector its block address. Commands that only report are
one command, `query`; Stop and Pause differ in the spindle motor only and are
one, `pause`; so are MotorOn and ReadTOC, and ReadN and ReadS. `tick_one` is
`TickOne`: the sector timer, then the countdown of the queue's front, then the
latch. History fields name the command a response answers, the run a report
belongs to and the sector an INT1 announces; nothing in the drive reads them.

**`Pipeline`.** Addresses are word numbers, a program is a function from
addresses to kinds of instruction, and whether the interrupt line is up is open
at every poll. The handler is the usual one, three words: work out where to
return, `jr`, `rfe` in the delay slot. It is external code: the usual return
sequence of MIPS handlers, which the code's `enter_exception` and `rfe` are
written for. (A handler that executes `rfe` before its `jr` is not modelled.)
`retired` (a parity) and `slotOf` are history. `ProgramOrder` executes a taken
branch together with its delay slot in one step and knows no interrupts:
`Pipeline` implements it with `point` mapped to the address the handler would
resume at.

**`LoadDelay`.** The data side of the same instruction step: `regs` and `outRegs`
are the two banks, `pending` the load in flight. A word is a function from byte
places to bytes, so that LWL, LWR, SWL and SWR are what they are; an instruction
is a kind of use of registers and memory. `Fault` commits and drops the load as a
faulting step does, `TakeInterrupt` leaves it in flight as `poll_interrupt` does.
The handler saves, overwrites and restores `Kept`, restoring through the load
delay as handlers do; its first instruction does not read a register, because in
it the program's last load has not landed yet, in the code as in the machine.
`LoadOrder` has one register file and at most one load that lands with the next
instruction or earlier; the mapping shows the file with `Kept` as the handler
will leave it.

**`Sio0`.** `Shift` is a write of JOY_DATA and so `tx_byte`; `phase`, `active`,
`ackTimer`, `rx` are fields of the port. The guest sends the messages of its
`use`, but may deselect, reset, acknowledge and turn to the other port after any
byte. The host's commands and a save state with its load (`SaveAndLoad`, which
replaces every device by what serde leaves of it, `Thawed`) come at any time.
Bytes of the protocol are themselves, data bytes bits (their XOR is a sum
modulo 2), the two bytes of buttons one value. `sent` and `rung` are history. `CardSessions` has no
registers: a reply and a write are functions of the image and of the bytes of the
message so far, and a message that is cut leaves no trace.

**`Dma` and its devices.** A word in memory is a record of the fields somebody
reads it for (`Words`), since the same word is a list header to the controller, an
opcode to the GPU and a pair of pixels to a load. `Gp0` is the packet parser with
the transfers in and out of VRAM; a finished command is noted in `drawn`. `Mdec`
decodes eagerly; its arithmetic is a tuple of what it is computed from, so a
coefficient that ends up in the wrong pixel is visible. `Dma` has one action per
register write, and a channel runs to its end inside the one that starts it.
`DmaPrograms` holds four guests, one per behaviour (`use`). `Commands` in `Gp0`
and `RefPixel` in `DmaPrograms` are references that look at a whole stream.

**`Raster`.** A pixel is the list of coats blended into it since it was last
covered, and its mask bit, so that two coats where one belongs are visible. One
shade stands for three channels, one coordinate for two. `Turned` normalises
the area, `Scanned` goes through the drawing area row by row (the code through the
part of it around the triangle, outside which nothing is covered), `Owns` is the
edge test with `is_top_left`; `Rounds` says where the Bresenham loop is after each
round, and `ShadedLine` stops it at the second end. The loops are recursive functions,
so that the theorems can take them apart. What a triangle is made of, without the
painting, is in `Triangles`. `ProgramOK` says what a program can draw and set:
vertices with integer coordinates and a byte of shade, polygons of three or four
of them, attributes of the GP0 commands' ranges.

**`Voice`, `Spu`, `Playback`.** A decoded sample is named by its block and place,
an output sample by its number and side, a CD frame by its run, sector and place;
volumes and the mix only change values. The envelope's arithmetic is the code's.
`Cycle` is one cycle of the reference loop with the bridge between drive and SPU;
`CatchUp` is `catch_up_devices` for those two. `use` is a bound: a behaviour
plays CD audio, plays voices, or works the transfers.

**`Desktop`.** `app` holds the fields of the frontend's `App` that mirror the
machine, `core` what the frontend touches of the machine, `file` and `slots` the
disk. A write succeeds, fails, or is cut (`Torn`) when the process is killed in
it: `std::fs::write` truncates first. `loads` is history: what a load has replaced
behind the frontend's back and what has been set right since.

Definitions named `X_Something` right before `X` are plausible mistakes in the
code `X` models, such as a catch-up forgotten or a flag left standing. Nothing
uses them; each has been put in the place of `X` to see that a named property of
a run notices.

## 3. The runs

| Run | Expect | Properties | What it shows |
|---|---|---|---|
| `lazy_scheduler` | pass | `TypeOK` `DevicesFollow` `NoMissedEvent` `FrameOverrunBounded` `RefinesReference` `FrameTerminates` | the lazy machine cannot be told from the reference loop; a poll made below the deadline sees the true I_STAT; frames end, within one instruction of their budget |
| `timers` | pass | `TypeOK` `NoEarlyIrq` `BatchedTickIsPerCycle` `OneShotRingsOnce` | the counters keep the contract, and a one-shot rings once |
| `cdrom` | pass | `ReportsBelongToTheirRun` `BusyOwesAnAnswer` `IdleIsStill` `NoEarlyInterrupt` `BufferHoldsTheAnnounced` `SecondAfterDelay` | three commands at any time, reads, playback, seeks, mode changes and what ends them, with acknowledgements, enables and disc swaps in between: queue, latch and cadence stay consistent, the idle fast path skips nothing, no interrupt beats its estimate |
| `cdrom_answers` | pass | `EveryCommandIsAnswered` | a running read delays answers but does not starve them |
| `pipeline` | pass | `EnabledOutsideHandler` `RefinesProgramOrder` `PreciseResumption` | program order survives interrupts, faults and traps, in delay slots too |
| `load_delay` | pass | `UnalignedLoadsCompose` `RefinesLoadOrder` | no stale load is published, a handler that keeps its registers is invisible wherever it comes, and LWL and LWR make one word though neither waits for the other |
| `sio0` | pass | `TypeOK` `EveryAckRings` `AckTimerKeepsContract` `RefinesSessions` | cards answer whole messages and write whole sectors, through deselects, swaps, taps and save states; each acknowledge that is waited for rings; the FIFO stays in its cap |
| `dma` | pass | `CommandsAreTheStream` `MovieIsShown` `CompletionsReachTheHandler` `PaintersOrder` | packets are those of the stream however it is sent; a movie's pictures arrive pixel for pixel; the table draws back to front; completions reach the handler |
| `raster` | pass | `ShadesFit` `LinesSpan` `SeamsPaintedOnce` | seams blended once, shades between the corners', lines whole |
| `raster_topleft` | violation | `TopLeftRule` | the rule the comment states is not the rule the code has |
| `spu` | pass | `KeepsContract` `StreamIsWhole` `PlaybackIsGapless` `ReleasedFallsSilent` | batches change nothing when no CD audio plays and are not used when it does; the output stream is whole under its cap; CD-DA is gapless; releases end |
| `desktop` | pass | `UnsavedIsDirty` `FrontendKnowsTheMachine` `SavesReachTheFile` | the dirty flag never lies, the frontend's mirrors hold but for what a load has replaced, and what is saved reaches the file |

`TypeOK` of the other modules was checked while they were developed, and is
proved of `Pipeline`, `LoadDelay`, `Cdrom` and `Playback` (`SoundTypeOK`), in whose runs it is not listed; the
runs are kept for what is worth their time.

Deadlock is not checked where the model comes to an end by a bound:
`lazy_scheduler` at `Horizon`, `load_delay` after `MaxProgram` instructions,
`dma` when a program has sent what its use allows, `raster` after the last of
`Drawings`.

## 4. Bounds and fairness

* **`LazyScheduler`.** `Horizon` bounds the clocks, `SavePoints` the cycles at
  which the host saves, `MaxExtra` the wait states of one instruction,
  `FrameCycles` a frame. With a periodic event every two cycles, a one-shot after
  two, an estimate early by one and a lag of up to four, every relation of
  deadline, observation cycle, wait states and event occurs: event before, at and
  after the observation cycle, inside the wait states, several in one catch-up.
  What the bound leaves out, long lags, is covered by the proof, which has no
  bound on `Horizon`.
* **`Timers`.** Counters of two bits (`Wrap = 4`) with divisor three and every
  mode, target and value, so that target, overflow, both at once and the target
  at 0 occur; batches up to one full turn of the divided counter (`MaxBatch`).
  One counter is enough: they share nothing but the I_STAT word. The proofs hold
  for every width, every number of counters and batches of any length.
* **`Cdrom`.** In `cdrom`, reads, playback from two places, seeks, mode changes,
  Pause and Init; the commands that only answer (a report, GetID with and without
  a disc, an unknown one) are in `cdrom_answers`. Three commands and three queued
  responses, delays of two cycles and sectors every two or three: a first answer,
  a second answer and a sector can be queued in every order, and fall due in the
  same cycle. While an interrupt waits to be acknowledged and `MaxPending`
  responses are queued time stands still; the code's queue has no limit. The proofs
  hold for every delay, period, disc, number of commands and length of the queue.
* **`Pipeline`.** One loop with every kind of instruction, a branch over a trap
  with a faulting instruction in its slot, and jumps to a good, an unmapped and a
  misaligned address. The proofs hold for every program.
* **`LoadDelay`.** Two registers, two words with a different byte at every
  address, three instructions and one trap: a load, one that follows it and one
  that uses both is the longest chain `pending` can see. The proofs have no bound.
* **`Sio0`.** Two sectors of one byte, so that an address is good, the other's, or
  out of range; a FIFO of one byte and an acknowledge after one cycle, so that it
  overflows, and that it is due while the guest does anything else; a tap of two
  slots instead of four (a slot's number only selects); one inserted card, which
  may be inserted and ejected again. The four uses split what is said, not when.
  The proofs hold for every use, delay and FIFO, for cards of up to 65536 sectors,
  as many as two address bytes can name, and sectors of up to 128 bytes, with which
  a message fits the port's 8-bit phase; the code's card, 1024 sectors of 128 bytes,
  is one of them.
* **`Dma`.** VRAM of 16 by 4, pictures of four by four made of blocks of two by
  two, 40 words of memory, two macroblocks at 24 bits in one word streams and at 15
  in another: a 24-bit picture ends in mid-word of nothing the guest transfers at
  once. Streams of up to eight words, in portions of any size up to the stream.
* **`Raster`.** A grid of 4 by 3 on VRAM of 6 by 4, two settings, two primitives:
  every slope a grid of that size has, clipped and not, negative coordinates
  included. `GpuProofs` has no bound.
* **`Spu`, `Playback`.** A voice over three blocks of four samples, looping or
  ending, pitches of less and more than a block's part per sample; envelopes as fast as
  they go and slow exponential ones; two cycles to a sample and two frames to a
  sector, three to one of XA; queues of three and four, so that both drop. Numbers
  of samples are counted modulo `Count`. Shift values above 11, which only slow an
  envelope down, are not reached. A seek while playing, and CD-DA switched off in
  mid-play, are excluded. `MaxWrites`, `MaxCommands`, `MaxPending` bound the guest.
* **`Desktop`.** Two games, two card images, one button, one slot that may hold an
  earlier build's state or one without identity; the disk fills up and empties at
  any time. With one slot, choosing a slot changes nothing; the proof has any
  number.

Fairness. `advance_frame` is a synchronous loop: once begun, the next thing that
happens is a step or the closing VBlank, hence WF on both (`FrameTerminates`).
The frontend keeps calling the core, so the drive's `Tick` is fair, and a guest
whose handler runs acknowledges what it is told: WF on `Acknowledge`, which is an
assumption about the guest and not about psoxide (`EveryCommandIsAnswered`). In
`Playback` time passes: the sample clock goes round for ever (`TimePasses`),
which the frontend's frames see to (`ReleasedFallsSilent`). In `Desktop`,
`about_to_wait` asks for a redraw every time round the event loop: WF on `Redraw`
(`SavesReachTheFile`, which also assumes a disk that works in the end).

## 5. The proofs

All are checked by `tlapm` to the last leaf and rest on the named ASSUMEs of the
modules only. Every safety invariant and action property the runs check of the
scheduler, the counters, the CD-ROM, the CPU, the port, the rasteriser and the
desktop is proved, and so are all four refinements, and what each device promises
the scheduler.

* **`LazySchedulerProofs`** (for every device that keeps the contract of `Devices`).
  The invariant is `TypeOK`, the clocks' order (`DevicesFollow`), and that no
  device raises a bit before the deadline, for the lag reached and for any still
  to come (`NoMissedEvent`); the last part is needed because a scheduled poll does
  not look at the devices. The three together are inductive. From it:
  `TypesHold`, `DevicesNeverAhead`, `NoEventIsMissed`, and
  `LazyImplementsReference`: every step of `LazyScheduler` is a step of
  `ReferenceLoop` or a stutter under the refinement mapping. The algebra of lags
  (`BatchedTick` applied to a partial catch-up) is stated once in lemmas.
  `FramesKeepTheirBudget` needs of all this the types only: a step is short
  (`StepIsShort`), and a frame's loop takes one only below its end.
* **`TimersProofs`** (for every width, divisor and set of counters). The
  invariant adds to `TypeOK` that a promise never exceeds the present estimate
  and that a spent one-shot's latch is set; the first because an estimate given
  before a tick has to bound the one after it. From it: `TimersTypes`,
  `EstimatesAreConservative`, `OneShotsRingOnce`. The contract's
  `ConservativeDeadline` is thus proved of the real counters, and so is its
  `BatchedTick`: `BatchedTicks` says of any counter and any number of cycles that
  `tick(n)` is `tick(1)` n times, value, divider, latch and interrupt;
  `BatchingIsInvisible` says it of every reachable state. The argument runs along
  the two recursive functions' values: what they are after i steps (`RunOfTicks`,
  `RunOfCycles`), where divider and quotient stand after each cycle
  (`CycleOfRemainder`), and a first-order induction that takes the least number
  at which two descriptions differ (`LeastNatural`, `Induction`).
* **`PipelineProofs`** (for every program that satisfies `CodeAssumption`). The
  invariant adds to `TypeOK` and `EnabledOutsideHandler` that a pending branch in
  the program has one of its targets as `nextPc` (`FlowOK`), and that a handler
  knows an address outside itself to resume at, has it as `nextPc` in front of the
  `rfe`, and has the program's enable bit as the pair `rfe` pops (`HandlerOK`).
  `SlotOK` adds what `slotOf` is, for precision.
  From it: `PipelineTypes`, `ExceptionsNest`, `PipelineImplementsOrder`,
  `ResumptionIsPrecise`.
* **`LoadDelayProofs`** (for every set of registers, memory and number of
  instructions). The invariant adds to the types, with banks that agree between
  instructions, how far the handler has got: no load is in flight once its first
  instruction is done, the reload of `Kept` is before its jump, and `Kept` is
  restored at its return. It is needed because the refinement mapping hides `Kept`
  while the handler has it. From it: `LoadDelayInvariant` and
  `LoadDelayImplementsOrder`, along one lemma per way an instruction may treat the
  pending load (`NoWrite`, `Write`, `QueueLoad`). `UnalignedLoadsAreWhole` follows
  what the program will find in a register once every load has landed and the
  handler has restored what it uses (`InSight`): interrupts leave it alone, so it
  has the bytes of an LWL or LWR until its other half merges with them.
* **`CdromProofs`** (for every delay, period, set of commands and disc). The
  drive is reasoned about as the code is written, one function at a time: what a
  sector, the countdown, the latch and a command's effect and answers may do to
  which fields (`SpinStep`, `CountStep`, `LatchStep`, `EffectStep`). The invariant
  is the types; one use of the sector timer at a time and the timer not run out
  (`Cadence`); the runs in the queue in the order they were begun (`RunsInOrder`),
  without which "no report outlives its run" is not inductive, because a command
  that ends a run leaves the run's reports in front of its own answer; a busy
  flag's answer in the queue (`AnswerOwed`); the newest INT1 the one that is
  buffered (`NewestIsBuffered`); the delays of second responses (`SecondsWait`);
  and what a promise still leaves (`PromiseKept`). From it: `CdromTypes`,
  `ReportsKeepToTheirRun`, `BusyIsOwed`, `EstimateIsConservative`,
  `BufferIsAnnounced` and the action property `SecondResponsesWait`.
  `FastPathIsExact` holds of any drive. The assumption that the guest's commands
  are commands of the drive (`CdromAssumption`) types their arguments.
  The same invariant of the drive, with what an SPU adds to it, is that of
  `Playback` (`SoundInv`): the SPU has its types and a clock inside a sample's
  length, the queues stay in their caps, and what the host has of the output
  stream is what was made of it, in order (`StreamIsWhole`). It gives `SoundTypes`,
  `SamplesAreWhole` and `SoundKeepsContract`: as long as the estimate and the
  `MaxExtra` wait states after it last, a drive that plays no CD audio decodes
  nothing (`WindowIsFree`, for which a sector has to be longer than an
  instruction), and then the order of drive and SPU inside the batch does not
  matter: the drive's cycles, and the SPU's by `SpuTicksCompose`, make
  up the batch (`BatchIsCycles`).
  `GaplessPlayback` needs both clocks. While a drive plays, each frame of its run,
  from the last one mixed through the queue, is followed by its successor, or by a
  muted one, up to the end of the sector before the head's; once there is such a frame, and with `d`
  samples to come before the next sector, counted from the sample clock's phase, at
  least `d` frames are queued, and at most `CdQueueMax - FramesPerSector + d`, so that
  the next sector finds room and is never late; and no frame is of a run yet to start
  (`PlaybackInv`, from `RunOn` and `Upto`). It is proved of guests that neither seek
  nor leave CDDA mode (`StaysOnTrack`), for a seek moves the head of a drive that
  plays on, and sectors are passed over without the mode bit; the `spu` run's guest
  is one of them. A sector of CD-DA has to fit the drive's buffer and
  the SPU's queue (`PlaybackAssumption`; 588 frames against caps of 16,384 and
  8,192), and has to last as long as its samples, 451,584 cycles of 588 times 768.
* **`Sio0Proofs`** (for every way guest and host use the port). Three layers. What
  one exchange does, for pads, taps and cards: a pad acknowledges eight bytes at
  most and a long burst of the tap 34, and a card's exchange gives what
  `CardSessions` asks for, provided its registers hold what the message so far
  asks for (`Follows`, and then `ReadExchange`, `WriteExchange`, `IdExchange`,
  `FirstByte`, `SecondByte`; the checksum kept byte by byte is the parity of the
  whole message, `ChecksumAgrees`). What the
  port adds: the invariant `Sio0Inv` has the types; the device of the transfer
  with the phase, Select, and the first byte that addressed it (`Partner`); that
  its card, if it is in a command, follows the message (`RegistersFollow`),
  which is what survives swaps, taps and save states because each leaves a card
  without a command or with the same one; and `EveryAckRings`. From it:
  `PortTypes`, `AcksRing`, `PortKeepsContract`. What an observer of the messages
  sees: each action is a step of `CardSessions` or none (`StepSeen`, one lemma per
  action; `HostSeen` for all that the host does), and so `CardsKeepSessions`,
  the refinement. The assumption `UseOK` says what the model of a data byte
  needs, that data bytes of a write are bits (`DataAreBits`).
* **`GpuProofs`**. Of the DMA controller (for every program and every set of
  uses): what is owed to the handler is flagged, and I_STAT is set, the handler
  has entered and not looked yet, or it has seen the flag; with bit 31 the
  function of the other bits that `Updated` computes. From it: `IrqInvariant`,
  `NoCompletionIsLost`. Of the command port (for every set of programs, every size
  of memory and VRAM): `PacketsAreTheStream`. The parser's registers are what it
  has read of one command (`At`: between commands, in the pixels of a load, in a
  poly-line, in a packet), and whatever follows the words sent so far, the reference
  finds in it the commands already run and then those from the place `At` names
  (`ReadsOn`). The second half looks ahead to streams not sent yet, which is what
  makes it inductive: `WordStep` has one lemma for each place, and `WordsAreHeard`
  carries it through a channel's run word by word. Of the display list (for every
  table, memory and set of packets): `TableIsDrawnInOrder`. Once the table is
  cleared there is a place in memory for every packet of the scene such that each
  entry links to its packets, the last added first, each with its words behind its
  header, and the last of them to the entry below or the end (`Threads`), all above
  the table and below the place of the next packet; and until a list is drawn the
  port is between commands (`TableInv`). Clearing makes such a table (`ClearedIs`),
  adding a packet keeps it one (`AddThreads`), and the walk sends an entry after the
  other (`HeaderIsWalked`, `EntryIsWalked`, `TableIsWalked`) in fewer steps than the
  controller's cap. What the assumption `UseOK` asks of such a program is what the
  code needs too: the table lies in memory, below the packets, its entries and
  packets are no more than the `ListCap` headers the controller walks, and a packet
  with words in it holds a whole command, or drawing it would not show in what the
  GPU has run. Of triangles (for all integers): a pixel on an edge is
  owned by exactly one of two triangles that walk it in opposite directions
  (`SeamHasOneOwner`), so two triangles on either side of an edge share no pixel
  (`NeighboursAreDisjoint`); a shade or texture coordinate at a covered pixel lies
  between its corners' (`InterpolationStaysBetween`) and at a corner is the
  corner's (`CornersKeepTheirValue`), with the rounding division of the code.
  Of what is painted (for every program that satisfies `ProgramOK`, the
  module's assumption, and every size of VRAM): the invariant is the types, with
  attributes a program can set and a primitive drawn last that is one
  (`CanvasInv`), hence `CanvasTypes`. A triangle plots the pixels of the drawing
  area it covers, once each (`TrianglePaints`, along the scan, `ScanStep`), so
  `PolygonShadesFit`. The two halves of a quad given around its corners share no
  pixel (`HalvesAreDisjoint`), a pixel inside it belongs to one of them whatever
  side of the diagonal it is on (`InsideIsInAHalf`), and a pixel plotted once gets
  one coat at most, and one if the mask leaves it open (`CoatsOfPainted`): so
  `SeamsArePaintedOnce`, an action property. Of Bresenham's loop, after i rounds it
  stands at the nearest point to the line i steps on (`Nearest`, `RoundNearest`),
  which is the second end after `Steps` rounds and not before (`LineEnds`): so
  `LinesSpanTheirSteps`, for vertices however far apart.
* **`DesktopProofs`** (for every set of games, images, slots and sessions). What
  `UnsavedIsDirty` says is made inductive by the type of the card's file and
  machine and by what a loaded card's flag excuses. From it:
  `UnsavedCardIsDirty`. `FrontendKnows` needs besides that a state which names
  its game was taken of a machine that held it (`SlotsNameTheirGame`), or a load
  that passes the check would bring a game the frontend does not know; of states
  an earlier build wrote the same is assumed (`Earlier`).

Only model-checked:

* liveness (`FrameTerminates`, `EveryCommandIsAnswered`, `ReleasedFallsSilent`,
  `SavesReachTheFile`), and what needs ENABLED: not in the prover's reach;
* `DmaPrograms` (`MovieIsShown`): the invariant would have to relate a partly decoded
  macroblock to `RefPixel`, and is not stated yet.

Induction over data is done without the library's induction theorems, which take
an operator as a parameter: the least counterexample of a set of numbers is a
first-order argument (`LeastNatural` and
`Induction` in `TimersProofs`, `CdromProofs` and `GpuProofs`). That is how a recursive
function is shown to exist and folds are taken apart (`ParseExists`, `MovesInTurn`,
`FoldsInTurn`, `ListInTurn`; in general `Recursion`, which needs the step as a function
and not as an operator).
RECURSIVE operators stay out of reach.

## 6. Where the code and its comments differ

With a run:

* `gpu.rs:764` "a pixel that lies exactly on an edge is drawn only when that edge
  is a top or left edge", `gpu.rs:1305` "A left edge goes downward (`dy > 0`)".
  With positive area and Y down the edge that goes down is the right one, so
  `is_top_left` keeps right edges and drops left ones (`raster_topleft`). Seams
  are covered once all the same, since the rule is one rule.

TLC refutes these too; they have no run of their own, but each takes one changed
line of a configuration (given in parentheses) to see again:

* `api.rs:1034` "behaviourally identical (bit-for-bit)": not after
  `Command::Reset` or `LoadBios`, which rewind `cpu.cycles` and not
  `device_clock`; the devices then stand still (`LazyScheduler.cfg` with
  `SPECIFICATION ResetSpec`, `PROPERTY RefinesReference`).
* `timers.rs:24` bit 10 "cleared while an IRQ is asserted": it stays cleared
  after the acknowledge (`Timers.cfg`, the invariant `Bit10IsTheRequest`).
* `cdrom.rs:1075` "Autopause reports completion with an INT4": not when a
  response is queued (`Cdrom.cfg`, `AutopauseReports`).
* `cdrom.rs:1257` "should assert the line": only at the latch, not when an
  interrupt that is latched is enabled (`Cdrom.cfg`, `AssertedReachesLine`).
* `cpu/execute.rs:130` BD and EPC: stale for a misaligned fetch (`Pipeline.cfg`,
  `PreciseExceptions`).
* `api.rs:877` "A complete serializable machine snapshot": `branch` is missing,
  so a state saved in front of a delay slot forgets the branch (`Pipeline.cfg`
  with `Program <- LoopHome`, `SPECIFICATION SnapshotSpec`, `PreciseExceptions`);
  so is a pad's command, so a poll cut by a save state is answered wrongly
  (`iostubs.rs:253`; `Sio0.cfg` with `Uses <- PollUses`, `PollTellsButtons`); and
  the card's command (`iostubs.rs:612`), though there nothing wrong is written:
  the message is lost, and a comment's "Not reachable (phase >= 2 always has a
  latched command)" (`iostubs.rs:721`) is not true of it.
* `gpu.rs:714` "the top-left fill rule covers the seam exactly once": true of
  quads whose corners go round, which `SeamsPaintedOnce` says; a quad whose
  corners come in the order of the rows folds over, and its two triangles overlap
  (`Raster.cfg` with `Drawings <- RowDrawings`, `EveryQuadPaintedOnce`).

Read, not run:

* `api.rs:1761` "crosses no un-fired device event (the next deadline is always
  beyond `cpu.cycles`)": after an instruction with wait states the deadline may
  be behind `cpu.cycles`; the flush then delivers what the reference loop has
  delivered already, so the snapshot is right and the reason given is not.
* `EjectDisc` does not sync the drive: an INT1 due before the ejection is lost in
  scheduled mode only.
* The reference loop does not bridge CD audio to the SPU for the wait-state
  ticks (`api.rs:1579`), the catch-up does.
* `cdrom.rs:1250` "The first response of a command clears the busy flag": any
  response does, a sector's INT1 too.
* `timers.rs` header, bit 5: "IRQ when counter == 0xFFFF"; it is raised when the
  counter wraps to 0.
* `dma.rs:16` "The remaining channels (MDEC in/out, PIO) are register-only": the
  MDEC's run, and PIO completes with its interrupt. DICR's force bit and a DICR
  write never set I_STAT's bit, only a completion does; DPCR is not consulted.
* `gpu.rs:458` a poly-line's end word "after at least the first vertex": a flat
  line takes it in place of the first vertex as well.
* SPU: `key_on` decodes two samples ahead and drops the addresses it decoded, so
  an interrupt address in a voice's first block never matches; `spu.rs:386` "Edge
  latch" raises again for a match while the flag is set; `spu.rs:805` "only ever
  set true (by note_decode_irq": transfers set it too; `spu.rs:208` "mutes the
  voice immediately": the envelope goes Off when its wait is over.
* `cpu/engine.rs:61`: the pending load is committed "before the next
  instruction's" operands are read into the output bank; operands are read from
  the other one, as they should be.
* Desktop: the "UI mirror of the core's pause state" (`main.rs:368`) and the
  mirrors of multitap and pads are not refreshed by a load (they are what
  `FrontendKnowsTheMachine` excuses after one); with a loaded machine that has no
  tap, player 1's input reaches no pad. A legacy state of another game replaces
  the BIOS, after which the session's own states are refused. Hotkeys are
  "edge-triggered on key-down" (`main.rs:709`), but `repeat` is not looked at. Card
  and slot files are written in place.

## 7. What is not modelled

* **GTE**: fixed-point arithmetic without a protocol; the repository has golden
  tests. **Decoder, memory map, wait states**: pure tables over words and
  addresses, for which the repository has Verus proofs. **Memory-control
  registers**: storage. **Configurations and disc images**: parsers that run once,
  at start-up. **Verus lemmas, test harness**: not part of the program.
* Of the CD-ROM: the bytes in its FIFOs, volumes, XA's arithmetic. Of the CPU: ALU
  arithmetic, HI/LO, cache isolation (a store then is a `Command`). Of the GPU:
  GPUSTAT, CLUTs and texture windows (a texture is constant and lies elsewhere),
  dithering, colours. Of the MDEC: its arithmetic, the signed and bit-15 flags. Of
  the SPU: reverb (its work area is taken to be apart from the voices' blocks),
  noise, pitch modulation, volumes. Of the desktop: HUD, window, the audio device,
  the key map.
* Of the step loops: the `paused` flag (in `Desktop`), and `LoadDisc` and
  `EjectDisc`, which are in `Cdrom` only.
* A program that makes an ordering table wrap below address 0 (`dma.rs:364`), or
  never ends a poly-line, is its own undoing; the programs here do neither.

## 8. Plan

Done: everything in section 2. Worth doing next, in order:

1. Proofs: the invariant of the macroblock under `MovieIsShown`.
2. Drive, counters, SIO0 and SPU as the device of `LazyScheduler`, in place of the
   contract, for a run of the whole machine.
3. The comments of section 6 that turn out to be bugs: once one is fixed, its
   property joins the passing run it is named with.
