# VibeGBA: specification, model checking and proofs

VibeGBA is a Game Boy Advance emulator: `gba-core` is the machine, `gba-frontend` an SDL
program (and a headless harness) around it. The emulator has two threads only, the
emulation thread and SDL's audio callback. The rest of what makes it hard is inside one
thread. An event scheduler, timers, DMA channels, sound FIFOs, an interrupt controller and
a sleeping CPU take turns in batches of cycles, and the guest program may reprogram any of
them between any two instructions. The CPU has two instruction sets, each with an executor
of its own. The cartridge holds serial chips whose protocols a restarted guest cuts anywhere.
The modules here model these parts, each with the guest that suits it: an arbitrary program,
a save library that may be restarted, or instructions in both encodings.

## 1. Inventory

| component (source) | state | operations | interacts with | what is hard | what makes it correct | model |
|---|---|---|---|---|---|---|
| run loop, scheduler (`lib.rs`, `scheduler.rs`) | timestamp, event heap | `run_cycles`, `run_frame`, `step_n`, `step_one`, `handle_event` | all of the core | events are dispatched late, after the instruction that passed them; three drivers that differ | one display event is pending; flags agree with it; lines have their length; the display goes on | `Machine` |
| interrupt controller, HALTCNT, SWI 2/4/5 (`interrupt.rs`, `bios.rs`, `arm7tdmi/mod.rs`) | IE, IF, IME, CPSR.I, `halted`, `intrwait_mask`, the guest's flags at 0x03007FF8 | register stores, `request`, wake check, IRQ entry | loop, CPU, every device | a wake-up that falls between check and sleep; a mask that outlives its sleep; byte stores to IF | no lost request, no missed wake-up, no stale mask | `Machine` |
| timers (`timer.rs`, `lib.rs` tick and chunks) | counter, reload, control, prescaler | `write_reload`, `write_control`, `tick`, `cycles_to_next_fifo_overflow` | loop, FIFOs, IF | batches longer than a period, cascades, predictions under reprogramming | batches equal cycle-by-cycle timers; no pop lost in a sleep | `TimerCore`, `Timers` |
| sound FIFOs (`apu/fifo.rs`) | ring buffer, two positions, count | `write16/32`, `pop_sample`, `reset` | timers, DMA, CPU | fields that move on their own | it is a bounded queue | `FifoCore`, `SoundFifo`, `SampleQueue` |
| DMA (`dma.rs`, `Bus::run_dma`) | registers, latched copies, `active` | register stores, `latch`, `run_dma`, `reload_for_repeat` | display events, FIFOs, IF | enable bit and active flag are kept apart; repeat and reload; the table of a frame | both agree, a table goes through once a frame | `DmaCore`, `Dma` |
| DMA sound (`lib.rs` `tick_timers`, `run_dma_for_fifo`, re-anchor) | all of the above | timer overflow, pop, refill, VBlank re-anchor | timers, FIFOs, DMA | requests of a FIFO nobody feeds; the start of a buffer against its replay | no overrun, no underrun, samples in order, a replayed buffer is not overrun | `Sound` |
| CPU (`arm7tdmi/`) | registers with their banks, CPSR and SPSRs, pipeline | `step`, both executors, `switch_mode`, exceptions | bus, interrupt controller, services | every handler twice; flags of shifts and borrows; an interrupt behind a branch; nested handlers | both encodings agree; flags are those of the numbers; banks are a register file; interrupts are not seen | `Alu`, `Arm`, `Thumb`, `Encodings`, `BanksCore`, `Banks`, `RegisterFile`, `Cpu` |
| memories and register accesses (`bus/mod.rs`) | RAMs, BIOS latch, register halves | `read8/16/32`, `write8/16/32`, `read_io16`, `write_io16` | CPU, DMA, services | six accessors for each region; bytes and words of registers that are halfwords | loads see what stores left; a half keeps what it was given | `Memory` |
| BIOS services (`bios.rs`) | - | `swi_*` | CPU, memory | streams that end in the middle of a token, a halfword or a word | what a stream stands for is in memory | `Services` |
| PSG, mixing, sampling (`apu/mod.rs`, `psg.rs`) | channels, frame sequencer, sample accumulator | register stores, `tick`, `tick_fast` | FIFOs, audio output | three ways for a note to end; two paths of a batch | a note that sounds ends; batches are exact | `Psg` |
| audio output and pacing (`audio.rs`, `main.rs`) | APU sample buffer, shared buffer | `drain_audio`, `push_samples`, `callback`, wait loop | SDL's thread | two threads, two thresholds | nothing dropped, the wait ends | `Audio` |
| save files (`main.rs`) | `.sav` and `.bak-n` | `load_sav`, `save_sav`, `rotate_sav_backups` | backup chip, file system | a process that dies or a write that fails in the middle; a chip that changes its size while it is played | backups in order, the last good save is kept and shown, opening a game is no save | `SaveFiles` |
| flash chip (`backup/flash.rs`) | command state, bank, data | `read`, `write` | guest | commands of up to six writes that a restart may cut | commands work, bits come back by sector | `Flash` |
| EEPROM (`backup/eeprom.rs`) | serial shift state, width, data | `write`, `read`, width detection, export, import | DMA 3, save files | a size that is guessed, a read-out that is broken off | it is an array of blocks | `Eeprom` |
| real-time clock (`rtc.rs`) | GPIO registers, serial state | GPIO stores, commands | guest, wall clock | transactions broken off anywhere; time that goes on while it is read | an answer is right at one instant | `Rtc` |
| SRAM, selection (`backup/sram.rs`, `mod.rs`) | byte array | `detect`, `read`, `write` | guest | nothing | - | `Cartridge` |
| save states, harness, keypad, PPU drawing, disassembler, video, input, diagnostics | - | - | - | - | - | not modelled, see section 6 |

The hazards found in the code, at their lines, with the properties that cover them, are in
`PROJECT.json` under `hazards`; one without a property says why there is none.

## 2. Modules

**`Machine`** is the loop of `Gba::run_cycles` with everything it looks at. Each turn of the
loop is: run one instruction, or sleep, up to the next event or the target (`Instruction`,
`TakeIrq`, `HaltSpan`; `StepHalted` and `IdleOne` are what `step_n` and `step_one` do with a
sleeping CPU); hand out the events that are due, one `Dispatch` each; make the wake check
and go on or return (`EndIteration`). `Call` is the host's next call. Time is relative:
an event has `due` = `fire_time - timestamp`, the call has `budget` =
`target - timestamp`, so the states repeat frame after frame. The guest is arbitrary: every
instruction costs 1 to `MaxCost` cycles and makes one of the register writes that matter to
the loop. Timers, DMA and APU appear as `DevIrqs`, sources that may be raised at the places
where the code ticks them. `IntrWait` discards the marks of the guest's handlers (`bios_flags`)
as the code does, which then never looks at them. How long a line may take is said twice with
`LineTakes`: `LineLength` bounds it from both sides, whatever its events count from, and
`LinesOnSchedule` is the bound that the schedule of the docs gives, where an event counts from the
time the last one was due.

**`TimerCore`** holds the timers as operators on records with the fields of the code;
`Advance` and `Increment` are the batch arithmetic of `Timers::tick`. **`Timers`** drives them
as the loop does, by instructions and, for a sleeping CPU, by the chunks that are cut with
`cycles_to_next_fifo_overflow`, next to a copy `hw` that the same operators advance one
cycle at a time with a cascade that counts every overflow.

**`FifoCore`** is the ring buffer, **`SoundFifo`** the component, and **`SampleQueue`** what it
promises: a bounded queue that drops what does not fit, repeats the last sample when empty
and asks for a refill at half. `ImplementsQueue` is the refinement, with the queue read off
the ring buffer by `Contents`.

**`DmaCore`** is one channel: latching, the transfer, the repeat. **`Dma`** drives the channels
by register stores, VBlank, HBlank of the visible lines and FIFO requests.

**`Sound`** composes the three cores into the sound path. A sample is the address it was read
from, so that order and replay can be stated.

**The CPU.** `Alu` (shifter, adder, conditions) and `BanksCore` (mode switches, exception
entry) are operators on the machine as one record; `Arm` and `Thumb` add a function for each
handler, at any word width. On them stand three models. **`Encodings`** runs each
Thumb instruction and its ARM form, given by `ArmOf`, on two equal machines. **`Banks`**
switches modes and writes and reads registers in any order; **`RegisterFile`** is what the
banks promise, with the physical registers read off the machine by `Lies`. **`Cpu`** is
`Cpu::step` with its pipeline, the HLE handler that `make_hle_bios` puts into the BIOS area, and
the loop's share in software interrupts; a second machine, `ghost`, runs the same
program without interrupts.

**`Memory`** is `read8` to `write32` for each region, with mirrors and alignment, and
pairs of I/O registers that bytes, halfwords and words are stored to. **`Services`** is what the
BIOS leaves in memory and registers; a packed stream is the sequence of its tokens (bytes as they
are, a byte repeated, a reference to bytes before), which the decompressors take one after the
other, byte by byte, as the loops of the code do. What the stream stands for is said without
them (`Lies`): each byte of a token is at its place, and a reference repeats what is before it.
**`Cartridge`** puts `Flash`, **`Eeprom`**, SRAM and **`Rtc`** behind the signatures of a ROM.
**`Flash`** is the nine-state command machine on bytes seen as sets of bits, and a save library
that sends the command sequences of the head of `flash.rs`, may be restarted between any
two writes (`SoftReset`; a restarted guest does not reset the chip), and meets stray stores.
`Eeprom` and `Rtc` have libraries of the same kind: one moves blocks by DMA, the other one bits
by GPIO stores, and both may be restarted at any place; `PowerCycle` carries the save through
the file. **`Bus`** composes the three; a behaviour uses one of them, since they have no state
in common.

**`Psg`** is one channel of the generator with the frame sequencer, the mixer and the
sampling; `tick` takes the fast or the slow path as the code does. **`Audio`** has two processes,
the emulation thread (`RunChunk`, `Push`, `Pace`, `Wake`) and the callback, which interleave
between any two of their critical sections; buffers are counted, in stereo pairs. **`Apu`** extends
`Psg`, `SoundFifo` and `Audio`, the stages of sound: a behaviour uses one of them.

**`SaveFiles`** has one file operation per action, and `Crash` and `WriteCutShort` between and
inside them. A file carries the number of the write that made it. The chip is made with `FULL`
blocks, takes in as much of the file as fits, and is cut to `GAME_SIZE` by the first access of the
game (`Access`, `Store`), as an EEPROM is; chips that keep their size have `GAME_SIZE = FULL`. What
the game sees of a save of any length is `Shown`.

`MC*` modules hold the values of constants. Some of them moreover put specifications side by side
in one state space, one to a behaviour: `MCUnits` (timers, DMA and the parts of the CPU, from
`MCTimers`, `MCDma` and `MCCpu`), `MCBus` (a guest of `Bus`, or the files of `MCSaveFiles`) and
`MCSound` (two instances of `Sound`). What each of them can do, it does there as it would alone;
the variables of the others stay as they begin.
`*Proofs` modules extend the modules of their components.
`map` in `PROJECT.json` ties every definition to its lines.

## 3. Runs

| run | question | answer |
|---|---|---|
| `Machine_run` | Under `run_cycles` and any guest: do the display event and DISPSTAT agree, does a line take its cycles within two instructions, does a mask end with its sleep, is no wake-up missed; does the display go on, does VBlankIntrWait return, is an interrupt served? | yes, all of them |
| `Machine_drivers` | With a host that mixes all three drivers, and a DMA interrupt: does a request vanish only by a store to IF? | yes, for halfword stores to IF |
| `Machine_drift` | Is a line short or long by less than one instruction, as it is if events count from the time they were due? | no: see findings |
| `Units` | Are batched timers those of hardware, whatever is rewritten while they run, and is a pop predicted exactly; does a DMA channel's enable bit agree with its active flag, and does a table go through once a frame? Does each Thumb instruction do what its ARM form does, are results and flags those of the numbers, are the banks a register file, is a program blind to interrupts at any instruction and within one another? | yes, if no timer cascades and the DMA of an event stores reloads only |
| `Timers_cascade` | ... and if one cascades? | no: see findings |
| `Dma_irq` | Does a transfer that ends raise its interrupt? | no, if it is immediate: see findings |
| `Sound` | Two FIFOs on one timer, restarts and resets: does DMA ever overfill one, or come too late? A channel that is left alone: does the re-anchor keep it in its buffer, and the samples in order? | no; yes, after its first frames |
| `Apu` | Does a note that sounds go on and end, are batches exact on both paths, is the ring buffer a queue, is a sample dropped on its way to SDL, is the wait endless? | yes, yes, yes, no, no |
| `Bus` | Flash of both sizes, EEPROM and clock, under restarts and stray stores: do commands do what they promise, is a broken one over after one more, is a block kept through guesses of the size and save files, is the time read right at one instant, is the calendar right? Do loads see the stores of other widths, do register halves keep what they were given, do the services leave what they should? Files of saves, with crashes and cut writes at any point of any session: do the backups stay in order, is the last good save kept, does the game find in it what was saved, whether or not its chip has been cut, and does a session without a store leave the backups alone as long as chip and file have one length? | yes, for the display in a tile mode, bytes to VRAM at even addresses, and with the limits named in section 4 |
| `Bus_vram_odd` | Is a byte to VRAM at an odd address doubled over its halfword? | no: see findings |
| `SaveFiles_eeprom` | ... and if they have two lengths? | no: see findings |
| `Cpu_swi` | With a BIOS image, does a service return to the instruction after the SWI? | no: see findings |

### Bounds

* `Machine_run`: a line of 3+2 cycles, 2 visible lines of 3, instructions of 1 or 2 cycles, calls
  of 7 cycles. An instruction can pass an event or end on it, an event can be late by one
  cycle, an interval can be as short as an instruction, calls end in every phase of a line,
  and every line kind occurs (first, visible, first and last of VBlank). The guest
  writes any subset of the sources to IF, three values to IE, two to DISPSTAT. `MaxBehind`
  keeps `step_n`, which dispatches nothing, from running on for ever; it does not limit
  `run_cycles`. The theorems of section 5 lift the safety part to all sizes. `FlagChoices` is
  empty here, since no step reads the guest's flags; `Machine_drivers` has them.
* `Machine_drift`: the same display without interrupts, one call for a frame.
* `Machine_drivers` is smaller in the display (one visible line of two) and has a DMA source and all
  drivers.
* `Units`: timers whose counters wrap at 4, prescalers 1 and 2, two of them, instructions up to
  3 cycles (4 with cascade), sleeps up to 6, chunks up to 5: a batch spans up to three
  overflows, and a sleep one to several chunks. `ReloadWrites` are register stores made by an
  event's DMA, after which the code does not tick; controls are stored by instructions, which are
  ticked before the next prediction. One DMA channel, six control settings that
  cover each timing and address mode, counts 0 and 1, addresses that wrap in the run. Channels
  share no state, so one stands for all; the FIFO ports exist on 1 and 2.
* `Sound`: FIFOs of 4 refilled by 2 at 2, timer periods of 3 cycles and
  instructions of up to 2, the proportions of the code in which a refill moves half a FIFO
  and a timer is slower than an instruction (the code's shortest useful period is hundreds of
  cycles). The two channels of the pair read from address 0, the one that is left alone from an
  address that the guest stores; it has frames of 4 cycles and a window of one frame. The cfg has
  the constants of the one that is left alone, which the properties use; those of the pair
  are in `MCSound`.
* `Apu`, generator: frequencies below 4, notes of 2 frame clocks, volumes to 2, wave banks of 8
  samples, noise of 4 and 3 bits, a sequencer step every 2 cycles and an output sample every
  8/3, batches of 1 and 5 cycles, so that a batch holds no, one or two samples and several
  steps; 4 stores, which suffice to set a channel up, start it, change it while it sounds and
  start it again. FIFO: 5 places, refill at 2, stores of 2 and 4: every position wraps, stores
  are cut. Output: the thresholds are scaled from 8192/6144/3072 samples; a frame is 3 chunks
  and `BUFFER_HIGH` plus a frame is exactly `BUFFER_CAP`, the tightest case `FrameFits` allows
  (in the code 3072 + 4*202 pairs of 4096).
* `Bus` and `SaveFiles_eeprom`, files: 3 backups of a chip made with 3 blocks and cut to 2, 4 writes,
  enough to fill every backup, 3 failures in a row: as many as there are backups, after which
  `LatestKept` promises nothing; imports that are shorter than the chip is at any time, and as long
  as it is made.
* `Bus`, flash: the three offsets of the protocol and one more in the sector of 0x5555,
  overlapping bytes at one offset, both sizes. EEPROM: addresses of 1 or 2 bits and blocks of 2,
  two blocks on the small chip and three on the large one, so that one address lies beyond them,
  and the lengths of all four commands differ, as they do in the code. Clock: an instant at the
  end of a 28th of February and the next one, in four kinds of transactions, one restart; the
  calendar is compared day by day over all days of 32-bit seconds, at every state. Memory: RAMs of
  8 bytes and a VRAM window of 16 of which 12 are memory, one value of each width, three stores
  (one in `Bus_vram_odd`), at all addresses of the window and its mirror; the objects' part
  in a bitmap mode is at five eighths of the window, as 0x14000 is. Registers: bytes of 4 values, seven pairs that
  stand for each way a store is treated. Services: 8 bytes, streams with literals, repeats that
  overlap themselves and ends inside of tokens, halfwords and words; divisions of
  numbers of 3 bits, whose results section 5 proves for all.
* `Units`, CPU: words of 12 bits, of which bytes and halfwords are quarters and halves, with the values
  where signs and carries turn; every Thumb instruction, with base registers in their own lists,
  unaligned addresses, and shifts by less than a word, a word and more. Banks: two writes, or
  exceptions, and any number of switches and returns, over four modes and three registers, one
  of each kind of bank. Program: two interrupts at any two instructions, the second one also
  inside the handler of the first; a program that calls, pushes, branches on flags, changes
  modes, halts and divides in both sets.
* `Cpu_swi`: the same CPU with a BIOS whose services return at once.

### Fairness

`Machine_run` assumes weak fairness of `Next`: the frontend calls `run_cycles` for as long as it
runs, and a call is straight-line code. No fairness is assumed of the guest or of any device.
`Apu` assumes it of each thread of its output stage: the emulation thread runs, and an SDL
device that plays asks for samples period after period (`init_audio` resumes it). If the device
stopped, the wait of the main loop would not end; that is outside the code. All other runs are
safety only.

Deadlock is checked everywhere but in `Cpu_swi`: there a behaviour about the encodings ends with
its instruction. In `Units` it ends with `Compared`, which repeats its last state.

## 4. Findings

Model checking shows the code to disagree with its own documentation in these runs:

* `Timers_cascade`: `tick` hands the next timer only whether the previous one overflowed, so a
  cascading timer counts one per batch (`timer.rs:145` against `ARCHITECTURE.md:505`).
* `Dma_irq`: a DMA that runs at once from the store to its control register never requests its
  completion interrupt (`bus/mod.rs:1203` against `PLAN.md:180`).
* `Cpu_swi`: with a BIOS image a software interrupt returns one instruction too late, since the
  return address is computed as if the pipeline had not advanced (`lib.rs:760`).
* `SaveFiles_eeprom`: an EEPROM exports 8192 bytes until a command shows that it has 512
  (`backup/eeprom.rs:54`, `:138`), so a session that stores nothing may compare a save of the one
  length with a file of the other, rotate the backups and write the file anew (against
  `main.rs:108`). Nothing of the save is lost by it: `SaveFound` holds.
* `Bus_vram_odd`: a byte stored to VRAM at an odd address leaves the other byte of its halfword and
  overwrites the first of the next one (`bus/mod.rs:511` against the comments at `:502`, `:509`).
* `Machine_drift`: events are rescheduled from the time of dispatch, so that the delays of a line's
  two events add up, and those of a frame's lines with them (`lib.rs:464` against
  `debug/concepts/scheduler.md:105`).

Met while reading and modelling, without a run of their own; the first two are stated in the
modules and TLC finds them violated, the first one if `Apu.cfg` names `PlaysWhatWasStored` as an
invariant, the second one if `Bus.cfg` says `BITMAP = TRUE`:

* Half of wave RAM cannot be stored to, and the wave channel plays from it (`apu/mod.rs:569`,
  `apu/psg.rs:291` against `apu/psg.rs:243`).
* A byte for the objects' part of VRAM is stored in bitmap modes, too (`bus/mod.rs:512` against
  `:510`).
* IntrWait keeps handlers of other interrupts from running (`lib.rs:391`;
  `debug/concepts/swi-halt-intrwait.md:275`).
* A CPU that halts under `step_one` never wakes (`lib.rs:850`); `step_n` leaves the IntrWait mask
  behind (`arm7tdmi/mod.rs:260`).
* A byte store to IF acknowledges pending requests of the other byte (`bus/mod.rs:1087`); byte
  stores to registers that cannot be read, timer reloads among them, lose the other byte.
* VBlankIntrWait returns at once if IF still holds an old request (`lib.rs:389`); it discards
  marks of the guest's handlers which nothing reads afterwards (`bios.rs:195`).
* A timer prescaler made smaller by a DMA store, after which nothing is ticked, lets the
  difference in the prediction be nought or wrap (`timer.rs:187`); `PredictionExact` and
  `SleepPopsExact` are checked and proved for DMA that stores reloads only.
* A DMA count above the channel's maximum is used as it is (`dma.rs:133`); a destination
  rewritten while a sound channel runs misleads the refill (`lib.rs:706`).
* In its first eight frames a one-shot sound buffer is overrun (`lib.rs:578`).
* A command sent to the EEPROM while it reads out is lost (`eeprom.rs:173`).
* The pacing loop ends at `BUFFER_HIGH`, not at the target (`main.rs:651`).
* The harness loses in-game saves at a reset (`harness.rs:91`); the keypad interrupt is never
  raised.
* `swi_div` ends the emulator on 0x80000000 / -1 (`bios.rs:231`), and so does the wave channel
  if its 64-sample mode is switched off while it plays the second half (`psg.rs:290`); Huffman
  unpacking walks one level of its tree and, without a leaf there, for ever (`bios.rs:573`).
* LZ77 for VRAM leaves out the last byte of an odd size and copies a stale byte for a distance of
  one; `swi_bit_unpack` does not cut values that are wider than their place.
* LDM with {..., PC}^ and writeback changes the new mode's base register (`arm.rs:555`).

Three of these are stated as the limits of a property: `Unpacked` asks an LZ77 stream for VRAM
to keep to distances above one and even sizes, `DivRight` leaves out that one quotient, and
`Sounding` states the bounds of the wave for notes whose registers are left alone.

In `Flash` a library that is out of step with the chip is in step after one whole command, except if
that command programs 0xAA at 0x5555, which looks like the beginning of another one
(`EndsLikeUnlock`); and a command cut before its last write can let the next one program 0xAA
at 0x5555. Both follow from the protocol as the code implements it.

## 5. Proofs

TLAPS checks every step of `MachineProofs`, `UnitsProofs`, `SoundProofs`, `ApuProofs`,
`SaveFilesProofs`, `BusProofs` and `ServiceProofs`, and of the lemmas about numbers they share,
`Numbers`. The theorems hold for all values of the constants that satisfy the named
assumptions of the modules, which TLC evaluates for the values of its runs:

* sizes, periods and rates are positive, bounds of the guest have the types of the fields they
  are stored to: `TimingAssumption`, `InputAssumption`, `LoopAssumption`, `DmaWritesAssumption`,
  `DmaAssumption`, `DisplayAssumption`, `FifoAssumption`, `BurstAssumption`, `SoundAssumption`,
  `AudioAssumption`, `SlotsAssumption`, `SaveAssumption`, `FlashAssumption`;
* `TimerAssumption` moreover says that a period times a prescaler fits the code's `u32` (0x10000 *
  1024 does); `PsgAssumption`, that the top bits of the noise register divide as powers of two do
  (0x4000 and 0x40 are) and that samples are no more frequent than cycles; `BanksAssumption`, that
  the registers followed include 13 and 14 and not the program counter, and that values are
  numbers, among them the 0 that registers hold at the start; `BusAssumption`, that memories consist
  of whole words, and the quarters of VRAM's window too, that a byte has an even number of values,
  and that the values stored have the widths they are called by; `EepromAssumption`, that the
  EEPROM's two sizes differ in their addresses and that no two commands have the same length
  (`eeprom.rs` tells 9 and 73 from 17 and 81); `RtcAssumption`, that time is counted in whole
  seconds and that the guest sends the transactions the protocol has; `ServicesAssumption`, that
  streams are made of tokens whose references stay within what the stream stands for, and that
  the bits of a unit divide those of a word (they are powers of two, up to the 32 of a word);
* `WidthAssumption`, that a word has whole bytes and that the powers of two up to its own double
  (the provers know no more of `2^n` than that); `EncodingsAssumption`, that the memory is made of
  whole words, that registers start with words of which the program counter is a multiple of four,
  and that the instructions are among those that have an ARM form (`ThumbForms`).

### The run loop

* `VideoAlwaysConsistent` (`TypeOK` and `VideoConsistent`): the invariant is `TypeOK`,
  `VideoConsistent` and `RunnableTime`: a CPU about to be stepped by `run_cycles` has time left
  before the next event and the target. Without the last part a sleep could have zero or negative
  length and the type of `lineClock` would be lost. The main lemma is `ElapseEffect`: letting time
  pass moves the one pending event closer and nothing else; each action is reduced to it.
* `LinesOnTime` (`LineLength`), for hosts that do not use `step_n`: `ClockInv` says that the line
  clock and the pending event add up to the length of the part of the line under way, plus what
  the HBlank event was late by, and that an event is late by less than `MaxCost`. The property
  bounds a line from both sides and does not say from where its events count: that the code
  counts from the dispatch, so that the delays add up, is `Machine_drift`.
* `NoStaleMask` (`MaskOnlyWhileHalted`), for the same hosts: only actions that clear `halted` clear
  the mask, and both are cleared together.
* `NoMissedWake` (`NoSleepThroughWake`): no request arises between the wake check and the return.
* `RequestsKept` (`NoRequestLost`), for guests that store halfwords to IF: no invariant is needed,
  each action adds requests to IF or is a store to it.

### Timers and DMA

* `BatchesAreCycles` (`BatchExact`), for timers that do not cascade (with cascade it is false, see
  `Timers_cascade`): what one timer does alone in n cycles and in n + 1 differs by one cycle
  (`AloneMore`, from the two divisions of `Increment`), so a batch of n cycles is n batches of
  one; `HwRunIsBatch` follows by `InductionTo`. The invariant `TimersInv` says that both copies
  of the timers are equal and within their types.
* `PredictionsCome` (`PredictionExact`) and `SleepLosesNoPop` (`SleepPopsExact`), if moreover the DMA
  of an event stores only reloads: then the cycles a prescaler has accumulated are fewer than its
  divider (`Settled`), which is what keeps the subtraction of `cycles_to_next_fifo_overflow` above
  zero. Stores of controls do break it, see section 4. `NextOverflow` solves the minimum over the
  FIFO timers; a chunk that ends there, or earlier, cannot hold two overflows of one timer.
* `FlagsAgree` (`ChannelsConsistent`): inductive with the types of the channels.
* `FramesTakeTheTable` (`TableThrough`): `OnTrack` says how far along its table a channel that was
  left alone is at each line, inside and outside of HBlank, as an equation of addresses modulo the
  width; a frame ends it at the multiple the property asks for.

### Sound

* `RingIsQueue` (`ImplementsQueue`): the refinement. In a `Ring` the write position is the read
  position plus the count, modulo the capacity. `PushByteEffect` and `PopEffect` say what the
  operations do to `Contents`, `PushAllEffect` follows a burst by `InductionTo`.
* `NoSampleLost` (`NothingLost`) and `PrimedStaysFilled` (`StaysFilled`), under `Exclusive` (each DMA
  channel is programmed for a port of its own: the source gives channel 1 FIFO A and channel 2
  FIFO B) and `Halves` (a transfer is half a FIFO, 16 of 32). `SoundInv` says that the FIFOs are
  rings, the channels aim where they were told to, and a primed FIFO is at least half full and has
  a channel that feeds it: a pop takes it to half, and the request of the same overflow fills it.
* `SamplesInOrder` (`StreamInOrder`), under the same two: `InStream` says that the samples of a FIFO
  follow each other and that the channel that feeds it goes on where they end (`GoesOn`) or has been
  taken back to a start (`Returned`). Without the place of the channel the order is not
  inductive. `PopInOrder` and `FedInOrder` say what the two ends of the queue do to it; that only
  one channel feeds a FIFO is what `Exclusive` is needed for.
* `BufferReplayed` (`StaleStaysInBuffer`), under the same two, `Ported` (channels are programmed for
  ports only) and `LeftAlone` (nothing is written to SOUNDCNT_H, as in the run's instance "alone"):
  `Near` says that a channel is at most as far from its start as samples were popped since and
  its FIFO holds. `Walk` says of every pop, refill and batch that where a channel went, a FIFO
  that it feeds took; `BatchPhase` that an overflow of the timer costs its period, so that the
  overflows since the last VBlank are bounded by the cycles since, plus what the timer was about
  to overflow with (`Lead`, `Phase`). `PlayInv` adds that the timer reloads with 0 and clocks each
  FIFO, and that a channel too young to have been moved back by the last VBlank is not asked
  about. The property's bound (`PerFrame`) is the one this argument gives: it counts the last
  instruction of a frame once, and with `Slowest` what a timer keeps when it is switched from a
  slower prescaler to a faster one while it runs, which brings its next overflow forward. The
  run has a single prescaler, for which that part is 0; the theorem has any set of them.
* `NotesEnd` (`Sounding`): the invariant is made of `Steady` (a note that sounds has a length to
  count) and, while its registers are left alone, `Untouched` (its sweep is within the
  frequencies, its noise alive, its position within the wave); `Carries` says that each unit of a
  channel hands them on, one lemma for each (length, envelope, sweep, noise). `NoiseGoesOn` shows
  that a shift never clears the noise register, or its short part when that is what is heard.
* `BatchesOfSound` (`BatchExact` of the generator): a batch goes the fast path only if the channel
  is off and stays off, so that the samples depend on the FIFO level alone. The chunks between
  samples gather what single cycles gather (`ChunkGathers`, `FastGathers`), and the sequencer is
  clocked as often (`BatchClocks`): two courses, each by `InductionTo`, that meet at the end of
  the batch.
* `NoSampleDropped` (`NothingDropped`), under `FrameFits`, which the constants of the code
  satisfy: the invariant bounds the shared buffer by `BUFFER_HIGH` plus the chunks pushed since
  the last wait.
* `StagesKeepTheirOwn`: `ApuSpec` implies the specifications of the three stages, so that their
  theorems hold of the composition that is run.

### Save files

* `LatestSaveKept` (`LatestKept`): `Reachable` says where the last whole save is. Each failed attempt,
  and the present one once its renaming has come past, moves it by at most one slot; and the
  slot a rename moves to is empty, so that no rename overwrites it.
* `SavesFound` (`SaveFound`): `Unchanged` says that the file of the last whole save shows the game
  what it was written with, and that until something is stored the chip holds what was read from
  it, cut or not; `ImportShows`, that neither reading nor cutting changes what is shown.
* `OpeningIsNoSave` (`OpenAndCloseSameSize`): until something is stored the chip holds what was read
  from the file of the last whole save, cut or not (`Unchanged`), and if that has the length of the
  file it is the file (`SameLengthSameData`). Without the length it is false, see
  `SaveFiles_eeprom`; for chips with `GAME_SIZE = FULL` there is only one length.
* `BackupsInOrder` (`NewestFirst`): versions are bounded by the last write and strictly descend;
  each removal, rename and write keeps that, for any number of slots.

### The bus: flash chip, EEPROM, memories, registers, division

* `StoresAreSeen` (`LoadsSeeStores`), for a display in a tile mode and bytes to VRAM at even
  addresses (without either it is false, see `Bus_vram_odd` and section 4): `MemoryInv` gives the array and its history one shape and says
  that each byte is one that the stores may have left. `Indices` says where the mirrors of an
  address and its neighbours are, for VRAM's window of four quarters over a memory of three as
  well; `LoadsAgree`, `MirrorsAgree` and `LatchLoads` follow from it for all widths, `WideStores`
  and `ByteStores` say that a store leaves in each byte what its region's bus makes of it.
* `HalvesHold` (`HalvesKept`): `Fits` says that each byte of a half is one it may hold, of a reference
  point that the second half is the extended sign of what was stored there, and what stays in
  DISPSTAT and POSTFLG. `SignSpreads` shows that the extension of the sign leaves the first half
  alone and can be repeated, which each later store to the first half does. `ByteFits` says
  what a byte stored does to its neighbour, `AndNotType` that acknowledging all that is read
  of IF clears it. A word is two halves; `TimerCounts` says which reload a start takes.
* `DivisionsRound` (`DivRight`, which is proved for all numbers and therefore in no run): one lemma
  about quotients of magnitudes, and the four signs.
* `Recovery` (`SequenceRecovers`) and `CommandsKeepPromises` (`CommandTakesEffect`): in `Protocol` the
  chip is, while a command is sent, where the writes so far have brought it (`OnTheWay`): from the
  state it waits for commands in if the two were in step, from any state if not. What is
  promised is counted from the data as they are, since only the last write touches them.
  `Arrival` says where the last write leads, `Delivery` what it leaves.
* `ErasureBySector` (`ErasedInSectors`): whatever is stored, a bit comes back only with its sector.
  The invariant gives the data array its shape and says that `BankSwitch` is entered on 128 KB
  chips only, so that the selected bank exists.
* `BlocksStay` (`BlocksKept`) and `BlocksComeBack` (`ReadsBack`): in `EepromInv` the chip takes
  itself for the size the game takes it for or has not found out (`ChipType`), holds what was
  saved (`Holds`), and is ready for a command or has a rest of a block to be read (`Steady`); if
  the library is in step with it, it is ready, or reads out the block that was asked for
  (`InTurn`). A transfer is followed bit by bit: `Taken` and `Addressed` lead through command and
  address, `Written` through the bits of a block, `Asked` to the read-out; `Lost` says that a
  command to a chip that reads out leaves nothing but what its length tells (`Sizing`),
  `ReadThrough` that a whole read takes what is left and ends it. Without the rest's length in
  `Steady`, a read of whatever the chip had left need not end it. `NewEeprom` is the way through
  the save file.
* `CartridgeKeepsPromises`: `BusSpec` implies the chip's specification (`FlashPart`), so that the
  three theorems hold of the composition that is run.

### The clock of the cartridge

* `CalendarGoesOn`: the code finds the date of a day by divisions alone (`days_to_ymd`). `YearFound`
  and `MonthFound` say that they find the year of the era of 400 years and the month of the
  year, both counted from March, so that a leap day is the last of its year; `YearThere`, by
  `InductionTo`, that every day of an era is a day of one of its years. `NextDate` goes from a
  day of a year to the next one, in its month, over the month's end and over the year's; and
  `DateFollows` over the end of an era. TLC compares the days of 32-bit seconds, the theorem
  has no last day. `CalendarKept` (`CalendarRight`) is what the run asks.
* `AnswersOneInstant` (`ReadsOneInstant`): the inductive invariant `ClockInv` says, for each place in
  a transaction, where the library and the chip stand towards each other (`Stage`): the pins are
  being set and the chip selected (`Opened`), so many bits of the command are in (`Commanded`),
  so many of the payload (`Provided`), it has been carried out (`Executed`), so many bits of the
  answer have been read and the shift register holds the rest (`Told`), or it is over (`Ended`).
  From `Executed` on the answer is fixed, `Truths` says to what: the bytes of one instant
  between the begin and now. The status is one that completed or broken off writes allow
  (`After`). Outside of a transaction the invariant asks nothing of the chip but its type and
  status, since selecting it anew clears the rest; this is why a transaction that was
  broken off, at any bit, does no harm. `CommandBit` and `DataBit` put the bits together, from the
  most and from the least significant end; `ScriptShape` says which access stands at which place.

### The services of the BIOS

* `StreamsUnpacked` (`Unpacked`): for every stream, memory, place and size. `Reached` says where a
  decompressor is after so many bytes of so many tokens: how much is out, that what is shown so far
  lies where it should, and that nothing else has changed. What is shown (`Shown`) is the memory
  and, for VRAM, the first byte of a pair, which waits in the buffer; `EmitEffect` says that a byte
  put out is the next one shown, in both modes. `ByteStep` adds one byte: a reference to a byte
  before the pair that waits reads what is shown, and this is what `ForVram` is needed for.
  `TokenStep` and `StreamLoop` take the two loops to their ends, past the size as well. A copy is
  at each unit what is put so far (`CopyStep`), as long as it does not run into what it has
  still to read; `GatherStep` says the same of the words of BitUnPack and of the sum in its buffer,
  and `BitUnpackRight` that the last word is stored when it is not full, and only then. The
  division is among the theorems of the bus.

### CPU

* `BanksAreRegisterFile` (`ImplementsRegisterFile`): the banks refine `RegisterFile`, through any
  number of mode switches, exceptions and returns. The invariant is the shape of the machine
  (`Machine`), which the refinement mapping needs: a bank that is not there has no content. One
  lemma for each operation says what it does to the file and to the saved statuses as the
  mapping reads them. The main one is `SwitchKeeps`: a switch moves registers between `regs` and
  the banks, by the kind of the register, and each one's content is where the mapping looks for
  it afterwards. `RegEffect` says that a store to a register at hand is one to the current mode's
  own. Exceptions and returns are sequences of these.
* `InstructionsSame` and `ThumbDoesAsArm` (`ThumbIsArm`): for every width of a word, memory and
  machine, and every Thumb instruction with an ARM form. One lemma for each format unfolds the
  two handlers until the same operation stands on both sides. `ArmData` does it once for data
  processing, with and without the S bit; `PlainOperand` and `NumberOperand` say that the operands
  of the ARM form are those of the Thumb instruction; for MOV, AND and their like, V must be
  what it was, which the ARM handler writes and the Thumb handler leaves (`FlagsOfShifts`,
  `FlagsOfLogic`). Loads and stores of several registers differ most: `StoresAre` and `LoadsAre`
  lead the ARM handler's loop over the registers to the list that the Thumb handlers take in
  one step, with a base that is in its own list and without, and a program counter at the end.
  `ThumbForms` has an empty list for LDMIA only: STMIA stores R15 two ahead where ARM
  stores it four ahead (`thumb.rs:581`, `arm.rs:467`), and PUSH and POP move nothing.
* `NumbersRight` (`ArithmeticRight`): `AdderRight` says of the adder that its carry is the digit
  left over and its overflow a sum that no signed word holds, `SubtractorRight` the same of a
  difference, through the complement. From these `ComparisonRight` has the order of the operands,
  unsigned from the carry and signed from N and V, and `ConditionsAre` takes it to the ten
  conditions. `ShiftedIsDivided` says of both shifts to the right that they divide and round
  down, for every amount from none to more than a word.

### What the proofs need of the models

What the models compute step by step (a burst, a batch, cycles of hardware) is written as a
recursive function or a fold, and a proof follows it by `InductionTo` of `Numbers`. That lemma
takes what is to be shown as a set, not as an operator, which the provers could not instantiate,
and follows from the theorems about finite sets: the numbers up to n that the set lacks could be
moved down by one into themselves, but an injection of a finite set into itself hits every member,
n among them. `Repeated` gives, from it, the loops that are recursive functions: if each step
leads from one set of a family to the next one, there is such a function and its values are
in the sets (`Loop`). The sets are the invariant of the loop, so that one lemma serves all of
them. `Services` was written with folds before, of which the provers know nothing, and is
written with such functions since. One attempt failed for a good reason: in `Psg` the cases of the envelope, the tick
and the output overlapped, so that which one applied was TLC's choice of the first and not the
code's; they are exclusive now, and so are those of `Touched` in `Memory`, whose `AndNot` was
for bytes of four values and is for bytes of any width since.

### Only model-checked

* the liveness properties (`DisplayRuns`, `VBlankWaitReturns`, `IrqServed`, `FramesGoOn`), since
  liveness under fairness and ENABLED are out of the prover's reach;
* `Transparent`: that a program does not see its interrupts. It relates two machines through any
  program, with handlers within handlers, and what has to be said in between (the pipeline, the
  registers a handler has put on its stack, the instruction it was entered from) is the
  state of the handler at each of its instructions. TLC checks it for the programs of the run.

## 6. Plan, and what is not modelled

Planned, in this order:

1. `Machine` with the entry to interrupts of `BanksCore` in place of the flag `irqDisabled`.
2. Runs for those disagreements of section 4 that have none.

Not modelled, and not planned:

* Save states: what is saved and what is skipped is declared by attributes on the structures; the
  hazards list the skipped fields. There are no steps to model.
* PPU drawing: pixels are a function of memory and registers at HBlank on which nothing else
  depends; a model would repeat the drawing, with nothing to compare it with.
* Keypad, disassembler, diagnostics, headless harness, video output and input: single registers,
  formatting, and calls into SDL or the core.
* In the modelled parts: costs of instructions, wait states and the prefetch buffer (`Machine`
  takes every cost up to its bound); the place of fields in an opcode (instructions are
  records); undefined instructions, which the code ignores with a trace; the F bit, since the
  machine has no fast interrupts; Huffman unpacking, square root, arc tangent, the affine
  services, SoftReset and RegisterRamReset (pure functions of numbers, and stores of constants).
