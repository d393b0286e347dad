------------------------------ MODULE Machine ------------------------------
(***************************************************************************)
(* The main loop of the emulator (gba-core/src/lib.rs): the event          *)
(* scheduler, the display timing it drives, the interrupt controller, and  *)
(* the sleep states of the CPU (HALTCNT, SWI Halt, SWI IntrWait).          *)
(*                                                                         *)
(* The CPU executes an arbitrary guest program: each instruction costs     *)
(* 1..MaxCost cycles and does one of the things below to the state that    *)
(* the loop looks at.  Timers, DMA and the APU appear only through the     *)
(* interrupts they may raise (DevIrqs); their own modules say when.        *)
(*                                                                         *)
(* Time is kept relative to the scheduler's timestamp: `due` of an event   *)
(* is fire_time - timestamp (negative when the event is overdue), and      *)
(* `budget` is target_time - timestamp.                                    *)
(***************************************************************************)
EXTENDS Integers, FiniteSets

CONSTANTS
  HDRAW_CYCLES,   \* visible part of a scanline, in cycles (960 in the code)
  HBLANK_CYCLES,  \* blank part of a scanline (272)
  VISIBLE_LINES,  \* 160
  LINES_PER_FRAME,\* 228
  MaxCost,        \* bound: the longest instruction, in cycles
  DevIrqs,        \* interrupt sources of the timers and DMA channels
  Chunks,         \* bound: the arguments run_cycles is called with
  Drivers,        \* the entry points of Gba the host uses
  IeChoices,      \* bound: values the guest writes to IE
  EnableChoices,  \* bound: IRQ-enable bits the guest writes to DISPSTAT
  LycChoices,     \* bound: VCount settings the guest writes to DISPSTAT
  FlagChoices,    \* bound: what the guest writes to 0x03007FF8
  MaxBehind,      \* bound: how far step_n, which dispatches nothing, runs
                  \* past the pending event
  ByteAccess      \* whether the guest stores single bytes to IF

VideoIrqs == {"VBlank", "HBlank", "VCountMatch"}
Irq == VideoIrqs \cup DevIrqs

\* Bits 8..15 of IE and IF; the other sources are in bits 0..7.
HighIrqs == {"Dma0", "Dma1", "Dma2", "Dma3", "Keypad", "GamePak"}
IfByte(high) == IF high THEN Irq \cap HighIrqs ELSE Irq \ HighIrqs

AllDrivers == {"run_cycles", "step_one", "step_n"}

ASSUME TimingAssumption ==
  /\ HDRAW_CYCLES \in Nat \ {0}
  /\ HBLANK_CYCLES \in Nat \ {0}
  /\ VISIBLE_LINES \in Nat \ {0}
  /\ LINES_PER_FRAME \in Nat
  /\ VISIBLE_LINES < LINES_PER_FRAME
  /\ MaxCost \in Nat \ {0}
  /\ MaxBehind \in Nat

ASSUME InputAssumption ==
  /\ Chunks \subseteq Nat \ {0}
  /\ Drivers \subseteq AllDrivers
  /\ IeChoices \subseteq SUBSET Irq
  /\ EnableChoices \subseteq SUBSET VideoIrqs
  /\ LycChoices \subseteq Nat
  /\ FlagChoices \subseteq SUBSET Irq
  /\ ByteAccess \in BOOLEAN

VARIABLES
  pc,            \* where the host thread is: "host", "step" or "dispatch"
  driver,        \* the entry point it is in
  budget,        \* target_time - timestamp of the run_cycles call
  events,        \* Scheduler.events
  vcount,        \* io.vcount
  dispstat,      \* io.dispstat: three flags, enabled IRQs, VCount setting
  ie, ir, ime,   \* InterruptController
  irqDisabled,   \* the I bit of CPSR
  halted,        \* cpu.halted
  intrwait_mask, \* cpu.intrwait_mask as a set of sources; {} is 0
  bios_flags,    \* the guest's word of served interrupts, at 0x03007FF8
  lineClock      \* history: cycles since VCOUNT last changed

ioVars == <<dispstat, ie, ime>>
sleepVars == <<halted, intrwait_mask, bios_flags>>
vars == <<pc, driver, budget, events, vcount, dispstat, ie, ir, ime,
          irqDisabled, halted, intrwait_mask, bios_flags, lineClock>>

Event == [kind : {"HBlank", "HBlankEnd"}, due : Int]
-----------------------------------------------------------------------------
(* Scheduler *)

AddCycles(c) == {[e EXCEPT !.due = @ - c] : e \in events}
\* Mutant: an event is ready only once its time has passed.
Ready_Strict == {e \in events : e.due < 0}
Ready == {e \in events : e.due <= 0}
IsNext(e) == \A f \in events : e.due <= f.due
\* peek_time().unwrap_or(target_time).min(target_time), as cycles from now
\* Mutant: the events of a call are left for its end.
Gap_TargetOnly(evs, left) == left
Gap(evs, left) ==
  LET times == {e.due : e \in evs} \cup {left}
  IN  CHOOSE t \in times : \A u \in times : t <= u

(* Interrupt controller *)

HasPending == ime /\ ie \cap ir # {}
IrqTaken == HasPending /\ ~irqDisabled
\* Mutant: wake when exactly the awaited sources are pending.
WakeEligible_Exact ==
  IF intrwait_mask # {} THEN ie \cap ir = intrwait_mask ELSE ie \cap ir # {}
WakeEligible ==
  IF intrwait_mask # {} THEN ie \cap ir \cap intrwait_mask # {}
  ELSE ie \cap ir # {}
-----------------------------------------------------------------------------
(* Gba::new: the first HBlank is scheduled and the CPU runs.  Cpu::new     *)
(* starts with interrupts masked, new_skip_bios with interrupts enabled.   *)
Init ==
  /\ pc = "host" /\ driver \in Drivers /\ budget = 0
  /\ events = {[kind |-> "HBlank", due |-> HDRAW_CYCLES]}
  /\ vcount = 0
  /\ dispstat = [vblank |-> FALSE, hblank |-> FALSE, match |-> FALSE,
                 enable |-> {}, lyc |-> 0]
  /\ ie = {} /\ ir = {} /\ ime = FALSE
  /\ irqDisabled \in BOOLEAN
  /\ halted = FALSE /\ intrwait_mask = {} /\ bios_flags = {}
  /\ lineClock = 0

(* The host calls run_cycles(n), step_one() or step_n(1). *)
Call(d) ==
  /\ pc = "host" /\ d \in Drivers
  /\ d = "step_n" => \A e \in events : e.due > -MaxBehind
  /\ driver' = d
  /\ budget' \in IF d = "run_cycles" THEN Chunks ELSE {0}
  /\ pc' = IF d = "run_cycles" /\ Gap(events, budget') <= 0 THEN "dispatch" ELSE "step"
  /\ UNCHANGED <<events, vcount, ioVars, ir, irqDisabled, sleepVars, lineClock>>

(* Where control goes once an instruction has been executed: run_cycles    *)
(* goes on until the next event or the target, step_one looks for ready    *)
(* events after one instruction, step_n never does.                        *)
After(evs, left) ==
  CASE driver = "run_cycles" -> IF Gap(evs, left) > 0 THEN "step" ELSE "dispatch"
    [] driver = "step_one"   -> "dispatch"
    [] driver = "step_n"     -> "host"

Elapse(c) ==
  /\ events' = AddCycles(c)
  /\ lineClock' = lineClock + c
  /\ budget' = IF driver = "run_cycles" THEN budget - c ELSE budget
  /\ pc' = After(events', budget')
  /\ UNCHANGED <<driver, vcount>>

(* One instruction: cpu.step, then tick_timers, which raises interrupts of *)
(* the devices on top of what the instruction left in IF (irAfter).        *)
Execute(irAfter) ==
  /\ pc = "step" /\ ~halted /\ ~IrqTaken
  /\ \E c \in 1..MaxCost : Elapse(c)
  /\ \E T \in SUBSET DevIrqs : ir' = irAfter \cup T

(* A pending interrupt is taken before the instruction; the one executed   *)
(* in the same step is the first of the handler.  A halted CPU is stepped  *)
(* by step_n only, and wakes here.                                         *)
TakeIrq ==
  /\ pc = "step" /\ IrqTaken
  /\ halted => driver = "step_n"
  /\ \E c \in 1..MaxCost : Elapse(c)
  /\ \E T \in SUBSET DevIrqs : ir' = ir \cup T
  /\ irqDisabled' = TRUE
  /\ halted' = FALSE
  /\ UNCHANGED <<ioVars, intrwait_mask, bios_flags>>

(* cpu.step on a halted CPU with nothing to take: one idle cycle. *)
StepHalted ==
  /\ pc = "step" /\ driver = "step_n" /\ halted /\ ~IrqTaken
  /\ Elapse(1)
  /\ \E T \in SUBSET DevIrqs : ir' = ir \cup T
  /\ UNCHANGED <<ioVars, irqDisabled, sleepVars>>

Compute ==
  /\ Execute(ir)
  /\ UNCHANGED <<ioVars, irqDisabled, sleepVars>>

(* MSR, or the return from the handler that restores SPSR. *)
SetIrqDisabled ==
  /\ Execute(ir)
  /\ irqDisabled' = ~irqDisabled
  /\ UNCHANGED <<ioVars, sleepVars>>

WriteIE(v) ==
  /\ Execute(ir)
  /\ ie' = v
  /\ UNCHANGED <<dispstat, ime, irqDisabled, sleepVars>>

WriteIME ==
  /\ Execute(ir)
  /\ ime' = ~ime
  /\ UNCHANGED <<dispstat, ie, irqDisabled, sleepVars>>

(* A halfword store to IF clears the bits written as 1. *)
WriteIF(v) ==
  /\ Execute(ir \ v)
  /\ UNCHANGED <<ioVars, irqDisabled, sleepVars>>

(* A byte store to IF goes through write_io8: it reads the register,       *)
(* replaces one byte of the value and writes the halfword back.            *)
WriteIFByte(high, v) ==
  /\ ByteAccess /\ v \subseteq IfByte(high)
  /\ Execute(ir \ (v \cup (ir \cap IfByte(~high))))
  /\ UNCHANGED <<ioVars, irqDisabled, sleepVars>>

(* A store to DISPSTAT leaves its three flags alone. *)
\* Mutant: the flags are overwritten as well.
StoreDispstat_All(en, lyc) ==
  [dispstat EXCEPT !.enable = en, !.lyc = lyc, !.hblank = FALSE]
StoreDispstat(en, lyc) == [dispstat EXCEPT !.enable = en, !.lyc = lyc]
WriteDispstat(en, lyc) ==
  /\ Execute(ir)
  /\ dispstat' = StoreDispstat(en, lyc)
  /\ UNCHANGED <<ie, ime, irqDisabled, sleepVars>>

(* A store to HALTCNT (halt_requested), or SWI 2 and 3. *)
Halt ==
  /\ Execute(ir)
  /\ halted' = TRUE
  /\ UNCHANGED <<ioVars, irqDisabled, intrwait_mask, bios_flags>>

(* The guest's handlers mark in its memory what they have served. *)
WriteFlags(v) ==
  /\ Execute(ir)
  /\ bios_flags' = v
  /\ UNCHANGED <<ioVars, irqDisabled, halted, intrwait_mask>>

(* SWI 4 and 5 when no BIOS image is loaded.  The marks are discarded if   *)
(* the guest asks for it; the wait does not look at them.                  *)
IntrWait(discard, flags) ==
  /\ Execute(ir)
  /\ bios_flags' = IF discard THEN bios_flags \ flags ELSE bios_flags
  /\ halted' = TRUE
  /\ intrwait_mask' = IF flags # {} THEN flags ELSE Irq
  /\ UNCHANGED <<ioVars, irqDisabled>>

(* run_cycles with the CPU halted: the clock, the APU and the timers are   *)
(* advanced to the next event or the target, whichever comes first.        *)
HaltSpan ==
  /\ pc = "step" /\ driver = "run_cycles" /\ halted
  /\ Elapse(Gap(events, budget))
  /\ \E T \in SUBSET DevIrqs : ir' = ir \cup T
  /\ UNCHANGED <<ioVars, irqDisabled, sleepVars>>

(* step_one with the CPU halted adds one cycle and ticks nothing. *)
IdleOne ==
  /\ pc = "step" /\ driver = "step_one" /\ halted
  /\ Elapse(1)
  /\ UNCHANGED <<ioVars, ir, irqDisabled, sleepVars>>
-----------------------------------------------------------------------------
(* handle_event.  Both handlers are run with the timestamp of the moment   *)
(* they are dispatched, and schedule their successor from there.           *)
Reschedule(e, kind, cycles) ==
  events' = (events \ {e}) \cup {[kind |-> kind, due |-> cycles]}

(* InterruptController::request sets bits of IF and keeps the others. *)
\* Mutant: a request replaces what is pending.
Requested_Only(irqs) == irqs
Requested(irqs) == ir \cup irqs

(* HBlank-timed DMA runs on visible lines only. *)
HBlankDmaIrqs == IF vcount < VISIBLE_LINES THEN SUBSET DevIrqs ELSE {{}}

HandleHBlank(e) ==
  /\ e.kind = "HBlank"
  /\ dispstat' = [dispstat EXCEPT !.hblank = TRUE]
  /\ \E D \in HBlankDmaIrqs :
       ir' = Requested(({"HBlank"} \cap dispstat.enable) \cup D)
  /\ Reschedule(e, "HBlankEnd", HBLANK_CYCLES)
  /\ UNCHANGED <<vcount, lineClock>>

VBlankFlag(line) ==
  IF line = VISIBLE_LINES THEN TRUE
  ELSE IF line = 0 THEN FALSE ELSE dispstat.vblank

NextLine == (vcount + 1) % LINES_PER_FRAME

HandleHBlankEnd(e) ==
  /\ e.kind = "HBlankEnd"
  /\ vcount' = NextLine
  /\ LET match == vcount' = dispstat.lyc
         start == vcount' = VISIBLE_LINES
     IN  /\ dispstat' = [dispstat EXCEPT !.hblank = FALSE, !.match = match,
                                         !.vblank = VBlankFlag(vcount')]
         /\ \E D \in IF start THEN SUBSET DevIrqs ELSE {{}} :
              ir' = Requested(
                D \cup (IF match THEN {"VCountMatch"} \cap dispstat.enable ELSE {})
                  \cup (IF start THEN {"VBlank"} \cap dispstat.enable ELSE {}))
  /\ Reschedule(e, "HBlank", HDRAW_CYCLES)
  /\ lineClock' = 0

(* pop_if_ready takes an earliest event whose time has come. *)
Dispatch ==
  /\ pc = "dispatch"
  /\ \E e \in Ready : IsNext(e) /\ (HandleHBlank(e) \/ HandleHBlankEnd(e))
  /\ UNCHANGED <<pc, driver, budget, ie, ime, irqDisabled, sleepVars>>

(* The wake check run_cycles makes after the events, in each iteration. *)
\* Mutants: the check asks for IME, or for an IntrWait mask.
Wakes_Ime == driver = "run_cycles" /\ halted /\ WakeEligible /\ ime
Wakes_MaskOnly ==
  driver = "run_cycles" /\ halted /\ ie \cap ir \cap intrwait_mask # {}
Wakes == driver = "run_cycles" /\ halted /\ WakeEligible

\* Mutant: the mask survives the wake.
MaskAfterCheck_Kept == intrwait_mask
MaskAfterCheck == IF Wakes THEN {} ELSE intrwait_mask

EndIteration ==
  /\ pc = "dispatch" /\ Ready = {}
  /\ halted' = (halted /\ ~Wakes)
  /\ intrwait_mask' = MaskAfterCheck /\ UNCHANGED bios_flags
  /\ pc' = IF budget > 0 THEN "step" ELSE "host"
  /\ UNCHANGED <<driver, budget, events, vcount, ioVars, ir, irqDisabled, lineClock>>
-----------------------------------------------------------------------------
Instruction ==
  \/ Compute \/ SetIrqDisabled \/ WriteIME \/ Halt
  \/ \E v \in IeChoices : WriteIE(v)
  \/ \E v \in SUBSET Irq : WriteIF(v)
  \/ \E high \in BOOLEAN, v \in SUBSET Irq : WriteIFByte(high, v)
  \/ \E en \in EnableChoices, lyc \in LycChoices : WriteDispstat(en, lyc)
  \/ \E v \in FlagChoices : WriteFlags(v)
  \/ \E discard \in BOOLEAN, flags \in SUBSET VideoIrqs : IntrWait(discard, flags)

\* Everything the emulator does inside a call; the host's calls are apart.
Loop ==
  \/ Instruction \/ TakeIrq \/ StepHalted \/ HaltSpan \/ IdleOne
  \/ Dispatch \/ EndIteration

Next == Loop \/ \E d \in AllDrivers : Call(d)

Spec == Init /\ [][Next]_vars

(* The frontend calls the emulator once per frame for as long as it runs,  *)
(* and a call is straight-line code that comes back.                       *)
FairSpec == Spec /\ WF_vars(Next)
-----------------------------------------------------------------------------
TypeOK ==
  /\ pc \in {"host", "step", "dispatch"}
  /\ driver \in AllDrivers
  /\ budget \in Int
  /\ events \subseteq Event
  /\ vcount \in 0..(LINES_PER_FRAME - 1)
  /\ dispstat \in [vblank : BOOLEAN, hblank : BOOLEAN, match : BOOLEAN,
                   enable : SUBSET VideoIrqs, lyc : Nat]
  /\ ie \subseteq Irq /\ ir \subseteq Irq /\ ime \in BOOLEAN
  /\ irqDisabled \in BOOLEAN
  /\ halted \in BOOLEAN /\ intrwait_mask \subseteq Irq /\ bios_flags \subseteq Irq
  /\ lineClock \in Nat

CYCLES_PER_LINE == HDRAW_CYCLES + HBLANK_CYCLES

(* There is always exactly one display event pending: each handler posts   *)
(* its successor and nothing else does, whatever the guest or the host     *)
(* does in between.  The HBlank and VBlank flags of DISPSTAT, which the    *)
(* guest polls and may not overwrite, agree with it and with VCOUNT.       *)
VideoConsistent ==
  /\ \E e \in events : events = {e} /\ (dispstat.hblank <=> e.kind = "HBlankEnd")
  /\ dispstat.vblank <=> vcount >= VISIBLE_LINES

(* However the guest's instructions fall, and whether the CPU runs or      *)
(* sleeps, a scanline takes its cycles but for less than two instructions: *)
(* each of its events is dispatched at the first instruction boundary      *)
(* after it is due.  (Entry points that dispatch events only.)             *)
LineTakes(slack) == lineClock \in (CYCLES_PER_LINE - slack)..(CYCLES_PER_LINE + slack)
LineLength == [][vcount' # vcount => LineTakes(2 * (MaxCost - 1))]_vars

(* "HBlank (at 960) pushes HBlankEnd (at 1232), HBlankEnd (at 1232) pushes *)
(* next HBlank (at 2192), ...forever" (debug/concepts/scheduler.md): an    *)
(* event that is dispatched late does not put off the ones after it.  A    *)
(* line, which begins and ends less than an instruction late, then takes   *)
(* its cycles but for less than one instruction, and delays do not add up. *)
LinesOnSchedule == [][vcount' # vcount => LineTakes(MaxCost - 1)]_vars

(* cpu.intrwait_mask is "cleared on wake": a mask left over from an earlier *)
(* IntrWait would make a later HALTCNT sleep ignore the other sources.     *)
MaskOnlyWhileHalted == intrwait_mask # {} => halted

(* run_cycles never returns to the host with the CPU asleep although a     *)
(* source that should wake it is enabled and requested.                    *)
NoSleepThroughWake ==
  pc = "host" /\ driver = "run_cycles" => ~(halted /\ WakeEligible)

(* A request in IF goes away only by a store to IF, "write 1 to            *)
(* acknowledge" (interrupt.rs): not by other requests, by interrupt entry, *)
(* by sleeping and waking, or between two calls of any entry points.       *)
(* (ByteAccess FALSE: a byte store to IF acknowledges the other byte, too.) *)
NoRequestLost ==
  [][ir \subseteq ir' \/ \E v \in SUBSET Irq : ir \ ir' \subseteq v /\ WriteIF(v)]_vars

(* The display never stops: every line comes round again, whether the CPU  *)
(* runs, sleeps or is never woken.                                         *)
DisplayRuns == \A line \in 0..(LINES_PER_FRAME - 1) : []<>(vcount = line)

(* A guest asleep in VBlankIntrWait with the VBlank interrupt switched on  *)
(* in DISPSTAT and IE is woken.                                            *)
VBlankWaitReturns ==
  (/\ halted /\ intrwait_mask = {"VBlank"}
   /\ "VBlank" \in ie /\ "VBlank" \in dispstat.enable) ~> ~halted

(* An interrupt the CPU accepts is taken, also when it is requested while  *)
(* the CPU sleeps in HALTCNT.                                              *)
IrqServed == (IrqTaken /\ intrwait_mask = {}) ~> irqDisabled
=============================================================================
