---------------------------- MODULE MachineProofs ----------------------------
(***************************************************************************)
(* Theorems about the main loop, for every length of a scanline, every     *)
(* number of lines, every guest program and every set of devices.          *)
(***************************************************************************)
EXTENDS Machine, TLAPS

(* A CPU that run_cycles is about to step has time left, both before the   *)
(* next event and before the target: it makes progress when it sleeps.     *)
RunnableTime ==
  pc = "step" /\ driver = "run_cycles" => budget > 0 /\ Ready = {}

Inv == TypeOK /\ VideoConsistent /\ RunnableTime

(* With one event pending, the span to run is to it or to the target. *)
LEMMA GapOfOne ==
  ASSUME NEW e \in Event, NEW left \in Int
  PROVE  Gap({e}, left) = IF e.due <= left THEN e.due ELSE left
<1> DEFINE times == {f.due : f \in {e}} \cup {left}
<1>1. times = {e.due, left}
  OBVIOUS
<1>2. e.due \in Int
  BY DEF Event
<1>3. \A t \in times : (\A u \in times : t <= u)
        <=> t = IF e.due <= left THEN e.due ELSE left
  BY <1>1, <1>2
<1>4. (IF e.due <= left THEN e.due ELSE left) \in times
  BY <1>1
<1>5. Gap({e}, left) = CHOOSE t \in times : \A u \in times : t <= u
  BY DEF Gap
<1> QED
  BY <1>3, <1>4, <1>5

(* VCOUNT wraps at the end of a frame and is a line again. *)
LEMMA NextLineIsLine ==
  ASSUME NEW l \in 0..(LINES_PER_FRAME - 1)
  PROVE  (l + 1) % LINES_PER_FRAME = IF l + 1 = LINES_PER_FRAME THEN 0 ELSE l + 1
  BY TimingAssumption

(* The clock moves: the one pending event comes closer, nothing else does. *)
LEMMA ElapseEffect ==
  ASSUME Inv, NEW c \in Nat, Elapse(c)
  PROVE  /\ pc' \in {"step", "dispatch", "host"}
         /\ budget' \in Int /\ driver' = driver /\ vcount' = vcount
         /\ lineClock' = lineClock + c /\ lineClock' \in Nat
         /\ \E e, f \in Event :
              /\ events = {e} /\ events' = {f}
              /\ f.kind = e.kind /\ f.due = e.due - c
              /\ dispstat.hblank <=> f.kind = "HBlankEnd"
         /\ RunnableTime'
<1>1. PICK e : events = {e} /\ (dispstat.hblank <=> e.kind = "HBlankEnd")
  BY DEF Inv, VideoConsistent
<1>2. e \in Event
  BY <1>1 DEF Inv, TypeOK
<1> DEFINE f == [e EXCEPT !.due = @ - c]
<1>3. f \in Event /\ f.kind = e.kind /\ f.due = e.due - c
  BY <1>2 DEF Event
<1>4. events' = {f}
  BY <1>1 DEF Elapse, AddCycles
<1> HIDE DEF f
<1>5. driver' = driver /\ vcount' = vcount /\ pc' = After(events', budget')
  BY DEF Elapse
<1>6. budget' \in Int /\ lineClock' = lineClock + c /\ lineClock' \in Nat
  BY DEF Elapse, Inv, TypeOK
<1>7. driver \in AllDrivers
  BY DEF Inv, TypeOK
<1>8. pc' \in {"step", "dispatch", "host"}
  BY <1>5, <1>7 DEF After, AllDrivers
<1>9. RunnableTime'
  <2> SUFFICES ASSUME pc' = "step", driver = "run_cycles"
               PROVE  budget' > 0 /\ Ready' = {}
    BY <1>5 DEF RunnableTime
  <2>1. Gap({f}, budget') > 0
    BY <1>4, <1>5 DEF After
  <2>2. Gap({f}, budget') = IF f.due <= budget' THEN f.due ELSE budget'
    BY <1>3, <1>6, GapOfOne
  <2>3. f.due \in Int
    BY <1>3 DEF Event
  <2>4. f.due > 0 /\ budget' > 0
    BY <2>1, <2>2, <2>3, <1>6
  <2> QED
    BY <2>3, <2>4, <1>4 DEF Ready
<1>10. \E g, h \in Event :
         /\ events = {g} /\ events' = {h}
         /\ h.kind = g.kind /\ h.due = g.due - c
         /\ dispstat.hblank <=> h.kind = "HBlankEnd"
  BY <1>1, <1>2, <1>3, <1>4
<1> QED
  BY <1>5, <1>6, <1>8, <1>9, <1>10

Registers ==
  /\ dispstat \in [vblank : BOOLEAN, hblank : BOOLEAN, match : BOOLEAN,
                   enable : SUBSET VideoIrqs, lyc : Nat]
  /\ ie \subseteq Irq /\ ir \subseteq Irq /\ ime \in BOOLEAN
  /\ irqDisabled \in BOOLEAN
  /\ halted \in BOOLEAN /\ intrwait_mask \subseteq Irq /\ bios_flags \subseteq Irq

(* One instruction or idle span keeps the invariant if the registers it    *)
(* writes keep their types and the flags of DISPSTAT their values.         *)
LEMMA ElapsePreservesInv ==
  ASSUME Inv, NEW c \in Nat, Elapse(c), Registers',
         dispstat'.hblank = dispstat.hblank, dispstat'.vblank = dispstat.vblank
  PROVE  Inv'
<1>1. PICK e, f \in Event :
        /\ events = {e} /\ events' = {f}
        /\ f.kind = e.kind /\ f.due = e.due - c
        /\ dispstat.hblank <=> f.kind = "HBlankEnd"
  BY ElapseEffect
<1>2. TypeOK'
  <2>1. driver' \in AllDrivers /\ vcount' \in 0..(LINES_PER_FRAME - 1)
    BY ElapseEffect DEF Inv, TypeOK
  <2> QED
    BY ElapseEffect, <1>1, <2>1 DEF TypeOK, Registers
<1>3. VideoConsistent'
  BY ElapseEffect, <1>1 DEF VideoConsistent, Inv
<1> QED
  BY <1>2, <1>3, ElapseEffect DEF Inv

(* An instruction keeps the invariant if its register writes are typed. *)
LEMMA ExecutePreservesInv ==
  ASSUME Inv, NEW a \in SUBSET Irq, Execute(a), (ir' \subseteq Irq => Registers'),
         dispstat'.hblank = dispstat.hblank, dispstat'.vblank = dispstat.vblank
  PROVE  Inv'
<1>1. PICK c \in 1..MaxCost : Elapse(c)
  BY DEF Execute
<1>2. c \in Nat
  BY <1>1, TimingAssumption
<1>3. ir' \subseteq Irq
  BY DEF Execute, Irq
<1> QED
  BY <1>1, <1>2, <1>3, ElapsePreservesInv

(* A machine that was just built. *)
LEMMA InitInv == Init => Inv
<1> SUFFICES ASSUME Init PROVE Inv
  OBVIOUS
<1> DEFINE first == [kind |-> "HBlank", due |-> HDRAW_CYCLES]
<1>1. first \in Event
  BY TimingAssumption DEF Event
<1>2. events = {first} /\ first.kind # "HBlankEnd" /\ ~dispstat.hblank
  BY DEF Init
<1>3. vcount = 0 /\ ~dispstat.vblank
  BY DEF Init
<1>4. VideoConsistent
  BY <1>2, <1>3, TimingAssumption DEF VideoConsistent
<1>5. TypeOK
  <2>1. pc \in {"host", "step", "dispatch"} /\ driver \in AllDrivers /\ budget \in Int
    BY InputAssumption DEF Init
  <2>2. events \subseteq Event
    BY <1>1, <1>2
  <2>3. vcount \in 0..(LINES_PER_FRAME - 1)
    BY <1>3, TimingAssumption
  <2>4. dispstat \in [vblank : BOOLEAN, hblank : BOOLEAN, match : BOOLEAN,
                      enable : SUBSET VideoIrqs, lyc : Nat]
    BY DEF Init
  <2>5. /\ ie \subseteq Irq /\ ir \subseteq Irq /\ ime \in BOOLEAN
        /\ irqDisabled \in BOOLEAN /\ halted \in BOOLEAN
        /\ intrwait_mask \subseteq Irq /\ bios_flags \subseteq Irq /\ lineClock \in Nat
    BY DEF Init
  <2> QED
    BY <2>1, <2>2, <2>3, <2>4, <2>5 DEF TypeOK
<1>6. RunnableTime
  BY DEF Init, RunnableTime
<1> QED
  BY <1>4, <1>5, <1>6 DEF Inv

(* The host calls in between, whatever entry point it uses. *)
LEMMA CallPreservesInv ==
  ASSUME Inv, NEW d \in AllDrivers, Call(d)
  PROVE  Inv'
<1>1. PICK e : events = {e} /\ (dispstat.hblank <=> e.kind = "HBlankEnd")
  BY DEF Inv, VideoConsistent
<1>2. e \in Event /\ e.due \in Int
  BY <1>1 DEF Inv, TypeOK, Event
<1>3. events' = events /\ dispstat' = dispstat /\ vcount' = vcount
  BY DEF Call, ioVars
<1>4. budget' \in Int
  BY InputAssumption DEF Call
<1>5. TypeOK'
  BY <1>4 DEF Inv, TypeOK, Call, ioVars, sleepVars
<1>6. VideoConsistent'
  BY <1>3 DEF Inv, VideoConsistent
<1>7. RunnableTime'
  <2> SUFFICES ASSUME pc' = "step", driver' = "run_cycles"
               PROVE  budget' > 0 /\ Ready' = {}
    BY DEF RunnableTime
  <2>1. ~(Gap({e}, budget') <= 0)
    BY <1>1 DEF Call
  <2>2. e.due > 0 /\ budget' > 0
    BY <2>1, <1>2, <1>4, GapOfOne
  <2> QED
    BY <2>2, <1>1, <1>2, <1>3 DEF Ready
<1> QED
  BY <1>5, <1>6, <1>7 DEF Inv

(* The event handlers: each consumes the pending event and posts the other.*)
LEMMA DispatchPreservesInv ==
  ASSUME Inv, Dispatch
  PROVE  Inv'
<1>1. PICK e \in Ready : HandleHBlank(e) \/ HandleHBlankEnd(e)
  BY DEF Dispatch
<1>2. events = {e} /\ (dispstat.hblank <=> e.kind = "HBlankEnd")
  BY <1>1 DEF Inv, VideoConsistent, Ready
<1>3. pc' = "dispatch" /\ driver' = driver /\ budget' = budget /\ ie' = ie /\ ime' = ime
      /\ irqDisabled' = irqDisabled /\ halted' = halted /\ intrwait_mask' = intrwait_mask
      /\ bios_flags' = bios_flags
  BY DEF Dispatch, sleepVars
<1>4. RunnableTime'
  BY <1>3 DEF RunnableTime
<1>5. CASE HandleHBlank(e)
  <2> DEFINE next == [kind |-> "HBlankEnd", due |-> HBLANK_CYCLES]
  <2>1. events' = {next}
    BY <1>2, <1>5 DEF HandleHBlank, Reschedule
  <2>2. next \in Event /\ next.kind = "HBlankEnd"
    BY TimingAssumption DEF Event
  <2>3. /\ dispstat' \in [vblank : BOOLEAN, hblank : BOOLEAN, match : BOOLEAN,
                          enable : SUBSET VideoIrqs, lyc : Nat]
        /\ dispstat'.hblank = TRUE /\ dispstat'.vblank = dispstat.vblank
    BY <1>5 DEF HandleHBlank, Inv, TypeOK
  <2>4. ir' \subseteq Irq
    BY <1>5 DEF Requested, HandleHBlank, HBlankDmaIrqs, Inv, TypeOK, Irq, VideoIrqs
  <2>5. vcount' = vcount /\ lineClock' = lineClock
    BY <1>5 DEF HandleHBlank
  <2>6. TypeOK'
    BY <1>3, <2>1, <2>2, <2>3, <2>4, <2>5 DEF Inv, TypeOK
  <2>7. VideoConsistent'
    BY <2>1, <2>2, <2>3, <2>5 DEF Inv, VideoConsistent
  <2> QED
    BY <1>4, <2>6, <2>7 DEF Inv
<1>6. CASE HandleHBlankEnd(e)
  <2> DEFINE next == [kind |-> "HBlank", due |-> HDRAW_CYCLES]
  <2>1. events' = {next}
    BY <1>2, <1>6 DEF HandleHBlankEnd, Reschedule
  <2>2. next \in Event /\ next.kind # "HBlankEnd"
    BY TimingAssumption DEF Event
  <2>3. vcount' = IF vcount + 1 = LINES_PER_FRAME THEN 0 ELSE vcount + 1
    BY <1>6, NextLineIsLine DEF HandleHBlankEnd, NextLine, Inv, TypeOK
  <2>4. vcount' \in 0..(LINES_PER_FRAME - 1)
    BY <2>3, TimingAssumption DEF Inv, TypeOK
  <2>5. dispstat' = [dispstat EXCEPT !.hblank = FALSE, !.match = (vcount' = dispstat.lyc),
                                     !.vblank = VBlankFlag(vcount')]
    BY <1>6 DEF HandleHBlankEnd
  <2>6. VBlankFlag(vcount') \in BOOLEAN
    BY DEF VBlankFlag, Inv, TypeOK
  <2>7. /\ dispstat' \in [vblank : BOOLEAN, hblank : BOOLEAN, match : BOOLEAN,
                          enable : SUBSET VideoIrqs, lyc : Nat]
        /\ dispstat'.hblank = FALSE /\ dispstat'.vblank = VBlankFlag(vcount')
    BY <2>5, <2>6 DEF Inv, TypeOK
  <2>8. ir' \subseteq Irq
    BY <1>6 DEF Requested, HandleHBlankEnd, Inv, TypeOK, Irq, VideoIrqs
  <2>9. VBlankFlag(vcount') <=> vcount' >= VISIBLE_LINES
    BY <2>3, <2>4, TimingAssumption DEF VBlankFlag, Inv, TypeOK, VideoConsistent
  <2>10. lineClock' = 0
    BY <1>6 DEF HandleHBlankEnd
  <2>11. TypeOK'
    BY <1>3, <2>1, <2>2, <2>4, <2>7, <2>8, <2>10 DEF Inv, TypeOK
  <2>12. VideoConsistent'
    BY <2>1, <2>2, <2>7, <2>9 DEF VideoConsistent
  <2> QED
    BY <1>4, <2>11, <2>12 DEF Inv
<1> QED
  BY <1>1, <1>5, <1>6

(* The wake check, and the decision to go on or to return. *)
LEMMA EndIterationPreservesInv ==
  ASSUME Inv, EndIteration
  PROVE  Inv'
<1>1. TypeOK'
  BY DEF Inv, TypeOK, EndIteration, MaskAfterCheck, ioVars
<1>2. VideoConsistent'
  BY DEF Inv, VideoConsistent, EndIteration, ioVars
<1>3. RunnableTime'
  BY DEF RunnableTime, EndIteration, Ready
<1> QED
  BY <1>1, <1>2, <1>3 DEF Inv

(* A sleeping CPU: the clock is advanced to the next event or the target,  *)
(* and the span is never empty.                                            *)
LEMMA HaltSpanAdvances ==
  ASSUME Inv, HaltSpan
  PROVE  Gap(events, budget) \in Nat \ {0}
<1>1. PICK e : events = {e}
  BY DEF Inv, VideoConsistent
<1>2. e \in Event /\ e.due \in Int /\ budget \in Int
  BY <1>1 DEF Inv, TypeOK, Event
<1>3. budget > 0 /\ e.due > 0
  BY <1>1, <1>2 DEF Inv, RunnableTime, HaltSpan, Ready
<1>4. Gap({e}, budget) = IF e.due <= budget THEN e.due ELSE budget
  BY <1>2, GapOfOne
<1>5. Gap({e}, budget) \in Nat \ {0}
  BY <1>2, <1>3, <1>4
<1> QED
  BY <1>1, <1>5

(* The guest's instructions. *)
LEMMA InstructionPreservesInv ==
  ASSUME Inv, Instruction
  PROVE  Inv'
<1> USE DEF Registers, ioVars, sleepVars
<1>0. Registers /\ ir \in SUBSET Irq
  BY DEF Inv, TypeOK
<1>1. CASE Compute
  BY <1>0, <1>1, ExecutePreservesInv DEF Compute
<1>2. CASE SetIrqDisabled
  BY <1>0, <1>2, ExecutePreservesInv DEF SetIrqDisabled
<1>3. CASE WriteIME
  BY <1>0, <1>3, ExecutePreservesInv DEF WriteIME
<1>4. CASE Halt
  BY <1>0, <1>4, ExecutePreservesInv DEF Halt
<1>5. ASSUME NEW v \in IeChoices, WriteIE(v) PROVE Inv'
  <2>1. v \subseteq Irq
    BY InputAssumption
  <2> QED
    BY <1>0, <1>5, <2>1, ExecutePreservesInv DEF WriteIE
<1>6. ASSUME NEW v \in SUBSET Irq, WriteIF(v) PROVE Inv'
  <2>1. (ir \ v) \in SUBSET Irq /\ Execute(ir \ v)
    BY <1>0, <1>6 DEF WriteIF
  <2> QED
    BY <1>0, <1>6, <2>1, ExecutePreservesInv DEF WriteIF
<1>7. ASSUME NEW high \in BOOLEAN, NEW v \in SUBSET Irq, WriteIFByte(high, v) PROVE Inv'
  <2> DEFINE a == ir \ (v \cup (ir \cap IfByte(~high)))
  <2>1. a \in SUBSET Irq /\ Execute(a)
    BY <1>0, <1>7 DEF WriteIFByte
  <2> HIDE DEF a
  <2> QED
    BY <1>0, <1>7, <2>1, ExecutePreservesInv DEF WriteIFByte
<1>8. ASSUME NEW en \in EnableChoices, NEW lyc \in LycChoices, WriteDispstat(en, lyc) PROVE Inv'
  <2>1. en \in SUBSET VideoIrqs /\ lyc \in Nat
    BY InputAssumption
  <2>2. /\ dispstat' \in [vblank : BOOLEAN, hblank : BOOLEAN, match : BOOLEAN,
                          enable : SUBSET VideoIrqs, lyc : Nat]
        /\ dispstat'.hblank = dispstat.hblank /\ dispstat'.vblank = dispstat.vblank
    BY <1>0, <1>8, <2>1 DEF WriteDispstat, StoreDispstat
  <2> QED
    BY <1>0, <1>8, <2>2, ExecutePreservesInv DEF WriteDispstat
<1>10. ASSUME NEW v \in FlagChoices, WriteFlags(v) PROVE Inv'
  <2>1. v \subseteq Irq
    BY InputAssumption
  <2> QED
    BY <1>0, <1>10, <2>1, ExecutePreservesInv DEF WriteFlags
<1>9. ASSUME NEW discard \in BOOLEAN, NEW flags \in SUBSET VideoIrqs, IntrWait(discard, flags) PROVE Inv'
  <2>1. flags \subseteq Irq
    BY DEF Irq
  <2> QED
    BY <1>0, <1>9, <2>1, ExecutePreservesInv DEF IntrWait
<1> QED
  BY <1>1, <1>2, <1>3, <1>4, <1>5, <1>6, <1>7, <1>8, <1>9, <1>10 DEF Instruction

(* Everything else that lets time pass. *)
LEMMA ClockPreservesInv ==
  ASSUME Inv, TakeIrq \/ StepHalted \/ HaltSpan \/ IdleOne
  PROVE  Inv'
<1> USE DEF Registers, ioVars, sleepVars
<1>0. Registers /\ ir \in SUBSET Irq
  BY DEF Inv, TypeOK
<1>1. CASE TakeIrq
  <2>1. PICK c \in 1..MaxCost : Elapse(c)
    BY <1>1 DEF TakeIrq
  <2>2. c \in Nat
    BY <2>1, TimingAssumption
  <2>3. ir' \subseteq Irq
    BY <1>0, <1>1 DEF TakeIrq, Irq
  <2> QED
    BY <1>0, <1>1, <2>1, <2>2, <2>3, ElapsePreservesInv DEF TakeIrq
<1>2. CASE StepHalted
  <2>1. ir' \subseteq Irq
    BY <1>0, <1>2 DEF StepHalted, Irq
  <2> QED
    BY <1>0, <1>2, <2>1, ElapsePreservesInv DEF StepHalted
<1>3. CASE HaltSpan
  <2> DEFINE c == Gap(events, budget)
  <2>1. c \in Nat
    BY <1>3, HaltSpanAdvances
  <2>2. Elapse(c)
    BY <1>3 DEF HaltSpan
  <2>3. ir' \subseteq Irq
    BY <1>0, <1>3 DEF HaltSpan, Irq
  <2> HIDE DEF c
  <2> QED
    BY <1>0, <1>3, <2>1, <2>2, <2>3, ElapsePreservesInv DEF HaltSpan
<1>4. CASE IdleOne
  BY <1>0, <1>4, ElapsePreservesInv DEF IdleOne
<1> QED
  BY <1>1, <1>2, <1>3, <1>4

(* The invariant is inductive. *)
LEMMA StepPreservesInv == Inv /\ [Next]_vars => Inv'
<1> SUFFICES ASSUME Inv, [Next]_vars PROVE Inv'
  OBVIOUS
<1>1. CASE UNCHANGED vars
  BY <1>1 DEF vars, Inv, TypeOK, VideoConsistent, RunnableTime, Ready
<1>2. CASE Loop
  BY <1>2, InstructionPreservesInv, ClockPreservesInv, DispatchPreservesInv,
     EndIterationPreservesInv DEF Loop
<1>3. ASSUME NEW d \in AllDrivers, Call(d) PROVE Inv'
  BY <1>3, CallPreservesInv
<1> QED
  BY <1>1, <1>2, <1>3 DEF Next

(* The display state machine is sound for every guest program, every split *)
(* of the run into calls and every entry point: one display event is       *)
(* pending at any time, and the flags of DISPSTAT agree with it.           *)
THEOREM VideoAlwaysConsistent == Spec => [](TypeOK /\ VideoConsistent)
<1>1. Init => Inv
  BY InitInv
<1>2. Inv /\ [Next]_vars => Inv'
  BY StepPreservesInv
<1>3. Inv => TypeOK /\ VideoConsistent
  BY DEF Inv
<1> QED
  BY <1>1, <1>2, <1>3, PTL DEF Spec
-----------------------------------------------------------------------------
(* With entry points that dispatch events (run_cycles and step_one), the   *)
(* pending event is never overdue by a whole instruction, and its distance *)
(* tells how long the line has been running.                               *)
ClockInv ==
  /\ driver \in Drivers
  /\ \A e \in events :
       /\ pc # "dispatch" => e.due > 0
       /\ e.due > -MaxCost
       /\ e.kind = "HBlank" => lineClock + e.due = HDRAW_CYCLES
       /\ e.kind = "HBlankEnd" =>
            lineClock + e.due \in CYCLES_PER_LINE..(CYCLES_PER_LINE + MaxCost - 1)

(* The event loop of run_cycles and step_one goes to "dispatch" when the   *)
(* pending event has become due.                                           *)
LEMMA ElapsePreservesClock ==
  ASSUME "step_n" \notin Drivers, Inv, ClockInv, pc = "step",
         NEW c \in Nat, Elapse(c),
         \A e \in events : e.due - c > -MaxCost
  PROVE  ClockInv'
<1>1. PICK e, f \in Event :
        /\ events = {e} /\ events' = {f}
        /\ f.kind = e.kind /\ f.due = e.due - c
  BY ElapseEffect
<1>2. e.due \in Int /\ f.due \in Int /\ lineClock \in Int /\ MaxCost \in Int
  BY <1>1, TimingAssumption DEF Event, Inv, TypeOK
<1>3. driver' = driver /\ lineClock' = lineClock + c /\ RunnableTime'
  BY ElapseEffect
<1>4. driver \in Drivers
  BY DEF ClockInv
<1>5. pc' # "dispatch" => f.due > 0
  <2> SUFFICES ASSUME pc' # "dispatch" PROVE f.due > 0
    OBVIOUS
  <2>1. driver \in {"run_cycles", "step_one"}
    BY <1>4, InputAssumption DEF AllDrivers
  <2>2. pc' = After(events', budget')
    BY DEF Elapse
  <2>3. pc' = "step" /\ driver = "run_cycles"
    BY <2>1, <2>2 DEF After
  <2>4. Ready' = {}
    BY <2>3, <1>3 DEF RunnableTime
  <2> QED
    BY <2>4, <1>1, <1>2 DEF Ready
<1>6. f.due > -MaxCost
  BY <1>1
<1>7. lineClock' + f.due = lineClock + e.due
  BY <1>1, <1>2, <1>3
<1>8. /\ f.kind = "HBlank" => lineClock' + f.due = HDRAW_CYCLES
      /\ f.kind = "HBlankEnd" =>
           lineClock' + f.due \in CYCLES_PER_LINE..(CYCLES_PER_LINE + MaxCost - 1)
  BY <1>1, <1>7 DEF ClockInv
<1> QED
  BY <1>1, <1>3, <1>4, <1>5, <1>6, <1>8 DEF ClockInv

(* The first line begins on time. *)
LEMMA InitClock == Init => ClockInv
  BY InputAssumption, TimingAssumption DEF Init, ClockInv

(* An instruction starts before the event and takes at most MaxCost.       *)
LEMMA InstructionPreservesClock ==
  ASSUME "step_n" \notin Drivers, Inv, ClockInv, pc = "step",
         NEW c \in 1..MaxCost, Elapse(c)
  PROVE  ClockInv'
<1>1. \A e \in events : e.due - c > -MaxCost
  <2> SUFFICES ASSUME NEW e \in events PROVE e.due - c > -MaxCost
    OBVIOUS
  <2>1. e.due \in Int /\ MaxCost \in Int
    BY TimingAssumption DEF Inv, TypeOK, Event
  <2>2. e.due > 0
    BY DEF ClockInv
  <2> QED
    BY <2>1, <2>2
<1>2. c \in Nat
  BY TimingAssumption
<1> QED
  BY <1>1, <1>2, ElapsePreservesClock

(* The handlers: a line that ends has had at least its cycles. *)
LEMMA DispatchClock ==
  ASSUME Inv, ClockInv, Dispatch
  PROVE  /\ ClockInv'
         /\ vcount' # vcount =>
              lineClock \in CYCLES_PER_LINE..(CYCLES_PER_LINE + 2 * (MaxCost - 1))
<1>1. PICK e \in Ready : HandleHBlank(e) \/ HandleHBlankEnd(e)
  BY DEF Dispatch
<1>2. events = {e} /\ e \in Event /\ e.due \in Int /\ e.due <= 0
  BY <1>1 DEF Inv, TypeOK, VideoConsistent, Ready, Event
<1>3. /\ e.due > -MaxCost
      /\ e.kind = "HBlank" => lineClock + e.due = HDRAW_CYCLES
      /\ e.kind = "HBlankEnd" =>
           lineClock + e.due \in CYCLES_PER_LINE..(CYCLES_PER_LINE + MaxCost - 1)
  BY <1>2 DEF ClockInv
<1>4. pc' = "dispatch" /\ driver' = driver /\ driver \in Drivers
  BY DEF Dispatch, ClockInv
<1>5. lineClock \in Nat
  BY DEF Inv, TypeOK
<1>6. CASE HandleHBlank(e)
  <2> DEFINE next == [kind |-> "HBlankEnd", due |-> HBLANK_CYCLES]
  <2>1. events' = {next} /\ lineClock' = lineClock /\ vcount' = vcount
    BY <1>2, <1>6 DEF HandleHBlank, Reschedule
  <2>2. next.kind = "HBlankEnd" /\ next.due = HBLANK_CYCLES
    OBVIOUS
  <2>3. HBLANK_CYCLES > -MaxCost
    BY TimingAssumption
  <2>4. lineClock + HBLANK_CYCLES \in CYCLES_PER_LINE..(CYCLES_PER_LINE + MaxCost - 1)
    <3>1. lineClock + e.due = HDRAW_CYCLES
      BY <1>3, <1>6 DEF HandleHBlank
    <3> QED
      BY <3>1, <1>2, <1>3, <1>5, TimingAssumption DEF CYCLES_PER_LINE
  <2> HIDE DEF next
  <2> QED
    BY <1>4, <2>1, <2>2, <2>3, <2>4 DEF ClockInv
<1>7. CASE HandleHBlankEnd(e)
  <2> DEFINE next == [kind |-> "HBlank", due |-> HDRAW_CYCLES]
  <2>1. events' = {next} /\ lineClock' = 0
    BY <1>2, <1>7 DEF HandleHBlankEnd, Reschedule
  <2>2. next.kind = "HBlank" /\ next.due = HDRAW_CYCLES
    OBVIOUS
  <2>3. HDRAW_CYCLES > -MaxCost /\ 0 + HDRAW_CYCLES = HDRAW_CYCLES
    BY TimingAssumption
  <2>4. lineClock + e.due \in CYCLES_PER_LINE..(CYCLES_PER_LINE + MaxCost - 1)
    BY <1>3, <1>7 DEF HandleHBlankEnd
  <2>5. lineClock \in CYCLES_PER_LINE..(CYCLES_PER_LINE + 2 * (MaxCost - 1))
    BY <2>4, <1>2, <1>3, <1>5, TimingAssumption DEF CYCLES_PER_LINE
  <2> HIDE DEF next
  <2> QED
    BY <1>4, <2>1, <2>2, <2>3, <2>5 DEF ClockInv
<1> QED
  BY <1>1, <1>6, <1>7

(* The line clock and the pending event stay in step, in every step. *)
LEMMA StepPreservesClock ==
  ASSUME "step_n" \notin Drivers, Inv, ClockInv, [Next]_vars
  PROVE  /\ ClockInv'
         /\ vcount' # vcount =>
              lineClock \in CYCLES_PER_LINE..(CYCLES_PER_LINE + 2 * (MaxCost - 1))
<1>1. CASE UNCHANGED vars
  BY <1>1 DEF vars, ClockInv
<1>2. CASE Dispatch
  BY <1>2, DispatchClock
<1>3. CASE Instruction \/ TakeIrq
  <2>1. pc = "step" /\ \E c \in 1..MaxCost : Elapse(c)
    BY <1>3 DEF Instruction, Execute, TakeIrq, Compute, SetIrqDisabled, WriteIME, Halt,
       WriteIE, WriteIF, WriteIFByte, WriteDispstat, WriteFlags, IntrWait
  <2>2. PICK c \in 1..MaxCost : Elapse(c)
    BY <2>1
  <2>3. vcount' = vcount
    BY <2>2 DEF Elapse
  <2> QED
    BY <2>1, <2>2, <2>3, InstructionPreservesClock
<1>4. CASE StepHalted \/ IdleOne
  <2>1. pc = "step" /\ Elapse(1)
    BY <1>4 DEF StepHalted, IdleOne
  <2>2. 1 \in 1..MaxCost
    BY TimingAssumption
  <2>3. vcount' = vcount
    BY <2>1 DEF Elapse
  <2> QED
    BY <2>1, <2>2, <2>3, InstructionPreservesClock
<1>5. CASE HaltSpan
  <2> DEFINE c == Gap(events, budget)
  <2>1. c \in Nat
    BY <1>5, HaltSpanAdvances
  <2>2. PICK e : events = {e}
    BY DEF Inv, VideoConsistent
  <2>3. e \in Event /\ e.due \in Int /\ budget \in Int
    BY <2>2 DEF Inv, TypeOK, Event
  <2>4. Gap({e}, budget) <= e.due
    BY <2>3, GapOfOne
  <2>5. c <= e.due
    BY <2>2, <2>4
  <2>6. Elapse(c) /\ pc = "step"
    BY <1>5 DEF HaltSpan
  <2> HIDE DEF c
  <2>7. \A g \in events : g.due - c > -MaxCost
    BY <2>1, <2>2, <2>3, <2>5, TimingAssumption
  <2>8. vcount' = vcount
    BY <2>6 DEF Elapse
  <2> QED
    BY <2>1, <2>6, <2>7, <2>8, ElapsePreservesClock
<1>6. CASE EndIteration
  <2>1. Ready = {} /\ events' = events /\ driver' = driver /\ lineClock' = lineClock
        /\ vcount' = vcount
    BY <1>6 DEF EndIteration
  <2>2. \A e \in events : e.due \in Int /\ e.due > 0
    BY <2>1 DEF Ready, Inv, TypeOK, Event
  <2> QED
    BY <2>1, <2>2 DEF ClockInv
<1>7. ASSUME NEW d \in AllDrivers, Call(d) PROVE ClockInv' /\ vcount' = vcount
  BY <1>7 DEF Call, ClockInv
<1> QED
  BY <1>1, <1>2, <1>3, <1>4, <1>5, <1>6, <1>7 DEF Next, Loop

(* For every guest program driven by run_cycles and step_one, a scanline   *)
(* takes its cycles but for less than two instructions.  (What the steps   *)
(* keep says more of this code: no line is short.)                         *)
THEOREM LinesOnTime ==
  ASSUME "step_n" \notin Drivers
  PROVE  Spec => LineLength
<1>1. Init => Inv /\ ClockInv
  BY InitInv, InitClock
<1>2. Inv /\ ClockInv /\ [Next]_vars => Inv' /\ ClockInv'
  BY StepPreservesInv, StepPreservesClock
<1>3. Inv /\ ClockInv /\ [Next]_vars =>
        [vcount' # vcount => LineTakes(2 * (MaxCost - 1))]_vars
  <2>1. CYCLES_PER_LINE \in Nat /\ MaxCost \in Nat \ {0}
    BY TimingAssumption DEF CYCLES_PER_LINE
  <2>2. CYCLES_PER_LINE..(CYCLES_PER_LINE + 2 * (MaxCost - 1))
          \subseteq (CYCLES_PER_LINE - 2 * (MaxCost - 1))..(CYCLES_PER_LINE + 2 * (MaxCost - 1))
    BY <2>1
  <2> QED
    BY <2>2, StepPreservesClock DEF LineTakes
<1> QED
  BY <1>1, <1>2, <1>3, PTL DEF Spec, LineLength
-----------------------------------------------------------------------------
(* Entry points that wake the CPU drop the IntrWait mask with the sleep.   *)
SleepInv == MaskOnlyWhileHalted /\ driver \in Drivers

(* Every step that clears `halted` clears the mask as well. *)
LEMMA StepPreservesSleep ==
  ASSUME "step_n" \notin Drivers, Inv, SleepInv, [Next]_vars
  PROVE  SleepInv'
<1> USE DEF SleepInv, MaskOnlyWhileHalted
<1>1. CASE UNCHANGED vars
  BY <1>1 DEF vars
<1>2. CASE Instruction
  <2>1. driver' = driver
    BY <1>2 DEF Instruction, Execute, Elapse, Compute, SetIrqDisabled, WriteIME, Halt,
       WriteIE, WriteIF, WriteIFByte, WriteDispstat, WriteFlags, IntrWait
  <2>2. \/ halted' = halted /\ intrwait_mask' = intrwait_mask
        \/ halted'
    BY <1>2 DEF Instruction, Compute, SetIrqDisabled, WriteIME, Halt, WriteIE, WriteIF,
       WriteIFByte, WriteDispstat, WriteFlags, IntrWait, sleepVars
  <2> QED
    BY <2>1, <2>2
<1>3. CASE TakeIrq
  <2>1. ~halted /\ intrwait_mask' = intrwait_mask /\ driver' = driver
    BY <1>3 DEF TakeIrq, Elapse
  <2> QED
    BY <2>1
<1>4. CASE StepHalted \/ HaltSpan \/ IdleOne
  BY <1>4 DEF StepHalted, HaltSpan, IdleOne, Elapse, sleepVars
<1>5. CASE Dispatch
  BY <1>5 DEF Dispatch, sleepVars
<1>6. CASE EndIteration
  BY <1>6 DEF EndIteration, MaskAfterCheck, Wakes
<1>7. ASSUME NEW d \in AllDrivers, Call(d) PROVE SleepInv'
  BY <1>7 DEF Call, sleepVars
<1> QED
  BY <1>1, <1>2, <1>3, <1>4, <1>5, <1>6, <1>7 DEF Next, Loop

(* No stale IntrWait mask: whatever the guest does, a mask is set only     *)
(* while the CPU sleeps, so that a HALTCNT sleep listens to every source.  *)
THEOREM NoStaleMask ==
  ASSUME "step_n" \notin Drivers
  PROVE  Spec => []MaskOnlyWhileHalted
<1>1. Init => Inv /\ SleepInv
  BY InitInv DEF Init, SleepInv, MaskOnlyWhileHalted
<1>2. Inv /\ SleepInv /\ [Next]_vars => Inv' /\ SleepInv'
  BY StepPreservesInv, StepPreservesSleep
<1>3. SleepInv => MaskOnlyWhileHalted
  BY DEF SleepInv
<1> QED
  BY <1>1, <1>2, <1>3, PTL DEF Spec

(* run_cycles never hands a CPU back that should have been woken.          *)
THEOREM NoMissedWake == Spec => []NoSleepThroughWake
<1>1. Init => NoSleepThroughWake
  BY DEF Init, NoSleepThroughWake
<1>2. NoSleepThroughWake /\ [Next]_vars => NoSleepThroughWake'
  <2> SUFFICES ASSUME NoSleepThroughWake, [Next]_vars, pc' = "host", driver' = "run_cycles"
               PROVE  ~(halted' /\ WakeEligible')
    BY DEF NoSleepThroughWake
  <2>1. CASE UNCHANGED vars
    BY <2>1 DEF vars, NoSleepThroughWake, WakeEligible
  <2>2. ASSUME NEW c, Elapse(c) PROVE FALSE
    BY <2>2 DEF Elapse, After
  <2>3. CASE Loop /\ ~Dispatch /\ ~EndIteration
    BY <2>2, <2>3 DEF Loop, Instruction, Execute, Compute, SetIrqDisabled, WriteIME, Halt,
       WriteIE, WriteIF, WriteIFByte, WriteDispstat, WriteFlags, IntrWait, TakeIrq, StepHalted, HaltSpan, IdleOne
  <2>4. CASE Dispatch
    BY <2>4 DEF Dispatch
  <2>5. CASE EndIteration
    <3>1. CASE Wakes
      BY <2>5, <3>1 DEF EndIteration
    <3>2. CASE ~Wakes
      <4>1. driver = "run_cycles" /\ ie' = ie /\ ir' = ir /\ (halted' => halted)
            /\ intrwait_mask' = intrwait_mask
        BY <2>5, <3>2 DEF EndIteration, MaskAfterCheck, ioVars
      <4> QED
        BY <3>2, <4>1 DEF Wakes, WakeEligible
    <3> QED
      BY <3>1, <3>2
  <2>6. ASSUME NEW d \in AllDrivers, Call(d) PROVE FALSE
    BY <2>6 DEF Call
  <2> QED
    BY <2>1, <2>3, <2>4, <2>5, <2>6 DEF Next
<1> QED
  BY <1>1, <1>2, PTL DEF Spec

(* Requests survive everything but a store to IF: other requests, the      *)
(* entry of an interrupt, sleeping, waking, and the host's calls.          *)
THEOREM RequestsKept ==
  ASSUME ~ByteAccess
  PROVE  Spec => NoRequestLost
<1> DEFINE Kept == ir \subseteq ir' \/ \E v \in SUBSET Irq : ir \ ir' \subseteq v /\ WriteIF(v)
<1>1. ASSUME Next PROVE Kept
  <2>1. CASE Instruction
    <3>1. ASSUME Execute(ir) PROVE ir \subseteq ir'
      BY <3>1 DEF Execute
    <3>2. ASSUME NEW v \in SUBSET Irq, WriteIF(v) PROVE Kept
      <4>1. ir \ ir' \subseteq v
        BY <3>2 DEF WriteIF, Execute
      <4> QED
        BY <3>2, <4>1
    <3>3. CASE Compute \/ SetIrqDisabled \/ WriteIME \/ Halt
      BY <3>1, <3>3 DEF Compute, SetIrqDisabled, WriteIME, Halt
    <3>4. CASE \E v \in IeChoices : WriteIE(v)
      BY <3>1, <3>4 DEF WriteIE
    <3>5. CASE \E en \in EnableChoices, lyc \in LycChoices : WriteDispstat(en, lyc)
      BY <3>1, <3>5 DEF WriteDispstat
    <3>6. CASE \E discard \in BOOLEAN, flags \in SUBSET VideoIrqs : IntrWait(discard, flags)
      BY <3>1, <3>6 DEF IntrWait
    <3>8. CASE \E v \in FlagChoices : WriteFlags(v)
      BY <3>1, <3>8 DEF WriteFlags
    <3>7. ~ \E high \in BOOLEAN, v \in SUBSET Irq : WriteIFByte(high, v)
      BY DEF WriteIFByte
    <3> QED
      BY <2>1, <3>2, <3>3, <3>4, <3>5, <3>6, <3>7, <3>8 DEF Instruction
  <2>2. CASE TakeIrq \/ StepHalted \/ HaltSpan \/ IdleOne
    BY <2>2 DEF TakeIrq, StepHalted, HaltSpan, IdleOne
  <2>3. CASE Dispatch
    <3>1. PICK e \in Ready : HandleHBlank(e) \/ HandleHBlankEnd(e)
      BY <2>3 DEF Dispatch
    <3>2. \E irqs : ir' = Requested(irqs)
      BY <3>1 DEF HandleHBlank, HandleHBlankEnd
    <3> QED
      BY <3>2 DEF Requested
  <2>4. CASE EndIteration
    BY <2>4 DEF EndIteration
  <2>5. CASE \E d \in AllDrivers : Call(d)
    BY <2>5 DEF Call
  <2> QED
    BY <1>1, <2>1, <2>2, <2>3, <2>4, <2>5 DEF Next, Loop
<1> HIDE DEF Kept
<1>2. Spec => [][Kept]_vars
  BY <1>1, PTL DEF Spec
<1> QED
  BY <1>2 DEF NoRequestLost, Kept
=============================================================================
