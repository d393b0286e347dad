------------------------------- MODULE Timers -------------------------------
(***************************************************************************)
(* The timers as the main loop drives them, next to a copy that hardware   *)
(* would advance one cycle at a time.  The loop advances the timers in     *)
(* batches: by the length of an instruction, and, while the CPU sleeps, by *)
(* the chunks that HaltChunk computes from cycles_to_next_fifo_overflow.   *)
(***************************************************************************)
EXTENDS TimerCore

CONSTANTS
  MaxCost,   \* bound: the longest instruction, in cycles
  MaxSpan,   \* bound: the longest stretch of sleep between two events
  CHUNK_CAP, \* 1024: the largest chunk of a sleep
  Reloads,   \* bound: the reload values the guest writes
  Controls,  \* bound: the control values the guest writes
  DmaWrites  \* bound: register writes of DMA that an event starts

ASSUME LoopAssumption ==
  /\ MaxCost \in Nat \ {0} /\ MaxSpan \in Nat \ {0} /\ CHUNK_CAP \in Nat \ {0}
  /\ Reloads \subseteq TimerWord /\ Controls \subseteq Control

VARIABLES
  timers,  \* Timers.timers
  left,    \* `remaining` of the sleep under way, 0 if the CPU runs
  raised,  \* timers whose IRQ the last batch requested
  popped,  \* FIFO timers for which the last batch popped one sample
  hw,      \* history: the timers advanced cycle by cycle
  hwRaised,\* history: timers whose IRQ those cycles requested
  hwPops   \* history: how often each of them overflowed

vars == <<timers, left, raised, popped, hw, hwRaised, hwPops>>

Init ==
  /\ \E p \in {d \in Dividers : \A q \in Dividers : d <= q} :
       timers = [i \in TimerId |-> TimerOff(p)]
  /\ left = 0 /\ raised = {} /\ popped = {}
  /\ hw = timers /\ hwRaised = {} /\ hwPops = [i \in TimerId |-> 0]

(* A register write that `timers` and the reference see alike. *)
Writes ==
  {[to |-> "none"]}
  \cup [to : {"reload"}, id : TimerId, value : Reloads]
  \cup [to : {"control"}, id : TimerId, value : Controls]

ASSUME DmaWritesAssumption == DmaWrites \subseteq Writes

Apply(ts, w) ==
  CASE w.to = "none"    -> ts
    [] w.to = "reload"  -> [ts EXCEPT ![w.id] = WithReload(@, w.value)]
    [] w.to = "control" -> [ts EXCEPT ![w.id] = WithTimerControl(@, w.value)]

(* What `cycles` single cycles do. *)
HwRun(ts, cycles) ==
  LET run[n \in 0..cycles] ==
        IF n = 0
        THEN [ts |-> ts, raised |-> {}, pops |-> [i \in TimerId |-> 0]]
        ELSE LET before == run[n - 1]
                 r == AdvanceAll(before.ts, 1, CarryCount)
             IN  [ts |-> TimersAfter(r), raised |-> before.raised \cup IrqsOf(r),
                  pops |-> [i \in TimerId |-> before.pops[i] + r[i].overflows]]
  IN  run[cycles]

(* tick_timers: the timers advance by a batch; each of timers 0 and 1 that *)
(* overflowed in it makes the APU pop one sample.                          *)
TickTimers(ts, hts, cycles) ==
  LET r == Tick(ts, cycles)
      h == HwRun(hts, cycles)
  IN  /\ timers' = TimersAfter(r)
      /\ raised' = IrqsOf(r)
      /\ popped' = Overflowed(r) \cap FifoTimers
      /\ hw' = h.ts /\ hwRaised' = h.raised /\ hwPops' = h.pops

(* An instruction may write one register, and is then ticked. *)
Instruction ==
  /\ left = 0
  /\ \E w \in Writes, c \in 1..MaxCost :
       TickTimers(Apply(timers, w), Apply(hw, w), c)
  /\ UNCHANGED left

(* The CPU sleeps until the next event. *)
Sleep ==
  /\ left = 0
  /\ left' \in 1..MaxSpan
  /\ UNCHANGED <<timers, raised, popped, hw, hwRaised, hwPops>>

Least(a, b) == IF a <= b THEN a ELSE b
Greatest(a, b) == IF a >= b THEN a ELSE b

\* Mutant: the sleep is ticked in one go.
Chunk_Whole == left
Chunk ==
  Least(Greatest(Least(left, CyclesToNextFifoOverflow(timers)), 1), CHUNK_CAP)

(* One turn of the loop that advances a sleeping machine. *)
HaltChunk ==
  /\ left > 0
  /\ TickTimers(timers, hw, Chunk)
  /\ left' = left - Chunk

(* A DMA started by an event writes a register; nothing is ticked.         *)
DmaWrite ==
  /\ left = 0
  /\ \E w \in DmaWrites :
       /\ timers' = Apply(timers, w)
       /\ hw' = Apply(hw, w)
  /\ UNCHANGED <<left, raised, popped, hwRaised, hwPops>>

Next == Instruction \/ Sleep \/ HaltChunk \/ DmaWrite

Spec == Init /\ [][Next]_vars
-----------------------------------------------------------------------------
(* However the cycles are cut into batches, the counters read by the guest *)
(* and the interrupts requested are those of timers advanced one cycle at  *)
(* a time.  For cascading timers it takes periods no shorter than a batch: *)
(* ARCHITECTURE.md says a cascading timer "increments once per Timer 0     *)
(* overflow".                                                              *)
BatchExact == timers = hw /\ raised = hwRaised

(* "so we can place FIFO sample-pops at exactly the right cycle within an  *)
(* idle span" (timer.rs): the span predicted to the next overflow of       *)
(* timer 0 or 1 ends with the first one.  This takes DmaWrites to be       *)
(* stores of reloads: a prescaler made smaller while its timer runs leaves *)
(* prescaler_counter above it until the next tick, and the unsigned        *)
(* difference is then nought or wraps.  An instruction that makes it       *)
(* smaller is ticked before the prediction, the DMA of an event is not.    *)
PredictionExact ==
  LET overflowsBy(n) == \E i \in FifoTimers : HwRun(timers, n).pops[i] > 0
      next == CyclesToNextFifoOverflow(timers)
  IN  Clocking(timers) # {} => overflowsBy(next) /\ ~overflowsBy(next - 1)

(* A sleeping CPU loses no sample: each chunk pops a FIFO exactly as often *)
(* as its timer overflowed.  (An instruction longer than the period of the *)
(* timer does lose samples: one pop stands for all its overflows.)  It     *)
(* rests on the prediction, and with it on DmaWrites that store reloads.   *)
SleepPopsExact ==
  [][left > 0 =>
       \A i \in FifoTimers : hwPops'[i] = IF i \in popped' THEN 1 ELSE 0]_vars
=============================================================================
