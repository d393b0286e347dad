----------------------------- MODULE TimerCore -----------------------------
(***************************************************************************)
(* The four hardware timers (gba-core/src/timer.rs) as operators on a      *)
(* function from timer numbers to timer records.  Timers.tla checks the    *)
(* operators against a timer that is advanced one cycle at a time;         *)
(* Sound.tla builds the audio path on them.                                *)
(***************************************************************************)
EXTENDS Integers, FiniteSets

CONSTANTS
  NTimers,    \* number of timers (4 in the code)
  WRAP,       \* a counter overflows when it reaches this (0x10000)
  Dividers,   \* the prescaler's settings ({1, 64, 256, 1024})
  U32         \* 2^32: where the code's cycle counts wrap

ASSUME TimerAssumption ==
  /\ NTimers \in Nat \ {0}
  /\ WRAP \in Nat \ {0}
  /\ Dividers \subseteq Nat \ {0}
  /\ U32 \in Nat \ {0} /\ \A p \in Dividers : WRAP * p < U32

TimerId == 0..(NTimers - 1)
TimerWord == 0..(WRAP - 1)

Control == [enabled : BOOLEAN, cascade : BOOLEAN, irq : BOOLEAN, prescaler : Dividers]

Timer == [reload : TimerWord, counter : TimerWord, control : Control,
          prescaler_counter : Nat]

TimerOff(prescaler) ==
  [reload |-> 0, counter |-> 0, prescaler_counter |-> 0,
   control |-> [enabled |-> FALSE, cascade |-> FALSE, irq |-> FALSE,
                prescaler |-> prescaler]]
-----------------------------------------------------------------------------
WithReload(t, value) == [t EXCEPT !.reload = value]

(* Starting a timer reloads it; writing its control while it runs keeps    *)
(* the counter and what the prescaler has accumulated.                     *)
WithTimerControl(t, value) ==
  IF value.enabled /\ ~t.control.enabled
  THEN [t EXCEPT !.control = value, !.counter = t.reload, !.prescaler_counter = 0]
  ELSE [t EXCEPT !.control = value]

(* increment_timer: the counter and the number of overflows after `ticks`. *)
\* Mutant: the ticks beyond the overflow are dropped.
Increment_DropsRest(t, ticks) ==
  IF t.counter + ticks < WRAP THEN [counter |-> t.counter + ticks, overflows |-> 0]
  ELSE [counter |-> t.reload, overflows |-> 1]
Increment(t, ticks) ==
  LET total == t.counter + ticks
      left == total - WRAP
      range == WRAP - t.reload
  IN  IF total < WRAP THEN [counter |-> total, overflows |-> 0]
      ELSE [counter |-> t.reload + (left % range), overflows |-> 1 + (left \div range)]

(* One timer of Timers::tick: a cascading one advances by `carry`, the     *)
(* others by the prescaled cycles.                                         *)
Advance(t, cascades, cycles, carry) ==
  LET total == t.prescaler_counter + cycles
      ticks == IF cascades THEN carry ELSE total \div t.control.prescaler
      inc == Increment(t, ticks)
  IN  [timer |-> [t EXCEPT !.counter = inc.counter,
                           !.prescaler_counter =
                              IF cascades THEN @ ELSE total % t.control.prescaler],
       overflows |-> inc.overflows]

Still(t) == [timer |-> t, overflows |-> 0]

(* The code passes on whether the previous timer overflowed, the hardware  *)
(* how often.                                                              *)
CarryFlag == [overflows \in Nat |-> IF overflows > 0 THEN 1 ELSE 0]
CarryCount == [overflows \in Nat |-> overflows]

AdvanceAll(ts, cycles, carry) ==
  LET step[i \in TimerId] ==
        IF ~ts[i].control.enabled THEN Still(ts[i])
        ELSE Advance(ts[i], i > 0 /\ ts[i].control.cascade, cycles,
                     IF i = 0 THEN 0 ELSE carry[step[i - 1].overflows])
  IN  step

Tick(ts, cycles) == AdvanceAll(ts, cycles, CarryFlag)

TimersAfter(r) == [i \in TimerId |-> r[i].timer]
Overflowed(r) == {i \in TimerId : r[i].overflows > 0}
IrqsOf(r) == {i \in Overflowed(r) : r[i].timer.control.irq}
-----------------------------------------------------------------------------
(* cycles_to_next_fifo_overflow: for timers 0 and 1, which clock the FIFO  *)
(* channels, in unsigned arithmetic; the largest number if neither runs.   *)
FifoTimers == {i \in TimerId : i < 2}
Clocking(ts) ==
  {i \in FifoTimers : ts[i].control.enabled /\ ~(i > 0 /\ ts[i].control.cascade)}

\* Mutant: the tick that is under way counts in full.
CyclesToOverflow_Whole(t) == ((WRAP - t.counter) * t.control.prescaler) % U32
CyclesToOverflow(t) ==
  ((t.control.prescaler - t.prescaler_counter)
     + (WRAP - t.counter - 1) * t.control.prescaler) % U32

CyclesToNextFifoOverflow(ts) ==
  LET times == {CyclesToOverflow(ts[i]) : i \in Clocking(ts)} \cup {U32 - 1}
  IN  CHOOSE c \in times : \A d \in times : c <= d
=============================================================================
