------------------------------ MODULE DmaCore ------------------------------
(***************************************************************************)
(* One DMA channel (gba-core/src/dma.rs, Bus::run_dma) as operators on a   *)
(* record with the fields of DmaChannel.  Dma.tla drives all channels by   *)
(* the display, Sound.tla drives channels 1 and 2 by the sound FIFOs.      *)
(***************************************************************************)
EXTENDS Integers

CONSTANTS
  Channel,    \* 0..3 in the code
  ADDR_SPACE, \* 2^32
  ADDR_MASK,  \* per channel: addresses are latched modulo this (2^27 or 2^28)
  MAX_COUNT,  \* per channel: units moved when the count register is 0
  COUNT_SPACE,\* 2^16: values of the count register
  FIFO_BYTES  \* bytes a FIFO transfer moves (16)

ASSUME DmaAssumption ==
  /\ Channel \subseteq 0..3
  /\ ADDR_SPACE \in Nat \ {0}
  /\ ADDR_MASK \in [Channel -> 1..ADDR_SPACE]
  /\ MAX_COUNT \in [Channel -> Nat \ {0}]
  /\ COUNT_SPACE \in Nat \ {0}
  /\ FIFO_BYTES \in Nat \ {0}

Timing == {"Immediate", "VBlank", "HBlank", "Special"}
AddrControl == {"Increment", "Decrement", "Fixed", "IncrementReload"}

DmaControl ==
  [enabled : BOOLEAN, irq : BOOLEAN, repeat : BOOLEAN, word32 : BOOLEAN,
   timing : Timing, src : AddrControl \ {"IncrementReload"}, dest : AddrControl]

Addr == 0..(ADDR_SPACE - 1)

DmaChannel ==
  [sad : Addr, dad : Addr, count : 0..(COUNT_SPACE - 1), control : DmaControl,
   internal_sad : Addr, internal_dad : Addr, internal_count : Nat, active : BOOLEAN]

NewChannel ==
  [sad |-> 0, dad |-> 0, count |-> 0,
   control |-> [enabled |-> FALSE, irq |-> FALSE, repeat |-> FALSE, word32 |-> FALSE,
                timing |-> "Immediate", src |-> "Increment", dest |-> "Increment"],
   internal_sad |-> 0, internal_dad |-> 0, internal_count |-> 0, active |-> FALSE]
-----------------------------------------------------------------------------
LoadCount(ch, c) == IF c.count = 0 THEN MAX_COUNT[ch] ELSE c.count

Latch(ch, c) ==
  [c EXCEPT !.internal_sad = c.sad % ADDR_MASK[ch],
            !.internal_dad = c.dad % ADDR_MASK[ch],
            !.internal_count = LoadCount(ch, c)]

ReloadForRepeat(ch, c) ==
  [c EXCEPT !.internal_dad = IF c.control.dest = "IncrementReload"
                             THEN c.dad % ADDR_MASK[ch] ELSE @,
            !.internal_count = LoadCount(ch, c)]

Starts(c, value) == value.enabled /\ ~c.control.enabled

\* Mutant: switching a channel off leaves it active.
WithControl_KeepActive(ch, c, value) ==
  IF Starts(c, value)
  THEN [Latch(ch, [c EXCEPT !.control = value]) EXCEPT !.active = TRUE]
  ELSE [c EXCEPT !.control = value]
WithControl(ch, c, value) ==
  IF Starts(c, value)
  THEN [Latch(ch, [c EXCEPT !.control = value]) EXCEPT !.active = TRUE]
  ELSE [c EXCEPT !.control = value, !.active = @ /\ value.enabled]

(* An immediate transfer runs within the store that starts the channel; a  *)
(* store to a channel that is already on never starts one.                 *)
RunsAtOnce(c, value) == Starts(c, value) /\ value.timing = "Immediate"
-----------------------------------------------------------------------------
Unit(c) == IF c.control.word32 THEN 4 ELSE 2

StepOf(mode, unit) ==
  CASE mode \in {"Increment", "IncrementReload"} -> unit
    [] mode = "Decrement" -> -unit
    [] mode = "Fixed" -> 0

Live(c) == c.control.enabled /\ c.active

IsFifo(ch, c) == ch \in {1, 2} /\ c.control.timing = "Special"

Moved(addr, mode, c) == (addr + c.internal_count * StepOf(mode, Unit(c))) % ADDR_SPACE

(* Four words, here byte by byte, to the fixed address of a FIFO port; the  *)
(* channel stays on.                                                       *)
FifoSources(c) == [k \in 1..FIFO_BYTES |-> (c.internal_sad + k - 1) % ADDR_SPACE]
FifoTransfer(c) == [c EXCEPT !.internal_sad = (@ + FIFO_BYTES) % ADDR_SPACE]

BlockTransfer(ch, c) ==
  LET moved == [c EXCEPT !.internal_sad = Moved(@, c.control.src, c),
                         !.internal_dad = Moved(@, c.control.dest, c)]
  IN  IF c.control.repeat /\ c.control.timing # "Immediate"
      THEN ReloadForRepeat(ch, moved)
      ELSE [moved EXCEPT !.control.enabled = FALSE, !.active = FALSE]

RunDma(ch, c) ==
  IF ~Live(c) THEN c
  ELSE IF IsFifo(ch, c) THEN FifoTransfer(c) ELSE BlockTransfer(ch, c)

(* The IRQ a run of the channel asks for. *)
IrqOnDone(c) == Live(c) /\ c.control.irq
=============================================================================
