------------------------------ MODULE FifoCore ------------------------------
(***************************************************************************)
(* The ring buffer of a sound FIFO (gba-core/src/apu/fifo.rs) as operators *)
(* on a record with the fields of FifoChannel.                             *)
(***************************************************************************)
EXTENDS Integers, Sequences

CONSTANTS
  FIFO_CAPACITY, \* 32
  HALF,          \* 16: the level at which a pop asks for a refill
  Sample,        \* signed bytes in the code
  Silence        \* 0

ASSUME FifoAssumption ==
  /\ FIFO_CAPACITY \in Nat \ {0}
  /\ HALF \in 0..FIFO_CAPACITY
  /\ Silence \in Sample

Pos == 0..(FIFO_CAPACITY - 1)

Fifo == [buffer : [Pos -> Sample], read_pos : Pos, write_pos : Pos,
         count : 0..FIFO_CAPACITY, current_sample : Sample]

NewFifo ==
  [buffer |-> [p \in Pos |-> Silence], read_pos |-> 0, write_pos |-> 0,
   count |-> 0, current_sample |-> Silence]

After(pos) == (pos + 1) % FIFO_CAPACITY

PushByte(f, sample) ==
  IF f.count < FIFO_CAPACITY
  THEN [f EXCEPT !.buffer[f.write_pos] = sample, !.write_pos = After(@), !.count = @ + 1]
  ELSE f

(* write16 and write32, and the two halves of a word store to the port.    *)
PushAll(f, samples) ==
  LET pushed[k \in 0..Len(samples)] ==
        IF k = 0 THEN f ELSE PushByte(pushed[k - 1], samples[k])
  IN  pushed[Len(samples)]

\* Mutant: the read position is not moved.
PopSample_Stuck(f) ==
  IF f.count > 0
  THEN [f EXCEPT !.current_sample = f.buffer[f.read_pos], !.count = @ - 1]
  ELSE f
PopSample(f) ==
  IF f.count > 0
  THEN [f EXCEPT !.current_sample = f.buffer[f.read_pos], !.read_pos = After(@),
                 !.count = @ - 1]
  ELSE f

\* Mutant: the level is taken before the pop.
NeedsRefill_Early(f) == f.count <= HALF
NeedsRefill(f) == PopSample(f).count <= HALF

(* The samples stay in the buffer; only the positions are cleared.         *)
ResetFifo(f) ==
  [f EXCEPT !.read_pos = 0, !.write_pos = 0, !.count = 0, !.current_sample = Silence]

Contents(f) == [k \in 1..f.count |-> f.buffer[(f.read_pos + k - 1) % FIFO_CAPACITY]]
=============================================================================
