----------------------------- MODULE SoundFifo -----------------------------
(***************************************************************************)
(* One sound FIFO under any sequence of calls: stores by the CPU and DMA,  *)
(* pops by timer overflows and resets by SOUNDCNT_H.  It implements the    *)
(* queue of SampleQueue.                                                   *)
(***************************************************************************)
EXTENDS FifoCore

CONSTANT Bursts  \* samples per store: 2 for a halfword, 4 for a word

ASSUME BurstAssumption == Bursts \subseteq Nat

VARIABLES
  fifo,    \* the FifoChannel
  refill   \* what the last pop_sample returned

fifoVars == <<fifo, refill>>

FifoInit == fifo = NewFifo /\ refill = FALSE

FifoStore(samples) == fifo' = PushAll(fifo, samples) /\ UNCHANGED refill

FifoOverflow == fifo' = PopSample(fifo) /\ refill' = NeedsRefill(fifo)

FifoReset == fifo' = ResetFifo(fifo) /\ UNCHANGED refill

FifoNext ==
  \/ \E n \in Bursts : \E samples \in [1..n -> Sample] : FifoStore(samples)
  \/ FifoOverflow
  \/ FifoReset

FifoSpec == FifoInit /\ [][FifoNext]_fifoVars
-----------------------------------------------------------------------------
Queue == INSTANCE SampleQueue WITH
  CAPACITY <- FIFO_CAPACITY, queue <- Contents(fifo),
  playing <- fifo.current_sample

(* The ring buffer is a bounded queue: samples play in the order written,  *)
(* none twice, none lost but those that found the FIFO full.               *)
ImplementsQueue == Queue!Spec
=============================================================================
