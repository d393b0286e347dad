---------------------------- MODULE SampleQueue ----------------------------
(***************************************************************************)
(* What a sound FIFO promises: a bounded queue of samples.  A write drops  *)
(* the samples that do not fit; a pop plays the oldest one, or goes on     *)
(* playing the last one when there is none; a pop that leaves the queue    *)
(* half empty asks for a refill.                                           *)
(***************************************************************************)
EXTENDS Integers, Sequences

CONSTANTS
  CAPACITY,  \* samples the queue holds, at least one
  HALF,      \* a pop that leaves this many or fewer asks for a refill
  Sample,    \* the samples
  Silence,   \* what plays after a reset
  Bursts     \* how many samples are written at a time

VARIABLES queue, playing, refill

vars == <<queue, playing, refill>>

Init == queue = <<>> /\ playing = Silence /\ refill = FALSE

Room == CAPACITY - Len(queue)

Write(samples) ==
  /\ queue' = queue \o (IF Len(samples) <= Room THEN samples ELSE SubSeq(samples, 1, Room))
  /\ UNCHANGED <<playing, refill>>

Pop ==
  /\ queue' = IF queue = <<>> THEN queue ELSE Tail(queue)
  /\ playing' = IF queue = <<>> THEN playing ELSE Head(queue)
  /\ refill' = (Len(queue') <= HALF)

Reset ==
  /\ queue' = <<>> /\ playing' = Silence
  /\ UNCHANGED refill

Next ==
  \/ \E n \in Bursts : \E samples \in [1..n -> Sample] : Write(samples)
  \/ Pop
  \/ Reset

Spec == Init /\ [][Next]_vars
=============================================================================
