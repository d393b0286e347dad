-------------------------------- MODULE Apu --------------------------------
(***************************************************************************)
(* The three stages of sound: the generator and the mixer that samples it, *)
(* the FIFOs of DMA sound, and the way of the samples to SDL.  They touch  *)
(* at a number each: the level of a FIFO in the mix, the pairs that a      *)
(* chunk of a frame makes.  One behaviour is about one stage.              *)
(***************************************************************************)
EXTENDS Audio, SoundFifo, Psg

VARIABLE
  stage    \* of this behaviour

apuVars == <<stage, vars, psgVars, fifoVars>>

ApuInit ==
  /\ stage \in {"generator", "fifo", "output"}
  /\ Init /\ FifoInit
  /\ PsgInit /\ (stage # "generator" => ch.kind = "square")

Generate == stage = "generator" /\ PsgNext /\ UNCHANGED <<stage, vars, fifoVars>>
Stream == stage = "fifo" /\ FifoNext /\ UNCHANGED <<stage, vars, psgVars>>
Output == stage = "output" /\ Next /\ UNCHANGED <<stage, psgVars, fifoVars>>

ApuNext == Generate \/ Stream \/ Output

(* The fairness of the output is that of its two threads, see Audio.       *)
ApuSpec ==
  /\ ApuInit /\ [][ApuNext]_apuVars
  /\ WF_apuVars(Output /\ Emulate) /\ WF_apuVars(Output /\ Callback)
=============================================================================
