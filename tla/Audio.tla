------------------------------- MODULE Audio -------------------------------
(***************************************************************************)
(* How sound gets from the emulated APU to SDL, and how SDL sets the pace  *)
(* of the emulator (gba-frontend/src/audio.rs and the main loop of         *)
(* main.rs).  The emulation thread runs a frame in chunks and moves the    *)
(* samples of each chunk to a shared buffer; SDL's audio thread takes a    *)
(* period's worth out of it whenever the device asks.  Buffers are counted *)
(* in stereo pairs.                                                        *)
(***************************************************************************)
EXTENDS Integers

CONSTANTS
  CHUNKS_PER_FRAME,  \* 4
  MaxPerChunk,       \* bound: pairs the APU makes in a chunk (201 to 202)
  SAMPLE_BUFFER_MAX, \* 8192: the APU drops new pairs beyond this
  TMP,               \* 2048: pairs that one drain_audio can take
  BUFFER_CAP,        \* 4096: the shared buffer drops old pairs beyond this
  BUFFER_HIGH,       \* 3072: the emulator waits above this level
  BUFFER_TARGET,     \* 1536: silence the buffer starts with
  PERIOD             \* 1024: pairs that a callback takes

ASSUME AudioAssumption ==
  /\ CHUNKS_PER_FRAME \in Nat \ {0} /\ PERIOD \in Nat \ {0}
  /\ MaxPerChunk \in Nat /\ SAMPLE_BUFFER_MAX \in Nat /\ TMP \in Nat
  /\ BUFFER_CAP \in Nat /\ BUFFER_HIGH \in Nat
  /\ BUFFER_TARGET \in 0..BUFFER_HIGH

VARIABLES
  pc,     \* the emulation thread: "run", "push", "pace" or "sleep"
  chunk,  \* chunks of this frame that are done
  core,   \* length of the APU's sample_buffer
  buffer, \* length of the shared buffer
  lost    \* history: a buffer has dropped samples

vars == <<pc, chunk, core, buffer, lost>>

Least(a, b) == IF a <= b THEN a ELSE b

Init ==
  /\ pc = "run" /\ chunk = 0 /\ core = 0
  /\ buffer = BUFFER_TARGET
  /\ lost = FALSE

(* gba.run_cycles(CHUNK_CYCLES) makes up to MaxPerChunk pairs. *)
RunChunk ==
  /\ pc = "run"
  /\ \E n \in 0..MaxPerChunk :
       /\ core' = Least(core + n, SAMPLE_BUFFER_MAX)
       /\ lost' = (lost \/ core + n > SAMPLE_BUFFER_MAX)
  /\ pc' = "push"
  /\ UNCHANGED <<chunk, buffer>>

(* drain_audio, and push_samples under the lock. *)
Drained == Least(core, TMP)
Push ==
  /\ pc = "push"
  /\ core' = core - Drained
  /\ buffer' = Least(buffer + Drained, BUFFER_CAP)
  /\ lost' = (lost \/ buffer + Drained > BUFFER_CAP)
  /\ chunk' = chunk + 1
  /\ pc' = IF chunk' < CHUNKS_PER_FRAME THEN "run" ELSE "pace"

NextFrame == pc' = "run" /\ chunk' = 0

(* The loop that waits for SDL: above BUFFER_HIGH the thread sleeps.  It   *)
(* reads the level again after that to see whether it fell to the target,  *)
(* and once more at the head of the loop.                                  *)
\* Mutant: the emulator paces itself by the clock, as without sound.
TooFull_Never == FALSE
TooFull == buffer > BUFFER_HIGH
Pace ==
  /\ pc = "pace"
  /\ IF TooFull THEN pc' = "sleep" /\ UNCHANGED chunk ELSE NextFrame
  /\ UNCHANGED <<core, buffer, lost>>
Wake ==
  /\ pc = "sleep"
  /\ IF buffer <= BUFFER_TARGET THEN NextFrame ELSE pc' = "pace" /\ UNCHANGED chunk
  /\ UNCHANGED <<core, buffer, lost>>

(* The callback takes what there is and fills the rest with silence. *)
Taken == Least(buffer, PERIOD)
\* Mutant: the waiting emulator keeps the buffer's lock.
Callback_Locked ==
  /\ pc \notin {"pace", "sleep"}
  /\ buffer' = buffer - Taken
  /\ UNCHANGED <<pc, chunk, core, lost>>
Callback ==
  /\ buffer' = buffer - Taken
  /\ UNCHANGED <<pc, chunk, core, lost>>

Emulate == RunChunk \/ Push \/ Pace \/ Wake
Next == Emulate \/ Callback

Spec == Init /\ [][Next]_vars

(* The emulation thread runs, and a device that plays asks for samples     *)
(* period after period.                                                    *)
FairSpec == Spec /\ WF_vars(Emulate) /\ WF_vars(Callback)
-----------------------------------------------------------------------------
(* The room above BUFFER_HIGH takes a frame, and a drain takes a chunk.    *)
FrameFits ==
  /\ MaxPerChunk <= TMP /\ MaxPerChunk <= SAMPLE_BUFFER_MAX
  /\ BUFFER_HIGH + CHUNKS_PER_FRAME * MaxPerChunk <= BUFFER_CAP

(* Pacing is only looked at between frames, yet no sample is dropped in a  *)
(* frame, however late the audio thread is: neither in the APU nor in the  *)
(* shared buffer ("latency bounded", main.rs).                             *)
NothingDropped == ~lost

(* The emulator goes on to the next frame again and again: SDL, "the       *)
(* master clock" (main.rs), does not leave it waiting for ever.            *)
FramesGoOn == []<>(pc = "run" /\ chunk = 0)
=============================================================================
