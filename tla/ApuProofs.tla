----------------------------- MODULE ApuProofs -----------------------------
(***************************************************************************)
(* The generator: a batch of any length is single cycles, on the fast path *)
(* and on the slow one, and a channel that sounds has an end; and the way  *)
(* to SDL: no sample is dropped, for every size of the buffers that leaves *)
(* room for a frame above BUFFER_HIGH.                                     *)
(***************************************************************************)
EXTENDS Apu, Numbers

(* Chunks of this frame whose samples are in one of the buffers. *)
Made == IF pc = "push" THEN chunk + 1 ELSE chunk

(* A frame starts with at most BUFFER_HIGH pairs waiting, and each chunk   *)
(* adds at most MaxPerChunk to them; the APU's buffer is empty but for the *)
(* chunk that was just made.                                               *)
Room ==
  /\ pc \in {"run", "push", "pace", "sleep"}
  /\ chunk \in 0..CHUNKS_PER_FRAME
  /\ pc \in {"run", "push"} => chunk < CHUNKS_PER_FRAME
  /\ core \in 0..MaxPerChunk /\ (pc # "push" => core = 0)
  /\ buffer \in Nat /\ buffer + core <= BUFFER_HIGH + Made * MaxPerChunk
  /\ lost = FALSE

(* The chunks of a frame make no more than CHUNKS_PER_FRAME times the      *)
(* largest.                                                                *)
LEMMA ChunksBound ==
  ASSUME NEW n \in 0..CHUNKS_PER_FRAME
  PROVE  /\ n * MaxPerChunk \in Nat
         /\ n * MaxPerChunk <= CHUNKS_PER_FRAME * MaxPerChunk
         /\ (n + 1) * MaxPerChunk = n * MaxPerChunk + MaxPerChunk
         /\ 0 * MaxPerChunk = 0
  <1>1. n \in Nat /\ CHUNKS_PER_FRAME - n \in Nat /\ MaxPerChunk \in Nat
    BY AudioAssumption
  <1>2. CHUNKS_PER_FRAME * MaxPerChunk = n * MaxPerChunk + (CHUNKS_PER_FRAME - n) * MaxPerChunk
    BY <1>1, AudioAssumption
  <1>3. (CHUNKS_PER_FRAME - n) * MaxPerChunk \in Nat /\ n * MaxPerChunk \in Nat
    BY <1>1
  <1> QED BY <1>1, <1>2, <1>3, AudioAssumption

(* It holds when the frontend starts. *)
LEMMA InitRoom == Init => Room
  BY AudioAssumption, ChunksBound DEF Init, Room, Made

(* Every step of the two threads preserves it. *)
LEMMA StepRoom ==
  ASSUME FrameFits, Room, [Next]_vars
  PROVE  Room'
  <1> USE AudioAssumption DEF Room
  <1>1. CASE RunChunk
    <2>1. PICK n \in 0..MaxPerChunk :
            /\ core' = Least(core + n, SAMPLE_BUFFER_MAX)
            /\ lost' = (lost \/ core + n > SAMPLE_BUFFER_MAX)
      BY <1>1 DEF RunChunk
    <2>2. core' = n /\ ~(core + n > SAMPLE_BUFFER_MAX)
      BY <1>1, <2>1 DEF RunChunk, FrameFits, Least
    <2>4. lost' = FALSE
      BY <2>1, <2>2, Zenon
    <2>3. Made' * MaxPerChunk = Made * MaxPerChunk + MaxPerChunk
      BY <1>1, ChunksBound DEF RunChunk, Made
    <2> QED BY <1>1, <2>2, <2>3, <2>4, ChunksBound DEF RunChunk, Made
  <1>2. CASE Push
    <2>1. Drained = core
      BY <1>2 DEF Drained, Least, FrameFits
    <2>2. buffer + core <= BUFFER_CAP /\ ~(buffer + core > BUFFER_CAP)
      BY <1>2, ChunksBound DEF Push, Made, FrameFits
    <2>3. core' = 0 /\ buffer' = buffer + core
      BY <1>2, <2>1, <2>2 DEF Push, Least
    <2>5. lost' = FALSE
      BY <1>2, <2>1, <2>2, Zenon DEF Push
    <2>4. Made' = Made /\ pc' \in {"run", "pace"} /\ chunk' = chunk + 1
          /\ (pc' = "run" => chunk' < CHUNKS_PER_FRAME)
      BY <1>2 DEF Push, Made
    <2> QED BY <1>2, <2>3, <2>4, <2>5 DEF Push
  <1>3. CASE Pace
    <2>1. CASE TooFull
      BY <1>3, <2>1 DEF Pace, Made
    <2>2. CASE ~TooFull
      <3>1. pc' = "run" /\ chunk' = 0 /\ buffer <= BUFFER_HIGH /\ UNCHANGED <<core, buffer, lost>>
        BY <1>3, <2>2 DEF Pace, NextFrame, TooFull
      <3>2. Made' * MaxPerChunk = 0
        BY <3>1, ChunksBound DEF Made
      <3> QED BY <1>3, <3>1, <3>2 DEF Pace
    <2> QED BY <2>1, <2>2
  <1>4. CASE Wake
    <2>1. CASE buffer <= BUFFER_TARGET
      <3>1. pc' = "run" /\ chunk' = 0 /\ buffer <= BUFFER_HIGH /\ UNCHANGED <<core, buffer, lost>>
        BY <1>4, <2>1 DEF Wake, NextFrame
      <3>2. Made' * MaxPerChunk = 0
        BY <3>1, ChunksBound DEF Made
      <3> QED BY <1>4, <3>1, <3>2 DEF Wake
    <2>2. CASE ~(buffer <= BUFFER_TARGET)
      BY <1>4, <2>2 DEF Wake, Made
    <2> QED BY <2>1, <2>2
  <1>5. CASE Callback
    <2>1. buffer' \in Nat /\ buffer' <= buffer
      BY <1>5 DEF Callback, Taken, Least
    <2>2. Made' = Made
      BY <1>5 DEF Callback, Made
    <2>3. Made * MaxPerChunk \in Nat
      BY ChunksBound DEF Made
    <2> QED BY <1>5, <2>1, <2>2, <2>3 DEF Callback
  <1>6. CASE UNCHANGED vars
    BY <1>6 DEF vars, Made
  <1> QED BY <1>1, <1>2, <1>3, <1>4, <1>5, <1>6 DEF Next, Emulate

(* Neither the APU's buffer nor the shared one drops a sample, whatever    *)
(* the schedule of the two threads, if a frame fits above BUFFER_HIGH.     *)
THEOREM NoSampleDropped ==
  ASSUME FrameFits
  PROVE  Spec => []NothingDropped
  <1>1. Init => Room
    BY InitRoom
  <1>2. Room /\ [Next]_vars => Room'
    BY StepRoom
  <1>3. Room => NothingDropped
    BY DEF Room, NothingDropped
  <1> QED BY <1>1, <1>2, <1>3, PTL DEF Spec

(***************************************************************************)
(* Repetition.                                                             *)
(***************************************************************************)

(* What is done again and again has a course, for any number of times.     *)
IsCourse(g, S, step, x, n) ==
  g \in [0..n -> S] /\ g[0] = x /\ \A i \in 0..(n - 1) : g[i + 1] = step[g[i]]

LEMMA Course ==
  ASSUME NEW S, NEW step \in [S -> S], NEW x \in S, NEW n \in Nat
  PROVE  \E g : IsCourse(g, S, step, x, n)
<1> DEFINE Goes(g, k) == g \in [0..k -> S] /\ g[0] = x /\ \A i \in 0..(k - 1) : g[i + 1] = step[g[i]]
           Long == {k \in Nat : \E g : Goes(g, k)}
<1>1. 0 \in Long
  <2>1. Goes([i \in 0..0 |-> x], 0)
    OBVIOUS
  <2> QED
    BY <2>1
<1>2. ASSUME NEW k \in Nat, k \in Long PROVE k + 1 \in Long
  <2>1. PICK g : Goes(g, k)
    BY <1>2
  <2> DEFINE h == [i \in 0..(k + 1) |-> IF i <= k THEN g[i] ELSE step[g[k]]]
  <2>2. g[k] \in S /\ step[g[k]] \in S
    BY <2>1
  <2>3. h \in [0..(k + 1) -> S] /\ h[0] = x
    BY <2>1, <2>2
  <2>4. ASSUME NEW i \in 0..k PROVE h[i + 1] = step[h[i]]
    <3>1. CASE i < k
      BY <2>1, <3>1
    <3>2. CASE i = k
      BY <2>1, <3>2
    <3> QED
      BY <3>1, <3>2
  <2> HIDE DEF h
  <2>5. Goes(h, k + 1)
    <3>1. 0..((k + 1) - 1) = 0..k
      OBVIOUS
    <3> QED
      BY <2>3, <2>4, <3>1
  <2> QED
    BY <2>5
<1> HIDE DEF Long
<1>3. n \in Long
  BY <1>1, <1>2, InductionTo
<1> QED
  BY <1>3 DEF Long, IsCourse

(* Halving is not growing. *)
LEMMA HalvedLess ==
  ASSUME NEW x \in Nat, NEW times \in Nat
  PROVE  Halved(x, times) \in 0..x
<1> DEFINE S == 0..x
           step == [y \in S |-> y \div 2]
           Body(g) == [n \in 0..times |-> IF n = 0 THEN x ELSE g[n - 1] \div 2]
           half == CHOOSE g : g = Body(g)
<1>1. step \in [S -> S] /\ x \in S
  OBVIOUS
<1>2. PICK g : IsCourse(g, S, step, x, times)
  <2>1. times \in Nat
    OBVIOUS
  <2> HIDE DEF S, step
  <2> QED
    BY ONLY <1>1, <2>1, Course
<1>3. g = Body(g)
  <2>1. ASSUME NEW n \in 0..times PROVE g[n] = Body(g)[n]
    <3>1. CASE n = 0
      BY <1>2, <3>1 DEF IsCourse
    <3>2. CASE n # 0
      <4>1. n - 1 \in 0..(times - 1) /\ (n - 1) + 1 = n
        BY <3>2
      <4>3. g[(n - 1) + 1] = step[g[n - 1]] /\ n - 1 \in 0..times
        <5> HIDE DEF S, step
        <5> QED
          BY <1>2, <4>1 DEF IsCourse
      <4>2. g[n] = step[g[n - 1]] /\ g[n - 1] \in S
        BY <1>2, <4>1, <4>3 DEF IsCourse
      <4> QED
        BY <3>2, <4>2
    <3> QED
      BY <3>1, <3>2
  <2> QED
    BY <1>2, <2>1 DEF IsCourse
<1>4. Halved(x, times) = half[times]
  BY DEF Halved
<1> HIDE DEF Body
<1>5. half = Body(half)
  BY <1>3
<1> HIDE DEF half
<1>6. half[0] = x /\ \A k \in 0..(times - 1) : half[k + 1] = half[k] \div 2
  <2>1. half = [n \in 0..times |-> IF n = 0 THEN x ELSE half[n - 1] \div 2]
    BY <1>5 DEF Body
  <2>2. half[0] = x
    BY <2>1
  <2>3. ASSUME NEW k \in 0..(times - 1) PROVE half[k + 1] = half[k] \div 2
    <3>1. k + 1 \in 0..times /\ k + 1 # 0 /\ (k + 1) - 1 = k
      OBVIOUS
    <3> QED
      BY <2>1, <3>1
  <2> QED
    BY <2>2, <2>3
<1> DEFINE T == {k \in Nat : k <= times => half[k] \in 0..x}
<1>7. 0 \in T
  BY <1>6
<1>8. ASSUME NEW k \in 0..(times - 1), k \in T PROVE k + 1 \in T
  <2>1. half[k + 1] = half[k] \div 2 /\ half[k] \in 0..x
    BY <1>6, <1>8
  <2> QED
    BY <2>1
<1> HIDE DEF T
<1>9. times \in T
  BY <1>7, <1>8, InductionTo
<1> QED
  BY <1>4, <1>9 DEF T

(***************************************************************************)
(* A channel.                                                              *)
(***************************************************************************)
PsgChannel ==
  [kind : Kinds, enabled : BOOLEAN, length : Nat, length_on : BOOLEAN,
   init : 0..VOLUME, up : BOOLEAN, period : Nat, volume : Int, env_timer : Nat,
   sweep_period : Nat, negate : BOOLEAN, shift : Nat, sweep_timer : Nat,
   shadow : Nat, sweep_on : BOOLEAN,
   frequency : 0..(FREQUENCIES - 1), timer : Nat, pos : Nat,
   dac : BOOLEAN, bank : {0, 1}, dimension : BOOLEAN, ram : SUBSET Nat,
   width : BOOLEAN, lfsr : Nat]

(* Its next sweep step is a frequency, if it makes one. *)
SweepEnds(c) == c.enabled /\ c.sweep_on /\ c.sweep_period > 0 /\ c.shift > 0 => ~Overflows(c)

(* Its noise is not stuck: neither is the part of the register that the    *)
(* noise of the short period is made of.                                   *)
NoiseLives(c) == c.lfsr # 0 /\ (c.width => c.lfsr % (2 * SHORT_TOP) # 0)

(* What holds of it whatever is stored, and what does since a note began.  *)
Steady(c) ==
  /\ c \in PsgChannel
  /\ c.enabled => c.length > 0
  /\ c.kind # "square_sweep" => ~c.sweep_on
  /\ c.kind # "wave" => c.pos \in {0, 1}
  /\ c.kind # "noise" => c.lfsr = AllOnes
Untouched(c) ==
  /\ SweepEnds(c) /\ NoiseLives(c)
  /\ c.kind = "wave" => c.pos < Samples(c)

(* A step of a channel that changes none of what is stored to it.          *)
Carries(c, d) == Steady(c) => Steady(d) /\ (Untouched(c) => Untouched(d))

(* The next frequency of a sweep is a number. *)
LEMMA SweepType ==
  ASSUME NEW c \in PsgChannel
  PROVE  SweepFreq(c) \in Nat
<1>1. Halved(c.shadow, c.shift) \in 0..c.shadow /\ c.shadow \in Nat
  BY HalvedLess DEF PsgChannel
<1> QED
  BY <1>1 DEF SweepFreq

(* A step that touches nothing of what makes a note go on.                 *)
SameNote(c, d) ==
  /\ d.enabled => c.enabled
  /\ d.kind = c.kind /\ d.sweep_on = c.sweep_on /\ d.pos = c.pos /\ d.lfsr = c.lfsr
  /\ d.width = c.width /\ d.dimension = c.dimension /\ d.sweep_period = c.sweep_period
  /\ d.shift = c.shift /\ d.shadow = c.shadow /\ d.negate = c.negate
LEMMA SameNoteStays ==
  ASSUME NEW c, NEW d, SameNote(c, d), Untouched(c)
  PROVE  Untouched(d)
<1>1. SweepEnds(d)
  BY DEF SameNote, Untouched, SweepEnds, Overflows, SweepFreq
<1>2. NoiseLives(d) /\ (d.kind = "wave" => d.pos < Samples(d))
  BY DEF SameNote, Untouched, NoiseLives, Samples
<1> QED
  BY <1>1, <1>2 DEF Untouched

(* The length runs out, and the channel is off when it has. *)
LEMMA LengthCarries ==
  ASSUME NEW c
  PROVE  Carries(c, clock_length(c))
<1> SUFFICES ASSUME Steady(c) PROVE Steady(clock_length(c)) /\ (Untouched(c) => Untouched(clock_length(c)))
  BY DEF Carries
<1>1. CASE ~c.length_on \/ c.length = 0
  BY <1>1 DEF clock_length
<1>2. CASE ~(~c.length_on \/ c.length = 0)
  <2> DEFINE on == c.enabled /\ c.length > 1
             d == [c EXCEPT !.length = @ - 1, !.enabled = on]
  <2>1. clock_length(c) = d
    BY <1>2 DEF clock_length
  <2>2. c \in PsgChannel /\ c.length \in Nat \ {0} /\ on \in BOOLEAN /\ c.length - 1 \in Nat
        /\ (on => c.enabled /\ c.length - 1 > 0)
    BY <1>2 DEF Steady, PsgChannel
  <2> HIDE DEF on
  <2>3. d \in PsgChannel
    BY <2>2, ZenonT(60) DEF PsgChannel
  <2>4. d.length = c.length - 1 /\ d.enabled = on /\ SameNote(c, d)
    BY <2>2 DEF PsgChannel, SameNote
  <2> HIDE DEF d
  <2>5. Steady(d)
    BY <2>2, <2>3, <2>4 DEF Steady, SameNote
  <2> QED
    BY <2>1, <2>4, <2>5, SameNoteStays
<1> QED
  BY <1>1, <1>2

(* The envelope moves the volume. *)
LEMMA EnvelopeCarries ==
  ASSUME NEW c
  PROVE  Carries(c, clock_envelope(c))
<1> SUFFICES ASSUME Steady(c) PROVE Steady(clock_envelope(c)) /\ (Untouched(c) => Untouched(clock_envelope(c)))
  BY DEF Carries
<1>1. ASSUME NEW v \in Int, NEW t \in Nat
      PROVE  LET d == [c EXCEPT !.env_timer = t, !.volume = v]
             IN  Steady(d) /\ (Untouched(c) => Untouched(d))
  <2> DEFINE d == [c EXCEPT !.env_timer = t, !.volume = v]
  <2>1. c \in PsgChannel
    BY DEF Steady
  <2>2. d \in PsgChannel
    BY <2>1, ZenonT(60) DEF PsgChannel
  <2>3. d.length = c.length /\ d.enabled = c.enabled /\ SameNote(c, d)
    BY <2>1, SMTT(40) DEF PsgChannel, SameNote
  <2> HIDE DEF d
  <2>4. Steady(d)
    BY <2>2, <2>3 DEF Steady, SameNote
  <2> QED
    BY <2>3, <2>4, SameNoteStays DEF d
<1>2. c \in PsgChannel /\ c.period \in Nat /\ c.env_timer \in Nat /\ c.volume \in Int
  BY DEF Steady, PsgChannel
<1>3. CASE c.period = 0
  BY <1>2, <1>3 DEF clock_envelope
<1>4. CASE c.period # 0 /\ c.env_timer > 1
  <2>1. clock_envelope(c) = [c EXCEPT !.env_timer = c.env_timer - 1]
    BY <1>2, <1>4 DEF clock_envelope
  <2>2. [c EXCEPT !.env_timer = c.env_timer - 1]
           = [c EXCEPT !.env_timer = c.env_timer - 1, !.volume = c.volume]
    BY <1>2 DEF PsgChannel
  <2>3. c.env_timer - 1 \in Nat
    BY <1>2, <1>4
  <2> QED
    BY <1>1, <1>2, <2>1, <2>2, <2>3
<1>5. CASE c.period # 0 /\ ~(c.env_timer > 1)
  <2> DEFINE v == CASE c.up /\ c.volume < VOLUME -> c.volume + 1
                    [] ~c.up /\ c.volume > 0 -> c.volume - 1
                    [] OTHER -> c.volume
  <2>1. v \in Int
    BY <1>2
  <2>2. clock_envelope(c) = [c EXCEPT !.env_timer = c.period, !.volume = v]
    BY <1>2, <1>5 DEF clock_envelope
  <2> HIDE DEF v
  <2> QED
    BY <1>1, <1>2, <2>1, <2>2
<1> QED
  BY <1>3, <1>4, <1>5

(* The check turns off a channel whose next step is no frequency.          *)
LEMMA CheckedSweep ==
  ASSUME NEW c, Steady(c)
  PROVE  LET d == CheckSweep(c)
         IN  /\ Steady(d) /\ SweepEnds(d)
             /\ d.kind = c.kind /\ d.pos = c.pos /\ d.lfsr = c.lfsr /\ d.width = c.width
             /\ d.dimension = c.dimension
<1> DEFINE on == c.enabled /\ ~Overflows(c)
           d == [c EXCEPT !.enabled = on]
<1>1. CheckSweep(c) = d /\ on \in BOOLEAN /\ (on => c.enabled /\ ~Overflows(c)) /\ c \in PsgChannel
  BY DEF CheckSweep, Steady, PsgChannel
<1> HIDE DEF on
<1>2. d \in PsgChannel
  BY <1>1 DEF PsgChannel
<1>3. d.enabled = on /\ SameNote(c, d) /\ d.length = c.length
  BY <1>1 DEF PsgChannel, SameNote
<1> HIDE DEF d
<1>4. Steady(d)
  BY <1>1, <1>2, <1>3 DEF Steady, SameNote
<1>5. Overflows(d) = Overflows(c)
  BY <1>3 DEF Overflows, SweepFreq, SameNote
<1>6. SweepEnds(d)
  BY <1>1, <1>3, <1>5 DEF SweepEnds
<1> QED
  BY <1>1, <1>3, <1>4, <1>6 DEF SameNote

(* The sweep moves the frequency to one that the register can hold, and    *)
(* looks one step ahead.                                                   *)
LEMMA SweepCarries ==
  ASSUME NEW c
  PROVE  Carries(c, clock_sweep(c))
<1> SUFFICES ASSUME Steady(c) PROVE Steady(clock_sweep(c)) /\ (Untouched(c) => Untouched(clock_sweep(c)))
  BY DEF Carries
<1>1. c \in PsgChannel /\ c.sweep_timer \in Nat /\ SweepReload(c) \in Nat
  BY PsgAssumption DEF Steady, PsgChannel, SweepReload
<1>2. ASSUME NEW t \in Nat
      PROVE  LET d == [c EXCEPT !.sweep_timer = t] IN Steady(d) /\ SameNote(c, d)
  <2> DEFINE d == [c EXCEPT !.sweep_timer = t]
  <2>1. d \in PsgChannel
    BY <1>1 DEF PsgChannel
  <2>2. d.length = c.length /\ d.enabled = c.enabled /\ SameNote(c, d)
    BY <1>1 DEF PsgChannel, SameNote
  <2> HIDE DEF d
  <2>3. Steady(d)
    BY <2>1, <2>2 DEF Steady, SameNote
  <2> QED
    BY <2>2, <2>3 DEF d
<1>3. CASE c.sweep_timer > 1
  <2>1. clock_sweep(c) = [c EXCEPT !.sweep_timer = c.sweep_timer - 1] /\ c.sweep_timer - 1 \in Nat
    BY <1>1, <1>3 DEF clock_sweep
  <2> QED
    BY <1>2, <2>1, SameNoteStays
<1>4. CASE ~(c.sweep_timer > 1)
  <2> DEFINE s == [c EXCEPT !.sweep_timer = SweepReload(c)]
  <2>1. clock_sweep(c) = IF c.sweep_on /\ c.sweep_period > 0 THEN StepSweep(s) ELSE s
    BY <1>4 DEF clock_sweep
  <2>2. Steady(s) /\ SameNote(c, s)
    BY <1>1, <1>2
  <2> HIDE DEF s
  <2> DEFINE f == SweepFreq(s)
             n == [s EXCEPT !.shadow = f, !.frequency = f]
             Ahead(d) == Steady(d) /\ SweepEnds(d) /\ d.kind = s.kind /\ d.pos = s.pos
                           /\ d.lfsr = s.lfsr /\ d.width = s.width /\ d.dimension = s.dimension
  <2>3. Ahead(StepSweep(s))
    <3>1. CASE Overflows(s) \/ s.shift = 0
      <4>1. StepSweep(s) = CheckSweep(s)
        BY <3>1 DEF StepSweep
      <4> QED
        BY <2>2, <4>1, CheckedSweep
    <3>2. CASE ~(Overflows(s) \/ s.shift = 0)
      <4>1. StepSweep(s) = CheckSweep(n)
        BY <3>2 DEF StepSweep
      <4>2. s \in PsgChannel /\ f \in Nat /\ f \in 0..(FREQUENCIES - 1)
        BY <2>2, <3>2, SweepType, PsgAssumption DEF Overflows, Steady
      <4> HIDE DEF f
      <4>3. n \in PsgChannel
        BY <4>2, Zenon DEF PsgChannel
      <4>4. n.kind = s.kind /\ n.pos = s.pos /\ n.lfsr = s.lfsr /\ n.width = s.width
            /\ n.dimension = s.dimension /\ n.length = s.length /\ n.enabled = s.enabled
            /\ n.sweep_on = s.sweep_on
        BY <4>2 DEF PsgChannel
      <4> HIDE DEF n
      <4>5. Steady(n)
        BY <2>2, <4>3, <4>4 DEF Steady
      <4> QED
        BY <4>1, <4>4, <4>5, CheckedSweep
    <3> QED
      BY <3>1, <3>2
  <2>4. ASSUME NEW d, Ahead(d) PROVE Steady(d) /\ (Untouched(c) => Untouched(d))
    BY <2>2, <2>4 DEF Untouched, NoiseLives, Samples, SameNote
  <2> QED
    BY <2>1, <2>2, <2>3, <2>4, SameNoteStays
<1> QED
  BY <1>3, <1>4

(* The noise register: its short part is a register of its own, which is   *)
(* shifted as the whole one is.                                            *)
LEMMA NoiseGoesOn ==
  ASSUME NEW c \in PsgChannel
  PROVE  /\ Shifted(c) \in Nat
         /\ NoiseLives(c) => Shifted(c) # 0 /\ (c.width => Shifted(c) % (2 * SHORT_TOP) # 0)
<1> DEFINE l == c.lfsr
           top == SHORT_TOP
           h == l \div 2
           b == l % 2
           x == (l + h) % 2
           q == l \div (2 * top)
           r == l % (2 * top)
           rr == r \div 2
           long == h + (x * LFSR_TOP)
<1>1. /\ l \in Nat /\ top \in Nat \ {0} /\ LFSR_TOP \in Nat \ {0} /\ 2 * top \in Nat \ {0}
      /\ c.width \in BOOLEAN
  BY PsgAssumption DEF PsgChannel
<1>2. PICK u \in Nat : top = 2 * u
  <2>1. top \div 2 \in Nat /\ top = 2 * (top \div 2)
    BY <1>1, PsgAssumption
  <2> QED
    BY <2>1
<1>3. PICK k \in Nat : LFSR_TOP = top * (2 * k)
  <2> DEFINE d == 2 * top
             k == LFSR_TOP \div d
  <2>1. LFSR_TOP % d = 0 /\ d \in Nat \ {0}
    BY <1>1, PsgAssumption
  <2> HIDE DEF d
  <2>2. k \in Nat /\ LFSR_TOP = d * k + 0
    BY <1>1, <2>1, Division
  <2> HIDE DEF k
  <2>3. LFSR_TOP = (2 * top) * k
    BY <1>1, <2>1, <2>2 DEF d
  <2>4. (2 * top) * k = top * (2 * k)
    BY <1>1, <2>2
  <2> QED
    BY <2>2, <2>3, <2>4
<1> USE DEF Shifted
<1>4. Shifted(c) = IF c.width THEN WithBit(long, top, x) ELSE long
  OBVIOUS
<1>5. q \in Nat /\ r \in 0..(2 * top - 1) /\ l = (2 * top) * q + r
  <2> DEFINE d == 2 * top
  <2>1. d \in Nat \ {0}
    BY <1>1
  <2> HIDE DEF d
  <2>2. l \div d \in Nat /\ l % d \in 0..(d - 1) /\ l = d * (l \div d) + (l % d)
    BY <1>1, <2>1, Division
  <2> QED
    BY <2>2 DEF d
<1>6. h \in Nat /\ b \in {0, 1} /\ l = 2 * h + b /\ x \in {0, 1}
  BY <1>1
<1> HIDE DEF q, r, x, h, b, l
<1>19. \A n \in Nat : x * n \in Nat /\ (x = 0 => x * n = 0) /\ (x = 1 => x * n = n)
  BY <1>6
<1>7. rr \in Nat /\ rr < top /\ (r = 2 * rr \/ r = 2 * rr + 1)
  BY <1>1, <1>5
<1> HIDE DEF rr
<1> DEFINE sq == top * q
<1>8. sq \in Nat /\ (2 * top) * q = 2 * sq
  BY <1>1, <1>5
<1>9. h = sq + rr /\ r = 2 * rr + b
  <2> HIDE DEF sq
  <2> QED
    BY <1>1, <1>5, <1>6, <1>7, <1>8
<1>10. x = (b + rr) % 2
  <2>1. sq = 2 * (u * q) /\ u * q \in Nat
    BY <1>2, <1>5
  <2> DEFINE m == u * q
  <2>2. l + h = 2 * (h + m) + (b + rr) /\ m \in Nat
    <3> HIDE DEF sq
    <3>1. m \in Nat /\ sq = 2 * m /\ h = sq + rr
      BY <1>9, <2>1 DEF sq
    <3> HIDE DEF m
    <3> QED
      BY <1>6, <1>7, <1>8, <3>1
  <2> HIDE DEF m, sq
  <2>3. (2 * (h + m) + (b + rr)) % 2 = (b + rr) % 2
    BY <1>6, <1>7, <2>2
  <2> QED
    BY <2>2, <2>3 DEF x
<1> DEFINE Q == IF x = 1 THEN q + 2 * k ELSE q
<1>11. Q \in Nat /\ long = top * Q + rr /\ Q % 2 = q % 2
  <2>1. top * (q + 2 * k) = top * q + top * (2 * k) /\ top * (2 * k) = LFSR_TOP /\ 2 * k \in Nat
    BY <1>1, <1>3, <1>5
  <2>2. CASE x = 1
    <3>1. long = h + LFSR_TOP
      BY <1>1, <1>6, <1>19, <2>2
    <3>2. (q + 2 * k) % 2 = q % 2
      BY <1>5
    <3>3. Q = q + 2 * k
      BY <2>2
    <3>4. long = top * (q + 2 * k) + rr
      <4> HIDE DEF long
      <4> QED
        BY <1>1, <1>3, <1>7, <1>8, <1>9, <2>1, <3>1
    <3> HIDE DEF long, Q
    <3> QED
      BY <1>5, <2>1, <3>2, <3>3, <3>4
  <2>3. CASE x = 0
    <3>1. long = h
      BY <1>1, <1>6, <1>19, <2>3
    <3> HIDE DEF long
    <3> QED
      BY <1>1, <1>5, <1>8, <1>9, <2>3, <3>1
  <2> QED
    BY <1>6, <2>2, <2>3
<1>12. long \in Nat
  BY <1>1, <1>6, <1>19
<1> HIDE DEF Q, sq
<1>13. long \div top = Q
  <2>1. rr \in 0..(top - 1)
    BY <1>1, <1>7
  <2> HIDE DEF long, top
  <2> QED
    BY <1>1, <1>11, <2>1, Quotient
<1>14. PICK p \in Nat, e \in {0, 1} : Q = 2 * p + e /\ Q % 2 = e
  <2>1. Q \div 2 \in Nat /\ Q % 2 \in {0, 1} /\ Q = 2 * (Q \div 2) + (Q % 2)
    BY <1>11
  <2> QED
    BY <2>1
<1> DEFINE t == rr + (x * top)
<1>15. t \in 0..(2 * top - 1) /\ WithBit(long, top, x) = (2 * top) * p + t
  <2>1. WithBit(long, top, x) = (long - (e * top)) + (x * top)
    BY <1>13, <1>14 DEF WithBit
  <2>2. top * (2 * p + e) = (2 * top) * p + (e * top)
    BY <1>1, <1>14
  <2>3. (2 * top) * p \in Nat /\ (e = 0 => e * top = 0) /\ (e = 1 => e * top = top)
        /\ (x = 0 => x * top = 0) /\ (x = 1 => x * top = top)
    BY <1>1, <1>14
  <2> DEFINE w == (2 * top) * p
             et == e * top
             xt == x * top
  <2> HIDE DEF w, et, xt, x, long
  <2> QED
    BY <1>1, <1>6, <1>7, <1>11, <1>12, <1>14, <2>1, <2>2, <2>3 DEF w, et, xt
<1>16. ASSUME NoiseLives(c), c.width
       PROVE  WithBit(long, top, x) % (2 * top) # 0 /\ WithBit(long, top, x) # 0
  <2>1. r # 0
    BY <1>16 DEF NoiseLives, r, l
  <2>2. t # 0
    <3>1. CASE rr = 0
      <4>1. b = 1 /\ x = 1
        BY <1>6, <1>9, <1>10, <2>1, <3>1
      <4> QED
        BY <1>1, <1>7, <1>19, <4>1
    <3>2. CASE rr # 0
      <4>1. x * top \in Nat
        BY <1>1, <1>19
      <4> QED
        BY <1>7, <3>2, <4>1
    <3> QED
      BY <3>1, <3>2
  <2>3. ((2 * top) * p + t) % (2 * top) = t
    <3> DEFINE d == 2 * top
    <3>1. d \in Nat \ {0} /\ t \in 0..(d - 1)
      BY <1>1, <1>15
    <3> HIDE DEF d, t
    <3>2. (d * p + t) % d = t
      BY <1>14, <3>1, Quotient
    <3> QED
      BY <3>2 DEF d
  <2>4. (2 * top) * p \in Nat
    BY <1>1, <1>14
  <2> HIDE DEF t
  <2> QED
    BY <1>15, <2>2, <2>3, <2>4
<1>17. ASSUME NoiseLives(c), ~c.width PROVE long # 0
  <2>1. l # 0
    BY <1>17 DEF NoiseLives, l
  <2>2. CASE h = 0
    <3>1. x = 1
      BY <1>6, <2>1, <2>2 DEF x
    <3> QED
      BY <1>1, <1>19, <2>2, <3>1
  <2>3. CASE h # 0
    <3>1. x * LFSR_TOP \in Nat
      BY <1>1, <1>19
    <3> QED
      BY <1>6, <2>3, <3>1
  <2> QED
    BY <2>2, <2>3
<1>18. WithBit(long, top, x) \in Nat
  <2>1. (2 * top) * p \in Nat
    BY <1>1, <1>14
  <2> HIDE DEF t, long
  <2> QED
    BY <1>15, <2>1
<1> HIDE DEF long, x, t
<1> QED
  BY <1>1, <1>4, <1>12, <1>16, <1>17, <1>18

(* One cycle of a channel. *)
LEMMA ChannelCarries ==
  ASSUME NEW c
  PROVE  Carries(c, tick_channel(c))
<1> SUFFICES ASSUME Steady(c) PROVE Steady(tick_channel(c)) /\ (Untouched(c) => Untouched(tick_channel(c)))
  BY DEF Carries
<1> DEFINE tm == FREQUENCIES - c.frequency
           n == [c EXCEPT !.timer = tm]
<1>1. /\ c \in PsgChannel /\ c.timer \in Nat /\ c.pos \in Nat /\ c.kind \in Kinds
      /\ tm \in Nat /\ Samples(c) \in Nat \ {0}
  BY PsgAssumption DEF Steady, PsgChannel, Samples
<1> HIDE DEF tm
<1>2. ASSUME NEW t \in Nat
      PROVE  LET d == [c EXCEPT !.timer = t] IN Steady(d) /\ SameNote(c, d)
  <2> DEFINE d == [c EXCEPT !.timer = t]
  <2>1. d \in PsgChannel
    BY <1>1 DEF PsgChannel
  <2>2. d.length = c.length /\ d.enabled = c.enabled /\ SameNote(c, d)
    BY <1>1 DEF PsgChannel, SameNote
  <2> HIDE DEF d
  <2>3. Steady(d)
    BY <2>1, <2>2 DEF Steady, SameNote
  <2> QED
    BY <2>2, <2>3 DEF d
<1>3. CASE ~Runs(c)
  BY <1>3 DEF tick_channel
<1>4. CASE Runs(c) /\ c.timer > 1
  <2>1. tick_channel(c) = [c EXCEPT !.timer = c.timer - 1] /\ c.timer - 1 \in Nat
    BY <1>1, <1>4 DEF tick_channel
  <2> QED
    BY <1>2, <2>1, SameNoteStays
<1>5. CASE Runs(c) /\ ~(c.timer > 1)
  <2>1. Steady(n) /\ SameNote(c, n) /\ n \in PsgChannel
    BY <1>1, <1>2 DEF Steady
  <2>2. ASSUME NEW p \in Nat, p < Samples(c), c.kind # "wave" => p \in {0, 1}
        PROVE  LET d == [n EXCEPT !.pos = p] IN Steady(d) /\ (Untouched(c) => Untouched(d))
    <3> DEFINE d == [n EXCEPT !.pos = p]
    <3> HIDE DEF n
    <3>1. d \in PsgChannel
      BY <2>1 DEF PsgChannel
    <3>2. /\ d.pos = p /\ d.length = n.length /\ d.enabled = n.enabled /\ d.kind = n.kind
          /\ d.sweep_on = n.sweep_on /\ d.lfsr = n.lfsr /\ d.width = n.width
          /\ d.dimension = n.dimension /\ d.sweep_period = n.sweep_period
          /\ d.shift = n.shift /\ d.shadow = n.shadow /\ d.negate = n.negate
      BY <2>1 DEF PsgChannel
    <3> HIDE DEF d
    <3>3. Steady(d)
      BY <2>1, <2>2, <3>1, <3>2 DEF Steady, SameNote
    <3>4. ASSUME Untouched(c) PROVE Untouched(d)
      <4>1. Untouched(n)
        BY <2>1, <3>4, SameNoteStays
      <4>2. SweepEnds(d)
        BY <3>2, <4>1 DEF Untouched, SweepEnds, Overflows, SweepFreq
      <4>3. NoiseLives(d) /\ (d.kind = "wave" => d.pos < Samples(d))
        BY <2>1, <2>2, <3>2, <4>1 DEF Untouched, NoiseLives, Samples, SameNote
      <4> QED
        BY <4>2, <4>3 DEF Untouched
    <3> QED
      BY <3>3, <3>4 DEF d
  <2>3. CASE c.kind = "wave"
    <3> DEFINE p == (c.pos + 1) % Samples(c)
    <3>1. tick_channel(c) = [n EXCEPT !.pos = p]
      <4>1. n.pos = c.pos
        BY <2>1 DEF SameNote
      <4>2. tick_channel(c) = [n EXCEPT !.pos = (n.pos + 1) % Samples(c)]
        BY <1>5, <2>3 DEF tick_channel, tm
      <4> QED
        BY <4>1, <4>2
    <3>2. p \in Nat /\ p < Samples(c)
      <4> DEFINE z == Samples(c)
      <4>1. z \in Nat \ {0} /\ c.pos + 1 \in Nat
        BY <1>1
      <4> HIDE DEF z
      <4>2. (c.pos + 1) % z \in 0..(z - 1)
        BY <4>1
      <4> QED
        BY <4>1, <4>2 DEF z
    <3> HIDE DEF p, n
    <3> QED
      BY <2>2, <2>3, <3>1, <3>2 DEF n
  <2>4. CASE c.kind = "noise"
    <3> DEFINE x == Shifted(c)
               d == [n EXCEPT !.lfsr = x]
    <3>1. tick_channel(c) = d
      BY <1>5, <2>4 DEF tick_channel, tm
    <3>2. x \in Nat
      BY <1>1, NoiseGoesOn
    <3> HIDE DEF n, x
    <3>3. d \in PsgChannel
      BY <2>1, <3>2 DEF PsgChannel
    <3>4. /\ d.lfsr = x /\ d.length = n.length /\ d.enabled = n.enabled /\ d.kind = n.kind
          /\ d.sweep_on = n.sweep_on /\ d.pos = n.pos /\ d.width = n.width
          /\ d.dimension = n.dimension /\ d.sweep_period = n.sweep_period
          /\ d.shift = n.shift /\ d.shadow = n.shadow /\ d.negate = n.negate
      BY <2>1 DEF PsgChannel
    <3> HIDE DEF d
    <3>5. Steady(d)
      BY <2>1, <2>4, <3>3, <3>4 DEF Steady, SameNote
    <3>6. ASSUME Untouched(c) PROVE Untouched(d)
      <4>1. Untouched(n)
        BY <2>1, <3>6, SameNoteStays
      <4>2. SweepEnds(d)
        BY <3>4, <4>1 DEF Untouched, SweepEnds, Overflows, SweepFreq
      <4>3. x # 0 /\ (c.width => x % (2 * SHORT_TOP) # 0)
        BY <1>1, <3>6, NoiseGoesOn DEF x, Untouched
      <4>4. NoiseLives(d)
        BY <2>1, <3>4, <4>3 DEF NoiseLives, SameNote
      <4>5. d.kind # "wave"
        BY <2>1, <2>4, <3>4 DEF SameNote
      <4> QED
        BY <4>2, <4>4, <4>5 DEF Untouched
    <3> QED
      BY <3>1, <3>5, <3>6
  <2>5. CASE c.kind \notin {"wave", "noise"}
    <3> DEFINE p == (c.pos + 1) % 2
    <3>1. tick_channel(c) = [n EXCEPT !.pos = p]
      <4>1. n.pos = c.pos
        BY <2>1 DEF SameNote
      <4>2. tick_channel(c) = [n EXCEPT !.pos = (n.pos + 1) % 2]
        BY <1>5, <2>5 DEF tick_channel, tm
      <4> QED
        BY <4>1, <4>2
    <3>2. p \in {0, 1} /\ p < Samples(c) /\ p \in Nat
      BY <1>1, PsgAssumption DEF Samples, PsgChannel
    <3> HIDE DEF p, n
    <3> QED
      BY <2>2, <2>5, <3>1, <3>2 DEF n
  <2> QED
    BY <2>3, <2>4, <2>5
<1> QED
  BY <1>3, <1>4, <1>5

(* The register of noise starts with all ones, its short part, too.        *)
LEMMA AllOnesLive ==
  AllOnes \in Nat /\ AllOnes # 0 /\ AllOnes % (2 * SHORT_TOP) # 0
<1> DEFINE d == 2 * SHORT_TOP
           k == LFSR_TOP \div d
<1>1. d \in Nat \ {0} /\ d > 1 /\ LFSR_TOP \in Nat \ {0} /\ LFSR_TOP % d = 0
  BY PsgAssumption
<1> HIDE DEF d
<1>2. k \in Nat /\ LFSR_TOP = d * k + 0
  BY <1>1, Division
<1> HIDE DEF k
<1>3. k # 0
  BY <1>1, <1>2
<1>4. 2 * k - 1 \in Nat /\ d - 1 \in 0..(d - 1) /\ d - 1 # 0
  BY <1>1, <1>2, <1>3
<1>5. AllOnes = d * (2 * k - 1) + (d - 1)
  <2>1. d * (2 * k - 1) = 2 * (d * k) - d
    BY <1>1, <1>2
  <2> QED
    BY <1>1, <1>2, <2>1 DEF AllOnes
<1>6. AllOnes % d = d - 1
  BY <1>1, <1>4, <1>5, Quotient
<1>7. AllOnes \in Nat /\ AllOnes # 0
  BY <1>1 DEF AllOnes
<1> QED
  BY <1>4, <1>6, <1>7 DEF d

(* A note begins with everything it needs to go on and to end.             *)
LEMMA NoteBegins ==
  ASSUME NEW c, Steady(c)
  PROVE  Steady(trigger(c)) /\ Untouched(trigger(c))
<1> DEFINE tm == FREQUENCIES - c.frequency
           len == IF c.length = 0 THEN LENGTH ELSE c.length
           n == [c EXCEPT !.enabled = TRUE, !.length = len, !.timer = tm]
<1>1. c \in PsgChannel /\ tm \in Nat /\ len \in Nat /\ len > 0 /\ c.kind \in Kinds
  BY PsgAssumption DEF Steady, PsgChannel
<1>2. [Loaded(c) EXCEPT !.timer = FREQUENCIES - c.frequency] = n
  BY <1>1 DEF Loaded, PsgChannel
<1> HIDE DEF tm, len
<1>3. n \in PsgChannel
  BY <1>1, ZenonT(60) DEF PsgChannel
<1>4. /\ n.enabled /\ n.length = len /\ n.pos = c.pos /\ n.kind = c.kind /\ n.sweep_on = c.sweep_on
      /\ n.lfsr = c.lfsr /\ n.dac = c.dac
  BY <1>1 DEF PsgChannel
<1> HIDE DEF n
<1>5. Steady(n)
  BY <1>1, <1>3, <1>4 DEF Steady
(* What an envelope may still do to a channel that is ready: turn it off. *)
<1>6. ASSUME NEW d, Steady(d), Untouched(d)
      PROVE  Steady(Envelope(d)) /\ Untouched(Envelope(d))
  <2> DEFINE on == d.enabled /\ ~(d.init = 0 /\ ~d.up)
             e == [d EXCEPT !.volume = d.init, !.env_timer = d.period, !.enabled = on]
  <2>1. d \in PsgChannel /\ on \in BOOLEAN /\ (on => d.enabled) /\ d.init \in Int /\ d.period \in Nat
    BY <1>6, PsgAssumption DEF Steady, PsgChannel
  <2>2. Envelope(d) = e
    BY DEF Envelope
  <2> HIDE DEF on
  <2>3. e \in PsgChannel
    BY <2>1, ZenonT(60) DEF PsgChannel
  <2>4. e.enabled = on /\ SameNote(d, e) /\ e.length = d.length
    BY <2>1 DEF PsgChannel, SameNote
  <2> HIDE DEF e
  <2>5. Steady(e)
    BY <1>6, <2>1, <2>3, <2>4 DEF Steady, SameNote
  <2> QED
    BY <1>6, <2>2, <2>4, <2>5, SameNoteStays
<1>7. AllOnes \in Nat /\ AllOnes # 0 /\ AllOnes % (2 * SHORT_TOP) # 0
  BY AllOnesLive
<1>8. CASE c.kind = "wave"
  <2> DEFINE d == [n EXCEPT !.enabled = c.dac, !.pos = 0]
  <2>1. trigger(c) = d
    BY <1>2, <1>8 DEF trigger
  <2>2. d \in PsgChannel
    BY <1>1, <1>3, Zenon DEF PsgChannel
  <2>3. d.pos = 0 /\ d.length = n.length /\ d.kind = n.kind /\ d.sweep_on = n.sweep_on /\ d.lfsr = n.lfsr
        /\ d.pos < Samples(d)
    BY <1>3, PsgAssumption DEF PsgChannel, Samples
  <2> HIDE DEF d
  <2>4. Steady(d)
    BY <1>1, <1>4, <1>5, <2>2, <2>3 DEF Steady
  <2>5. Untouched(d)
    BY <1>4, <1>7, <1>8, <2>3, <2>4 DEF Untouched, Steady, SweepEnds, NoiseLives
  <2> QED
    BY <2>1, <2>4, <2>5
<1>9. CASE c.kind = "noise"
  <2> DEFINE d == [n EXCEPT !.lfsr = AllOnes]
  <2>1. trigger(c) = Envelope(d)
    BY <1>2, <1>9 DEF trigger
  <2>2. d \in PsgChannel
    BY <1>3, <1>7 DEF PsgChannel
  <2>3. d.lfsr = AllOnes /\ d.length = n.length /\ d.kind = n.kind /\ d.sweep_on = n.sweep_on /\ d.pos = n.pos
    BY <1>3 DEF PsgChannel
  <2> HIDE DEF d
  <2>4. Steady(d)
    BY <1>1, <1>4, <1>5, <2>2, <2>3 DEF Steady
  <2>5. Untouched(d)
    BY <1>4, <1>7, <1>9, <2>3, <2>4 DEF Untouched, Steady, SweepEnds, NoiseLives
  <2> QED
    BY <1>6, <2>1, <2>4, <2>5
<1>10. CASE c.kind = "square"
  <2>1. trigger(c) = Envelope(n)
    BY <1>2, <1>10 DEF trigger
  <2>2. Untouched(n)
    BY <1>4, <1>5, <1>7, <1>10 DEF Untouched, Steady, SweepEnds, NoiseLives
  <2> QED
    BY <1>5, <1>6, <2>1, <2>2
<1>11. CASE c.kind = "square_sweep"
  <2> DEFINE by == SweepReload(n)
             on == n.sweep_period > 0 \/ n.shift > 0
             s == [n EXCEPT !.shadow = n.frequency, !.sweep_timer = by, !.sweep_on = on]
  <2>1. trigger(c) = Envelope(Sweep(n))
    BY <1>2, <1>11 DEF trigger
  <2>2. Sweep(n) = IF n.shift > 0 THEN CheckSweep(s) ELSE s
    BY DEF Sweep
  <2>3. by \in Nat /\ on \in BOOLEAN /\ n.frequency \in Nat /\ n.shift \in Nat
    BY <1>3, PsgAssumption DEF SweepReload, PsgChannel
  <2> HIDE DEF by, on
  <2>4. s \in PsgChannel
    BY <1>3, <2>3, Zenon DEF PsgChannel
  <2>5. s.length = n.length /\ s.kind = n.kind /\ s.pos = n.pos /\ s.lfsr = n.lfsr
        /\ s.shift = n.shift
    BY <1>3 DEF PsgChannel
  <2> HIDE DEF s
  <2>6. Steady(s)
    BY <1>1, <1>4, <1>5, <1>11, <2>4, <2>5 DEF Steady
  <2>7. Steady(Sweep(n)) /\ SweepEnds(Sweep(n)) /\ Sweep(n).kind = n.kind /\ Sweep(n).lfsr = n.lfsr
    <3>1. CASE n.shift > 0
      BY <2>2, <2>5, <2>6, <3>1, CheckedSweep
    <3>2. CASE ~(n.shift > 0)
      BY <2>2, <2>5, <2>6, <3>2 DEF SweepEnds
    <3> QED
      BY <3>1, <3>2
  <2>8. Untouched(Sweep(n))
    BY <1>4, <1>7, <1>11, <2>7 DEF Untouched, Steady, NoiseLives
  <2> QED
    BY <1>6, <2>1, <2>7, <2>8
<1> QED
  BY <1>1, <1>8, <1>9, <1>10, <1>11 DEF Kinds

(***************************************************************************)
(* Batches of cycles.                                                      *)
(***************************************************************************)
PsgMixer ==
  [master : BOOLEAN, level : Int, step : 0..7, counter : 0..(CYCLES_PER_FRAME_SEQ - 1),
   sample_frac : 0..(CPU_CLOCK_HZ - 1), accum : Int, count : Nat, hp_in : Int, hp_out : Int]
PsgState == [c : PsgChannel, m : PsgMixer]

(* The frame sequencer moves the channel and its step. *)
Clocked(c, step) ==
  LET lengths == IF step \in {0, 2, 4, 6} THEN clock_length(c) ELSE c
      swept == IF step \in {2, 6} /\ c.kind = "square_sweep" THEN clock_sweep(lengths) ELSE lengths
  IN  IF step = 7 /\ c.kind # "wave" THEN clock_envelope(swept) ELSE swept

LEMMA CarriesOn ==
  ASSUME NEW c, NEW d, NEW e, Carries(c, d), Carries(d, e)
  PROVE  Carries(c, e)
  BY DEF Carries

LEMMA ClockedCarries ==
  ASSUME NEW c, NEW step
  PROVE  Carries(c, Clocked(c, step))
<1> DEFINE lengths == IF step \in {0, 2, 4, 6} THEN clock_length(c) ELSE c
           swept == IF step \in {2, 6} /\ c.kind = "square_sweep" THEN clock_sweep(lengths) ELSE lengths
           done == IF step = 7 /\ c.kind # "wave" THEN clock_envelope(swept) ELSE swept
<1>1. Carries(c, lengths)
  BY LengthCarries DEF Carries
<1>2. Carries(lengths, swept)
  BY SweepCarries DEF Carries
<1>3. Carries(swept, done)
  BY EnvelopeCarries DEF Carries
<1>4. Clocked(c, step) = done
  BY DEF Clocked
<1> HIDE DEF lengths, swept, done
<1> QED
  BY <1>1, <1>2, <1>3, <1>4, CarriesOn

LEMMA SequencerStep ==
  ASSUME NEW s \in PsgState
  PROVE  clock_frame_sequencer(s)
            = [c |-> Clocked(s.c, s.m.step), m |-> [s.m EXCEPT !.step = (s.m.step + 1) % 8]]
<1> DEFINE d == Clocked(s.c, s.m.step)
<1>1. clock_frame_sequencer(s) = [s EXCEPT !.c = d, !.m.step = (@ + 1) % 8]
  BY DEF clock_frame_sequencer, Clocked
<1> HIDE DEF d
<1>2. s \in [c : PsgChannel, m : PsgMixer] /\ s.m \in PsgMixer
  BY DEF PsgState
<1> DEFINE w == (s.m.step + 1) % 8
<1>3. [s EXCEPT !.c = d, !.m.step = (@ + 1) % 8] = [s EXCEPT !.c = d, !.m.step = w]
  BY <1>2
<1> DEFINE n == [s.m EXCEPT !.step = w]
<1>4. [s EXCEPT !.c = d, !.m.step = w] = [s EXCEPT !.c = d, !.m = n]
  BY <1>2
<1> HIDE DEF w, n
<1>5. [s EXCEPT !.c = d, !.m = n] = [c |-> d, m |-> n]
  <2> DEFINE t == [s EXCEPT !.c = d, !.m = n]
  <2>1. DOMAIN t = {"c", "m"} /\ t.c = d /\ t.m = n
    BY <1>2
  <2>2. t = [x \in {"c", "m"} |-> IF x = "c" THEN d ELSE n]
    BY <2>1
  <2> QED
    BY <2>2
<1> QED
  BY <1>1, <1>3, <1>4, <1>5 DEF d, w, n

(* A sample is made of what has gathered, which is never nothing.          *)
Gather(m, cycles, mix) ==
  LET g == [m EXCEPT !.accum = @ + mix * cycles, !.count = @ + cycles,
                     !.sample_frac = @ + OUTPUT_SAMPLE_RATE * cycles]
  IN  IF g.sample_frac < CPU_CLOCK_HZ THEN g
      ELSE emit_sample([g EXCEPT !.sample_frac = @ - CPU_CLOCK_HZ])

LEMMA AccumulateGathers ==
  ASSUME NEW s \in PsgState, NEW cycles, NEW mix
  PROVE  Accumulate(s, cycles, mix) = [c |-> s.c, m |-> Gather(s.m, cycles, mix)]
<1> DEFINE g == Gather(s.m, cycles, mix)
<1>1. Accumulate(s, cycles, mix) = [s EXCEPT !.m = g]
  BY DEF Accumulate, Gather
<1> HIDE DEF g
<1>2. [s EXCEPT !.m = g] = [c |-> s.c, m |-> g]
  BY DEF PsgState
<1> QED
  BY <1>1, <1>2 DEF g

(* Rust's division gives numbers. *)
LEMMA QuotType ==
  ASSUME NEW a \in Int, NEW b \in Nat \ {0}
  PROVE  Quot(a, b) \in Int
<1>1. CASE a >= 0
  BY <1>1 DEF Quot
<1>2. CASE ~(a >= 0)
  <2>1. -a \in Nat
    BY <1>2
  <2>2. (-a) \div b \in Int
    BY <2>1
  <2> QED
    BY <1>2, <2>2 DEF Quot
<1> QED
  BY <1>1, <1>2

LEMMA GatherType ==
  ASSUME NEW m \in PsgMixer, NEW cycles \in Nat \ {0}, NEW mix \in Int,
         m.sample_frac + OUTPUT_SAMPLE_RATE * cycles < 2 * CPU_CLOCK_HZ
  PROVE  Gather(m, cycles, mix) \in PsgMixer
<1> DEFINE a == m.accum + mix * cycles
           k == m.count + cycles
           f == m.sample_frac + OUTPUT_SAMPLE_RATE * cycles
           g == [m EXCEPT !.accum = a, !.count = k, !.sample_frac = f]
<1>1. /\ a \in Int /\ k \in Nat \ {0} /\ f \in Nat /\ f < 2 * CPU_CLOCK_HZ
      /\ CPU_CLOCK_HZ \in Nat \ {0} /\ m.hp_in \in Int /\ m.hp_out \in Int
  <2>1. mix * cycles \in Int /\ OUTPUT_SAMPLE_RATE * cycles \in Nat
    BY PsgAssumption
  <2>2. m.accum \in Int /\ m.count \in Nat /\ m.sample_frac \in Nat /\ m.hp_in \in Int /\ m.hp_out \in Int
    BY PsgAssumption DEF PsgMixer
  <2> QED
    BY <2>1, <2>2, PsgAssumption
<1> DEFINE x == Quot(a, k)
           out == x - m.hp_in + Quot(m.hp_out * R_NUM, R_DEN)
           less == f - CPU_CLOCK_HZ
           nil == 0
           e == [m EXCEPT !.accum = nil, !.count = nil, !.sample_frac = less,
                          !.hp_in = x, !.hp_out = out]
<1>2. x \in Int /\ out \in Int
  <2>1. m.hp_out * R_NUM \in Int /\ R_DEN \in Nat \ {0}
    BY <1>1, PsgAssumption
  <2>2. x \in Int /\ Quot(m.hp_out * R_NUM, R_DEN) \in Int
    BY <1>1, <2>1, QuotType
  <2> QED
    BY <1>1, <2>2
<1>3. Gather(m, cycles, mix) = IF f < CPU_CLOCK_HZ THEN g ELSE e
  BY ZenonT(60) DEF Gather, emit_sample, dc_block, PsgMixer
<1> HIDE DEF a, k, f, x, out
<1>4. CASE f < CPU_CLOCK_HZ
  <2>1. a \in Int /\ k \in Nat /\ f \in 0..(CPU_CLOCK_HZ - 1)
    BY <1>1, <1>4
  <2>2. g \in PsgMixer
    BY <2>1 DEF PsgMixer
  <2> QED
    BY <1>3, <1>4, <2>2
<1>5. CASE ~(f < CPU_CLOCK_HZ)
  <2>1. less \in 0..(CPU_CLOCK_HZ - 1)
    BY <1>1, <1>5
  <2>2. nil \in Int /\ nil \in Nat
    OBVIOUS
  <2> HIDE DEF less, nil
  <2>3. e \in PsgMixer
    BY <1>2, <2>1, <2>2 DEF PsgMixer
  <2> QED
    BY <1>3, <1>5, <2>3
<1> QED
  BY <1>4, <1>5

(* A channel that is off stays off. *)
LEMMA OffStaysOff ==
  ASSUME NEW c, Steady(c), ~c.enabled, NEW step
  PROVE  ~Clocked(c, step).enabled /\ tick_channel(c) = c
<1> DEFINE lengths == IF step \in {0, 2, 4, 6} THEN clock_length(c) ELSE c
           swept == IF step \in {2, 6} /\ c.kind = "square_sweep" THEN clock_sweep(lengths) ELSE lengths
           done == IF step = 7 /\ c.kind # "wave" THEN clock_envelope(swept) ELSE swept
<1>1. Steady(lengths) /\ ~lengths.enabled
  <2>1. Steady(lengths)
    BY LengthCarries DEF Carries
  <2>2. ~clock_length(c).enabled
    BY DEF clock_length, Steady, PsgChannel
  <2> QED
    BY <2>1, <2>2
<1>2. ASSUME NEW d, d \in PsgChannel, ~d.enabled PROVE ~CheckSweep(d).enabled
  BY <1>2 DEF CheckSweep, PsgChannel
<1>3. Steady(swept) /\ ~swept.enabled
  <2> HIDE DEF lengths
  <2>1. Steady(swept)
    BY <1>1, SweepCarries DEF Carries
  <2>2. ~clock_sweep(lengths).enabled
    <3> DEFINE s == [lengths EXCEPT !.sweep_timer = SweepReload(lengths)]
               f == SweepFreq(s)
               n == [s EXCEPT !.shadow = f, !.frequency = f]
    <3>1. lengths \in PsgChannel /\ SweepReload(lengths) \in Nat /\ lengths.sweep_timer \in Nat
      BY <1>1, PsgAssumption DEF Steady, SweepReload, PsgChannel
    <3>2. clock_sweep(lengths) \in {[lengths EXCEPT !.sweep_timer = lengths.sweep_timer - 1], s, StepSweep(s)}
      BY DEF clock_sweep
    <3>3. ~[lengths EXCEPT !.sweep_timer = lengths.sweep_timer - 1].enabled
      BY <1>1, <3>1 DEF PsgChannel
    <3>4. s \in PsgChannel /\ ~s.enabled
      BY <1>1, <3>1 DEF PsgChannel
    <3> HIDE DEF s
    <3>5. StepSweep(s) = CheckSweep(s) \/ (StepSweep(s) = CheckSweep(n) /\ ~Overflows(s))
      BY DEF StepSweep
    <3>6. ASSUME ~Overflows(s) PROVE n \in PsgChannel /\ ~n.enabled
      <4>1. f \in Nat /\ f \in 0..(FREQUENCIES - 1)
        BY <3>4, <3>6, SweepType, PsgAssumption DEF Overflows
      <4> HIDE DEF f
      <4> QED
        BY <3>4, <4>1, Zenon DEF PsgChannel
    <3> HIDE DEF n
    <3> QED
      BY <1>2, <3>2, <3>3, <3>4, <3>5, <3>6
  <2> QED
    BY <1>1, <2>1, <2>2
<1>4. ~done.enabled
  <2> HIDE DEF swept
  <2>1. ~clock_envelope(swept).enabled
    <3>1. clock_envelope(swept) = swept \/ \E t, v : clock_envelope(swept) = [swept EXCEPT !.env_timer = t, !.volume = v]
                                 \/ clock_envelope(swept) = [swept EXCEPT !.env_timer = t]
      <4>1. swept.period \in Nat
        BY <1>3 DEF Steady, PsgChannel
      <4>2. CASE swept.period = 0
        BY <4>1, <4>2 DEF clock_envelope
      <4>3. CASE swept.period # 0
        BY <4>1, <4>3 DEF clock_envelope
      <4> QED
        BY <4>2, <4>3
    <3> QED
      BY <1>3, <3>1 DEF Steady, PsgChannel
  <2> QED
    BY <1>3, <2>1
<1>5. Clocked(c, step) = done
  BY DEF Clocked
<1>6. tick_channel(c) = c
  BY DEF tick_channel, Runs
<1> QED
  BY <1>4, <1>5, <1>6

(* What is heard is a number. *)
LEMMA HeardType ==
  ASSUME NEW s \in PsgState
  PROVE  Heard(s) \in Int
<1>1. s.c \in PsgChannel /\ s.m \in PsgMixer
  BY DEF PsgState
<1>2. output(s.c) \in Int
  <2>1. s.c.volume \in Int
    BY <1>1 DEF PsgChannel
  <2> QED
    BY <2>1 DEF output
<1>3. s.m.level \in Int
  BY <1>1 DEF PsgMixer
<1> QED
  BY <1>2, <1>3 DEF Heard, current_mix

(* The sequencer is clocked by a counter. *)
Sequenced(s) ==
  IF s.m.counter + 1 < CYCLES_PER_FRAME_SEQ
  THEN [c |-> s.c, m |-> [s.m EXCEPT !.counter = s.m.counter + 1]]
  ELSE [c |-> Clocked(s.c, s.m.step), m |-> [s.m EXCEPT !.counter = 0, !.step = (s.m.step + 1) % 8]]
Good == {s \in PsgState : Steady(s.c)}

LEMMA SequenceSteps ==
  ASSUME NEW s \in Good
  PROVE  Sequence(s) = Sequenced(s) /\ Sequenced(s) \in Good /\ Carries(s.c, Sequenced(s).c)
<1> DEFINE c == s.c
           m == s.m
           on == m.counter + 1
           nil == 0
           w == (m.step + 1) % 8
           d == Clocked(c, m.step)
           up == [m EXCEPT !.counter = on]
           zero == [m EXCEPT !.counter = nil]
           down == [m EXCEPT !.counter = nil, !.step = w]
<1>1. s \in [c : PsgChannel, m : PsgMixer] /\ c \in PsgChannel /\ m \in PsgMixer /\ Steady(c)
  BY DEF Good, PsgState
<1>2. m.counter \in 0..(CYCLES_PER_FRAME_SEQ - 1) /\ m.step \in 0..7 /\ w \in 0..7
      /\ nil \in 0..(CYCLES_PER_FRAME_SEQ - 1)
  BY <1>1, PsgAssumption DEF PsgMixer
<1>3. Steady(d) /\ d \in PsgChannel /\ Carries(c, d) /\ Carries(c, c)
  BY <1>1, ClockedCarries DEF Carries, Steady
<1> HIDE DEF nil, w, d
<1>4. zero \in PsgMixer /\ down \in PsgMixer
  BY <1>1, <1>2 DEF PsgMixer
<1>5. zero.step = m.step /\ [zero EXCEPT !.step = w] = down
  BY <1>1 DEF PsgMixer
<1>6. CASE on < CYCLES_PER_FRAME_SEQ
  <2>1. up \in PsgMixer
    <3>1. on \in 0..(CYCLES_PER_FRAME_SEQ - 1)
      BY <1>2, <1>6, PsgAssumption
    <3> HIDE DEF on
    <3> QED
      BY <1>1, <3>1 DEF PsgMixer
  <2>2. Sequence(s) = [s EXCEPT !.m = up]
    BY <1>1, <1>6 DEF Sequence
  <2>3. Sequenced(s) = [c |-> c, m |-> up]
    BY <1>6 DEF Sequenced
  <2> HIDE DEF up
  <2>4. [s EXCEPT !.m = up] = [c |-> c, m |-> up]
    BY <1>1
  <2> QED
    BY <1>1, <1>3, <2>1, <2>2, <2>3, <2>4 DEF Good, PsgState
<1>7. CASE ~(on < CYCLES_PER_FRAME_SEQ)
  <2>1. Sequence(s) = clock_frame_sequencer([s EXCEPT !.m = zero])
    BY <1>1, <1>7 DEF Sequence, nil
  <2>2. Sequenced(s) = [c |-> d, m |-> down]
    BY <1>7 DEF Sequenced, nil, w, d
  <2> HIDE DEF zero, down
  <2> DEFINE t == [c |-> c, m |-> zero]
  <2>3. [s EXCEPT !.m = zero] = t
    BY <1>1
  <2>4. t \in PsgState /\ t.c = c /\ t.m = zero
    BY <1>1, <1>4 DEF PsgState
  <2> HIDE DEF t
  <2>5. clock_frame_sequencer(t) = [c |-> d, m |-> [zero EXCEPT !.step = w]]
    BY <1>5, <2>4, SequencerStep DEF d, w
  <2>6. [c |-> d, m |-> down] \in PsgState /\ [c |-> d, m |-> down].c = d
    BY <1>3, <1>4 DEF PsgState
  <2> QED
    BY <1>3, <1>5, <2>1, <2>2, <2>3, <2>5, <2>6 DEF Good
<1> QED
  BY <1>6, <1>7

(* One cycle. *)
LEMMA CycleSteps ==
  ASSUME NEW s \in Good
  PROVE  LET t == Sequenced([c |-> tick_channel(s.c), m |-> s.m])
         IN  /\ OneCycle(s) = [c |-> t.c, m |-> Gather(t.m, 1, Heard(t))]
             /\ t \in Good /\ OneCycle(s) \in Good /\ Carries(s.c, OneCycle(s).c)
<1> DEFINE d == tick_channel(s.c)
           u == [c |-> d, m |-> s.m]
           t == Sequenced(u)
           mix == Heard(t)
           g == Gather(t.m, 1, mix)
<1>1. s \in [c : PsgChannel, m : PsgMixer] /\ s.m \in PsgMixer /\ Steady(s.c) /\ s.c \in PsgChannel
  BY DEF Good, PsgState
<1>2. Carries(s.c, d) /\ Steady(d) /\ d \in PsgChannel
  <2>1. Carries(s.c, d)
    BY ChannelCarries
  <2> HIDE DEF d
  <2> QED
    BY <1>1, <2>1 DEF Carries, Steady
<1>3. OneCycle(s) = Accumulate(Sequence([s EXCEPT !.c = d]), 1, Heard(Sequence([s EXCEPT !.c = d])))
  BY DEF OneCycle
<1> HIDE DEF d
<1>4. [s EXCEPT !.c = d] = u
  BY <1>1
<1>5. u \in Good /\ u.c = d /\ u.m = s.m
  BY <1>1, <1>2 DEF Good, PsgState
<1> HIDE DEF u
<1>6. Sequence(u) = t /\ t \in Good /\ Carries(d, t.c)
  BY <1>5, SequenceSteps
<1> HIDE DEF t
<1>7. t \in PsgState /\ mix \in Int /\ t.m \in PsgMixer /\ Steady(t.c) /\ t.c \in PsgChannel
  BY <1>6, HeardType DEF Good, PsgState
<1>8. OneCycle(s) = [c |-> t.c, m |-> g]
  BY <1>3, <1>4, <1>6, <1>7, AccumulateGathers
<1>9. g \in PsgMixer
  <2>1. t.m.sample_frac + OUTPUT_SAMPLE_RATE * 1 < 2 * CPU_CLOCK_HZ
    <3>1. t.m.sample_frac \in 0..(CPU_CLOCK_HZ - 1)
      BY <1>7 DEF PsgMixer
    <3> QED
      BY <3>1, PsgAssumption
  <2> HIDE DEF mix
  <2> QED
    BY <1>7, <2>1, GatherType
<1> HIDE DEF g
<1>10. OneCycle(s) \in Good /\ OneCycle(s).c = t.c
  BY <1>7, <1>8, <1>9 DEF Good, PsgState
<1> QED
  BY <1>2, <1>6, <1>8, <1>10, CarriesOn DEF t, u, d, g

(* A batch on the slow path repeats one cycle. *)
CycleStep == [x \in Good |-> OneCycle(x)]
LEMMA SlowCourse ==
  ASSUME NEW s \in Good, NEW n \in Nat
  PROVE  \E g : IsCourse(g, Good, CycleStep, s, n) /\ Slow(s, n) = g[n]
<1> DEFINE Body(g) == [k \in 0..n |-> IF k = 0 THEN s ELSE OneCycle(g[k - 1])]
           after == CHOOSE g : g = Body(g)
<1>1. CycleStep \in [Good -> Good]
  BY CycleSteps DEF CycleStep
<1>2. PICK g : IsCourse(g, Good, CycleStep, s, n)
  <2>1. s \in Good /\ n \in Nat
    OBVIOUS
  <2> QED
    BY ONLY <1>1, <2>1, Course
<1>3. g = Body(g)
  <2>1. ASSUME NEW k \in 0..n PROVE g[k] = Body(g)[k]
    <3>1. CASE k = 0
      BY <1>2, <3>1 DEF IsCourse
    <3>2. CASE k # 0
      <4>1. k - 1 \in 0..(n - 1) /\ (k - 1) + 1 = k /\ k - 1 \in 0..n
        BY <3>2
      <4>2. g[k] = CycleStep[g[k - 1]] /\ g[k - 1] \in Good
        BY <1>2, <4>1 DEF IsCourse
      <4> QED
        BY <3>2, <4>2 DEF CycleStep
    <3> QED
      BY <3>1, <3>2
  <2> QED
    BY <1>2, <2>1 DEF IsCourse
<1>4. Slow(s, n) = after[n]
  BY DEF Slow
<1> HIDE DEF Body
<1>5. after = Body(after)
  BY <1>3
<1> HIDE DEF after
<1>6. after[0] = s /\ \A k \in 0..(n - 1) : after[k + 1] = OneCycle(after[k])
  <2>1. after = [k \in 0..n |-> IF k = 0 THEN s ELSE OneCycle(after[k - 1])]
    BY <1>5 DEF Body
  <2>2. after[0] = s
    BY <2>1
  <2>3. ASSUME NEW k \in 0..(n - 1) PROVE after[k + 1] = OneCycle(after[k])
    <3>1. k + 1 \in 0..n /\ k + 1 # 0 /\ (k + 1) - 1 = k
      OBVIOUS
    <3> QED
      BY <2>1, <3>1
  <2> QED
    BY <2>2, <2>3
<1> DEFINE T == {k \in Nat : k <= n => after[k] = g[k]}
<1>7. 0 \in T
  BY <1>2, <1>6 DEF IsCourse
<1>8. ASSUME NEW k \in 0..(n - 1), k \in T PROVE k + 1 \in T
  <2>1. after[k + 1] = OneCycle(after[k]) /\ after[k] = g[k]
    BY <1>6, <1>8
  <2>2. g[k + 1] = CycleStep[g[k]] /\ g[k] \in Good
    BY <1>2 DEF IsCourse
  <2> QED
    BY <2>1, <2>2 DEF CycleStep
<1> HIDE DEF T
<1>9. n \in T
  BY <1>7, <1>8, InductionTo
<1> QED
  BY <1>2, <1>4, <1>9 DEF T

(* A batch keeps its channel going. *)
LEMMA SlowCarries ==
  ASSUME NEW s \in Good, NEW n \in Nat
  PROVE  Slow(s, n) \in Good /\ Carries(s.c, Slow(s, n).c)
<1>1. PICK g : IsCourse(g, Good, CycleStep, s, n) /\ Slow(s, n) = g[n]
  BY SlowCourse
<1> DEFINE T == {k \in Nat : k <= n => Carries(s.c, g[k].c)}
<1>2. 0 \in T
  BY <1>1 DEF IsCourse, Carries
<1>3. ASSUME NEW k \in 0..(n - 1), k \in T PROVE k + 1 \in T
  <2>1. g[k + 1] = CycleStep[g[k]] /\ g[k] \in Good /\ Carries(s.c, g[k].c)
    BY <1>1, <1>3 DEF IsCourse
  <2>2. g[k + 1] = OneCycle(g[k]) /\ Carries(g[k].c, OneCycle(g[k]).c)
    BY <2>1, CycleSteps DEF CycleStep
  <2>3. Carries(s.c, g[k + 1].c)
    BY <2>1, <2>2, CarriesOn
  <2> QED
    BY <2>3
<1> HIDE DEF T
<1>4. n \in T
  BY <1>2, <1>3, InductionTo
<1> QED
  BY <1>1, <1>4 DEF T, IsCourse

(* Sampling has nothing to do with where the sequencer is. *)
Placed(m, step, counter) == [m EXCEPT !.step = step, !.counter = counter]
Sampled(g) == IF g.sample_frac < CPU_CLOCK_HZ THEN g
              ELSE emit_sample([g EXCEPT !.sample_frac = @ - CPU_CLOCK_HZ])
LEMMA PlacedStays ==
  ASSUME NEW m \in PsgMixer, NEW w \in 0..7, NEW z \in 0..(CYCLES_PER_FRAME_SEQ - 1)
  PROVE  /\ Placed(m, w, z) \in PsgMixer
         /\ Placed(m, w, z).step = w /\ Placed(m, w, z).counter = z
         /\ Placed(m, w, z).master = m.master /\ Placed(m, w, z).level = m.level
         /\ \A v, y : Placed(Placed(m, w, z), v, y) = Placed(m, v, y)
         /\ Placed(m, m.step, m.counter) = m
  BY Zenon DEF Placed, PsgMixer

LEMMA GatherPlaced ==
  ASSUME NEW m \in PsgMixer, NEW w \in 0..7, NEW z \in 0..(CYCLES_PER_FRAME_SEQ - 1),
         NEW cycles, NEW mix
  PROVE  Gather(Placed(m, w, z), cycles, mix) = Placed(Gather(m, cycles, mix), w, z)
<1> DEFINE a == m.accum + mix * cycles
           k == m.count + cycles
           f == m.sample_frac + OUTPUT_SAMPLE_RATE * cycles
           x == Quot(a, k)
           out == x - m.hp_in + Quot(m.hp_out * R_NUM, R_DEN)
           less == f - CPU_CLOCK_HZ
           nil == 0
           Held(b) == [b EXCEPT !.accum = a, !.count = k, !.sample_frac = f]
           Emitted(b) == [b EXCEPT !.accum = nil, !.count = nil, !.sample_frac = less,
                                   !.hp_in = x, !.hp_out = out]
<1>1. Gather(m, cycles, mix) = IF f < CPU_CLOCK_HZ THEN Held(m) ELSE Emitted(m)
  BY ZenonT(60) DEF Gather, emit_sample, dc_block, PsgMixer
<1> DEFINE p == Placed(m, w, z)
<1>2. /\ p \in PsgMixer /\ p.accum = m.accum /\ p.count = m.count /\ p.sample_frac = m.sample_frac
      /\ p.hp_in = m.hp_in /\ p.hp_out = m.hp_out
  BY DEF Placed, PsgMixer
<1> HIDE DEF p
<1>3. Gather(p, cycles, mix) = IF f < CPU_CLOCK_HZ THEN Held(p) ELSE Emitted(p)
  BY <1>2, ZenonT(60) DEF Gather, emit_sample, dc_block, PsgMixer
<1> HIDE DEF a, k, f, x, out, less, nil
<1>4. Held(p) = Placed(Held(m), w, z) /\ Emitted(p) = Placed(Emitted(m), w, z)
  BY ZenonT(60) DEF p, Placed, PsgMixer
<1> QED
  BY <1>1, <1>3, <1>4 DEF p

(* What is gathered in one go, short of a sample, is as if gathered one by *)
(* one.                                                                    *)
LEMMA GatherAdds ==
  ASSUME NEW m \in PsgMixer, NEW j \in Nat \ {0}, NEW mix \in Int,
         m.sample_frac + OUTPUT_SAMPLE_RATE * j < CPU_CLOCK_HZ
  PROVE  Gather(Gather(m, j, mix), 1, mix) = Gather(m, j + 1, mix)
<1> DEFINE a == m.accum + mix * j
           k == m.count + j
           f == m.sample_frac + OUTPUT_SAMPLE_RATE * j
           g == [m EXCEPT !.accum = a, !.count = k, !.sample_frac = f]
           aa == m.accum + mix * (j + 1)
           kk == m.count + (j + 1)
           ff == m.sample_frac + OUTPUT_SAMPLE_RATE * (j + 1)
           gg == [m EXCEPT !.accum = aa, !.count = kk, !.sample_frac = ff]
<1>1. m.accum \in Int /\ m.count \in Nat /\ m.sample_frac \in Nat /\ OUTPUT_SAMPLE_RATE \in Nat
  BY PsgAssumption DEF PsgMixer
<1>2. Gather(m, j, mix) = g
  BY DEF Gather
<1>3. a + mix * 1 = aa /\ k + 1 = kk /\ f + OUTPUT_SAMPLE_RATE * 1 = ff
  <2>1. mix * (j + 1) = mix * j + mix /\ mix * 1 = mix /\ mix * j \in Int
    OBVIOUS
  <2>2. OUTPUT_SAMPLE_RATE * (j + 1) = OUTPUT_SAMPLE_RATE * j + OUTPUT_SAMPLE_RATE
        /\ OUTPUT_SAMPLE_RATE * 1 = OUTPUT_SAMPLE_RATE /\ OUTPUT_SAMPLE_RATE * j \in Nat
    BY <1>1
  <2> DEFINE y == mix * j
             z == OUTPUT_SAMPLE_RATE * j
  <2>3. a = m.accum + y /\ aa = m.accum + (y + mix) /\ f = m.sample_frac + z
        /\ ff = m.sample_frac + (z + OUTPUT_SAMPLE_RATE) /\ y \in Int /\ z \in Int
    BY <2>1, <2>2
  <2> HIDE DEF y, z, a, aa, f, ff
  <2>4. a + mix = aa /\ f + OUTPUT_SAMPLE_RATE = ff
    BY <1>1, <2>3
  <2> QED
    BY <1>1, <2>1, <2>2, <2>4
<1>4. Gather(m, j + 1, mix) = Sampled(gg)
  BY DEF Gather, Sampled
<1>5. g.accum = a /\ g.count = k /\ g.sample_frac = f
  BY DEF PsgMixer
<1>6. [g EXCEPT !.accum = aa, !.count = kk, !.sample_frac = ff] = gg
  <2> HIDE DEF a, k, f, aa, kk, ff
  <2> QED
    BY DEF PsgMixer
<1> HIDE DEF a, k, f, aa, kk, ff, g, gg
<1>7. Gather(g, 1, mix) = Sampled([g EXCEPT !.accum = g.accum + mix * 1, !.count = g.count + 1,
                                            !.sample_frac = g.sample_frac + OUTPUT_SAMPLE_RATE * 1])
  BY DEF Gather, Sampled
<1> QED
  BY <1>2, <1>3, <1>4, <1>5, <1>6, <1>7

(* The next sample is as far as it is reckoned to be. *)
LEMMA EmitsInTime ==
  ASSUME NEW m \in PsgMixer
  PROVE  /\ ToNextEmit(m) \in Nat \ {0}
         /\ \A j \in Nat : j < ToNextEmit(m) => m.sample_frac + OUTPUT_SAMPLE_RATE * j < CPU_CLOCK_HZ
<1> DEFINE d == OUTPUT_SAMPLE_RATE
           a == CPU_CLOCK_HZ - m.sample_frac + d - 1
           q == a \div d
<1>1. d \in Nat \ {0} /\ a \in Nat /\ a >= d /\ CPU_CLOCK_HZ \in Nat /\ m.sample_frac \in Nat
      /\ a = CPU_CLOCK_HZ - m.sample_frac + d - 1
  BY PsgAssumption DEF PsgMixer
<1>2. ToNextEmit(m) = q
  BY DEF ToNextEmit
<1> HIDE DEF a
<1>3. q \in Nat /\ \A k \in Nat : q >= k <=> a >= k * d
  <2> HIDE DEF d
  <2>1. q \in Nat
    BY <1>1, Division
  <2>2. ASSUME NEW k \in Nat PROVE q >= k <=> a >= k * d
    BY <1>1, QuotientReaches
  <2> QED
    BY <2>1, <2>2
<1> HIDE DEF q, d
<1>4. q >= 1
  <2>1. 1 * d = d
    BY <1>1
  <2> QED
    BY <1>1, <1>3, <2>1
<1>5. ASSUME NEW j \in Nat, j < q PROVE m.sample_frac + d * j < CPU_CLOCK_HZ
  <2>1. q >= j + 1
    BY <1>3, <1>5
  <2>2. a >= (j + 1) * d
    BY <1>3, <2>1
  <2>3. (j + 1) * d = d * j + d /\ d * j \in Nat
    BY <1>1
  <2> QED
    BY <1>1, <2>2, <2>3
<1> QED
  BY <1>2, <1>3, <1>4, <1>5 DEF d

(* Gathering cycle by cycle, and the chunks it can be done in. *)
GatherStep(mix) == [m \in PsgMixer |-> Gather(m, 1, mix)]
LEMMA GatherStepType ==
  ASSUME NEW mix \in Int
  PROVE  GatherStep(mix) \in [PsgMixer -> PsgMixer]
<1>1. ASSUME NEW m \in PsgMixer PROVE Gather(m, 1, mix) \in PsgMixer
  <2>1. m.sample_frac + OUTPUT_SAMPLE_RATE * 1 < 2 * CPU_CLOCK_HZ
    <3>1. m.sample_frac \in 0..(CPU_CLOCK_HZ - 1)
      BY DEF PsgMixer
    <3> QED
      BY <3>1, PsgAssumption
  <2> QED
    BY <2>1, GatherType
<1> QED
  BY <1>1 DEF GatherStep

LEMMA ChunkGathers ==
  ASSUME NEW mix \in Int, NEW m \in PsgMixer, NEW n \in Nat, NEW a,
         IsCourse(a, PsgMixer, GatherStep(mix), m, n),
         NEW p \in 0..n, NEW k \in Nat \ {0}, p + k <= n, k <= ToNextEmit(a[p])
  PROVE  a[p + k] = Gather(a[p], k, mix)
<1>1. a[p] \in PsgMixer
  BY DEF IsCourse
<1>2. ASSUME NEW i \in 0..(n - 1) PROVE a[i + 1] = Gather(a[i], 1, mix)
  <2>1. a[i + 1] = GatherStep(mix)[a[i]] /\ a[i] \in PsgMixer
    BY DEF IsCourse
  <2> QED
    BY <2>1 DEF GatherStep
<1> DEFINE T == {j \in Nat : j <= k - 1 => a[p + (j + 1)] = Gather(a[p], j + 1, mix)}
<1>3. 0 \in T
  <2>1. p \in 0..(n - 1)
    OBVIOUS
  <2> QED
    BY <1>2, <2>1
<1>4. ASSUME NEW j \in 0..((k - 1) - 1), j \in T PROVE j + 1 \in T
  <2> DEFINE i == j + 1
  <2>1. i \in Nat \ {0} /\ i < k /\ p + i \in 0..(n - 1)
    OBVIOUS
  <2>2. a[p + i] = Gather(a[p], i, mix)
    BY <1>4
  <2> HIDE DEF i
  <2>3. a[(p + i) + 1] = Gather(a[p + i], 1, mix) /\ (p + i) + 1 = p + (i + 1)
    BY <1>2, <2>1
  <2>4. a[p].sample_frac + OUTPUT_SAMPLE_RATE * i < CPU_CLOCK_HZ
    <3>1. ToNextEmit(a[p]) \in Nat
      BY <1>1, EmitsInTime
    <3> QED
      BY <1>1, <2>1, <3>1, EmitsInTime
  <2>5. Gather(Gather(a[p], i, mix), 1, mix) = Gather(a[p], i + 1, mix)
    BY <1>1, <2>1, <2>4, GatherAdds
  <2> QED
    BY <2>2, <2>3, <2>5 DEF i
<1> HIDE DEF T
<1>5. k - 1 \in T
  <2>1. k - 1 \in Nat
    OBVIOUS
  <2> QED
    BY <1>3, <1>4, <2>1, InductionTo
<1>6. (k - 1) + 1 = k
  OBVIOUS
<1> QED
  BY <1>5, <1>6 DEF T

(* Gathering leaves the sequencer, the level and the master enable alone. *)
SameClock(m, n) ==
  n.step = m.step /\ n.counter = m.counter /\ n.master = m.master /\ n.level = m.level
LEMMA GatherKeepsClock ==
  ASSUME NEW mix \in Int, NEW m \in PsgMixer, NEW n \in Nat, NEW a,
         IsCourse(a, PsgMixer, GatherStep(mix), m, n), NEW i \in 0..n
  PROVE  SameClock(m, a[i])
<1>1. ASSUME NEW b \in PsgMixer PROVE SameClock(b, Gather(b, 1, mix))
  <2> DEFINE acc == b.accum + mix * 1
             k == b.count + 1
             f == b.sample_frac + OUTPUT_SAMPLE_RATE * 1
             x == Quot(acc, k)
             y == x - b.hp_in + Quot(b.hp_out * R_NUM, R_DEN)
             less == f - CPU_CLOCK_HZ
             nil == 0
             held == [b EXCEPT !.accum = acc, !.count = k, !.sample_frac = f]
             sent == [b EXCEPT !.accum = nil, !.count = nil, !.sample_frac = less,
                               !.hp_in = x, !.hp_out = y]
  <2>1. Gather(b, 1, mix) = IF f < CPU_CLOCK_HZ THEN held ELSE sent
    BY ZenonT(60) DEF Gather, emit_sample, dc_block, PsgMixer
  <2> HIDE DEF acc, k, f, x, y, less, nil
  <2>2. SameClock(b, held) /\ SameClock(b, sent)
    BY DEF SameClock, PsgMixer
  <2> QED
    BY <2>1, <2>2
<1> DEFINE T == {j \in Nat : j <= i => SameClock(m, a[j])}
<1>2. 0 \in T
  BY DEF IsCourse, SameClock
<1>3. ASSUME NEW j \in 0..(i - 1), j \in T PROVE j + 1 \in T
  <2>1. j \in 0..(n - 1) /\ j \in 0..n
    OBVIOUS
  <2>2. a[j + 1] = GatherStep(mix)[a[j]] /\ a[j] \in PsgMixer /\ SameClock(m, a[j])
    BY <1>3, <2>1 DEF IsCourse
  <2>3. SameClock(a[j], a[j + 1])
    BY <1>1, <2>2 DEF GatherStep
  <2> QED
    BY <2>2, <2>3 DEF SameClock
<1> HIDE DEF T
<1>4. i \in T
  BY <1>2, <1>3, InductionTo
<1> QED
  BY <1>4 DEF T

(* The fast path gathers in chunks what the slow one gathers in cycles. *)
LEMMA FastGathers ==
  ASSUME NEW s \in Good, NEW n \in Nat, NEW a,
         IsCourse(a, PsgMixer, GatherStep(Heard(s)), s.m, n)
  PROVE  tick_fast(s, n) = SequenceBatch([c |-> s.c, m |-> a[n]], n)
<1> DEFINE mix == Heard(s)
           At(l) == [left |-> l, s |-> [c |-> s.c, m |-> a[n - l]]]
           Chunk(r) == Part(r.left, ToNextEmit(r.s.m))
           Next1(r) == IF r.left = 0 THEN r
                       ELSE [left |-> r.left - Chunk(r), s |-> Accumulate(r.s, Chunk(r), mix)]
           S == {At(l) : l \in 0..n}
           step == [r \in S |-> Next1(r)]
           Body(g) == [i \in 0..n |-> IF i = 0 THEN [left |-> n, s |-> s] ELSE Next1(g[i - 1])]
           go == CHOOSE g : g = Body(g)
<1>1. s \in [c : PsgChannel, m : PsgMixer] /\ s.c \in PsgChannel /\ s.m \in PsgMixer /\ mix \in Int
  BY HeardType DEF Good, PsgState
<1>2. IsCourse(a, PsgMixer, GatherStep(mix), s.m, n) /\ a \in [0..n -> PsgMixer] /\ a[0] = s.m
  BY DEF IsCourse
<1>3. tick_fast(s, n) = SequenceBatch(go[n].s, n)
  BY DEF tick_fast
<1> HIDE DEF mix
<1>4. Next1(At(0)) = At(0)
  OBVIOUS
<1>5. ASSUME NEW l \in 1..n
      PROVE  \E k \in 1..l : Next1(At(l)) = At(l - k)
  <2> DEFINE p == n - l
             k == Part(l, ToNextEmit(a[p]))
  <2>1. p \in 0..n /\ a[p] \in PsgMixer
    BY <1>2
  <2>2. ToNextEmit(a[p]) \in Nat \ {0}
    BY <2>1, EmitsInTime
  <2>3. k \in 1..l /\ k <= ToNextEmit(a[p])
    BY <2>2 DEF Part
  <2>4. Next1(At(l)) = [left |-> l - k, s |-> Accumulate([c |-> s.c, m |-> a[p]], k, mix)]
    OBVIOUS
  <2> HIDE DEF p, k
  <2>5. [c |-> s.c, m |-> a[p]] \in PsgState
    BY <1>1, <2>1 DEF PsgState
  <2>6. Accumulate([c |-> s.c, m |-> a[p]], k, mix) = [c |-> s.c, m |-> Gather(a[p], k, mix)]
    BY <2>5, AccumulateGathers
  <2>7. p + k = n - (l - k) /\ p + k <= n /\ k \in Nat \ {0}
    BY <2>3 DEF p
  <2>8. a[p + k] = Gather(a[p], k, mix)
    BY <1>1, <1>2, <2>1, <2>3, <2>7, ChunkGathers
  <2> QED
    BY <2>3, <2>4, <2>6, <2>7, <2>8
<1>6. [left |-> n, s |-> s] = At(n)
  <2>1. s = [c |-> s.c, m |-> s.m] /\ n - n = 0
    BY <1>1
  <2> QED
    BY <1>2, <2>1
<1>7. step \in [S -> S] /\ At(n) \in S
  <2>1. ASSUME NEW l \in 0..n PROVE Next1(At(l)) \in S
    <3>1. CASE l = 0
      BY <1>4, <3>1
    <3>2. CASE l # 0
      <4>1. l \in 1..n
        BY <3>2
      <4>2. PICK k \in 1..l : Next1(At(l)) = At(l - k)
        BY <1>5, <4>1
      <4>3. l - k \in 0..n
        BY <4>2
      <4> HIDE DEF Next1, At
      <4> QED
        BY <4>2, <4>3
    <3> QED
      BY <3>1, <3>2
  <2> HIDE DEF Next1, At
  <2> QED
    BY <2>1
<1> HIDE DEF At, Next1
<1>8. PICK g : IsCourse(g, S, step, At(n), n)
  <2>1. n \in Nat
    OBVIOUS
  <2> HIDE DEF S, step
  <2> QED
    BY ONLY <1>7, <2>1, Course
<1>9. g = Body(g)
  <2>1. ASSUME NEW i \in 0..n PROVE g[i] = Body(g)[i]
    <3>1. CASE i = 0
      BY <1>6, <1>8, <3>1 DEF IsCourse
    <3>2. CASE i # 0
      <4>1. i - 1 \in 0..(n - 1) /\ (i - 1) + 1 = i /\ i - 1 \in 0..n
        BY <3>2
      <4>2. g[i] = step[g[i - 1]] /\ g[i - 1] \in S
        <5> HIDE DEF S, step
        <5> QED
          BY <1>8, <4>1 DEF IsCourse
      <4> QED
        BY <3>2, <4>2
    <3> QED
      BY <3>1, <3>2
  <2> HIDE DEF S, step
  <2> QED
    BY <1>8, <2>1 DEF IsCourse
<1> HIDE DEF Body, S, step
<1>10. go = Body(go)
  BY <1>9
<1> HIDE DEF go
<1>11. go[0] = At(n) /\ \A i \in 0..(n - 1) : go[i + 1] = Next1(go[i])
  <2>1. go = [i \in 0..n |-> IF i = 0 THEN [left |-> n, s |-> s] ELSE Next1(go[i - 1])]
    BY <1>10 DEF Body
  <2>2. go[0] = At(n)
    BY <1>6, <2>1
  <2>3. ASSUME NEW i \in 0..(n - 1) PROVE go[i + 1] = Next1(go[i])
    <3>1. i + 1 \in 0..n /\ i + 1 # 0 /\ (i + 1) - 1 = i
      OBVIOUS
    <3> QED
      BY <2>1, <3>1
  <2> QED
    BY <2>2, <2>3
<1> DEFINE T == {i \in Nat : i <= n => \E l \in 0..(n - i) : go[i] = At(l)}
<1>12. 0 \in T
  BY <1>11
<1>13. ASSUME NEW i \in 0..(n - 1), i \in T PROVE i + 1 \in T
  <2>1. PICK l \in 0..(n - i) : go[i] = At(l)
    BY <1>13
  <2>2. go[i + 1] = Next1(At(l))
    BY <1>11, <2>1
  <2>3. CASE l = 0
    <3>1. 0 \in 0..(n - (i + 1)) /\ go[i + 1] = At(0)
      BY <1>4, <2>2, <2>3
    <3> QED
      BY <3>1
  <2>4. CASE l # 0
    <3>1. l \in 1..n
      BY <2>4
    <3>2. PICK k \in 1..l : Next1(At(l)) = At(l - k)
      BY <1>5, <3>1
    <3>3. l - k \in 0..(n - (i + 1)) /\ go[i + 1] = At(l - k)
      BY <2>2, <3>2
    <3> QED
      BY <3>3
  <2> QED
    BY <2>3, <2>4
<1> HIDE DEF T
<1>14. n \in T
  BY <1>12, <1>13, InductionTo
<1>15. go[n] = At(0)
  BY <1>14 DEF T
<1>16. At(0).s = [c |-> s.c, m |-> a[n]]
  BY DEF At
<1> QED
  BY <1>3, <1>15, <1>16

(* The sequencer clock by clock.                                           *)
ClockSet == {x \in [c : PsgChannel, step : 0..7] : Steady(x.c)}
ClockStep == [x \in ClockSet |-> [c |-> Clocked(x.c, x.step), step |-> (x.step + 1) % 8]]
LEMMA ClockStepType == ClockStep \in [ClockSet -> ClockSet]
<1>1. ASSUME NEW x \in ClockSet
      PROVE  [c |-> Clocked(x.c, x.step), step |-> (x.step + 1) % 8] \in ClockSet
  <2>1. x.c \in PsgChannel /\ x.step \in 0..7 /\ Steady(x.c)
    BY DEF ClockSet
  <2>2. Steady(Clocked(x.c, x.step))
    BY <2>1, ClockedCarries DEF Carries
  <2>3. Clocked(x.c, x.step) \in PsgChannel /\ (x.step + 1) % 8 \in 0..7
    BY <2>1, <2>2 DEF Steady
  <2> QED
    BY <2>2, <2>3 DEF ClockSet
<1> QED
  BY <1>1 DEF ClockStep

(* A batch on the fast path clocks the sequencer as often as is due. *)
LEMMA BatchClocks ==
  ASSUME NEW s \in Good, NEW n \in Nat, NEW k,
         IsCourse(k, ClockSet, ClockStep, [c |-> s.c, step |-> s.m.step],
                  (s.m.counter + n) \div CYCLES_PER_FRAME_SEQ)
  PROVE  LET total == s.m.counter + n
             last == k[total \div CYCLES_PER_FRAME_SEQ]
         IN  SequenceBatch(s, n)
               = [c |-> last.c, m |-> Placed(s.m, last.step, total % CYCLES_PER_FRAME_SEQ)]
<1> DEFINE total == s.m.counter + n
           D == total \div CYCLES_PER_FRAME_SEQ
           r == total % CYCLES_PER_FRAME_SEQ
           At(x) == [c |-> x.c, m |-> Placed(s.m, x.step, s.m.counter)]
           Body(g) == [j \in 0..D |-> IF j = 0 THEN s ELSE clock_frame_sequencer(g[j - 1])]
           clocked == CHOOSE g : g = Body(g)
           h == [j \in 0..D |-> At(k[j])]
<1>1. s \in [c : PsgChannel, m : PsgMixer] /\ s.c \in PsgChannel /\ s.m \in PsgMixer /\ Steady(s.c)
  BY SMTT(40) DEF Good, PsgState
<1>2. s.m.counter \in 0..(CYCLES_PER_FRAME_SEQ - 1) /\ s.m.step \in 0..7 /\ total \in Nat
  BY <1>1, PsgAssumption DEF PsgMixer
<1>3. D \in Nat /\ r \in 0..(CYCLES_PER_FRAME_SEQ - 1)
  <2> HIDE DEF total
  <2> QED
    BY <1>2, Division, PsgAssumption
<1>4. SequenceBatch(s, n) = [clocked[D] EXCEPT !.m.counter = r]
  BY DEF SequenceBatch
<1>5. IsCourse(k, ClockSet, ClockStep, [c |-> s.c, step |-> s.m.step], D)
  OBVIOUS
<1> HIDE DEF total, D, r
<1>6. ASSUME NEW x \in ClockSet PROVE At(x) \in PsgState /\ clock_frame_sequencer(At(x)) = At(ClockStep[x])
  <2>1. x.c \in PsgChannel /\ x.step \in 0..7 /\ Steady(x.c)
    BY DEF ClockSet
  <2> DEFINE m == Placed(s.m, x.step, s.m.counter)
             w == (x.step + 1) % 8
             d == Clocked(x.c, x.step)
  <2>2. m \in PsgMixer /\ m.step = x.step
    BY <1>1, <1>2, <2>1, PlacedStays, SMTT(40)
  <2>3. At(x) = [c |-> x.c, m |-> m]
    OBVIOUS
  <2> HIDE DEF m, At
  <2>4. At(x) \in PsgState /\ At(x).c = x.c /\ At(x).m = m
    BY <2>1, <2>2, <2>3 DEF PsgState
  <2>5. clock_frame_sequencer(At(x)) = [c |-> d, m |-> [m EXCEPT !.step = w]]
    BY <2>2, <2>4, SequencerStep
  <2>6. ClockStep[x] = [c |-> d, step |-> w]
    BY DEF ClockStep
  <2> HIDE DEF w, d
  <2>7. [m EXCEPT !.step = w] = Placed(s.m, w, s.m.counter)
    BY <1>1 DEF m, Placed, PsgMixer
  <2> QED
    BY <2>4, <2>5, <2>6, <2>7 DEF At
<1>7. k[0] = [c |-> s.c, step |-> s.m.step] /\ k \in [0..D -> ClockSet]
      /\ \A j \in 0..(D - 1) : k[j + 1] = ClockStep[k[j]]
  BY <1>5 DEF IsCourse
<1>8. At(k[0]) = s
  <2>1. Placed(s.m, s.m.step, s.m.counter) = s.m
    BY <1>1, <1>2, PlacedStays
  <2>2. s = [c |-> s.c, m |-> s.m]
    BY <1>1
  <2> QED
    BY <1>7, <2>1, <2>2
<1> HIDE DEF At
<1>9. h = Body(h)
  <2>1. ASSUME NEW j \in 0..D PROVE h[j] = Body(h)[j]
    <3>1. CASE j = 0
      BY <1>8, <3>1
    <3>2. CASE j # 0
      <4>1. j - 1 \in 0..(D - 1) /\ (j - 1) + 1 = j /\ j - 1 \in 0..D
        BY <1>3, <3>2
      <4>2. k[j] = ClockStep[k[j - 1]] /\ k[j - 1] \in ClockSet
        BY <1>7, <4>1
      <4>3. h[j] = clock_frame_sequencer(h[j - 1])
        BY <1>6, <4>1, <4>2
      <4> QED
        BY <3>2, <4>3
    <3> QED
      BY <3>1, <3>2
  <2> QED
    BY <2>1
<1> HIDE DEF Body
<1>10. clocked = Body(clocked)
  BY <1>9
<1> HIDE DEF clocked
<1>11. clocked[0] = s /\ \A j \in 0..(D - 1) : clocked[j + 1] = clock_frame_sequencer(clocked[j])
  <2>1. clocked = [j \in 0..D |-> IF j = 0 THEN s ELSE clock_frame_sequencer(clocked[j - 1])]
    BY <1>10 DEF Body
  <2>2. clocked[0] = s
    BY <1>3, <2>1
  <2>3. ASSUME NEW j \in 0..(D - 1) PROVE clocked[j + 1] = clock_frame_sequencer(clocked[j])
    <3>1. j + 1 \in 0..D /\ j + 1 # 0 /\ (j + 1) - 1 = j
      BY <1>3
    <3> QED
      BY <2>1, <3>1
  <2> QED
    BY <2>2, <2>3
<1> DEFINE T == {j \in Nat : j <= D => clocked[j] = At(k[j])}
<1>12. 0 \in T
  BY <1>8, <1>11
<1>13. ASSUME NEW j \in 0..(D - 1), j \in T PROVE j + 1 \in T
  <2>1. clocked[j] = At(k[j]) /\ k[j] \in ClockSet /\ k[j + 1] = ClockStep[k[j]]
    BY <1>3, <1>7, <1>13
  <2>2. clocked[j + 1] = At(k[j + 1])
    BY <1>6, <1>11, <2>1
  <2> QED
    BY <2>2
<1> HIDE DEF T
<1>14. D \in T
  BY <1>3, <1>12, <1>13, InductionTo
<1>15. clocked[D] = At(k[D]) /\ k[D] \in ClockSet
  BY <1>3, <1>7, <1>14 DEF T
<1>16. [At(k[D]) EXCEPT !.m.counter = r] = [c |-> k[D].c, m |-> Placed(s.m, k[D].step, r)]
  <2> DEFINE c == k[D].c
             w == k[D].step
             m == Placed(s.m, w, s.m.counter)
             t == [c |-> c, m |-> m]
             u == [m EXCEPT !.counter = r]
  <2>1. t \in [c : PsgChannel, m : PsgMixer] /\ At(k[D]) = t
    BY <1>6, <1>15 DEF At, PsgState
  <2> HIDE DEF c, w
  <2>2. u = Placed(s.m, w, r)
    BY <1>1 DEF Placed, PsgMixer
  <2>3. t.c = c /\ t.m = m
    OBVIOUS
  <2> HIDE DEF t
  <2>4. [t EXCEPT !.m.counter = r] = [t EXCEPT !.m = u]
    BY <2>1, <2>3
  <2> HIDE DEF u
  <2>5. [t EXCEPT !.m = u] = [c |-> c, m |-> u]
    <3> DEFINE v == [t EXCEPT !.m = u]
    <3>1. DOMAIN v = {"c", "m"} /\ v.c = c /\ v.m = u
      BY <2>1, <2>3
    <3>2. v = [x \in {"c", "m"} |-> IF x = "c" THEN c ELSE u]
      BY <2>1, <3>1
    <3> QED
      BY <3>2
  <2> QED
    BY <2>1, <2>2, <2>4, <2>5 DEF c, w
<1> QED
  BY <1>4, <1>15, <1>16, ZenonT(60) DEF total, D, r

(* Nothing is heard of a channel that is off but the level of the FIFOs.   *)
LEMMA OffHeard ==
  ASSUME NEW s \in PsgState, ~s.c.enabled
  PROVE  Heard(s) = IF s.m.master THEN s.m.level ELSE 0
<1>1. s.m.level \in Int
  BY DEF PsgState, PsgMixer
<1>2. output(s.c) = 0
  BY DEF output, Runs
<1>3. 0 + s.m.level = s.m.level
  BY <1>1
<1> QED
  BY <1>2, <1>3 DEF Heard, current_mix

(* The slow path, of a channel that is off, is a course of the mixer and   *)
(* one of the sequencer.                                                   *)
LEMMA SlowOff ==
  ASSUME NEW s \in Good, ~s.c.enabled, NEW n \in Nat, NEW a, NEW k,
         IsCourse(a, PsgMixer, GatherStep(Heard(s)), s.m, n),
         IsCourse(k, ClockSet, ClockStep, [c |-> s.c, step |-> s.m.step],
                  (s.m.counter + n) \div CYCLES_PER_FRAME_SEQ)
  PROVE  LET total == s.m.counter + n
             last == k[total \div CYCLES_PER_FRAME_SEQ]
         IN  Slow(s, n)
               = [c |-> last.c, m |-> Placed(a[n], last.step, total % CYCLES_PER_FRAME_SEQ)]
<1> DEFINE C == CYCLES_PER_FRAME_SEQ
           c0 == s.m.counter
           mix == Heard(s)
           q(i) == (c0 + i) \div C
           r(i) == (c0 + i) % C
           D == q(n)
           At(i) == [c |-> k[q(i)].c, m |-> Placed(a[i], k[q(i)].step, r(i))]
<1>1. s \in [c : PsgChannel, m : PsgMixer] /\ s.c \in PsgChannel /\ s.m \in PsgMixer /\ Steady(s.c)
      /\ s \in PsgState
  BY DEF Good, PsgState
<1>2. c0 \in 0..(C - 1) /\ C \in Nat \ {0} /\ mix \in Int /\ s.m.step \in 0..7
      /\ mix = IF s.m.master THEN s.m.level ELSE 0
  BY <1>1, PsgAssumption, HeardType, OffHeard DEF PsgMixer
<1>3. IsCourse(a, PsgMixer, GatherStep(mix), s.m, n)
  OBVIOUS
<1>4. k[0] = [c |-> s.c, step |-> s.m.step] /\ k \in [0..D -> ClockSet]
      /\ \A j \in 0..(D - 1) : k[j + 1] = ClockStep[k[j]]
  BY DEF IsCourse
<1>5. PICK g : IsCourse(g, Good, CycleStep, s, n) /\ Slow(s, n) = g[n]
  BY SlowCourse
<1> HIDE DEF C, c0, mix
<1>6. D \in Nat /\ \A i \in 0..n : q(i) \in 0..D /\ r(i) \in 0..(C - 1)
  <2>1. ASSUME NEW i \in 0..n PROVE q(i) \in Nat /\ r(i) \in 0..(C - 1) /\ q(i) <= q(n)
    <3>1. c0 + i \in Nat /\ c0 + n \in Nat /\ c0 + i <= c0 + n
      BY <1>2
    <3>2. q(i) \in Nat /\ r(i) \in 0..(C - 1) /\ c0 + i = C * q(i) + r(i)
      BY <1>2, <3>1, Division
    <3>3. c0 + n >= q(i) * C
      <4>1. q(i) * C = C * q(i) /\ C * q(i) \in Nat
        BY <1>2, <3>2
      <4> HIDE DEF q, r
      <4> QED
        BY <1>2, <3>1, <3>2, <4>1
    <3>4. (c0 + n) \div C >= q(i) <=> c0 + n >= q(i) * C
      BY <1>2, <3>1, <3>2, QuotientReaches
    <3>5. q(n) \in Nat
      BY <1>2, <3>1, Division
    <3> HIDE DEF r
    <3> QED
      BY <3>2, <3>3, <3>4, <3>5
  <2> HIDE DEF q, r
  <2>2. n \in 0..n
    OBVIOUS
  <2> QED
    BY <2>1, <2>2
<1>7. q(0) = 0 /\ r(0) = c0
  BY <1>2
<1>8. ASSUME NEW i \in 0..(n - 1)
      PROVE  /\ r(i) + 1 < C => q(i + 1) = q(i) /\ r(i + 1) = r(i) + 1
             /\ r(i) + 1 = C => q(i + 1) = q(i) + 1 /\ r(i + 1) = 0
             /\ r(i) + 1 < C \/ r(i) + 1 = C
  <2> DEFINE b == c0 + i
  <2>1. b \in Nat /\ c0 + (i + 1) = b + 1
    BY <1>2
  <2> HIDE DEF b
  <2>2. /\ (b % C) + 1 < C => (b + 1) \div C = b \div C /\ (b + 1) % C = (b % C) + 1
        /\ (b % C) + 1 = C => (b + 1) \div C = (b \div C) + 1 /\ (b + 1) % C = 0
        /\ (b % C) + 1 < C \/ (b % C) + 1 = C
    BY <1>2, <2>1, OneMore
  <2> QED
    BY <2>1, <2>2 DEF b
<1>9. D = (s.m.counter + n) \div CYCLES_PER_FRAME_SEQ /\ r(n) = (s.m.counter + n) % CYCLES_PER_FRAME_SEQ
  BY DEF C, c0
<1> HIDE DEF q, r
(* The sequencer does not turn the channel on.                             *)
<1>10. \A j \in 0..D : ~k[j].c.enabled
  <2>1. SUFFICES ASSUME NEW j \in 0..D PROVE ~k[j].c.enabled
    OBVIOUS
  <2> DEFINE T == {i \in Nat : i <= j => ~k[i].c.enabled}
  <2>2. 0 \in T
    BY <1>4
  <2>3. ASSUME NEW i \in 0..(j - 1), i \in T PROVE i + 1 \in T
    <3>1. i \in 0..(D - 1) /\ i \in 0..D /\ ~k[i].c.enabled
      BY <1>6, <2>3
    <3>2. k[i] \in ClockSet /\ k[i + 1] = ClockStep[k[i]]
      BY <1>4, <3>1
    <3>3. Steady(k[i].c) /\ k[i + 1].c = Clocked(k[i].c, k[i].step)
      BY <3>2 DEF ClockSet, ClockStep
    <3>4. ~k[i + 1].c.enabled
      BY <3>1, <3>3, OffStaysOff
    <3> QED
      BY <3>4
  <2> HIDE DEF T
  <2>4. j \in T
    <3>1. j \in Nat
      BY <1>6
    <3> QED
      BY <2>2, <2>3, <3>1, InductionTo
  <2> QED
    BY <2>4 DEF T
<1>11. At(0) = s
  <2>1. a[0] = s.m
    BY DEF IsCourse
  <2>2. k[0].c = s.c /\ k[0].step = s.m.step
    BY <1>4
  <2>3. Placed(s.m, s.m.step, s.m.counter) = s.m
    BY <1>1, <1>2, PlacedStays DEF c0, C
  <2>4. s = [c |-> s.c, m |-> s.m]
    BY <1>1
  <2> QED
    BY <1>7, <2>1, <2>2, <2>3, <2>4 DEF c0
<1>12. ASSUME NEW i \in 0..(n - 1), At(i) \in Good PROVE OneCycle(At(i)) = At(i + 1)
  <2> DEFINE c == k[q(i)].c
             w == k[q(i)].step
             d == k[q(i + 1)].c
             v == k[q(i + 1)].step
             x == At(i)
             m == Placed(a[i], w, r(i))
             t == Sequenced(x)
             u == [c |-> d, m |-> Placed(a[i], v, r(i + 1))]
  <2>1. i \in 0..n /\ i + 1 \in 0..n /\ q(i) \in 0..D /\ q(i + 1) \in 0..D
        /\ r(i) \in 0..(C - 1) /\ r(i + 1) \in 0..(C - 1)
    BY <1>6
  <2>2. k[q(i)] \in ClockSet /\ k[q(i + 1)] \in ClockSet /\ a[i] \in PsgMixer
    BY <1>4, <2>1 DEF IsCourse
  <2>3. c \in PsgChannel /\ w \in 0..7 /\ Steady(c) /\ ~c.enabled /\ d \in PsgChannel /\ v \in 0..7
        /\ Steady(d) /\ ~d.enabled
    BY <1>10, <2>1, <2>2 DEF ClockSet
  <2>4. x = [c |-> c, m |-> m] /\ x.c = c /\ x.m = m
    OBVIOUS
  <2>5. m \in PsgMixer /\ m.step = w /\ m.counter = r(i)
    <3> DEFINE b == a[i]
               z == r(i)
    <3>1. b \in PsgMixer /\ w \in 0..7 /\ z \in 0..(CYCLES_PER_FRAME_SEQ - 1)
      BY <2>1, <2>2, <2>3 DEF C
    <3> HIDE DEF b, w, z
    <3>2. Placed(b, w, z) \in PsgMixer /\ Placed(b, w, z).step = w /\ Placed(b, w, z).counter = z
      BY <3>1, PlacedStays, SMTT(40)
    <3> QED
      BY <3>2 DEF b, w, z
  <2>6. t = u
    <3>1. CASE r(i) + 1 < C
      <4>1. q(i + 1) = q(i) /\ r(i + 1) = r(i) + 1
        BY <1>8, <3>1
      <4>2. t = [c |-> c, m |-> [m EXCEPT !.counter = r(i) + 1]]
        BY <2>4, <2>5, <3>1 DEF Sequenced, C
      <4>3. [m EXCEPT !.counter = r(i) + 1] = Placed(a[i], w, r(i) + 1)
        BY <2>2 DEF Placed, PsgMixer
      <4> HIDE DEF m, x, t
      <4> QED
        BY <4>1, <4>2, <4>3
    <3>2. CASE r(i) + 1 = C
      <4>1. q(i + 1) = q(i) + 1 /\ r(i + 1) = 0
        BY <1>8, <3>2
      <4>2. q(i) \in 0..(D - 1)
        BY <1>6, <2>1, <4>1
      <4>3. k[q(i) + 1] = ClockStep[k[q(i)]]
        BY <1>4, <4>2
      <4>4. d = Clocked(c, w) /\ v = (w + 1) % 8
        BY <2>2, <4>1, <4>3 DEF ClockStep
      <4>5. t = [c |-> Clocked(c, w), m |-> [m EXCEPT !.counter = 0, !.step = (w + 1) % 8]]
        <5>1. ~(r(i) + 1 < C)
          BY <1>2, <2>1, <3>2
        <5> HIDE DEF c, w, m, x
        <5> QED
          BY <2>4, <2>5, <5>1 DEF Sequenced, C
      <4>6. [m EXCEPT !.counter = 0, !.step = (w + 1) % 8] = Placed(a[i], (w + 1) % 8, 0)
        BY <2>2 DEF Placed, PsgMixer
      <4> HIDE DEF m, x, t, c, w, d, v
      <4> QED
        BY <4>1, <4>4, <4>5, <4>6
    <3> QED
      BY <1>8, <3>1, <3>2
  <2> DEFINE f == Sequenced([c |-> tick_channel(x.c), m |-> x.m])
  <2>7. f = t
    <3>1. tick_channel(c) = c
      BY <2>3, OffStaysOff
    <3> HIDE DEF c, m, x
    <3> QED
      BY <2>4, <3>1
  <2>8. OneCycle(x) = [c |-> f.c, m |-> Gather(f.m, 1, Heard(f))] /\ f \in Good
    BY <1>12, CycleSteps
  <2>9. u.c = d /\ u.m = Placed(a[i], v, r(i + 1)) /\ u.m.master = a[i].master /\ u.m.level = a[i].level
    <3> DEFINE b == a[i]
               z == r(i + 1)
               p == Placed(b, v, z)
    <3>1. b \in PsgMixer /\ v \in 0..7 /\ z \in 0..(CYCLES_PER_FRAME_SEQ - 1)
      BY <2>1, <2>2, <2>3 DEF C
    <3>2. u.c = d /\ u.m = p
      OBVIOUS
    <3> HIDE DEF b, v, z
    <3>3. p.master = b.master /\ p.level = b.level
      BY <3>1, PlacedStays
    <3> HIDE DEF p, u
    <3> QED
      BY <3>2, <3>3 DEF b, v, z, p
  <2> HIDE DEF f, t, u, x
  <2>10. Heard(u) = mix
    <3>1. u \in PsgState
      BY <2>6, <2>7, <2>8 DEF Good
    <3>2. SameClock(s.m, a[i])
      BY <1>1, <1>2, <1>3, <2>1, GatherKeepsClock
    <3> QED
      BY <1>2, <2>3, <2>9, <3>1, <3>2, OffHeard DEF SameClock
  <2>11. Gather(Placed(a[i], v, r(i + 1)), 1, mix) = Placed(Gather(a[i], 1, mix), v, r(i + 1))
    BY <2>1, <2>2, <2>3, GatherPlaced DEF C
  <2>12. Gather(a[i], 1, mix) = a[i + 1]
    <3>1. a[i + 1] = GatherStep(mix)[a[i]]
      BY <1>3 DEF IsCourse
    <3> QED
      BY <2>2, <3>1 DEF GatherStep
  <2> HIDE DEF d, v
  <2>13. OneCycle(x) = [c |-> d, m |-> Placed(a[i + 1], v, r(i + 1))]
    BY <2>6, <2>7, <2>8, <2>9, <2>10, <2>11, <2>12
  <2> QED
    BY <2>13 DEF x, d, v
<1> HIDE DEF At
<1> DEFINE T == {i \in Nat : i <= n => g[i] = At(i)}
<1>13. 0 \in T
  BY <1>5, <1>11 DEF IsCourse
<1>14. ASSUME NEW i \in 0..(n - 1), i \in T PROVE i + 1 \in T
  <2>1. g[i] = At(i) /\ g[i] \in Good /\ g[i + 1] = CycleStep[g[i]]
    BY <1>5, <1>14 DEF IsCourse
  <2>2. g[i + 1] = At(i + 1)
    BY <1>12, <2>1 DEF CycleStep
  <2> QED
    BY <2>2
<1> HIDE DEF T
<1>15. n \in T
  BY <1>13, <1>14, InductionTo
<1>16. Slow(s, n) = At(n)
  BY <1>5, <1>15 DEF T
<1>17. At(n) = [c |-> k[D].c, m |-> Placed(a[n], k[D].step, r(n))]
  BY DEF At
<1> HIDE DEF D
<1> QED
  BY <1>9, <1>16, <1>17

(* Both paths do the same.                                                 *)
LEMMA FastIsSlow ==
  ASSUME NEW s \in Good, NEW n \in Nat
  PROVE  tick(s, n) = Slow(s, n)
<1>1. CASE s.c.enabled
  BY <1>1 DEF tick
<1>2. CASE ~s.c.enabled
  <2> DEFINE mix == Heard(s)
             D == (s.m.counter + n) \div CYCLES_PER_FRAME_SEQ
             x == [c |-> s.c, step |-> s.m.step]
  <2>1. s \in PsgState /\ s.c \in PsgChannel /\ s.m \in PsgMixer /\ Steady(s.c) /\ mix \in Int
    BY HeardType DEF Good, PsgState
  <2>2. GatherStep(mix) \in [PsgMixer -> PsgMixer]
    BY <2>1, GatherStepType
  <2>3. PICK a : IsCourse(a, PsgMixer, GatherStep(mix), s.m, n)
    <3>1. n \in Nat
      OBVIOUS
    <3> QED
      BY ONLY <2>1, <2>2, <3>1, Course
  <2>4. s.m.counter \in Nat /\ s.m.step \in 0..7
    BY <2>1, PsgAssumption DEF PsgMixer
  <2>5. D \in Nat
    <3> DEFINE total == s.m.counter + n
    <3>1. total \in Nat /\ CYCLES_PER_FRAME_SEQ \in Nat \ {0}
      BY <2>4, PsgAssumption
    <3> HIDE DEF total
    <3>2. total \div CYCLES_PER_FRAME_SEQ \in Nat
      BY <3>1, Division
    <3> QED
      BY <3>2 DEF total
  <2>6. x \in ClockSet
    BY <2>1, <2>4 DEF ClockSet
  <2>7. PICK k : IsCourse(k, ClockSet, ClockStep, x, D)
    <3> HIDE DEF D, x
    <3> QED
      BY ONLY <2>5, <2>6, ClockStepType, Course
  <2> DEFINE t == [c |-> s.c, m |-> a[n]]
  <2>8. tick_fast(s, n) = SequenceBatch(t, n)
    BY <2>3, FastGathers
  <2>9. a[n] \in PsgMixer /\ SameClock(s.m, a[n])
    <3>1. n \in 0..n
      OBVIOUS
    <3>2. a[n] \in PsgMixer
      BY <2>3, <3>1 DEF IsCourse
    <3>3. SameClock(s.m, a[n])
      BY <2>1, <2>3, <3>1, GatherKeepsClock
    <3> QED
      BY <3>2, <3>3
  <2>10. t \in Good /\ t.c = s.c /\ t.m = a[n]
    BY <2>1, <2>9 DEF Good, PsgState
  <2> HIDE DEF t
  <2>11. t.m.counter = s.m.counter /\ t.m.step = s.m.step
    BY <2>9, <2>10 DEF SameClock
  <2>12. SequenceBatch(t, n)
           = [c |-> k[D].c, m |-> Placed(t.m, k[D].step, (s.m.counter + n) % CYCLES_PER_FRAME_SEQ)]
    <3>1. IsCourse(k, ClockSet, ClockStep, [c |-> t.c, step |-> t.m.step],
                   (t.m.counter + n) \div CYCLES_PER_FRAME_SEQ)
      BY <2>7, <2>10, <2>11
    <3> QED
      BY <2>10, <2>11, <3>1, BatchClocks
  <2>13. Slow(s, n)
           = [c |-> k[D].c, m |-> Placed(a[n], k[D].step, (s.m.counter + n) % CYCLES_PER_FRAME_SEQ)]
    BY <1>2, <2>3, <2>7, SlowOff
  <2>14. tick(s, n) = tick_fast(s, n)
    BY <1>2 DEF tick
  <2> QED
    BY <2>8, <2>10, <2>12, <2>13, <2>14
<1> QED
  BY <1>1, <1>2

(***************************************************************************)
(* The guest stores to the channel, and time passes.                       *)
(***************************************************************************)

(* A channel is steady whatever was stored to it; since a note began, and  *)
(* as long as its registers are left alone, it can also go on.             *)
PsgInv ==
  /\ Steady(ch) /\ mixer \in PsgMixer
  /\ alone \in BOOLEAN /\ (alone => Untouched(ch))

LEMMA PsgStarts == PsgInit => PsgInv
<1>1. ASSUME NEW kind \in Kinds PROVE Steady(NewChannel(kind))
  <2> DEFINE nil == 0
  <2>1. nil \in Nat /\ nil \in Int /\ nil \in 0..VOLUME /\ nil \in 0..(FREQUENCIES - 1) /\ nil \in {0, 1}
        /\ {} \in SUBSET Nat /\ AllOnes \in Nat
    BY PsgAssumption, AllOnesLive
  <2>2. NewChannel(kind) \in PsgChannel
    <3>1. NewChannel(kind) =
            [kind |-> kind, enabled |-> FALSE, length |-> nil, length_on |-> FALSE,
             init |-> nil, up |-> FALSE, period |-> nil, volume |-> nil, env_timer |-> nil,
             sweep_period |-> nil, negate |-> FALSE, shift |-> nil, sweep_timer |-> nil,
             shadow |-> nil, sweep_on |-> FALSE,
             frequency |-> nil, timer |-> nil, pos |-> nil,
             dac |-> FALSE, bank |-> nil, dimension |-> FALSE, ram |-> {},
             width |-> FALSE, lfsr |-> AllOnes]
      BY DEF NewChannel
    <3> HIDE DEF nil
    <3> QED
      BY <2>1, <3>1 DEF PsgChannel
  <2> QED
    BY <2>2 DEF Steady, NewChannel
<1>2. NewMixer \in PsgMixer
  <2> DEFINE nil == 0
  <2>1. nil \in Nat /\ nil \in Int /\ nil \in 0..7 /\ nil \in 0..(CYCLES_PER_FRAME_SEQ - 1)
        /\ nil \in 0..(CPU_CLOCK_HZ - 1)
    BY PsgAssumption
  <2>2. NewMixer = [master |-> FALSE, level |-> nil, step |-> nil, counter |-> nil, sample_frac |-> nil,
                    accum |-> nil, count |-> nil, hp_in |-> nil, hp_out |-> nil]
    BY DEF NewMixer
  <2> HIDE DEF nil
  <2> QED
    BY <2>1, <2>2 DEF PsgMixer
<1> QED
  BY <1>1, <1>2 DEF PsgInit, PsgInv

(* Time passes. *)
LEMMA TickKeeps ==
  ASSUME PsgInv, NEW n \in Batches, Tick(n)
  PROVE  PsgInv'
<1>1. Now \in Good /\ Now.c = ch /\ n \in Nat
  BY PsgAssumption DEF PsgInv, Now, Good, PsgState, Steady
<1> DEFINE s == tick(Now, n)
<1>2. s = Slow(Now, n)
  BY <1>1, FastIsSlow
<1>3. s \in Good /\ Carries(ch, s.c)
  BY <1>1, <1>2, SlowCarries
<1>4. ch' = s.c /\ mixer' = s.m /\ alone' = alone
  BY DEF Tick
<1> HIDE DEF s
<1> QED
  BY <1>3, <1>4 DEF PsgInv, Carries, Good, PsgState

(* The guest stores to a register. *)
LEMMA StoreKeeps ==
  ASSUME PsgInv, Guest
  PROVE  PsgInv'
<1>1. Steady(ch) /\ ch \in PsgChannel /\ mixer \in PsgMixer /\ alone \in BOOLEAN /\ (alone => Untouched(ch))
  BY DEF PsgInv, Steady
<1>2. ASSUME NEW v \in Sweeps, StoreSweep(v) PROVE PsgInv'
  <2> DEFINE d == [ch EXCEPT !.sweep_period = v.period, !.negate = v.negate, !.shift = v.shift]
  <2>1. v.period \in Nat /\ v.negate \in BOOLEAN /\ v.shift \in Nat
    BY PsgAssumption
  <2>2. Steady(d)
    BY <1>1, <2>1, ZenonT(60) DEF Steady, PsgChannel
  <2>3. ch' = d /\ alone' = FALSE /\ mixer' = mixer
    BY <1>2 DEF StoreSweep, Stores
  <2> HIDE DEF d
  <2> QED
    BY <1>1, <2>2, <2>3 DEF PsgInv
<1>3. ASSUME NEW v \in Envelopes, StoreEnvelope(v) PROVE PsgInv'
  <2> DEFINE d == [ch EXCEPT !.init = v.init, !.up = v.up, !.period = v.period]
  <2>1. v.init \in 0..VOLUME /\ v.up \in BOOLEAN /\ v.period \in Nat
    BY PsgAssumption
  <2>2. Steady(d)
    BY <1>1, <2>1, ZenonT(60) DEF Steady, PsgChannel
  <2>3. ch' = d /\ alone' = FALSE /\ mixer' = mixer
    BY <1>3 DEF StoreEnvelope, Stores
  <2> HIDE DEF d
  <2> QED
    BY <1>1, <2>2, <2>3 DEF PsgInv
(* A note may begin. *)
<1>4. ASSUME NEW c, Steady(c), NEW v, v.start \in BOOLEAN, ch' = Begun(c, v), alone' = v.start, mixer' = mixer
      PROVE  PsgInv'
  <2>1. CASE v.start
    <3>1. Steady(trigger(c)) /\ Untouched(trigger(c))
      BY <1>4, NoteBegins
    <3>2. ch' = trigger(c)
      BY <1>4, <2>1 DEF Begun
    <3> QED
      BY <1>1, <1>4, <3>1, <3>2 DEF PsgInv
  <2>2. CASE ~v.start
    <3>1. ch' = c
      BY <1>4, <2>2 DEF Begun
    <3> QED
      BY <1>1, <1>4, <2>2, <3>1 DEF PsgInv
  <2> QED
    BY <1>4, <2>1, <2>2
<1>5. ASSUME NEW v \in Tones, StoreTone(v) PROVE PsgInv'
  <2> DEFINE d == [ch EXCEPT !.frequency = v.frequency, !.length_on = v.length_on]
  <2>1. v.frequency \in 0..(FREQUENCIES - 1) /\ v.length_on \in BOOLEAN /\ v.start \in BOOLEAN
    BY PsgAssumption
  <2>2. Steady(d)
    BY <1>1, <2>1, Zenon DEF Steady, PsgChannel
  <2>3. ch' = Begun(d, v) /\ alone' = v.start /\ mixer' = mixer
    BY <1>5 DEF StoreTone, Stores
  <2> HIDE DEF d
  <2> QED
    BY <1>4, <2>1, <2>2, <2>3
<1>6. ASSUME NEW v \in Noises, StoreNoise(v) PROVE PsgInv'
  <2> DEFINE d == [ch EXCEPT !.frequency = v.frequency, !.width = v.width, !.length_on = v.length_on]
  <2>1. v.frequency \in 0..(FREQUENCIES - 1) /\ v.length_on \in BOOLEAN /\ v.start \in BOOLEAN
        /\ v.width \in BOOLEAN
    BY PsgAssumption
  <2>2. Steady(d)
    BY <1>1, <2>1, Zenon DEF Steady, PsgChannel
  <2>3. ch' = Begun(d, v) /\ alone' = v.start /\ mixer' = mixer
    BY <1>6 DEF StoreNoise, Stores
  <2> HIDE DEF d
  <2> QED
    BY <1>4, <2>1, <2>2, <2>3
<1>7. ASSUME NEW v \in Waves, StoreWaveSelect(v) PROVE PsgInv'
  <2> DEFINE d == [ch EXCEPT !.dimension = v.dimension, !.bank = v.bank, !.dac = v.dac]
  <2>1. v.dimension \in BOOLEAN /\ v.bank \in {0, 1} /\ v.dac \in BOOLEAN
    BY PsgAssumption
  <2>2. Steady(d)
    BY <1>1, <2>1, ZenonT(60) DEF Steady, PsgChannel
  <2>3. ch' = d /\ alone' = FALSE /\ mixer' = mixer
    BY <1>7 DEF StoreWaveSelect, Stores
  <2> HIDE DEF d
  <2> QED
    BY <1>1, <2>2, <2>3 DEF PsgInv
(* What is stored here has nothing to do with how a note goes on. *)
<1>8. ASSUME NEW d, Steady(d), SameNote(ch, d), ch' = d, alone' = alone, mixer' \in PsgMixer
      PROVE  PsgInv'
  BY <1>1, <1>8, SameNoteStays DEF PsgInv
<1>9. ASSUME StoreWaveRam PROVE PsgInv'
  <2> DEFINE stored == UNION {{4 * i, 4 * i + 1} : i \in 0..(HALFWORDS - 1)}
             ram == ch.ram \cup stored
             d == [ch EXCEPT !.ram = ram]
  <2>1. ram \in SUBSET Nat
    BY <1>1 DEF PsgChannel
  <2>2. ch' = d /\ alone' = alone /\ mixer' = mixer
    BY <1>9 DEF StoreWaveRam, Stores
  <2> HIDE DEF ram
  <2>3. Steady(d) /\ SameNote(ch, d)
    BY <1>1, <2>1 DEF Steady, PsgChannel, SameNote
  <2> HIDE DEF d
  <2> QED
    BY <1>1, <1>8, <2>2, <2>3
<1>10. ASSUME NEW on \in BOOLEAN, StoreMaster(on) PROVE PsgInv'
  <2> DEFINE d == IF on THEN ch ELSE [ch EXCEPT !.enabled = FALSE]
  <2>1. ch' = d /\ alone' = alone /\ mixer' = [mixer EXCEPT !.master = on]
    BY <1>10 DEF StoreMaster, Stores
  <2>2. mixer' \in PsgMixer
    BY <1>1, <2>1 DEF PsgMixer
  <2>3. Steady(d) /\ SameNote(ch, d)
    <3> DEFINE e == [ch EXCEPT !.enabled = FALSE]
    <3>1. Steady(e) /\ SameNote(ch, e)
      BY <1>1, ZenonT(60) DEF Steady, PsgChannel, SameNote
    <3>2. SameNote(ch, ch)
      BY DEF SameNote
    <3> HIDE DEF e
    <3>3. d = ch \/ d = e
      BY DEF e
    <3> QED
      BY <1>1, <3>1, <3>2, <3>3
  <2> HIDE DEF d
  <2> QED
    BY <1>8, <2>1, <2>2, <2>3
<1>11. ASSUME NEW v \in Levels, PopLevel(v) PROVE PsgInv'
  <2>1. ch' = ch /\ alone' = alone /\ mixer' = [mixer EXCEPT !.level = v] /\ v \in Int
    BY <1>11, PsgAssumption DEF PopLevel, Stores
  <2>2. mixer' \in PsgMixer
    BY <1>1, <2>1 DEF PsgMixer
  <2> QED
    BY <1>1, <1>8, <2>1, <2>2 DEF SameNote
<1> QED
  BY <1>2, <1>3, <1>5, <1>6, <1>7, <1>9, <1>10, <1>11 DEF Guest

LEMMA PsgKeeps == PsgInv /\ [PsgNext]_psgVars => PsgInv'
<1> SUFFICES ASSUME PsgInv, [PsgNext]_psgVars PROVE PsgInv'
  OBVIOUS
<1>1. CASE Guest
  BY <1>1, StoreKeeps
<1>2. CASE Ticks
  BY <1>2, TickKeeps DEF Ticks
<1>3. CASE UNCHANGED psgVars
  BY <1>3 DEF psgVars, PsgInv
<1> QED
  BY <1>1, <1>2, <1>3 DEF PsgNext

(* The wave channel reads the wave RAM. *)
LEMMA ReadsWaveRam ==
  ASSUME NEW c, Steady(c), Untouched(c)
  PROVE  PlayedByte(c) < WAVE
<1> DEFINE h == WAVE \div 2
<1>1. WAVE \in Nat /\ WAVE >= 4 /\ h \in Nat /\ 2 * h <= WAVE
  BY PsgAssumption
<1> HIDE DEF h
<1>2. c.pos \in Nat /\ c.kind \in Kinds /\ c.dimension \in BOOLEAN
  BY DEF Steady, PsgChannel
<1>3. IF c.dimension THEN c.pos < 2 * WAVE ELSE c.pos < WAVE
  BY <1>1, <1>2 DEF Steady, Untouched, Samples
<1>4. PlayedSample(c) \in Nat /\ PlayedSample(c) < 2 * WAVE
  <2>1. PlayedSample(c) \in {c.pos, c.pos + h} /\ (c.dimension => PlayedSample(c) = c.pos)
    BY <1>2 DEF PlayedSample, h
  <2> QED
    BY <1>1, <1>2, <1>3, <2>1
<1> DEFINE p == PlayedSample(c)
<1>5. PlayedByte(c) = p \div 2
  BY DEF PlayedByte
<1> HIDE DEF p
<1> QED
  BY <1>1, <1>4, <1>5 DEF p

(* Whatever is stored and however time passes: a channel that sounds has a *)
(* length to count, its sweep comes to an end, its noise does not fall     *)
(* silent and it stays within wave RAM.                                    *)
THEOREM NotesEnd == PsgSpec => []Sounding
<1>1. PsgInv => Sounding
  <2> SUFFICES ASSUME PsgInv PROVE Sounding
    OBVIOUS
  <2>1. ch.frequency \in 0..(FREQUENCIES - 1) /\ (ch.enabled => ch.length > 0)
    BY DEF PsgInv, Steady, PsgChannel
  <2>2. ASSUME ch.enabled, alone
        PROVE  /\ ch.sweep_on /\ ch.sweep_period > 0 /\ ch.shift > 0 => ~Overflows(ch)
               /\ ch.lfsr # 0 /\ PlayedByte(ch) < WAVE
    BY <2>2, ReadsWaveRam DEF PsgInv, Untouched, SweepEnds, NoiseLives
  <2> QED
    BY <2>1, <2>2 DEF Sounding
<1> QED
  BY <1>1, PsgStarts, PsgKeeps, PTL DEF PsgSpec

(* However many cycles the APU is ticked with at a time, a batch on the    *)
(* fast path gives the channels, the sequencer and the samples that the    *)
(* cycles give one by one, for every rate and every batch.                 *)
THEOREM BatchesOfSound == PsgSpec => []BatchExact
<1>1. PsgInv => BatchExact
  <2> SUFFICES ASSUME PsgInv, NEW n \in Batches PROVE tick(Now, n) = Slow(Now, n)
    BY DEF BatchExact
  <2>1. Now \in Good /\ n \in Nat
    BY PsgAssumption DEF PsgInv, Now, Good, PsgState, Steady
  <2> QED
    BY <2>1, FastIsSlow
<1> QED
  BY <1>1, PsgStarts, PsgKeeps, PTL DEF PsgSpec

(* The composition of the stages is each of them: what is shown of one     *)
(* holds of sound as a whole.                                              *)
THEOREM StagesKeepTheirOwn == ApuSpec => Spec /\ FifoSpec /\ PsgSpec
<1>1. ApuInit => Init /\ FifoInit /\ PsgInit
  BY DEF ApuInit
<1>2. [ApuNext]_apuVars => [Next]_vars /\ [FifoNext]_fifoVars /\ [PsgNext]_psgVars
  BY DEF ApuNext, apuVars, Generate, Stream, Output
<1> QED
  BY <1>1, <1>2, PTL DEF ApuSpec, Spec, FifoSpec, PsgSpec
=============================================================================
