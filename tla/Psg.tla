-------------------------------- MODULE Psg --------------------------------
(***************************************************************************)
(* The sound generator (gba-core/src/apu/psg.rs) and the part of the APU   *)
(* that clocks, mixes and samples it (gba-core/src/apu/mod.rs).            *)
(*                                                                         *)
(* The channels share nothing but the frame sequencer, so that one         *)
(* behaviour plays one channel, or holds a FIFO sample beside a square     *)
(* channel.  Periods, volumes and rates are small numbers.                 *)
(***************************************************************************)
EXTENDS Integers, Sequences, FiniteSets

CONSTANTS
  FREQUENCIES, \* 2048: settings of the frequency register
  LENGTH,      \* frame clocks of a note: 64, and 256 on the wave channel
  VOLUME,      \* 15: the loudest
  SWEEP,       \* 8: sweep clocks when the period register is 0
  CYCLES_PER_FRAME_SEQ, \* 32768
  CPU_CLOCK_HZ, OUTPUT_SAMPLE_RATE,
  R_NUM, R_DEN, \* the pole of the DC filter: 8187 / 8192
  WAVE,        \* 32: samples of a bank of wave RAM
  LFSR_TOP, SHORT_TOP, \* 2^14 and 2^6: the highest bits of the noise register
  Batches,     \* bound: cycles the APU is ticked with at a time
  Levels,      \* bound: samples in the FIFO
  Sweeps, Envelopes, Tones, Waves, Noises, \* bound: what the guest stores
  MaxStores    \* bound

(* The register fields are as wide as these values (write_reg).            *)
ASSUME PsgAssumption ==
  /\ FREQUENCIES \in Nat \ {0} /\ LENGTH \in Nat \ {0} /\ SWEEP \in Nat \ {0}
  /\ VOLUME \in Nat /\ CYCLES_PER_FRAME_SEQ \in Nat \ {0}
  /\ CPU_CLOCK_HZ \in Nat \ {0} /\ OUTPUT_SAMPLE_RATE \in 1..CPU_CLOCK_HZ
  /\ R_NUM \in Nat /\ R_DEN \in Nat \ {0}
  /\ WAVE \in Nat \ {0} /\ WAVE % 4 = 0
  /\ SHORT_TOP \in Nat \ {0} /\ SHORT_TOP % 2 = 0 /\ LFSR_TOP \in Nat \ {0}
  /\ LFSR_TOP % (2 * SHORT_TOP) = 0
  /\ Batches \subseteq Nat \ {0} /\ Levels \subseteq Int
  /\ Sweeps \subseteq [period : Nat, negate : BOOLEAN, shift : Nat]
  /\ Envelopes \subseteq [init : 0..VOLUME, up : BOOLEAN, period : Nat]
  /\ Tones \subseteq [frequency : 0..(FREQUENCIES - 1), length_on : BOOLEAN, start : BOOLEAN]
  /\ Waves \subseteq [dimension : BOOLEAN, bank : {0, 1}, dac : BOOLEAN]
  /\ Noises \subseteq [frequency : 0..(FREQUENCIES - 1), width : BOOLEAN,
                      length_on : BOOLEAN, start : BOOLEAN]

VARIABLES
  ch,     \* the channel of this behaviour, with its registers
  mixer,  \* the sequencer, the master enable and the output
  stores, \* so far
  alone   \* history: are the registers as they were when the note began?

psgVars == <<ch, mixer, stores, alone>>

Kinds == {"square_sweep", "square", "wave", "noise"}
HasEnvelope == ch.kind # "wave"

AllOnes == 2 * LFSR_TOP - 1

NewChannel(kind) ==
  [kind |-> kind, enabled |-> FALSE, length |-> 0, length_on |-> FALSE,
   init |-> 0, up |-> FALSE, period |-> 0, volume |-> 0, env_timer |-> 0,
   sweep_period |-> 0, negate |-> FALSE, shift |-> 0, sweep_timer |-> 0,
   shadow |-> 0, sweep_on |-> FALSE,
   frequency |-> 0, timer |-> 0, pos |-> 0,
   dac |-> FALSE, bank |-> 0, dimension |-> FALSE, ram |-> {},
   width |-> FALSE, lfsr |-> AllOnes]

NewMixer ==
  [master |-> FALSE, level |-> 0, step |-> 0, counter |-> 0, sample_frac |-> 0,
   accum |-> 0, count |-> 0, hp_in |-> 0, hp_out |-> 0]
-----------------------------------------------------------------------------
(* A note begins.  The sweep tells first whether its first step would      *)
(* overflow.                                                               *)
Halved(x, times) ==
  LET half[n \in 0..times] == IF n = 0 THEN x ELSE half[n - 1] \div 2
  IN  half[times]
SweepFreq(c) ==
  LET delta == Halved(c.shadow, c.shift)
  IN  IF c.negate THEN c.shadow - delta ELSE c.shadow + delta
Overflows(c) == SweepFreq(c) >= FREQUENCIES
CheckSweep(c) == [c EXCEPT !.enabled = @ /\ ~Overflows(c)]
SweepReload(c) == IF c.sweep_period > 0 THEN c.sweep_period ELSE SWEEP

Loaded(c) == [c EXCEPT !.enabled = TRUE, !.length = IF @ = 0 THEN LENGTH ELSE @]
Envelope(c) ==
  [c EXCEPT !.volume = c.init, !.env_timer = c.period,
            !.enabled = @ /\ ~(c.init = 0 /\ ~c.up)]
Sweep(c) ==
  LET s == [c EXCEPT !.shadow = c.frequency, !.sweep_timer = SweepReload(c),
                     !.sweep_on = c.sweep_period > 0 \/ c.shift > 0]
  IN  IF c.shift > 0 THEN CheckSweep(s) ELSE s

trigger(c) ==
  LET n == [Loaded(c) EXCEPT !.timer = FREQUENCIES - c.frequency]
  IN  CASE c.kind = "wave" -> [n EXCEPT !.enabled = c.dac, !.pos = 0]
        [] c.kind = "noise" -> Envelope([n EXCEPT !.lfsr = AllOnes])
        [] c.kind = "square" -> Envelope(n)
        [] OTHER -> Envelope(Sweep(n))

clock_length(c) ==
  IF ~c.length_on \/ c.length = 0 THEN c
  ELSE [c EXCEPT !.length = @ - 1, !.enabled = @ /\ c.length > 1]

(* The second check is of the step after the one that was made.            *)
\* Mutant: the next step is not looked at.
StepSweep_NoSecond(c) ==
  LET f == SweepFreq(c)
  IN  IF Overflows(c) \/ c.shift = 0 THEN CheckSweep(c)
      ELSE [c EXCEPT !.shadow = f, !.frequency = f]
StepSweep(c) ==
  LET f == SweepFreq(c)
  IN  IF Overflows(c) \/ c.shift = 0 THEN CheckSweep(c)
      ELSE CheckSweep([c EXCEPT !.shadow = f, !.frequency = f])
clock_sweep(c) ==
  IF c.sweep_timer > 1 THEN [c EXCEPT !.sweep_timer = @ - 1]
  ELSE LET s == [c EXCEPT !.sweep_timer = SweepReload(c)]
       IN  IF c.sweep_on /\ c.sweep_period > 0 THEN StepSweep(s) ELSE s

clock_envelope(c) ==
  CASE c.period = 0 -> c
    [] c.period > 0 /\ c.env_timer > 1 -> [c EXCEPT !.env_timer = @ - 1]
    [] OTHER -> [c EXCEPT !.env_timer = c.period,
                          !.volume = CASE c.up /\ @ < VOLUME -> @ + 1
                                       [] ~c.up /\ @ > 0 -> @ - 1
                                       [] OTHER -> @]

(* One cycle of a channel that sounds.                                     *)
Samples(c) == IF c.dimension THEN 2 * WAVE ELSE WAVE
WithBit(n, bit, v) == (n - (((n \div bit) % 2) * bit)) + (v * bit)
Shifted(c) ==
  LET x == (c.lfsr + (c.lfsr \div 2)) % 2
      long == (c.lfsr \div 2) + (x * LFSR_TOP)
  IN  IF c.width THEN WithBit(long, SHORT_TOP, x) ELSE long
Runs(c) == c.enabled /\ (c.kind = "wave" => c.dac)
tick_channel(c) ==
  LET n == [c EXCEPT !.timer = FREQUENCIES - c.frequency]
  IN  IF ~Runs(c) THEN c
      ELSE IF c.timer > 1 THEN [c EXCEPT !.timer = @ - 1]
      ELSE CASE c.kind = "noise" -> [n EXCEPT !.lfsr = Shifted(c)]
             [] c.kind = "wave" -> [n EXCEPT !.pos = (@ + 1) % Samples(c)]
             [] OTHER -> [n EXCEPT !.pos = (@ + 1) % 2]

(* A duty cycle has one low half and one high half here; the wave channel  *)
(* is heard as a constant, see PlayedByte for what it reads.               *)
output(c) ==
  IF ~Runs(c) THEN 0
  ELSE CASE c.kind = "noise" -> IF c.lfsr % 2 = 0 THEN c.volume ELSE -c.volume
         [] c.kind = "wave" -> 1
         [] OTHER -> IF c.pos = 1 THEN c.volume ELSE -c.volume

(* The byte of wave RAM that is played.                                    *)
PlayedSample(c) == c.pos + IF ~c.dimension /\ c.bank = 0 THEN WAVE \div 2 ELSE 0
PlayedByte(c) == PlayedSample(c) \div 2
-----------------------------------------------------------------------------
(* The sequencer: lengths on the even steps but the sweep's, which come    *)
(* with it, envelopes on the last.                                         *)
clock_frame_sequencer(s) ==
  LET step == s.m.step
      lengths == IF step \in {0, 2, 4, 6} THEN clock_length(s.c) ELSE s.c
      swept == IF step \in {2, 6} /\ s.c.kind = "square_sweep" THEN clock_sweep(lengths) ELSE lengths
      done == IF step = 7 /\ s.c.kind # "wave" THEN clock_envelope(swept) ELSE swept
  IN  [s EXCEPT !.c = done, !.m.step = (@ + 1) % 8]

current_mix(s) == output(s.c) + s.m.level

(* Rust divides towards zero.                                              *)
Quot(a, b) == IF a >= 0 THEN a \div b ELSE -((-a) \div b)
dc_block(m, x) == [m EXCEPT !.hp_in = x, !.hp_out = x - m.hp_in + Quot(@ * R_NUM, R_DEN)]
emit_sample(m) ==
  [dc_block(m, Quot(m.accum, m.count)) EXCEPT !.accum = 0, !.count = 0]

(* The slow path of tick: one cycle.                                       *)
Sequence(s) ==
  IF s.m.counter + 1 < CYCLES_PER_FRAME_SEQ THEN [s EXCEPT !.m.counter = @ + 1]
  ELSE clock_frame_sequencer([s EXCEPT !.m.counter = 0])
Accumulate(s, cycles, mix) ==
  LET m == [s.m EXCEPT !.accum = @ + mix * cycles, !.count = @ + cycles,
                       !.sample_frac = @ + OUTPUT_SAMPLE_RATE * cycles]
  IN  [s EXCEPT !.m = IF m.sample_frac < CPU_CLOCK_HZ THEN m
                      ELSE emit_sample([m EXCEPT !.sample_frac = @ - CPU_CLOCK_HZ])]
Heard(s) == IF s.m.master THEN current_mix(s) ELSE 0
OneCycle(s) ==
  LET t == Sequence([s EXCEPT !.c = tick_channel(@)])
  IN  Accumulate(t, 1, Heard(t))

Slow(s, cycles) ==
  LET after[n \in 0..cycles] == IF n = 0 THEN s ELSE OneCycle(after[n - 1])
  IN  after[cycles]

(* The fast path, when no channel sounds: from sample to sample, and the   *)
(* sequencer in the end.                                                   *)
Part(left, next) == IF left <= next THEN left ELSE next
ToNextEmit(m) == (CPU_CLOCK_HZ - m.sample_frac + OUTPUT_SAMPLE_RATE - 1) \div OUTPUT_SAMPLE_RATE
\* Mutant: a batch clocks the sequencer once at most.
SequenceBatch_Once(s, cycles) ==
  IF s.m.counter + cycles < CYCLES_PER_FRAME_SEQ THEN [s EXCEPT !.m.counter = @ + cycles]
  ELSE clock_frame_sequencer([s EXCEPT !.m.counter = @ + cycles - CYCLES_PER_FRAME_SEQ])
SequenceBatch(s, cycles) ==
  LET total == s.m.counter + cycles
      clocked[n \in 0..(total \div CYCLES_PER_FRAME_SEQ)] ==
        IF n = 0 THEN s ELSE clock_frame_sequencer(clocked[n - 1])
  IN  [clocked[total \div CYCLES_PER_FRAME_SEQ] EXCEPT !.m.counter = total % CYCLES_PER_FRAME_SEQ]
tick_fast(s, cycles) ==
  LET mix == Heard(s)
      \* what is left, and the state: at most one chunk per cycle
      run[n \in 0..cycles] ==
        IF n = 0 THEN [left |-> cycles, s |-> s]
        ELSE LET r == run[n - 1]
                 chunk == Part(r.left, ToNextEmit(r.s.m))
             IN  IF r.left = 0 THEN r
                 ELSE [left |-> r.left - chunk, s |-> Accumulate(r.s, chunk, mix)]
  IN  SequenceBatch(run[cycles].s, cycles)

tick(s, cycles) == IF s.c.enabled THEN Slow(s, cycles) ELSE tick_fast(s, cycles)
-----------------------------------------------------------------------------
PsgInit ==
  /\ \E k \in Kinds : ch = NewChannel(k)
  /\ mixer = NewMixer
  /\ stores = 0 /\ alone = FALSE

Now == [c |-> ch, m |-> mixer]

Tick(cycles) ==
  /\ LET s == tick(Now, cycles) IN ch' = s.c /\ mixer' = s.m
  /\ UNCHANGED <<stores, alone>>

(* write_reg, by the register that is stored to.                           *)
Stores(c) ==
  /\ stores < MaxStores /\ stores' = stores + 1
  /\ ch' = c

StoreSweep(v) ==
  /\ ch.kind = "square_sweep"
  /\ Stores([ch EXCEPT !.sweep_period = v.period, !.negate = v.negate, !.shift = v.shift])
  /\ alone' = FALSE /\ UNCHANGED mixer

StoreEnvelope(v) ==
  /\ HasEnvelope
  /\ Stores([ch EXCEPT !.init = v.init, !.up = v.up, !.period = v.period])
  /\ alone' = FALSE /\ UNCHANGED mixer

(* The last register of a channel: its pitch, and whether a note begins.   *)
Begun(c, v) == IF v.start THEN trigger(c) ELSE c
StoreTone(v) ==
  /\ ch.kind # "noise"
  /\ Stores(Begun([ch EXCEPT !.frequency = v.frequency, !.length_on = v.length_on], v))
  /\ alone' = v.start /\ UNCHANGED mixer

\* The frequency of noise stands for its divisor and shift.
StoreNoise(v) ==
  /\ ch.kind = "noise"
  /\ Stores(Begun([ch EXCEPT !.frequency = v.frequency, !.width = v.width,
                             !.length_on = v.length_on], v))
  /\ alone' = v.start /\ UNCHANGED mixer

StoreWaveSelect(v) ==
  /\ ch.kind = "wave"
  /\ Stores([ch EXCEPT !.dimension = v.dimension, !.bank = v.bank, !.dac = v.dac])
  /\ alone' = FALSE /\ UNCHANGED mixer

(* The guest stores all the halfwords of wave RAM.                         *)
HALFWORDS == WAVE \div 4
StoreWaveRam ==
  /\ ch.kind = "wave"
  /\ Stores([ch EXCEPT !.ram = @ \cup UNION {{4 * i, 4 * i + 1} : i \in 0..(HALFWORDS - 1)}])
  /\ UNCHANGED <<mixer, alone>>

StoreMaster(on) ==
  /\ ch.kind = "square" /\ on # mixer.master
  /\ Stores(IF on THEN ch ELSE [ch EXCEPT !.enabled = FALSE])
  /\ mixer' = [mixer EXCEPT !.master = on]
  /\ alone' = alone

(* The sample that a timer pops into the mix.                              *)
PopLevel(v) ==
  /\ ch.kind = "square" /\ mixer.level # v
  /\ Stores(ch)
  /\ mixer' = [mixer EXCEPT !.level = v]
  /\ UNCHANGED alone

Guest ==
  \/ \E v \in Sweeps : StoreSweep(v)
  \/ \E v \in Envelopes : StoreEnvelope(v)
  \/ \E v \in Tones : StoreTone(v)
  \/ \E v \in Noises : StoreNoise(v)
  \/ \E v \in Waves : StoreWaveSelect(v)
  \/ StoreWaveRam
  \/ \E on \in BOOLEAN : StoreMaster(on)
  \/ \E v \in Levels : PopLevel(v)

Ticks == \E n \in Batches : Tick(n)

PsgNext == Guest \/ Ticks

PsgSpec == PsgInit /\ [][PsgNext]_psgVars
-----------------------------------------------------------------------------
(* The periods are never zero, and a channel that sounds goes on sounding  *)
(* and has an end: it has a length to count; its next sweep step is a      *)
(* frequency, too; its noise is not stuck in silence; and it reads the     *)
(* wave RAM (the last three while the guest leaves its registers alone).   *)
Sounding ==
  /\ ch.frequency \in 0..(FREQUENCIES - 1)
  /\ ch.enabled =>
       /\ ch.length > 0
       /\ alone =>
            /\ ch.sweep_on /\ ch.sweep_period > 0 /\ ch.shift > 0 => ~Overflows(ch)
            /\ ch.lfsr # 0
            /\ PlayedByte(ch) < WAVE

(* However the cycles are cut into batches, and whichever path a batch     *)
(* takes, channels, sequencer and output are as if each cycle was ticked   *)
(* on its own.                                                             *)
BatchExact == \A n \in Batches : tick(Now, n) = Slow(Now, n)

(* Wave RAM holds "two banks of 16 bytes", of which the guest stores all   *)
(* that it can: what is played has been stored (psg.rs, apu/mod.rs).  The  *)
(* code does not keep this, see README.md, section 4.                      *)
PlaysWhatWasStored == ch.ram # {} /\ Runs(ch) => PlayedByte(ch) \in ch.ram
=============================================================================
