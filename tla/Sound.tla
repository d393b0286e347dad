------------------------------- MODULE Sound -------------------------------
(***************************************************************************)
(* The path of DMA sound: a timer overflows, the APU pops a sample from    *)
(* each FIFO the timer clocks, a FIFO that is half empty has the DMA       *)
(* channel aimed at it fetch more, and at every VBlank the emulator moves  *)
(* the source of a channel that was not started for a while back to its    *)
(* register ("re-anchor").  A sample is the address it was read from.      *)
(***************************************************************************)
EXTENDS TimerCore, FifoCore, DmaCore

CONSTANTS
  Port,        \* the address of each FIFO's port, e.g. [A |-> .., B |-> ..]
  FRAME,       \* cycles per frame (280896)
  WINDOW,      \* frames for which a started channel is left alone (8)
  MaxCost,     \* bound: the longest instruction, in cycles
  CHUNK_CAP,   \* 1024: the largest chunk of a sleep
  Sads,        \* bound: source addresses the guest writes
  Dads,        \* bound: destination addresses it writes, per channel
  DmaControls, \* bound: CNT_H values it writes
  TimerControls, \* bound: control values it writes to its timers
  Selects      \* bound: timer selections it writes to SOUNDCNT_H

FifoId == DOMAIN Port

ASSUME SoundAssumption ==
  /\ Channel \subseteq {1, 2} /\ Sample = Addr
  /\ FifoId \subseteq {"A", "B"} /\ \A f \in FifoId : Port[f] \in Addr
  /\ FRAME \in Nat \ {0} /\ WINDOW \in Nat /\ MaxCost \in Nat \ {0} /\ CHUNK_CAP \in Nat \ {0}
  /\ Sads \subseteq Addr /\ DmaControls \subseteq {v \in DmaControl : v.timing = "Special"}
  /\ \A ch \in Channel : Dads[ch] \subseteq Addr
  /\ TimerControls \subseteq Control /\ Selects \subseteq [FifoId -> FifoTimers]

VARIABLES
  timers,    \* Timers.timers
  fifos,     \* fifo_a and fifo_b of the APU
  select,    \* their timer_select fields
  channels,  \* DMA channels 1 and 2
  halted,    \* cpu.halted
  toVBlank,  \* cycles until VBlank starts
  age,       \* per channel: cycles since last_latch_cycle, up to MaxAge
  lost,      \* history: FIFOs that dropped a sample in the last step
  primed,    \* history: FIFOs whose DMA has answered a request since it began
  origin     \* history: where the channel was last started or re-anchored

vars == <<timers, fifos, select, channels, halted, toVBlank, age, lost, primed, origin>>

MaxAge == (WINDOW + 1) * FRAME + MaxCost

Init ==
  /\ \E p \in {d \in Dividers : \A q \in Dividers : d <= q} :
       timers = [i \in TimerId |-> TimerOff(p)]
  /\ fifos = [f \in FifoId |-> NewFifo] /\ select = [f \in FifoId |-> 0]
  /\ channels = [ch \in Channel |-> NewChannel]
  /\ halted = FALSE /\ toVBlank = FRAME
  /\ age = [ch \in Channel |-> MaxAge]
  /\ lost = {} /\ primed = {} /\ origin = [ch \in Channel |-> 0]
-----------------------------------------------------------------------------
(* What one step works on: the APU's FIFOs and their timers, the channels, *)
(* and what was lost.                                                      *)
Now == [fifos |-> fifos, select |-> select, channels |-> channels, lost |-> {}]

\* Mutant: any FIFO channel is run, whichever FIFO asked.
Selected_Any(c, port) == Live(c) /\ c.control.timing = "Special"
Selected(c, port) == Live(c) /\ c.control.timing = "Special" /\ c.dad = port

Store(st, f, samples) ==
  [st EXCEPT !.fifos[f] = PushAll(@, samples),
             !.lost = IF st.fifos[f].count + Len(samples) > FIFO_CAPACITY
                      THEN @ \cup {f} ELSE @]

(* Bus::run_dma on a FIFO channel: the data goes where the latched         *)
(* destination points.                                                     *)
FeedBy(st, ch) ==
  LET c == st.channels[ch]
      moved == [st EXCEPT !.channels[ch] = RunDma(ch, c)]
      hit == {f \in FifoId : Port[f] = c.internal_dad}
  IN  IF hit = {} THEN moved
      ELSE Store(moved, CHOOSE f \in hit : TRUE, FifoSources(c))

(* run_dma_for_fifo: channel 1 before channel 2. *)
\* Mutant: the search ends with channel 1.
RunDmaForFifo_First(st, port) ==
  IF 1 \in Channel /\ Selected(st.channels[1], port) THEN FeedBy(st, 1) ELSE st
RunDmaForFifo(st, port) ==
  LET one(s, ch) ==
        IF ch \in Channel /\ Selected(s.channels[ch], port) THEN FeedBy(s, ch) ELSE s
  IN  one(one(st, 1), 2)

(* on_timer_overflow and the refills it asks for, FIFO A before FIFO B.    *)
OnTimerOverflow(st, i) ==
  LET clocked == {f \in FifoId : st.select[f] = i}
      asking == {f \in clocked : NeedsRefill(st.fifos[f])}
      popped == [st EXCEPT !.fifos = [f \in FifoId |->
                   IF f \in clocked THEN PopSample(@[f]) ELSE @[f]]]
      refill(s, f) == IF f \in asking THEN RunDmaForFifo(s, Port[f]) ELSE s
  IN  refill(refill(popped, "A"), "B")

(* tick_timers. *)
AfterTick(st, r) ==
  LET overflow(s, i) == IF i \in Overflowed(r) THEN OnTimerOverflow(s, i) ELSE s
  IN  overflow(overflow(st, 0), 1)

Feeds(chs, f) ==
  \E ch \in Channel : Selected(chs[ch], Port[f]) /\ chs[ch].internal_dad = Port[f]

(* A FIFO is primed once a pop found its channel running. *)
Primed(before, st, r) ==
  {f \in FifoId : f \in before \/ (st.select[f] \in Overflowed(r) /\ Feeds(st.channels, f))}

Step(ts, st, cycles, wasPrimed) ==
  LET r == Tick(ts, cycles)
      done == AfterTick(st, r)
  IN  /\ timers' = TimersAfter(r)
      /\ fifos' = done.fifos /\ select' = done.select
      /\ channels' = done.channels /\ lost' = done.lost
      /\ toVBlank' = toVBlank - cycles
      /\ primed' = Primed(wasPrimed, st, r)

Older(a, cycles) == [ch \in Channel |-> IF a[ch] + cycles < MaxAge THEN a[ch] + cycles ELSE MaxAge]
-----------------------------------------------------------------------------
Runnable == ~halted /\ toVBlank > 0

Compute ==
  /\ Runnable
  /\ \E c \in 1..MaxCost : Step(timers, Now, c, primed) /\ age' = Older(age, c)
  /\ UNCHANGED <<halted, origin>>

WriteTimer(i, v) ==
  /\ Runnable
  /\ \E c \in 1..MaxCost :
       Step([timers EXCEPT ![i] = WithTimerControl(@, v)], Now, c, primed) /\ age' = Older(age, c)
  /\ UNCHANGED <<halted, origin>>

(* The guest reprograms a channel; its FIFO has to be primed again. *)
WriteChannel(ch, c, a) ==
  /\ Runnable
  /\ \E n \in 1..MaxCost :
       /\ Step(timers, [Now EXCEPT !.channels[ch] = c], n,
               {f \in primed : Feeds([channels EXCEPT ![ch] = c], f)})
       /\ age' = Older(a, n)
  /\ UNCHANGED halted

WriteSad(ch, v) ==
  WriteChannel(ch, [channels[ch] EXCEPT !.sad = v], age) /\ UNCHANGED origin
WriteDad(ch, v) ==
  WriteChannel(ch, [channels[ch] EXCEPT !.dad = v], age) /\ UNCHANGED origin

(* A channel that starts is young again. *)
WriteControl(ch, v) ==
  LET starts == Starts(channels[ch], v)
  IN  /\ WriteChannel(ch, WithControl(ch, channels[ch], v),
                      IF starts THEN [age EXCEPT ![ch] = 0] ELSE age)
      /\ origin' = IF starts THEN [origin EXCEPT ![ch] = channels[ch].sad % ADDR_MASK[ch]]
                    ELSE origin

(* SOUNDCNT_H selects the timers and may reset FIFOs. *)
WriteSoundCnt(sel, resets) ==
  /\ Runnable
  /\ \E c \in 1..MaxCost :
       /\ Step(timers,
               [Now EXCEPT !.select = sel,
                           !.fifos = [f \in FifoId |-> IF f \in resets THEN ResetFifo(@[f]) ELSE @[f]]],
               c, primed \ resets)
       /\ age' = Older(age, c)
  /\ UNCHANGED <<halted, origin>>

Halt ==
  /\ Runnable
  /\ \E c \in 1..MaxCost : Step(timers, Now, c, primed) /\ age' = Older(age, c)
  /\ halted' = TRUE
  /\ UNCHANGED origin

Least(a, b) == IF a <= b THEN a ELSE b
Greatest(a, b) == IF a >= b THEN a ELSE b

(* One turn of the loop that advances a sleeping machine to the next event.*)
HaltChunk ==
  /\ halted /\ toVBlank > 0
  /\ LET c == Least(Greatest(Least(toVBlank, CyclesToNextFifoOverflow(timers)), 1), CHUNK_CAP)
     IN  Step(timers, Now, c, primed) /\ age' = Older(age, c)
  /\ UNCHANGED <<halted, origin>>

\* Mutant: the age is not looked at the right way round.
Reanchored_Young(ch) ==
  /\ channels[ch].active /\ channels[ch].control.timing = "Special"
  /\ age[ch] < WINDOW * FRAME
Reanchored(ch) ==
  /\ channels[ch].active /\ channels[ch].control.timing = "Special"
  /\ age[ch] > WINDOW * FRAME

(* The VBlank part of handle_event for channels 1 and 2; the interrupt may *)
(* wake the CPU.                                                           *)
VBlank ==
  /\ toVBlank <= 0
  /\ toVBlank' = FRAME
  /\ channels' = [ch \in Channel |->
       IF Reanchored(ch)
       THEN [channels[ch] EXCEPT !.internal_sad = channels[ch].sad % ADDR_MASK[ch]]
       ELSE channels[ch]]
  /\ halted' \in {halted, FALSE}
  /\ lost' = {}
  /\ origin' = [ch \in Channel |-> IF Reanchored(ch) THEN channels'[ch].internal_sad ELSE origin[ch]]
  /\ UNCHANGED <<timers, fifos, select, age, primed>>

Next ==
  \/ Compute \/ Halt \/ HaltChunk \/ VBlank
  \/ \E i \in TimerId, v \in TimerControls : WriteTimer(i, v)
  \/ \E ch \in Channel :
       \/ \E v \in Sads : WriteSad(ch, v)
       \/ \E v \in Dads[ch] : WriteDad(ch, v)
       \/ \E v \in DmaControls : WriteControl(ch, v)
  \/ \E sel \in Selects, resets \in SUBSET FifoId : WriteSoundCnt(sel, resets)

Spec == Init /\ [][Next]_vars
-----------------------------------------------------------------------------
(* DMA never overfills a FIFO: only the channel aimed at the FIFO that     *)
(* asked is run ("an always-empty FIFO_B would fire DMA1 (FIFO_A) on every *)
(* overflow, over-pushing FIFO_A", lib.rs), and only once per request.     *)
NothingLost == lost = {}

(* A FIFO whose channel has once answered a request stays at least half    *)
(* full for as long as the channel is left on, so that no request comes    *)
(* too late to keep the sound going.                                       *)
StaysFilled == \A f \in primed : fifos[f].count >= HALF

(* The samples waiting in a FIFO are consecutive in memory, except where a *)
(* (re)start or a re-anchor went back to the start of a buffer.            *)
StreamInOrder ==
  \A f \in FifoId :
    LET s == Contents(fifos[f])
    IN  \A k \in 1..(fifos[f].count - 1) :
          \/ s[k + 1] = (s[k] + 1) % ADDR_SPACE
          \/ \E ch \in Channel, v \in Sads \cup {0} : s[k + 1] = v % ADDR_MASK[ch]

(* At most this many samples are popped between two VBlanks: the timers    *)
(* reload with 0, so that their period is at least WRAP cycles, but for    *)
(* what a slower prescaler has left to a faster one.                       *)
Slowest == CHOOSE p \in Dividers : \A q \in Dividers : q <= p
PerFrame == (FRAME + (MaxCost - 1) + (Slowest - 1)) \div WRAP + 1

Walked(ch) == (channels[ch].internal_sad - origin[ch]) % ADDR_SPACE

(* A channel that plays through the destination it was started with.       *)
Playing(ch) ==
  /\ channels[ch].active /\ channels[ch].control.timing = "Special"
  /\ channels[ch].internal_dad = channels[ch].dad

(* A channel that was started once and then left alone reads its buffer    *)
(* over and over: beyond its first WINDOW frames it never gets further     *)
(* than the samples of one frame and a FIFO that had to be filled (which   *)
(* the guest does not reset meanwhile).                                    *)
StaleStaysInBuffer ==
  \A ch \in Channel :
    age[ch] = MaxAge /\ Playing(ch) => Walked(ch) <= PerFrame + FIFO_CAPACITY
=============================================================================
